----------------------------- MODULE LookupProofs -----------------------------
(***************************************************************************)
(* Proofs about the calls that look something up in several requests while *)
(* it changes: the reads of a wiki page (WikiRead), the search for a       *)
(* ticket whose creation timed out (TicketCreate), and the checks of links *)
(* (LinkCalls).  Each for any number of calls and of changes.  The three   *)
(* are never composed: a theorem is about the specification it names.      *)
(***************************************************************************)
EXTENDS WikiRead, TicketCreate, LinkCalls, FiniteSetTheorems, TLAPS

(***************************************************************************)
(* The reads of a page.                                                    *)
(***************************************************************************)


\* A page that exists has a latest text; one that does not has none.
LEMMA PageFacts ==
    ASSUME NEW pg \in Seq(Nat \ {0})
    PROVE  /\ Len(pg) \in Nat
           /\ pg = <<>> <=> Len(pg) = 0
           /\ \A i \in 1 .. Len(pg) : pg[i] \in Nat \ {0}
           /\ Current(pg) \in Nat
           /\ Len(pg) # 0 => Current(pg) = pg[Len(pg)]
<1>1. /\ Len(pg) \in Nat
      /\ pg = <<>> <=> Len(pg) = 0
      /\ \A i \in 1 .. Len(pg) : pg[i] \in Nat \ {0}
  OBVIOUS
<1>2. CASE Len(pg) = 0
  BY <1>1, <1>2 DEF Current, None
<1>3. CASE Len(pg) # 0
  <2>1. Len(pg) \in 1 .. Len(pg) /\ pg # <<>>
    BY <1>1, <1>3
  <2> QED BY <1>1, <2>1 DEF Current
<1> QED BY <1>1, <1>2, <1>3

\* What an answer to a request for version v holds.
LEMMA AnswerFacts ==
    ASSUME ReadTypeOK, NEW v \in Nat, IsThere(v)
    PROVE  /\ Asked(v) \in 1 .. Len(page)
           /\ Asked(v) \in Nat \ {0}
           /\ page[Asked(v)] \in Nat
           /\ v # Latest => Asked(v) = v
           /\ v = Latest => /\ Asked(v) = Len(page)
                            /\ page[Asked(v)] = Current(page)
<1>1. Asked(v) \in 1 .. Len(page) /\ Len(page) \in Nat
  BY PageFacts DEF IsThere, ReadTypeOK
<1>2. v = Latest => Asked(v) = Len(page)
  BY DEF Asked
<1> QED BY <1>1, <1>2, PageFacts DEF Asked, ReadTypeOK

\* The variables keep their types.
THEOREM ReadTypeCorrect == ReadSpec => []ReadTypeOK
<1>1. ReadInit => ReadTypeOK
  <2> SUFFICES ASSUME ReadInit PROVE ReadTypeOK
    OBVIOUS
  <2>1. page \in Seq(Nat \ {0})
    BY DEF ReadInit
  <2> QED BY <2>1 DEF ReadInit, ReadTypeOK, Latest, None
<1>2. ReadTypeOK /\ [ReadNext]_readVars => ReadTypeOK'
  <2> SUFFICES ASSUME ReadTypeOK, [ReadNext]_readVars PROVE ReadTypeOK'
    OBVIOUS
  <2> USE DEF ReadTypeOK, pageVars, answerVars, seenVars
  <2>0. Len(page) \in Nat /\ Current(page) \in Nat
    BY PageFacts
  <2>1. ASSUME NEW pg \in Seq(Nat \ {0}), Becomes(pg)
        PROVE  /\ page' \in Seq(Nat \ {0})
               /\ texts' \in [Readers -> SUBSET Nat]
               /\ versions' \in [Readers -> SUBSET Nat]
    BY <2>1, PageFacts DEF Becomes
  <2>2. ASSUME Store
        PROVE  /\ page' \in Seq(Nat \ {0})
               /\ texts' \in [Readers -> SUBSET Nat]
               /\ versions' \in [Readers -> SUBSET Nat]
               /\ saves' \in Nat
               /\ pairs' \subseteq Nat \X Nat
    <3>1. Append(page, saves + 1) \in Seq(Nat \ {0})
      OBVIOUS
    <3>2. Becomes(Append(page, saves + 1))
      BY <2>2 DEF Store
    <3>3. /\ page' \in Seq(Nat \ {0})
          /\ texts' \in [Readers -> SUBSET Nat]
          /\ versions' \in [Readers -> SUBSET Nat]
      BY <2>1, <3>1, <3>2, Zenon
    <3> QED BY <2>0, <2>2, <3>3 DEF Store
  <2>3. CASE OtherSave
    BY <2>2, <2>3 DEF OtherSave
  <2>4. CASE OtherDelete
    <3>1. <<>> \in Seq(Nat \ {0})
      OBVIOUS
    <3>2. Becomes(<<>>)
      BY <2>4 DEF OtherDelete
    <3>3. /\ page' \in Seq(Nat \ {0})
          /\ texts' \in [Readers -> SUBSET Nat]
          /\ versions' \in [Readers -> SUBSET Nat]
      BY <2>1, <3>1, <3>2, Zenon
    <3> QED BY <2>4, <3>3 DEF OtherDelete
  <2>5. ASSUME NEW r \in Readers, Start(r) PROVE ReadTypeOK'
    <3>1. PICK k \in Kinds, v \in 0 .. MaxVersion :
            /\ kind' = [kind EXCEPT ![r] = k]
            /\ pin' = [pin EXCEPT ![r] = v]
      BY <2>5 DEF Start
    <3>2. v \in Nat
      OBVIOUS
    <3>3. kind' \in [Readers -> Kinds \cup {"none"}] /\ pin' \in [Readers -> Nat]
      BY <3>1, <3>2
    <3> QED BY <2>0, <2>5, <3>3 DEF Start
  <2>12. ASSUME NEW r \in Readers, NEW half, Answered(r, half)
         PROVE  /\ pending' \in [Readers -> SUBSET {"text", "info"}]
                /\ progress' \in [Readers -> {"idle", "reading", "read", "failed",
                                       "written", "conflict"}]
    BY <2>12 DEF Answered
  <2>6. ASSUME NEW r \in Readers, ReadText(r) PROVE ReadTypeOK'
    <3>1. TextVersion(r) \in Nat
      BY DEF TextVersion
    <3>2. page[Asked(TextVersion(r))] \in Nat
      BY <2>6, <3>1, AnswerFacts DEF ReadText
    <3> QED BY <2>6, <2>12, <3>2 DEF ReadText
  <2>7. ASSUME NEW r \in Readers, ReadInfo(r) PROVE ReadTypeOK'
    <3>1. Asked(pin[r]) \in Nat
      BY <2>7, AnswerFacts DEF ReadInfo
    <3> QED BY <2>7, <2>12, <3>1 DEF ReadInfo
  <2>8. ASSUME NEW r \in Readers, ReadNoInfo(r) PROVE ReadTypeOK'
    BY <2>8 DEF ReadNoInfo, Answered, AssumedVersion
  <2>9. ASSUME NEW r \in Readers, ReadFails(r) PROVE ReadTypeOK'
    BY <2>9 DEF ReadFails
  <2>10. ASSUME NEW r \in Readers, Update(r) PROVE ReadTypeOK'
    <3>1. CASE version[r] = Len(page)
      <4>1. over' \in [Readers -> Nat]
        BY <2>0, <2>10, <3>1 DEF Update
      <4> QED BY <2>2, <2>10, <3>1, <4>1 DEF Update
    <3>2. CASE version[r] # Len(page)
      BY <2>10, <3>2 DEF Update
    <3> QED BY <3>1, <3>2
  <2>11. CASE UNCHANGED readVars
    BY <2>11 DEF readVars
  <2> QED BY <2>3, <2>4, <2>5, <2>6, <2>7, <2>8, <2>9, <2>10, <2>11 DEF ReadNext
<1> QED BY <1>1, <1>2, PTL DEF ReadSpec

(***************************************************************************)
(* The inductive invariant.  Every version and text the page has is among  *)
(* the pairs, and while nobody deletes it there are no others; a read      *)
(* knows the page as it is; and a reader's answers are what its kind of    *)
(* read makes of them.                                                     *)
(***************************************************************************)
PairsKnowPage ==
    /\ \A i \in 1 .. Len(page) : <<i, page[i]>> \in pairs
    /\ deletes = 0 => \A p \in pairs : /\ p[1] \in 1 .. Len(page)
                                       /\ p[2] = page[p[1]]

Begun(r) == progress[r] \in {"reading", "read", "written", "conflict"}
Has(r, half) == Begun(r) /\ half \notin pending[r]
IsPinnedGet(r) == kind[r] = "get" /\ pin[r] # Latest

ReaderKnows(r) ==
    /\ progress[r] = "reading" =>
        /\ Current(page) \in texts[r]
        /\ Len(page) \in versions[r]
    /\ Complete(r) => pending[r] = {}
    /\ kind[r] = "conventions" /\ Begun(r) => pin[r] = Latest
    /\ kind[r] = "conventions" /\ Has(r, "info") => version[r] # Latest
    /\ kind[r] = "conventions" /\ Has(r, "text") =>
            Has(r, "info") /\ <<version[r], text[r]>> \in pairs
    /\ IsPinnedGet(r) /\ Has(r, "info") => version[r] = pin[r]
    /\ IsPinnedGet(r) /\ Has(r, "text") => <<pin[r], text[r]>> \in pairs
    /\ Has(r, "text") /\ pin[r] = Latest /\ kind[r] # "conventions"
            => text[r] \in texts[r]
    /\ Has(r, "info") /\ pin[r] = Latest =>
            \/ version[r] \in versions[r]
            \/ kind[r] = "pull" /\ 0 \in versions[r] /\ version[r] = 1
    /\ progress[r] = "written" /\ kind[r] = "conventions" /\ deletes = 0
            => over[r] = text[r]

Known == PairsKnowPage /\ \A r \in Readers : ReaderKnows(r)

\* A step on the page keeps what is known of a reader it does not move.
LEMMA OtherReaders ==
    ASSUME ReadTypeOK, NEW r \in Readers, ReaderKnows(r), pairs \subseteq pairs',
           deletes = 0 \/ deletes' # 0,
           texts[r] \subseteq texts'[r], versions[r] \subseteq versions'[r],
           progress[r] = "reading" => /\ Current(page)' \in texts'[r]
                                /\ Len(page)' \in versions'[r],
           kind'[r] = kind[r], pin'[r] = pin[r], progress'[r] = progress[r],
           pending'[r] = pending[r], text'[r] = text[r],
           version'[r] = version[r], over'[r] = over[r]
    PROVE  ReaderKnows(r)'
BY DEF ReaderKnows, Begun, Has, IsPinnedGet, Complete

\* A save appends a version and text that are new together.
LEMMA StoreKeepsPairs ==
    ASSUME ReadTypeOK, PairsKnowPage, Store, UNCHANGED deletes
    PROVE  /\ PairsKnowPage'
           /\ pairs \subseteq pairs'
           /\ \A r \in Readers :
                /\ texts[r] \subseteq texts'[r]
                /\ versions[r] \subseteq versions'[r]
                /\ progress[r] = "reading" => /\ Current(page)' \in texts'[r]
                                        /\ Len(page)' \in versions'[r]
<1> DEFINE pg == Append(page, saves + 1)
<1>1. /\ page' = pg /\ Len(pg) = Len(page) + 1 /\ Len(page) \in Nat
      /\ pg[Len(page) + 1] = saves + 1
      /\ \A i \in 1 .. Len(page) : pg[i] = page[i]
  BY DEF Store, Becomes, ReadTypeOK
<1>2. pairs' = pairs \cup {<<Len(page) + 1, saves + 1>>}
  BY DEF Store
<1> HIDE DEF pg
<1>3. \A i \in 1 .. Len(pg) : <<i, pg[i]>> \in pairs'
  BY <1>1, <1>2 DEF PairsKnowPage
<1>4. ASSUME deletes = 0, NEW p \in pairs'
      PROVE  p[1] \in 1 .. Len(pg) /\ p[2] = pg[p[1]]
  <2>1. CASE p \in pairs
    <3>1. p[1] \in 1 .. Len(page) /\ p[2] = page[p[1]]
      BY <1>4, <2>1 DEF PairsKnowPage
    <3> QED BY <1>1, <3>1
  <2>2. CASE p = <<Len(page) + 1, saves + 1>>
    BY <1>1, <2>2
  <2> QED BY <1>2, <2>1, <2>2
<1>5. PairsKnowPage'
  BY <1>1, <1>3, <1>4 DEF PairsKnowPage
<1>6. ASSUME NEW r \in Readers
      PROVE  /\ texts[r] \subseteq texts'[r]
             /\ versions[r] \subseteq versions'[r]
             /\ progress[r] = "reading" => /\ Current(page)' \in texts'[r]
                                     /\ Len(page)' \in versions'[r]
  BY <1>1 DEF Store, Becomes, ReadTypeOK, Current, pg
<1> QED BY <1>2, <1>5, <1>6

\* The page's own steps keep what is known.
LEMMA PageStepsKeep ==
    ASSUME ReadTypeOK, Known, OtherSave \/ OtherDelete
    PROVE  Known'
<1>1. CASE OtherSave
  <2>1. Store /\ UNCHANGED <<deletes, kind, pin, progress, pending, answerVars, over>>
    BY <1>1 DEF OtherSave
  <2>2. ASSUME NEW r \in Readers PROVE ReaderKnows(r)'
    BY <2>1, StoreKeepsPairs, OtherReaders DEF Known, answerVars
  <2> QED BY <2>1, <2>2, StoreKeepsPairs DEF Known
<1>2. CASE OtherDelete
  <2>1. /\ page' = <<>> /\ deletes' = deletes + 1
        /\ UNCHANGED <<pairs, kind, pin, progress, pending, answerVars, over>>
        /\ Becomes(<<>>)
    BY <1>2 DEF OtherDelete, Becomes
  <2>2. PairsKnowPage'
    BY <2>1 DEF PairsKnowPage, ReadTypeOK
  <2>3. ASSUME NEW r \in Readers PROVE ReaderKnows(r)'
    <3>1. /\ texts[r] \subseteq texts'[r]
          /\ versions[r] \subseteq versions'[r]
          /\ progress[r] = "reading" => /\ Current(page)' \in texts'[r]
                                  /\ Len(page)' \in versions'[r]
      BY <2>1 DEF Becomes, ReadTypeOK, Current
    <3>2. deletes' # 0
      BY <2>1 DEF ReadTypeOK
    <3> QED BY <2>1, <3>1, <3>2, OtherReaders DEF Known, answerVars
  <2> QED BY <2>2, <2>3 DEF Known
<1> QED BY <1>1, <1>2

\* A read's steps leave the page and the other readers alone.
LEMMA OneReader ==
    ASSUME ReadTypeOK, Known, NEW r \in Readers, ReaderKnows(r)',
           UNCHANGED pageVars,
           \A q \in Readers \ {r} :
                /\ kind'[q] = kind[q] /\ pin'[q] = pin[q] /\ progress'[q] = progress[q]
                /\ pending'[q] = pending[q] /\ text'[q] = text[q]
                /\ version'[q] = version[q] /\ over'[q] = over[q]
                /\ texts'[q] = texts[q] /\ versions'[q] = versions[q]
    PROVE  Known'
<1>1. PairsKnowPage'
  BY DEF Known, PairsKnowPage, pageVars
<1>2. ASSUME NEW q \in Readers, q # r PROVE ReaderKnows(q)'
  <2>1. progress[q] = "reading" => /\ Current(page)' \in texts'[q]
                            /\ Len(page)' \in versions'[q]
    BY <1>2 DEF Known, ReaderKnows, pageVars
  <2> QED BY <1>2, <2>1, OtherReaders DEF Known, pageVars, ReadTypeOK
<1> QED BY <1>1, <1>2 DEF Known

\* What the two requests of a read answer is what ReaderKnows says.
LEMMA AnswersKeep ==
    ASSUME ReadTypeOK, Known, NEW r \in Readers,
           ReadText(r) \/ ReadInfo(r) \/ ReadNoInfo(r)
    PROVE  ReaderKnows(r)'
<1> USE DEF Begun, Has, IsPinnedGet, Complete
<1>1. ReaderKnows(r) /\ PairsKnowPage /\ progress[r] = "reading" /\ pin[r] \in Nat
      /\ version[r] \in Nat
  BY DEF Known, ReadText, ReadInfo, ReadNoInfo, ReadTypeOK
<1>2. UNCHANGED <<pageVars, kind, pin, over, seenVars>>
  BY DEF ReadText, ReadInfo, ReadNoInfo
<1>3. ASSUME NEW half, Answered(r, half)
      PROVE  /\ half \in pending[r]
             /\ pending'[r] = pending[r] \ {half}
             /\ progress'[r] \in {"reading", "read"}
             /\ progress'[r] = "read" => pending'[r] = {}
  BY <1>1, <1>3 DEF Answered, ReadTypeOK
<1>4. CASE ReadText(r)
  <2>1. Answered(r, "text") /\ UNCHANGED version /\ InfoIsIn(r)
        /\ IsThere(TextVersion(r))
    BY <1>4 DEF ReadText
  <2> DEFINE v == TextVersion(r)
  <2>2. text'[r] = page[Asked(v)] /\ v \in Nat
    BY <1>4 DEF ReadText, ReadTypeOK, TextVersion
  <2>3. /\ Asked(v) \in 1 .. Len(page)
        /\ v # Latest => Asked(v) = v
        /\ v = Latest => page[Asked(v)] = Current(page)
    BY <2>1, <2>2, AnswerFacts
  <2>4. v # Latest => <<v, text'[r]>> \in pairs
    BY <1>1, <2>2, <2>3 DEF PairsKnowPage
  <2>5. v = Latest => text'[r] \in texts[r]
    BY <1>1, <2>2, <2>3 DEF ReaderKnows
  <2>6. kind[r] = "conventions" => /\ "info" \notin pending[r]
                                  /\ v = version[r] /\ version[r] # Latest
    BY <1>1, <2>1 DEF InfoIsIn, TextVersion, ReaderKnows
  <2>7. kind[r] # "conventions" => v = pin[r]
    BY DEF TextVersion
  <2>8. /\ pending'[r] = pending[r] \ {"text"}
        /\ progress'[r] \in {"reading", "read"}
        /\ progress'[r] = "read" => pending'[r] = {}
    BY <1>3, <2>1
  <2>9. UNCHANGED <<page, pairs, deletes, kind, pin, over, texts, versions,
                    version>>
    BY <1>2, <2>1 DEF pageVars, seenVars
  <2> HIDE DEF v
  <2> QED BY <1>1, <2>4, <2>5, <2>6, <2>7, <2>8, <2>9 DEF ReaderKnows
<1>5. CASE ReadInfo(r)
  <2>1. Answered(r, "info") /\ UNCHANGED text /\ IsThere(pin[r])
    BY <1>5 DEF ReadInfo
  <2>2. version'[r] = Asked(pin[r])
    BY <1>5 DEF ReadInfo, ReadTypeOK
  <2>3. /\ Asked(pin[r]) \in Nat \ {0}
        /\ pin[r] # Latest => Asked(pin[r]) = pin[r]
        /\ pin[r] = Latest => Asked(pin[r]) = Len(page)
    BY <1>1, <2>1, AnswerFacts
  <2>4. /\ version'[r] # Latest
        /\ pin[r] # Latest => version'[r] = pin[r]
        /\ pin[r] = Latest => version'[r] \in versions[r]
    BY <1>1, <2>2, <2>3 DEF ReaderKnows, Latest
  <2>5. "info" \in pending[r]
    BY <1>3, <2>1
  <2>6. /\ pending'[r] = pending[r] \ {"info"}
        /\ progress'[r] \in {"reading", "read"}
        /\ progress'[r] = "read" => pending'[r] = {}
    BY <1>3, <2>1
  <2>7. UNCHANGED <<page, pairs, deletes, kind, pin, over, texts, versions,
                    text>>
    BY <1>2, <2>1 DEF pageVars, seenVars
  <2> QED BY <1>1, <2>4, <2>5, <2>6, <2>7 DEF ReaderKnows
<1>6. CASE ReadNoInfo(r)
  <2>1. Answered(r, "info") /\ UNCHANGED text /\ ~IsThere(pin[r])
        /\ kind[r] = "pull"
    BY <1>6 DEF ReadNoInfo
  <2>2. version'[r] = 1
    BY <1>6 DEF ReadNoInfo, ReadTypeOK, AssumedVersion
  <2>3. pin[r] = Latest => Len(page) = 0
    BY <2>1, PageFacts DEF IsThere, Asked, ReadTypeOK
  <2>4. pin[r] = Latest => 0 \in versions[r]
    BY <1>1, <2>3 DEF ReaderKnows
  <2>6. /\ pending'[r] = pending[r] \ {"info"}
        /\ progress'[r] \in {"reading", "read"}
        /\ progress'[r] = "read" => pending'[r] = {}
    BY <1>3, <2>1
  <2>7. UNCHANGED <<page, pairs, deletes, kind, pin, over, texts, versions,
                    text>>
    BY <1>2, <2>1 DEF pageVars, seenVars
  <2> QED BY <1>1, <2>1, <2>2, <2>4, <2>6, <2>7 DEF ReaderKnows
<1> QED BY <1>4, <1>5, <1>6

\* A read begins with the page as it is.
LEMMA StartKeeps ==
    ASSUME ReadTypeOK, Known, NEW r \in Readers, Start(r)
    PROVE  ReaderKnows(r)'
<1>1. /\ progress'[r] = "reading" /\ pending'[r] = {"text", "info"}
      /\ texts'[r] = {Current(page)} /\ versions'[r] = {Len(page)}
      /\ UNCHANGED pageVars
      /\ kind'[r] = "conventions" => pin'[r] = Latest
  BY DEF Start, ReadTypeOK
<1> QED BY <1>1 DEF ReaderKnows, Begun, Has, IsPinnedGet, Complete, pageVars

\* The write replaces the latest text, which on a page nobody deletes is
\* the one its version names.
LEMMA UpdateKeeps ==
    ASSUME ReadTypeOK, Known, NEW r \in Readers, Update(r)
    PROVE  Known'
<1> USE DEF Begun, Has, IsPinnedGet, Complete
<1>1. /\ UNCHANGED <<deletes, kind, pin, pending, text, version>>
      /\ progress[r] = "read" /\ ReaderKnows(r)
  BY DEF Update, answerVars, Known
<1>2. CASE version[r] = Len(page)
  <2>1. /\ Store
        /\ over' = [over EXCEPT ![r] = Current(page)]
        /\ progress' = [progress EXCEPT ![r] = "written"]
    BY <1>2 DEF Update
  <2>2. PairsKnowPage' /\ pairs \subseteq pairs'
    BY <1>1, <2>1, StoreKeepsPairs DEF Known
  <2>3. ASSUME NEW q \in Readers, q # r PROVE ReaderKnows(q)'
    BY <1>1, <2>1, <2>3, StoreKeepsPairs, OtherReaders DEF Known, ReadTypeOK
  <2>4. ReaderKnows(r)'
    <3>1. kind[r] = "conventions" /\ deletes = 0 => Current(page) = text[r]
      <4> SUFFICES ASSUME kind[r] = "conventions", deletes = 0
                   PROVE  Current(page) = text[r]
        OBVIOUS
      <4>1. <<version[r], text[r]>> \in pairs /\ version[r] # Latest
        BY <1>1 DEF ReaderKnows
      <4>2. text[r] = page[Len(page)]
        BY <1>2, <4>1 DEF Known, PairsKnowPage
      <4> QED BY <1>2, <4>1, <4>2, PageFacts DEF ReadTypeOK, Latest
    <3>2. progress'[r] = "written" /\ over'[r] = Current(page)
      BY <2>1 DEF ReadTypeOK
    <3>3. texts[r] \subseteq texts'[r] /\ versions[r] \subseteq versions'[r]
      BY <1>1, <2>1, StoreKeepsPairs DEF Known
    <3> QED BY <1>1, <2>2, <3>1, <3>2, <3>3 DEF ReaderKnows
  <2> QED BY <2>2, <2>3, <2>4 DEF Known
<1>3. CASE version[r] # Len(page)
  <2>1. /\ progress' = [progress EXCEPT ![r] = "conflict"]
        /\ UNCHANGED <<pageVars, over, seenVars>>
    BY <1>3 DEF Update, pageVars
  <2>2. ReaderKnows(r)'
    BY <1>1, <2>1 DEF ReaderKnows, pageVars, seenVars, ReadTypeOK
  <2> QED BY <1>1, <2>1, <2>2, OneReader DEF seenVars, ReadTypeOK
<1> QED BY <1>2, <1>3

\* What a reader has is what the page had, whatever the order of answers.
THEOREM ReadersKnow == ReadSpec => []Known
<1>1. ReadInit => Known
  BY DEF ReadInit, Known, PairsKnowPage, ReaderKnows, Begun, Has, IsPinnedGet,
         Complete
<1>2. ReadTypeOK /\ Known /\ [ReadNext]_readVars => Known'
  <2> SUFFICES ASSUME ReadTypeOK, Known, [ReadNext]_readVars PROVE Known'
    OBVIOUS
  <2>1. CASE OtherSave \/ OtherDelete
    BY <2>1, PageStepsKeep
  <2>2. ASSUME NEW r \in Readers, Start(r) PROVE Known'
    BY <2>2, StartKeeps, OneReader DEF Start, answerVars, ReadTypeOK
  <2>3. ASSUME NEW r \in Readers,
               ReadText(r) \/ ReadInfo(r) \/ ReadNoInfo(r)
        PROVE  Known'
    BY <2>3, AnswersKeep, OneReader
       DEF ReadText, ReadInfo, ReadNoInfo, Answered, seenVars, ReadTypeOK
  <2>4. ASSUME NEW r \in Readers, ReadFails(r) PROVE Known'
    <3>1. ReaderKnows(r)'
      BY <2>4 DEF ReadFails, Known, ReaderKnows, Begun, Has, IsPinnedGet,
                  Complete, ReadTypeOK, pageVars, answerVars, seenVars
    <3> QED BY <2>4, <3>1, OneReader DEF ReadFails, answerVars, seenVars, ReadTypeOK
  <2>5. ASSUME NEW r \in Readers, Update(r) PROVE Known'
    BY <2>5, UpdateKeeps
  <2>6. CASE UNCHANGED readVars
    BY <2>6 DEF readVars, pageVars, answerVars, seenVars, Known, PairsKnowPage,
                ReaderKnows, Begun, Has, IsPinnedGet, Complete
  <2> QED BY <2>1, <2>2, <2>3, <2>4, <2>5, <2>6 DEF ReadNext
<1> QED BY <1>1, <1>2, ReadTypeCorrect, PTL DEF ReadSpec

\* A read that names the version in both requests never mixes two versions.
THEOREM PinnedReads == ReadSpec => []PinnedReadsMatch
<1>1. Known => PinnedReadsMatch
  BY DEF Known, ReaderKnows, Begun, Has, IsPinnedGet, Complete,
         PinnedReadsMatch
<1> QED BY <1>1, ReadersKnow, PTL

\* A read without a version argument is recent, part by part.
THEOREM RecentParts == ReadSpec => []PartsAreRecent
<1>1. Known => PartsAreRecent
  BY DEF Known, ReaderKnows, Begun, Has, Complete, PartsAreRecent
<1> QED BY <1>1, ReadersKnow, PTL

\* A write based on wiki_conventions' pinned read loses no text that was
\* saved in between, on a page nobody deletes.
THEOREM PinnedEdits == ReadSpec => []PinnedEditsLoseNothing
<1>1. Known => PinnedEditsLoseNothing
  BY DEF Known, ReaderKnows, PinnedEditsLoseNothing
<1> QED BY <1>1, ReadersKnow, PTL

(***************************************************************************)
(* The search for a created ticket: the inductive invariant, call by call. *)
(***************************************************************************)

\* A call, its request on the server and its ticket agree.
Agreed(c) ==
    /\ \A i, j \in Own(c) : i = j
    /\ Own(c) # {} <=> reply[c] = "created"
    /\ srv[c] = "queued" => reply[c] = "none" /\ pc[c] # "idle"
    /\ pc[c] = "idle" => reply[c] = "none"
    /\ pc[c] # "done" => result[c] = "none"
    /\ result[c] = "refused" => srv[c] = "idle" /\ reply[c] = "none"
    /\ result[c] = "error" => reply[c] = "fault"

\* Its ticket is what it asked for, and no older than its request.
OwnIsTwin(c) ==
    /\ sentAt[c] <= clock
    /\ \A i \in Own(c) : /\ tickets[i].summary = summary[c] /\ tickets[i].reporter = Me
                         /\ sentAt[c] <= tickets[i].at

\* What the search looks at, and what it named.
Searched(c) ==
    /\ \A i \in toRead[c] : tickets[i].reporter = Me
    /\ result[c] = "created_anyway" =>
          /\ number[c] # 0
          /\ tickets[number[c]].reporter = Me /\ Matches(c, number[c])

\* The call's own ticket is still to be read, or there is a reason why not.
Crowd(c, i) == {j \in i + 1 .. asked[c] : tickets[j].reporter = Me}

Pending(c) ==
    KnowsUser /\ (pc[c] = "read" \/ result[c] = "not_created") =>
        \A i \in Own(c) : \/ i > asked[c]
                          \/ i \in unreadable[c]
                          \/ Cardinality(Crowd(c, i)) >= QueryMax
                          \/ i \in toRead[c] /\ pc[c] = "read"

LEMMA TicketsGrow ==
    ASSUME CreateTypeOK, NEW t \in Ticket, tickets' = Append(tickets, t)
    PROVE  /\ tickets' \in Seq(Ticket) /\ Len(tickets') = Len(tickets) + 1
           /\ Len(tickets) \in Nat
           /\ DOMAIN tickets = 1 .. Len(tickets)
           /\ DOMAIN tickets' = 1 .. Len(tickets) + 1
           /\ \A i \in DOMAIN tickets : tickets'[i] = tickets[i]
           /\ tickets'[Len(tickets) + 1] = t
BY DEF CreateTypeOK

\* Every variable keeps its type.
THEOREM CreateTypeCorrect == CreateSpec => []CreateTypeOK
<1>1. CreateInit => CreateTypeOK
  <2> SUFFICES ASSUME CreateInit PROVE CreateTypeOK
    OBVIOUS
  <2>1. tickets \in Seq(Ticket) /\ Len(tickets) = 0
    BY DEF CreateInit
  <2>2. clock \in Nat
    BY TicketCreateAssumption DEF TicketCreateAssumption, CreateInit
  <2>3. 0 \in 0 .. Len(tickets)
    BY <2>1
  <2> QED BY <2>1, <2>2, <2>3 DEF CreateInit, CreateTypeOK, Replies, Results
<1>2. CreateTypeOK /\ [CreateNext]_createVars => CreateTypeOK'
  <2> SUFFICES ASSUME CreateTypeOK, [CreateNext]_createVars PROVE CreateTypeOK'
    OBVIOUS
  <2> USE DEF searchVars, toldVars
  <2>1. CASE UNCHANGED tickets
    <3>1. ASSUME NEW c \in Calls, \/ SendCreate(c) \/ Receive(c) \/ LoseConnection(c)
                                  \/ TimeOut(c)
                                  \/ QueryFails(c) \/ FindNothing(c)
          PROVE CreateTypeOK'
      <4>1. /\ UNCHANGED <<tickets, clock, others, summary, reply, searchVars>>
            /\ sentAt' \in [Calls -> Nat]
            /\ srv' \in [Calls -> {"idle", "queued"}]
        <5>1. CASE SendCreate(c)
          <6>1. UNCHANGED <<tickets, clock, others, summary, reply, searchVars>>
            BY <5>1 DEF SendCreate
          <6>2. /\ sentAt' = sentAt \/ sentAt' = [sentAt EXCEPT ![c] = clock]
                /\ srv' = srv \/ srv' = [srv EXCEPT ![c] = "queued"]
            BY <5>1 DEF SendCreate
          <6>3. sentAt' \in [Calls -> Nat]
            BY <6>2 DEF CreateTypeOK
          <6>4. srv' \in [Calls -> {"idle", "queued"}]
            BY <6>2 DEF CreateTypeOK
          <6> QED BY <6>1, <6>3, <6>4
        <5>2. CASE ~SendCreate(c)
          BY <3>1, <5>2 DEF Receive, LoseConnection, TimeOut, QueryFails,
                            FindNothing, CreateTypeOK
        <5> QED BY <5>1, <5>2
      <4>2. 0 \in 0 .. Len(tickets) /\ Own(c) \subseteq 0 .. Len(tickets)
        BY DEF CreateTypeOK, Own
      <4>3. CASE \E a \in Results, i \in 0 .. Len(tickets) : Finish(c, a, i)
        BY <4>1, <4>3 DEF CreateTypeOK, Finish
      <4>4. CASE \E s \in {"wait", "query"} : pc' = [pc EXCEPT ![c] = s] /\ UNCHANGED toldVars
        BY <4>1, <4>4 DEF CreateTypeOK
      <4> QED BY <3>1, <4>2, <4>3, <4>4
              DEF SendCreate, Receive, LoseConnection, TimeOut, QueryFails,
                  FindNothing, Results, NothingKnown
    <3>2. ASSUME NEW c \in Calls, Query(c) PROVE CreateTypeOK'
      <4>1. /\ LatestOf(Reported) \subseteq 1 .. Len(tickets)
            /\ Len(tickets) \in 0 .. Len(tickets)
        BY DEF LatestOf, Reported, CreateTypeOK
      <4> QED BY <3>2, <4>1 DEF Query, CreateTypeOK
    <3>3. ASSUME NEW c \in Calls, ReadTicket(c) PROVE CreateTypeOK'
      <4>1. PICK i \in toRead[c] :
              /\ toRead' = [toRead EXCEPT ![c] = @ \ {i}]
              /\ \/ Finish(c, "created_anyway", i) /\ UNCHANGED unreadable
                 \/ UNCHANGED <<pc, toldVars, unreadable>>
                 \/ /\ unreadable' = [unreadable EXCEPT ![c] = @ \cup {i}]
                    /\ UNCHANGED <<pc, toldVars>>
        BY <3>3 DEF ReadTicket
      <4>2. i \in 1 .. Len(tickets) /\ i \in 0 .. Len(tickets)
        BY DEF CreateTypeOK
      <4>3. /\ pc' \in [Calls -> {"idle", "wait", "query", "read", "done"}]
            /\ result' \in [Calls -> Results] /\ number' \in [Calls -> 0 .. Len(tickets)]
            /\ unreadable' \in [Calls -> SUBSET (1 .. Len(tickets))]
            /\ toRead' \in [Calls -> SUBSET (1 .. Len(tickets))]
        <5>1. toRead' \in [Calls -> SUBSET (1 .. Len(tickets))]
          BY <4>1 DEF CreateTypeOK
        <5>2. CASE Finish(c, "created_anyway", i) /\ UNCHANGED unreadable
          BY <4>2, <5>1, <5>2 DEF Finish, CreateTypeOK, Results
        <5>3. CASE /\ unreadable' = [unreadable EXCEPT ![c] = @ \cup {i}]
                   /\ UNCHANGED <<pc, toldVars>>
          BY <4>2, <5>1, <5>3 DEF CreateTypeOK
        <5> QED BY <4>1, <5>1, <5>2, <5>3 DEF CreateTypeOK
      <4> QED BY <3>3, <4>3 DEF ReadTicket, CreateTypeOK
    <3>4. ASSUME NEW c \in Calls, Serve(c) PROVE CreateTypeOK'
      BY <2>1, <3>4 DEF Serve, CreateTypeOK, Replies
    <3>5. CASE Tick \/ UNCHANGED createVars
      BY <3>5 DEF Tick, createVars, CreateTypeOK
    <3>6. CASE OtherCreate
      <4>1. UNCHANGED <<clock, pc, summary, sentAt, srv, reply, searchVars, toldVars>>
            /\ others' = others + 1
        BY <3>6 DEF OtherCreate
      <4> QED BY <2>1, <4>1 DEF CreateTypeOK
    <3> QED BY <3>1, <3>2, <3>3, <3>4, <3>5, <3>6 DEF CreateNext, Handler
  <2>2. CASE ~UNCHANGED tickets
    <3>0. OtherCreate \/ \E c \in Calls : Serve(c)
      BY <2>2 DEF CreateNext, Handler, SendCreate, Receive, LoseConnection,
                  TimeOut, Query, QueryFails, ReadTicket, FindNothing, Tick,
                  createVars
    <3>1. PICK t \in Ticket : tickets' = Append(tickets, t)
      <4>1. CASE OtherCreate
        BY <4>1 DEF OtherCreate, Create, Ticket, CreateTypeOK
      <4>2. ASSUME NEW c \in Calls, Serve(c)
            PROVE  \E t \in Ticket : tickets' = Append(tickets, t)
        BY <2>2, <4>2 DEF Serve, Create, Ticket, CreateTypeOK
      <4> QED BY <3>0, <4>1, <4>2
    <3>2. /\ UNCHANGED <<clock, pc, summary, sentAt, searchVars, toldVars>>
          /\ others' \in Nat
          /\ srv' \in [Calls -> {"idle", "queued"}] /\ reply' \in [Calls -> Replies]
      <4>1. CASE OtherCreate
        BY <4>1 DEF OtherCreate, CreateTypeOK
      <4>2. ASSUME NEW c \in Calls, Serve(c)
            PROVE  /\ UNCHANGED <<clock, others, pc, summary, sentAt, searchVars, toldVars>>
                   /\ srv' \in [Calls -> {"idle", "queued"}] /\ reply' \in [Calls -> Replies]
        BY <4>2 DEF Serve, CreateTypeOK, Replies
      <4> QED BY <3>0, <4>1, <4>2 DEF CreateTypeOK
    <3>3. /\ 1 .. Len(tickets) \subseteq 1 .. Len(tickets')
          /\ 0 .. Len(tickets) \subseteq 0 .. Len(tickets')
      BY <3>1, TicketsGrow
    <3> QED BY <3>1, <3>2, <3>3, TicketsGrow DEF CreateTypeOK
  <2> QED BY <2>1, <2>2
<1> QED BY <1>1, <1>2, PTL DEF CreateSpec

(***************************************************************************)
(* The steps.                                                              *)
(***************************************************************************)

CreateInv(c) == Agreed(c) /\ OwnIsTwin(c) /\ Searched(c) /\ Pending(c)

\* What a call is and sees of the tickets, as long as its variables and its
\* own tickets stay, and others' only join.
LEMMA BystandersKeep ==
    ASSUME CreateTypeOK, NEW c \in Calls, CreateInv(c),
           UNCHANGED <<pc[c], summary[c], sentAt[c], srv[c], reply[c], toRead[c],
                       unreadable[c], asked[c], result[c], number[c]>>,
           clock <= clock', clock' \in Nat,
           \/ UNCHANGED tickets
           \/ \E t \in Ticket : t.call # c /\ tickets' = Append(tickets, t)
    PROVE  CreateInv(c)'
<1>1. /\ DOMAIN tickets \subseteq DOMAIN tickets'
      /\ \A i \in DOMAIN tickets : tickets'[i] = tickets[i]
      /\ Own(c)' = Own(c)
  <2>1. CASE UNCHANGED tickets
    BY <2>1 DEF Own
  <2>2. ASSUME NEW t \in Ticket, t.call # c, tickets' = Append(tickets, t)
        PROVE  /\ DOMAIN tickets \subseteq DOMAIN tickets'
               /\ \A i \in DOMAIN tickets : tickets'[i] = tickets[i]
               /\ Own(c)' = Own(c)
    <3>1. /\ DOMAIN tickets = 1 .. Len(tickets) /\ Len(tickets) \in Nat
          /\ DOMAIN tickets' = 1 .. Len(tickets) + 1
          /\ \A i \in DOMAIN tickets : tickets'[i] = tickets[i]
          /\ tickets'[Len(tickets) + 1] = t
      BY <2>2, TicketsGrow
    <3>2. DOMAIN tickets' = DOMAIN tickets \cup {Len(tickets) + 1}
      BY <3>1
    <3> QED BY <2>2, <3>1, <3>2 DEF Own
  <2> QED BY <2>1, <2>2
<1>2. Agreed(c)'
  BY <1>1 DEF CreateInv, Agreed
<1>3. OwnIsTwin(c)'
  <2>1. Own(c) \subseteq DOMAIN tickets
    BY DEF Own
  <2> QED BY <1>1, <2>1 DEF CreateInv, OwnIsTwin, CreateTypeOK
<1>4. /\ toRead[c] \subseteq DOMAIN tickets
      /\ number[c] # 0 => number[c] \in DOMAIN tickets
      /\ \A i \in Own(c) : Crowd(c, i)' = Crowd(c, i)
  <2>1. /\ DOMAIN tickets = 1 .. Len(tickets) /\ Len(tickets) \in Nat
        /\ number[c] \in 0 .. Len(tickets) /\ toRead[c] \in SUBSET (1 .. Len(tickets))
        /\ asked[c] \in 0 .. Len(tickets)
    BY DEF CreateTypeOK
  <2>2. ASSUME NEW i \in Own(c) PROVE Crowd(c, i)' = Crowd(c, i)
    <3>1. i + 1 .. asked[c] \subseteq DOMAIN tickets
      BY <2>1 DEF Own
    <3> QED BY <1>1, <3>1 DEF Crowd
  <2> QED BY <2>1, <2>2
<1>5. Searched(c)'
  BY <1>1, <1>4 DEF CreateInv, Searched, Matches
<1>6. Pending(c)'
  BY <1>1, <1>4 DEF CreateInv, Pending
<1> QED BY <1>2, <1>3, <1>5, <1>6 DEF CreateInv

\* A call's own steps, up to the search.
LEMMA ServeCreateKeeps ==
    ASSUME CreateTypeOK, NEW c \in Calls, CreateInv(c), Serve(c)
    PROVE  CreateInv(c)'
<1>1. /\ srv[c] = "queued" /\ srv'[c] = "idle" /\ reply[c] = "none" /\ Own(c) = {}
      /\ UNCHANGED <<clock, others, pc, summary, sentAt, searchVars, toldVars>>
      /\ pc[c] # "idle" /\ result[c] \notin {"refused", "error"}
  BY DEF Serve, CreateInv, Agreed, CreateTypeOK
<1>2. CASE reply'[c] = "fault" /\ UNCHANGED tickets
  BY <1>1, <1>2 DEF CreateInv, Agreed, OwnIsTwin, Searched, Pending, Crowd,
                    Matches, Own, searchVars, toldVars
<1>3. CASE Create(summary[c], Me, c) /\ reply'[c] = "created"
  <2> DEFINE t == [summary |-> summary[c], reporter |-> Me, at |-> clock, call |-> c]
             new == Len(tickets) + 1
  <2>1. t \in Ticket /\ tickets' = Append(tickets, t)
    BY <1>3 DEF Create, Ticket, CreateTypeOK
  <2>2. /\ DOMAIN tickets = 1 .. Len(tickets) /\ Len(tickets) \in Nat
        /\ DOMAIN tickets' = 1 .. new
        /\ \A i \in DOMAIN tickets : tickets'[i] = tickets[i]
        /\ tickets'[new] = t
    BY <2>1, TicketsGrow
  <2>3. DOMAIN tickets' = DOMAIN tickets \cup {new} /\ new \notin DOMAIN tickets
    BY <2>2
  <2>4. Own(c)' = {new}
    BY <1>1, <2>2, <2>3 DEF Own
  <2>5. Agreed(c)'
    BY <1>1, <1>3, <2>4 DEF CreateInv, Agreed, searchVars, toldVars
  <2>6. OwnIsTwin(c)'
    BY <1>1, <2>2, <2>4 DEF CreateInv, OwnIsTwin
  <2>7. Searched(c)'
    <3>1. /\ toRead[c] \subseteq DOMAIN tickets
          /\ number[c] # 0 => number[c] \in DOMAIN tickets
      BY <2>2 DEF CreateTypeOK
    <3> QED BY <1>1, <2>2, <3>1 DEF CreateInv, Searched, Matches, searchVars,
                                    toldVars
  <2>8. Pending(c)'
    <3>1. new > asked[c]
      BY <2>2 DEF CreateTypeOK
    <3> QED BY <1>1, <2>4, <3>1 DEF Pending, searchVars
  <2> QED BY <2>5, <2>6, <2>7, <2>8 DEF CreateInv
<1> QED BY <1>2, <1>3 DEF Serve, CreateTypeOK

LEMMA SimpleStepsKeep ==
    ASSUME CreateTypeOK, NEW c \in Calls, CreateInv(c),
           SendCreate(c) \/ Receive(c) \/ LoseConnection(c) \/ TimeOut(c) \/ QueryFails(c)
    PROVE  CreateInv(c)'
<1>1. /\ UNCHANGED <<tickets, clock, summary, reply, searchVars>>
      /\ Own(c)' = Own(c)
  BY DEF SendCreate, Receive, LoseConnection, TimeOut, QueryFails, Own
<1>2. CASE SendCreate(c)
  <2>1. /\ pc[c] = "idle" /\ srv[c] = "idle" /\ reply[c] = "none" /\ Own(c) = {}
        /\ result[c] = "none" /\ pc'[c] \in {"done", "wait"}
        /\ result'[c] \in {"none", "refused"}
        /\ result'[c] = "refused" => UNCHANGED srv
        /\ pc'[c] # "done" => result'[c] = "none"
        /\ sentAt'[c] <= clock
    BY <1>2 DEF SendCreate, Finish, CreateInv, Agreed, OwnIsTwin, CreateTypeOK, toldVars
  <2> QED BY <1>1, <2>1 DEF CreateInv, Agreed, OwnIsTwin, Searched, Pending, searchVars
<1>3. CASE ~SendCreate(c)
  <2>1. UNCHANGED <<sentAt, srv>> /\ pc[c] \in {"wait", "query"}
    BY <1>3 DEF Receive, LoseConnection, TimeOut, QueryFails
  <2>2. /\ pc'[c] = "done" \/ (pc'[c] = "query" /\ UNCHANGED result)
        /\ result'[c] \in {result[c], "created", "error", "unknown"}
        /\ result'[c] = "error" => reply[c] = "fault"
    BY <1>3 DEF Receive, LoseConnection, TimeOut, QueryFails, Finish,
                CreateTypeOK, toldVars, CreateInv, Agreed, NothingKnown
  <2>3. result[c] = "none"
    BY <2>1 DEF CreateInv, Agreed
  <2> QED BY <1>1, <2>1, <2>2, <2>3 DEF CreateInv, Agreed, OwnIsTwin, Searched,
                                        Pending, searchVars
<1> QED BY <1>2, <1>3

\* The query lists the call's own ticket, unless it is not there yet or as
\* many later ones of the same reporter are.
LEMMA QueryKeeps ==
    ASSUME CreateTypeOK, NEW c \in Calls, CreateInv(c), Query(c)
    PROVE  CreateInv(c)'
<1>1. /\ UNCHANGED <<tickets, clock, summary, sentAt, srv, reply, unreadable, toldVars>>
      /\ toRead'[c] = LatestOf(Reported) /\ asked'[c] = Len(tickets)
      /\ pc[c] = "query" /\ pc'[c] = "read" /\ Own(c)' = Own(c)
  BY DEF Query, CreateTypeOK, Own
<1>2. result[c] = "none"
  BY <1>1 DEF CreateInv, Agreed
<1>3. Agreed(c)' /\ OwnIsTwin(c)'
  BY <1>1, <1>2 DEF CreateInv, Agreed, OwnIsTwin, toldVars
<1>4. Searched(c)'
  BY <1>1, <1>2 DEF Searched, LatestOf, Reported, toldVars
<1>5. ASSUME KnowsUser, NEW i \in Own(c), i \notin LatestOf(Reported)
      PROVE  Cardinality(Crowd(c, i)') >= QueryMax
  <2>1. /\ DOMAIN tickets = 1 .. Len(tickets) /\ Len(tickets) \in Nat
        /\ i \in 1 .. Len(tickets)
    BY DEF CreateTypeOK, Own
  <2>2. i \in Reported
    BY <1>5 DEF Reported, Own, CreateInv, OwnIsTwin
  <2>3. Crowd(c, i)' = {j \in Reported : j > i}
    BY <1>1, <1>5, <2>1 DEF Crowd, Reported
  <2>4. Cardinality({j \in Reported : j > i}) \in Nat
    <3>1. IsFiniteSet(1 .. Len(tickets))
      BY <2>1, FS_Interval
    <3>2. {j \in Reported : j > i} \subseteq 1 .. Len(tickets)
      BY <2>1 DEF Reported
    <3> QED BY <3>1, <3>2, FS_Subset, FS_CardinalityType
  <2>5. ~(Cardinality({j \in Reported : j > i}) < QueryMax)
    BY <1>5, <2>2 DEF LatestOf
  <2> QED BY <2>3, <2>4, <2>5, TicketCreateAssumption DEF TicketCreateAssumption
<1>6. Pending(c)'
  BY <1>1, <1>5 DEF Pending
<1> QED BY <1>3, <1>4, <1>6 DEF CreateInv

\* A read of the call's own ticket finds it, or fails.
LEMMA ReadTicketKeeps ==
    ASSUME CreateTypeOK, NEW c \in Calls, CreateInv(c),
           ReadTicket(c) \/ FindNothing(c)
    PROVE  CreateInv(c)'
<1>1. /\ UNCHANGED <<tickets, clock, summary, sentAt, srv, reply, asked>>
      /\ pc[c] = "read" /\ Own(c)' = Own(c)
  BY DEF ReadTicket, FindNothing, Own, searchVars
<1>2. result[c] = "none"
  BY <1>1 DEF CreateInv, Agreed
<1>3. \A i \in Own(c) : Matches(c, i) /\ Crowd(c, i)' = Crowd(c, i)
  <2>1. ASSUME NEW i \in Own(c)
        PROVE  /\ tickets[i].summary = summary[c] /\ sentAt[c] <= tickets[i].at
               /\ sentAt[c] \in Nat /\ tickets[i].at \in Nat
    <3>1. i \in DOMAIN tickets /\ tickets[i] \in Ticket
      BY DEF Own, CreateTypeOK
    <3> QED BY <3>1 DEF CreateInv, OwnIsTwin, CreateTypeOK, Ticket
  <2> QED BY <1>1, <2>1, TicketCreateAssumption DEF TicketCreateAssumption,
          Matches, Crowd
<1>4. CASE ReadTicket(c)
  <2>1. PICK i \in toRead[c] :
          /\ toRead' = [toRead EXCEPT ![c] = @ \ {i}]
          /\ \/ Matches(c, i) /\ Finish(c, "created_anyway", i) /\ UNCHANGED unreadable
             \/ ~Matches(c, i) /\ UNCHANGED <<pc, toldVars, unreadable>>
             \/ /\ unreadable' = [unreadable EXCEPT ![c] = @ \cup {i}]
                /\ UNCHANGED <<pc, toldVars>>
    BY <1>4 DEF ReadTicket
  <2>2. toRead'[c] = toRead[c] \ {i} /\ i \in 1 .. Len(tickets)
    BY <2>1 DEF CreateTypeOK
  <2>3. tickets[i].reporter = Me
    BY DEF CreateInv, Searched
  <2>4. CASE Matches(c, i) /\ Finish(c, "created_anyway", i) /\ UNCHANGED unreadable
    <3>1. pc'[c] = "done" /\ result'[c] = "created_anyway" /\ number'[c] = i
      BY <2>4 DEF Finish, CreateTypeOK
    <3> QED BY <1>1, <2>2, <2>3, <2>4, <3>1
            DEF CreateInv, Agreed, OwnIsTwin, Searched, Pending, Matches
  <2>5. CASE ~Matches(c, i) /\ UNCHANGED <<pc, toldVars, unreadable>>
    BY <1>1, <1>2, <1>3, <2>2, <2>5
       DEF CreateInv, Agreed, OwnIsTwin, Searched, Pending, Matches, toldVars
  <2>6. CASE /\ unreadable' = [unreadable EXCEPT ![c] = @ \cup {i}]
             /\ UNCHANGED <<pc, toldVars>>
    <3>1. unreadable'[c] = unreadable[c] \cup {i}
      BY <2>6 DEF CreateTypeOK
    <3> QED BY <1>1, <1>2, <1>3, <2>2, <2>6, <3>1
            DEF CreateInv, Agreed, OwnIsTwin, Searched, Pending, Matches, toldVars
  <2> QED BY <2>1, <2>4, <2>5, <2>6
<1>5. CASE FindNothing(c)
  <2>1. /\ toRead[c] = {} /\ UNCHANGED <<toRead, unreadable>>
        /\ pc'[c] = "done" /\ result'[c] = "not_created"
    BY <1>5 DEF FindNothing, Finish, CreateTypeOK, searchVars
  <2> QED BY <1>1, <1>2, <1>3, <2>1 DEF CreateInv, Agreed, OwnIsTwin, Searched, Pending
<1> QED BY <1>4, <1>5

LEMMA CreateInvariant == CreateSpec => [](\A c \in Calls : CreateInv(c))
<1> DEFINE Inv == \A c \in Calls : CreateInv(c)
<1>1. CreateInit => Inv
  BY TicketCreateAssumption DEF TicketCreateAssumption, CreateInit, CreateInv,
                                Agreed, OwnIsTwin, Searched, Pending, Own
<1>2. CreateTypeOK /\ Inv /\ [CreateNext]_createVars => Inv'
  <2> SUFFICES ASSUME CreateTypeOK, Inv, [CreateNext]_createVars,
                      NEW c \in Calls
               PROVE  CreateInv(c)'
    OBVIOUS
  <2> USE DEF searchVars, toldVars
  <2>1. CASE \/ SendCreate(c) \/ Receive(c) \/ LoseConnection(c) \/ TimeOut(c)
             \/ QueryFails(c)
    BY <2>1, SimpleStepsKeep
  <2>2. CASE Query(c)
    BY <2>2, QueryKeeps
  <2>3. CASE ReadTicket(c) \/ FindNothing(c)
    BY <2>3, ReadTicketKeeps
  <2>4. CASE Serve(c)
    BY <2>4, ServeCreateKeeps
  <2>5. ASSUME NEW o \in Calls \ {c}, SendCreate(o) \/ Handler(o) \/ Serve(o)
        PROVE  CreateInv(c)'
    <3>1. UNCHANGED <<clock, pc[c], summary[c], sentAt[c], srv[c], reply[c], toRead[c],
                      unreadable[c], asked[c], result[c], number[c]>>
      BY <2>5 DEF Handler, SendCreate, Receive, LoseConnection, TimeOut, Query,
                  QueryFails, ReadTicket, FindNothing, Serve, Finish,
                  CreateTypeOK
    <3>2. \/ UNCHANGED tickets
          \/ \E t \in Ticket : t.call # c /\ tickets' = Append(tickets, t)
      BY <2>5 DEF Handler, SendCreate, Receive, LoseConnection, TimeOut, Query,
                  QueryFails, ReadTicket, FindNothing, Serve, Create, Ticket,
                  CreateTypeOK
    <3> QED BY <3>1, <3>2, BystandersKeep DEF CreateTypeOK
  <2>6. CASE OtherCreate
    <3>1. \E t \in Ticket : t.call # c /\ tickets' = Append(tickets, t)
      BY <2>6, TicketCreateAssumption DEF TicketCreateAssumption, OtherCreate,
              Create, Ticket, CreateTypeOK
    <3>2. UNCHANGED <<clock, pc, summary, sentAt, srv, reply, toRead, unreadable,
                      asked, result, number>>
      BY <2>6 DEF OtherCreate
    <3>3. clock <= clock' /\ clock' \in Nat
      BY <3>2 DEF CreateTypeOK
    <3> QED BY <3>1, <3>2, <3>3, BystandersKeep
  <2>7. CASE Tick \/ UNCHANGED createVars
    <3>1. /\ UNCHANGED <<tickets, pc, summary, sentAt, srv, reply, toRead, unreadable,
                         asked, result, number>>
          /\ clock' \in Nat /\ clock <= clock'
      BY <2>7 DEF Tick, createVars, CreateTypeOK
    <3> QED BY <3>1, BystandersKeep
  <2> QED BY <2>1, <2>2, <2>3, <2>4, <2>5, <2>6, <2>7 DEF CreateNext, Handler
<1> QED BY <1>1, <1>2, CreateTypeCorrect, PTL DEF CreateSpec

\* A lost reply makes no second ticket, and the one that is named has the
\* summary and the reporter of the call and is no older than the window.
THEOREM CreatesAreSafe == CreateSpec => []TimeoutsAreSafe
<1>1. CreateTypeOK /\ (\A c \in Calls : CreateInv(c)) => TimeoutsAreSafe
  <2> SUFFICES ASSUME \A c \in Calls : CreateInv(c), NEW c \in Calls
               PROVE  /\ Cardinality(Own(c)) <= 1
                      /\ result[c] \in {"refused", "error"} => Own(c) = {}
                      /\ result[c] = "created_anyway" =>
                            LET t == tickets[number[c]]
                            IN  /\ t.summary = summary[c]
                                /\ t.reporter = Me
                                /\ t.at + Window >= sentAt[c]
    BY DEF TimeoutsAreSafe, AtMostOneTicket, NamedIsRecentTwin
  <2>1. Own(c) = {} \/ \E i : Own(c) = {i}
    BY DEF CreateInv, Agreed
  <2>2. Cardinality(Own(c)) \in {0, 1}
    BY <2>1, FS_EmptySet, FS_Singleton
  <2> QED BY <2>2 DEF CreateInv, Agreed, Searched, Matches
<1> QED BY <1>1, CreateTypeCorrect, CreateInvariant, PTL

\* A created ticket is missed for one of three reasons only.
THEOREM MissesAreExcused == CreateSpec => []MissedOnlyIf
<1>1. (\A c \in Calls : CreateInv(c)) => MissedOnlyIf
  <2> SUFFICES ASSUME \A c \in Calls : CreateInv(c), NEW c \in Calls, NEW i \in Own(c),
                      result[c] = "not_created", KnowsUser
               PROVE  \/ i > asked[c]
                      \/ i \in unreadable[c]
                      \/ Cardinality(Crowd(c, i)) >= QueryMax
    BY DEF MissedOnlyIf, Crowd
  <2>1. pc[c] = "done"
    BY DEF CreateInv, Agreed
  <2> QED BY <2>1 DEF CreateInv, Pending
<1> QED BY <1>1, CreateInvariant, PTL

(***************************************************************************)
(* What the checks find.                                                   *)
(***************************************************************************)

LEMMA Anchors ==
    ASSUME NEW doc, NEW w, NEW live
    PROVE  LET anchors == extract_facts(doc, w, live).anchors
           IN /\ DOMAIN anchors = Linked(doc)
              /\ \A i \in Linked(doc) : anchors[i] = AnchorOf(doc[i], w, live)
BY DEF extract_facts

\* What has to exist for a target on another instance.
Address(h) == <<h.base, h.realm, h.to>> \o h.tail

LEMMA AnchorKinds ==
    ASSUME NEW it, HasAnchor(it)
    PROVE  it.kind \in {"page", "word", "number", "file", "remote"}
BY DEF HasAnchor

LEMMA LocalAnchor ==
    ASSUME NEW it, NEW w, NEW live, NEW a, a = AnchorOf(it, w, live)
    PROVE  it.kind \in {"page", "word", "number"} =>
               a.class # "file" /\ a.missing = (Atom(it) \notin w)
BY DEF AnchorOf

LEMMA RemoteAnchor ==
    ASSUME NEW it, NEW w, NEW live, NEW a, HasAnchor(it), a = AnchorOf(it, w, live),
           it.kind = "remote"
    PROVE  /\ ~a.missing /\ a.href.base = InterTrac[it.prefix]
           /\ a.href.realm = it.realm /\ Address(a.href) = Atom(it)
<1>1. ~a.missing
  BY DEF AnchorOf
<1>2. a.href = [base |-> InterTrac[it.prefix], realm |-> it.realm,
                to |-> it.to, tail |-> Swallowed(it)]
  BY DEF AnchorOf
<1>3. Atom(it) = <<InterTrac[it.prefix], it.realm, it.to>> \o Swallowed(it)
  BY DEF Atom, HasAnchor
<1>4. Address(a.href) = Atom(it)
  BY <1>2, <1>3 DEF Address
<1> QED BY <1>1, <1>2, <1>4

LEMMA OtherAnchor ==
    ASSUME NEW it, NEW w, NEW live, NEW a, a = AnchorOf(it, w, live),
           it.kind # "remote"
    PROVE  a.href.realm = ""
BY DEF AnchorOf, NoHref

\* The anchors with a missing target, those of files and those that may have
\* been made of a name in prose; and what is found about one.
MissingAt(facts) == {i \in DOMAIN facts.anchors : facts.anchors[i].missing}
FilesAt(facts) == {i \in MissingAt(facts) : facts.anchors[i].class = "file"}
NamedAt(facts, dest) ==
    {i \in MissingAt(facts) : /\ autolinked_page_name(facts.anchors[i])
                              /\ facts.anchors[i].page = dest}
Cleared(facts, doc, found) == First(FilesAt(facts), bare_attachments(doc, found))
Incidental(facts, doc) ==
    {i \in MissingAt(facts) :
        LET a == facts.anchors[i]
        IN /\ autolinked_page_name(a) /\ a.page[1] \in AutoLinked
           /\ i \in First(NamedAt(facts, a.page), bare_autolinks(doc, a.page))}
Told(facts, incidental, i) ==
    IF i \in incidental THEN At("incidental_wiki_autolink", i)
    ELSE IF local_captured_tail(facts.anchors[i])
    THEN Found("local_target_captured_tail", i, <<>>, "missing_local_target")
    ELSE At("missing_local_target", i)

LEMMA FoundLocal ==
    ASSUME NEW facts, NEW doc, NEW found
    PROVE  missing_local_target(facts, doc, found) =
             {Told(facts, Incidental(facts, doc), i) :
                i \in MissingAt(facts) \ Cleared(facts, doc, found)}
BY DEF missing_local_target, MissingAt, FilesAt, NamedAt, Cleared, Incidental, Told

\* The findings about local targets that are missing.
LEMMA FoundMissing ==
    ASSUME NEW facts, NEW doc, NEW found
    PROVE  LET f == missing_local_target(facts, doc, found)
           IN /\ \A i \in DOMAIN facts.anchors :
                    facts.anchors[i].missing /\ facts.anchors[i].class # "file" =>
                       \E x \in f : /\ x.at = i
                                    /\ {x.code, x.replaces} \subseteq AboutMissing
              /\ \A x \in f : /\ x.code \in AboutMissing
                              /\ x.at \in DOMAIN facts.anchors
                              /\ facts.anchors[x.at].missing
<1> DEFINE A == facts.anchors
           f == missing_local_target(facts, doc, found)
<1>1. PICK incidental : incidental = Incidental(facts, doc)
  OBVIOUS
<1>2. PICK cleared : cleared = Cleared(facts, doc, found)
  OBVIOUS
<1>3. f = {Told(facts, incidental, i) : i \in MissingAt(facts) \ cleared}
  BY <1>1, <1>2, FoundLocal
<1>4. \A i \in cleared : A[i].class = "file"
  BY <1>2 DEF FilesAt, First, Cleared
<1> HIDE DEF f
<1>5. \A x \in f : \E i \in MissingAt(facts) : x = Told(facts, incidental, i)
  BY <1>3
<1>6. \A i \in MissingAt(facts) : A[i].class # "file" => Told(facts, incidental, i) \in f
  BY <1>3, <1>4
<1>7. \A i : LET x == Told(facts, incidental, i)
             IN x.at = i /\ {x.code, x.replaces} \subseteq AboutMissing
  BY DEF Told, Found, At, AboutMissing
<1> QED BY <1>5, <1>6, <1>7 DEF MissingAt, f

\* The findings about targets on other instances: a target that was not seen
\* to exist is reported, or something was not looked at.
LEMMA FoundUnprobed ==
    ASSUME NEW facts, NEW p, NEW check, NEW i \in DOMAIN facts.anchors, NEW h,
           h = facts.anchors[i].href, h.realm \in {"ticket", "wiki"},
           \A g \in DOMAIN p :
               p[g] \in {"exists", "missing", "error", "capped", "not allowed"},
           ~(h \in DOMAIN p /\ p[h] = "exists")
    PROVE  \E x \in target_probes(facts, p, check) :
              /\ x.replaces = x.code
              /\ \/ x.at = i /\ x.code = "missing_cross_instance_target"
                 \/ x.code \in AboutUnprobed
<1> DEFINE Outcome(j) == IF facts.anchors[j].href \in DOMAIN p
                         THEN p[facts.anchors[j].href] ELSE "error"
           With(outcome) == {j \in probeable(facts) : Outcome(j) = outcome}
           Once(outcome, code) == IF With(outcome) = {} THEN {} ELSE {On(code, <<>>)}
<1>1. PICK f : f = target_probes(facts, p, check)
  OBVIOUS
<1>2. f = IF ~check
          THEN IF probeable(facts) = {} THEN {} ELSE {On("target_check_disabled", <<>>)}
          ELSE {At("missing_cross_instance_target", j) : j \in With("missing")}
               \cup Once("capped", "target_check_capped")
               \cup Once("not allowed", "target_check_not_allowed")
               \cup Once("error", "target_check_failed")
  BY <1>1 DEF target_probes
<1>3. i \in probeable(facts)
  BY DEF probeable, Where, is_probeable
<1>4. Outcome(i) \in {"missing", "error", "capped", "not allowed"}
  OBVIOUS
<1> HIDE DEF Outcome
<1>5. ASSUME NEW c \in AboutUnprobed, On(c, <<>>) \in f
      PROVE  \E x \in f : x.replaces = x.code /\ x.code \in AboutUnprobed
  <2>1. On(c, <<>>).replaces = c /\ On(c, <<>>).code = c
    BY DEF On, Found
  <2> QED BY <1>5, <2>1
<1>6. CASE ~check
  <2>1. On("target_check_disabled", <<>>) \in f
    BY <1>2, <1>3, <1>6
  <2> QED BY <1>1, <1>5, <2>1 DEF AboutUnprobed
<1>7. CASE check /\ Outcome(i) = "missing"
  <2>1. At("missing_cross_instance_target", i) \in f
    BY <1>2, <1>3, <1>7
  <2>2. LET x == At("missing_cross_instance_target", i)
        IN /\ x.at = i /\ x.code = "missing_cross_instance_target"
           /\ x.replaces = x.code
    BY DEF At, Found
  <2> QED BY <1>1, <2>1, <2>2
<1>8. CASE check /\ Outcome(i) # "missing"
  <2>1. \E c \in AboutUnprobed : On(c, <<>>) \in f
    BY <1>2, <1>3, <1>4, <1>8 DEF AboutUnprobed
  <2> QED BY <1>1, <1>5, <2>1
<1> QED BY <1>6, <1>7, <1>8

\* What is reported missing was answered to be missing.
LEMMA FoundProbed ==
    ASSUME NEW facts, NEW p, NEW check, NEW x \in target_probes(facts, p, check)
    PROVE  /\ x.code \in AboutUnprobed \cup {"missing_cross_instance_target"}
           /\ x.code = "missing_cross_instance_target" =>
                 /\ x.at \in DOMAIN facts.anchors
                 /\ facts.anchors[x.at].href.realm \in {"ticket", "wiki"}
                 /\ facts.anchors[x.at].href \in DOMAIN p
                 /\ p[facts.anchors[x.at].href] = "missing"
<1> DEFINE H(j) == facts.anchors[j].href
           Outcome(j) == IF H(j) \in DOMAIN p THEN p[H(j)] ELSE "error"
           With(outcome) == {j \in probeable(facts) : Outcome(j) = outcome}
<1>1. \/ \E j \in With("missing") : x = At("missing_cross_instance_target", j)
      \/ \E c \in AboutUnprobed : x = On(c, <<>>)
  BY DEF target_probes, AboutUnprobed
<1>2. CASE \E j \in With("missing") : x = At("missing_cross_instance_target", j)
  <2>1. PICK j \in With("missing") : x = At("missing_cross_instance_target", j)
    BY <1>2
  <2>2. j \in DOMAIN facts.anchors /\ H(j).realm \in {"ticket", "wiki"}
    BY DEF probeable, Where, is_probeable
  <2>3. H(j) \in DOMAIN p /\ p[H(j)] = "missing"
    <3>1. Outcome(j) = "missing"
      OBVIOUS
    <3> QED BY <3>1
  <2>4. x.at = j /\ x.code = "missing_cross_instance_target"
    BY <2>1 DEF At, Found
  <2> QED BY <2>2, <2>3, <2>4
<1>3. CASE \E c \in AboutUnprobed : x = On(c, <<>>)
  <2>1. PICK c \in AboutUnprobed : x = On(c, <<>>)
    BY <1>3
  <2>2. x.code = c /\ c # "missing_cross_instance_target"
    BY <2>1 DEF On, Found, AboutUnprobed
  <2> QED BY <2>2
<1> QED BY <1>1, <1>2, <1>3

\* The findings about comments.
LEMMA FoundDangling ==
    ASSUME NEW doc, NEW numbers
    PROVE  \A x \in dangling_comment_ref(doc, numbers) :
              /\ x.code = "dangling_comment_ref"
              /\ numbers # NoContext /\ x.token[2] \notin numbers[1]
<1> SUFFICES ASSUME numbers # NoContext, NEW x \in dangling_comment_ref(doc, numbers)
             PROVE  x.code = "dangling_comment_ref" /\ x.token[2] \notin numbers[1]
  BY DEF dangling_comment_ref
<1>1. PICK it \in ToSet(doc) : /\ it.to \notin numbers[1]
                               /\ x = On("dangling_comment_ref", <<"comment:", it.to>>)
  BY DEF dangling_comment_ref
<1>2. x.code = "dangling_comment_ref" /\ x.token = <<"comment:", it.to>>
  BY <1>1 DEF On, Found
<1> QED BY <1>1, <1>2

\* The codes that say what does not exist.
DeadCodes == Refusals \cup {"missing_cross_instance_target", "dangling_comment_ref"}

\* No other check finds one.
LEMMA FoundElse ==
    ASSUME NEW context, NEW doc, NEW facts, NEW p, NEW allowed,
           NEW x \in build_warnings(context, doc, facts, p, allowed),
           x.code \in DeadCodes
    PROVE  \/ x \in missing_local_target(facts, doc, context.names)
           \/ x \in target_probes(facts, p, context.check)
           \/ x \in dangling_comment_ref(doc, context.known)
<1> USE DEF DeadCodes, Refusals, Found, At, On
<1>1. x \notin escaped_link_targets(facts) \cup link_ref_in_code_span(facts)
                 \cup captured_punctuation(facts) \cup missing_intertrac_realm(facts)
  <2>1. \A y \in escaped_link_targets(facts) : y.code = "escaped_link_target"
    BY DEF escaped_link_targets, Where
  <2>2. \A y \in link_ref_in_code_span(facts) : y.code = "link_ref_in_code_span"
    BY DEF link_ref_in_code_span
  <2>3. \A y \in captured_punctuation(facts) :
           y.code = "intertrac_target_captured_punctuation"
    BY DEF captured_punctuation, Where
  <2>4. \A y \in missing_intertrac_realm(facts) : y.code = "missing_intertrac_realm"
    BY DEF missing_intertrac_realm, Where
  <2> QED BY <2>1, <2>2, <2>3, <2>4
<1>2. x \notin tracwiki_markup_in_markdown(context.source[1])
                 \cup code_block_indentation_loss(context.source[1])
                 \cup list_item_split(context.source[1])
  BY DEF tracwiki_markup_in_markdown, code_block_indentation_loss, list_item_split
<1>3. x \notin unconfigured_intertrac_prefix(doc, facts, context.own)
                 \cup pr_number_as_ticket(doc, facts)
                 \cup bare_ref_shadows_prefixed(doc, facts, context.own)
  <2>1. \A y \in unconfigured_intertrac_prefix(doc, facts, context.own) :
           y.code \in {"self_intertrac_prefix", "unconfigured_intertrac_prefix"}
    BY DEF unconfigured_intertrac_prefix
  <2>2. \A y \in pr_number_as_ticket(doc, facts) : y.code = "pr_number_as_ticket"
    <3> DEFINE told(it) == On("pr_number_as_ticket", TextOf(it))
               dead(it) == Where(facts, LAMBDA a : LinksNumber(a, it.to)) # {}
    <3>1. \A y \in pr_number_as_ticket(doc, facts) :
             \E it \in ToSet(doc) : y = told(it)
      <4>1. pr_number_as_ticket(doc, facts) =
              {told(it) : it \in {r \in ToSet(doc) :
                  r.kind = "number" /\ r.form = "pull request" /\ scanned(r)
                    /\ dead(r)}}
        BY DEF pr_number_as_ticket
      <4> HIDE DEF told, dead
      <4> QED BY <4>1
    <3> QED BY <3>1
  <2>3. \A y \in bare_ref_shadows_prefixed(doc, facts, context.own) :
           y.code = "bare_ref_shadows_prefixed"
    BY DEF bare_ref_shadows_prefixed, Where
  <2> QED BY <2>1, <2>2, <2>3
<1>4. x \notin literal_markup_in_render(facts) \cup broken_inline_markup_in_render(facts)
  BY DEF literal_markup_in_render, broken_inline_markup_in_render
<1> QED BY <1>1, <1>2, <1>3, <1>4 DEF build_warnings

\* These checks are made, and only what the text allows is left out.
LEMMA FoundAll ==
    ASSUME NEW context, NEW doc, NEW facts, NEW p, NEW allowed, NEW x,
           \/ x \in missing_local_target(facts, doc, context.names)
           \/ x \in target_probes(facts, p, context.check),
           {x.code, x.replaces} \cap allowed = {}
    PROVE  x \in build_warnings(context, doc, facts, p, allowed)
BY DEF build_warnings

(***************************************************************************)
(* The count of the findings: each occurrence of a name in prose excuses   *)
(* one anchor, and so as many anchors are left as were written as links.   *)
(***************************************************************************)

\* The first n of at least n places are n.
LEMMA FirstCount ==
    ASSUME NEW S, IsFiniteSet(S), S \subseteq Int, NEW n \in Nat, n <= Cardinality(S)
    PROVE  Cardinality(First(S, n)) = n
<1> DEFINE Below(i) == {j \in S : j < i}
           N == Cardinality(S)
           rank == [i \in S |-> Cardinality(Below(i))]
<1>1. N \in Nat
  BY FS_CardinalityType
<1>2. ASSUME NEW i \in S
      PROVE  /\ IsFiniteSet(Below(i)) /\ Cardinality(Below(i)) \in Nat
             /\ Cardinality(Below(i)) < N
  <2>1. Below(i) \in SUBSET S /\ i \notin Below(i)
    OBVIOUS
  <2>2. /\ IsFiniteSet(Below(i)) /\ Cardinality(Below(i)) <= N
        /\ N = Cardinality(Below(i)) => S = Below(i)
    BY <2>1, FS_Subset
  <2>3. Cardinality(Below(i)) \in Nat
    BY <2>2, FS_CardinalityType
  <2> QED BY <1>1, <2>1, <2>2, <2>3
<1>3. ASSUME NEW i \in S, NEW k \in S, i < k PROVE rank[i] < rank[k]
  <2>1. Below(i) \in SUBSET Below(k) /\ i \in Below(k) /\ i \notin Below(i)
    <3>1. i \in Int /\ k \in Int /\ \A j \in S : j \in Int
      OBVIOUS
    <3>2. \A j \in S : j < i => j < k
      BY <1>3, <3>1
    <3>3. Below(i) \in SUBSET Below(k)
      BY <3>2
    <3>4. i \in Below(k)
      BY <1>3
    <3>5. i \notin Below(i)
      BY <3>1
    <3> QED BY <3>3, <3>4, <3>5
  <2>2. Cardinality(Below(i)) <= Cardinality(Below(k))
    BY <1>2, <2>1, FS_Subset
  <2>3. Cardinality(Below(k)) # Cardinality(Below(i))
    BY <1>2, <2>1, FS_Subset
  <2> QED BY <1>2, <2>2, <2>3
<1>4. rank \in Injection(S, 0 .. N - 1)
  <2>1. rank \in [S -> 0 .. N - 1]
    BY <1>1, <1>2
  <2>2. \A i, k \in S : rank[i] = rank[k] => i = k
    BY <1>2, <1>3
  <2> QED BY <2>1, <2>2 DEF Injection, IsInjective
<1>5. rank \in Surjection(S, 0 .. N - 1)
  <2>1. IsFiniteSet(0 .. N - 1) /\ Cardinality(0 .. N - 1) = N
    <3>1. N - 1 \in Int /\ 0 \in Int /\ (N - 1) - 0 + 1 = N /\ (0 > N - 1 => N = 0)
      BY <1>1
    <3> HIDE DEF N
    <3> QED BY <3>1, FS_Interval
  <2> QED BY <1>4, <2>1, FS_Injection
<1> DEFINE T == First(S, n)
           place == [i \in T |-> rank[i]]
<1>6. T = {i \in S : rank[i] < n}
  BY DEF First
<1>7. place \in Bijection(T, 0 .. n - 1)
  <2>1. place \in [T -> 0 .. n - 1]
    <3>1. \A i \in S : rank[i] \in Nat
      BY <1>2
    <3> HIDE DEF rank, T
    <3>2. \A i \in T : rank[i] \in 0 .. n - 1
      BY <1>6, <3>1
    <3> QED BY <3>2
  <2>2. \A i, k \in T : place[i] = place[k] => i = k
    BY <1>4, <1>6 DEF Injection, IsInjective
  <2>3. ASSUME NEW r \in 0 .. n - 1 PROVE \E i \in T : place[i] = r
    <3>1. r \in 0 .. N - 1
      BY <1>1
    <3>2. PICK i \in S : rank[i] = r
      BY <1>5, <3>1 DEF Surjection
    <3>3. i \in T
      BY <1>6, <3>2
    <3> QED BY <3>2, <3>3
  <2> QED BY <2>1, <2>2, <2>3 DEF Bijection, Injection, Surjection, IsInjective
<1>8. IsFiniteSet(T)
  <2>1. T \in SUBSET S
    BY <1>6
  <2> QED BY <2>1, FS_Subset
<1>9. Cardinality(0 .. n - 1) = Cardinality(T)
  <2>1. ExistsBijection(T, 0 .. n - 1)
    BY <1>7 DEF ExistsBijection
  <2> HIDE DEF T
  <2> QED BY <1>8, <2>1, FS_Bijection
<1>10. Cardinality(0 .. n - 1) = n
  BY FS_Interval
<1> QED BY <1>9, <1>10

\* Excusing as many of S as there are in W leaves what is outside of W.
LEMMA Excused ==
    ASSUME NEW M, IsFiniteSet(M), NEW S \in SUBSET M, S \in SUBSET Int, NEW W \in SUBSET S
    PROVE  Cardinality(M \ First(S, Cardinality(W))) = Cardinality(M \ W)
<1>1. IsFiniteSet(S) /\ IsFiniteSet(W) /\ Cardinality(W) <= Cardinality(S)
  <2>1. S \in SUBSET M /\ W \in SUBSET S
    OBVIOUS
  <2>2. IsFiniteSet(S)
    BY <2>1, FS_Subset
  <2> QED BY <2>1, <2>2, FS_Subset
<1>2. Cardinality(W) \in Nat
  BY <1>1, FS_CardinalityType
<1> DEFINE T == First(S, Cardinality(W))
<1>3. Cardinality(T) = Cardinality(W)
  BY <1>1, <1>2, FirstCount
<1>4. M \cap T = T /\ M \cap W = W
  BY DEF First
<1> HIDE DEF T
<1>5. /\ Cardinality(M \ T) = Cardinality(M) - Cardinality(T)
      /\ Cardinality(M \ W) = Cardinality(M) - Cardinality(W)
  BY <1>4, FS_Difference
<1> QED BY <1>3, <1>5 DEF T

LEMMA WordPage ==
    ASSUME NEW it, it.kind = "word", it.form = "plain"
    PROVE  PageOf(it) = <<it.to>> /\ TextOf(it) = <<it.to>>
<1>1. Swallowed(it) = <<>>
  BY DEF Swallowed
<1>2. <<it.to>> \o <<>> = <<it.to>>
  OBVIOUS
<1> QED BY <1>1, <1>2 DEF PageOf, TextOf

\* A link to a local page, or a name in prose, as an anchor; and a file.
LEMMA PageAnchor ==
    ASSUME NEW it, NEW w, NEW live, NEW a, a = AnchorOf(it, w, live), HasAnchor(it)
    PROVE  /\ a.class = "wiki" <=> it.kind \in {"page", "word"}
           /\ it.kind \in {"page", "word"} =>
                 a.page = PageOf(it) /\ a.missing = (<<"page">> \o PageOf(it) \notin w)
           /\ a.class = "file" <=> it.kind = "file"
           /\ it.kind = "file" /\ it.form = "bare" /\ ~live => a.missing
<1>1. it.kind \in {"page", "word", "number", "file", "remote"}
  BY AnchorKinds
<1>2. a.class = CASE it.kind \in {"page", "word"} -> "wiki"
                  [] it.kind = "number" -> "ticket"
                  [] OTHER -> it.kind
  BY DEF AnchorOf
<1>3. it.kind \in {"page", "word"} => Atom(it) = <<"page">> \o PageOf(it)
  BY DEF Atom
<1>4. it.kind \in {"page", "word"} => a.page = PageOf(it) /\ a.missing = (Atom(it) \notin w)
  BY DEF AnchorOf
<1>5. it.kind = "file" /\ it.form = "bare" /\ ~live => a.missing
  BY DEF AnchorOf
<1> QED BY <1>1, <1>2, <1>3, <1>4, <1>5

LinksAt(facts, doc, dest) ==
    {i \in MissingAt(facts) : doc[i].kind \in {"page", "word"} /\ PageOf(doc[i]) = dest}

\* The links to a page that is missing: those left are those written as links.
LEMMA PagesCounted ==
    ASSUME NEW doc, IsFiniteSet(DOMAIN doc), DOMAIN doc \subseteq Int, NEW w, NEW live,
           NEW facts, facts = extract_facts(doc, w, live), NEW dest
    PROVE  Cardinality(LinksAt(facts, doc, dest) \ Incidental(facts, doc))
             = Cardinality({i \in LinksAt(facts, doc, dest) : doc[i].kind = "page"})
<1> DEFINE links == LinksAt(facts, doc, dest)
<1>0. /\ links \in SUBSET MissingAt(facts)
      /\ \A i \in MissingAt(facts) : i \in links <=>
            doc[i].kind \in {"page", "word"} /\ PageOf(doc[i]) = dest
  BY DEF LinksAt
<1> HIDE DEF links
<1> SUFFICES Cardinality(links \ Incidental(facts, doc))
               = Cardinality({i \in links : doc[i].kind = "page"})
  BY DEF links
<1> USE <1>0
<1> DEFINE A == facts.anchors
           S == NamedAt(facts, dest)
           W == {i \in DOMAIN doc : IsAutolink(doc[i], dest)}
<1>1. DOMAIN A = Linked(doc) /\ \A i \in Linked(doc) : A[i] = AnchorOf(doc[i], w, live)
  BY Anchors
<1>2. /\ Linked(doc) \subseteq DOMAIN doc /\ \A i \in Linked(doc) : HasAnchor(doc[i])
      /\ \A i \in DOMAIN doc : HasAnchor(doc[i]) => i \in Linked(doc)
  BY DEF Linked
<1>3. MissingAt(facts) = {i \in Linked(doc) : A[i].missing}
  BY <1>1 DEF MissingAt
<1> HIDE DEF A
<1>4. ASSUME NEW i \in Linked(doc)
      PROVE  /\ A[i].class = "wiki" <=> doc[i].kind \in {"page", "word"}
             /\ doc[i].kind \in {"page", "word"} =>
                   /\ A[i].page = PageOf(doc[i])
                   /\ A[i].missing = (<<"page">> \o PageOf(doc[i]) \notin w)
  BY <1>1, <1>2, PageAnchor
<1>5. CASE links = {}
  BY <1>5
<1>6. CASE links # {}
  <2>1. <<"page">> \o dest \notin w
    BY <1>3, <1>4, <1>6
  <2>2. S \subseteq links
    BY <1>3, <1>4 DEF NamedAt, autolinked_page_name, A
  <2>3. ASSUME NEW i \in W PROVE i \in S
    <3>1. /\ doc[i].kind = "word" /\ doc[i].place = "prose" /\ doc[i].form = "plain"
          /\ <<doc[i].to>> = dest /\ doc[i].to \in AutoLinked
      BY DEF IsAutolink
    <3>2. i \in Linked(doc)
      BY <1>2, <3>1 DEF HasAnchor
    <3>3. PageOf(doc[i]) = dest /\ TextOf(doc[i]) = dest
      BY <3>1, WordPage
    <3>4. A[i].missing /\ A[i].class = "wiki" /\ A[i].page = dest
      BY <1>4, <2>1, <3>1, <3>2, <3>3
    <3>5. A[i].text = dest
      <4>1. AnchorOf(doc[i], w, live).text = TextOf(doc[i])
        BY DEF AnchorOf
      <4> QED BY <1>1, <3>2, <3>3, <4>1
    <3> QED BY <1>3, <3>2, <3>4, <3>5 DEF NamedAt, autolinked_page_name, A
  <2>4. {i \in links : doc[i].kind = "page"} = links \ W
    <3>1. ASSUME NEW i \in links, doc[i].kind = "word" PROVE i \in W
      <4>1. HasAnchor(doc[i]) /\ PageOf(doc[i]) = dest /\ i \in DOMAIN doc
        BY <1>2, <1>3
      <4>2. doc[i].place = "prose" /\ doc[i].form = "plain" /\ doc[i].to \in AutoLinked
        BY <3>1, <4>1 DEF HasAnchor
      <4> QED BY <3>1, <4>1, <4>2, WordPage DEF IsAutolink
    <3>2. \A i \in W : doc[i].kind = "word"
      BY DEF IsAutolink
    <3> HIDE DEF W
    <3> QED BY <3>1, <3>2
  <2>5. links \cap Incidental(facts, doc) = First(S, bare_autolinks(doc, dest))
    <3>1. ASSUME NEW i \in links
          PROVE  i \in Incidental(facts, doc) <=>
                   /\ autolinked_page_name(A[i]) /\ dest[1] \in AutoLinked
                   /\ i \in First(S, bare_autolinks(doc, dest))
      <4>1. A[i].page = dest /\ i \in MissingAt(facts)
        BY <1>3, <1>4
      <4> QED BY <4>1 DEF Incidental, A
    <3>2. ASSUME NEW i \in First(S, bare_autolinks(doc, dest))
          PROVE  i \in links /\ autolinked_page_name(A[i]) /\ dest[1] \in AutoLinked
      <4>1. i \in S /\ Cardinality({j \in S : j < i}) < bare_autolinks(doc, dest)
        BY DEF First
      <4>2. i \in links /\ autolinked_page_name(A[i])
        BY <2>2, <4>1 DEF NamedAt, A
      <4>3. W # {}
        <5>1. ASSUME W = {} PROVE FALSE
          <6>1. bare_autolinks(doc, dest) = 0
            BY <5>1, FS_EmptySet DEF bare_autolinks
          <6>2. Cardinality({j \in S : j < i}) \in Nat
            <7>1. {j \in S : j < i} \in SUBSET DOMAIN doc
              BY <1>2, <1>3, <2>2
            <7> HIDE DEF S
            <7>2. IsFiniteSet({j \in S : j < i})
              BY <7>1, FS_Subset
            <7> QED BY <7>2, FS_CardinalityType
          <6> QED BY <4>1, <6>1, <6>2
        <5> QED BY <5>1
      <4>4. PICK k \in W : TRUE
        BY <4>3
      <4>5. dest = <<doc[k].to>> /\ doc[k].to \in AutoLinked
        BY <4>4 DEF IsAutolink
      <4>6. dest[1] = doc[k].to
        BY <4>5
      <4> QED BY <4>2, <4>5, <4>6
    <3> HIDE DEF S
    <3> QED BY <3>1, <3>2
  <2>6. IsFiniteSet(links) /\ links \subseteq Int
    <3>1. links \in SUBSET DOMAIN doc
      BY <1>2, <1>3
    <3> QED BY <3>1, FS_Subset
  <2>7. bare_autolinks(doc, dest) = Cardinality(W)
    BY DEF bare_autolinks
  <2>8. links \ Incidental(facts, doc) = links \ First(S, Cardinality(W))
    <3> HIDE DEF S, W
    <3> QED BY <2>5, <2>7
  <2>9. W \subseteq S
    BY <2>3
  <2> HIDE DEF S, W
  <2>10. S \subseteq Int
    BY <2>2, <2>6
  <2>11. Cardinality(links \ First(S, Cardinality(W))) = Cardinality(links \ W)
    <3>1. S \in SUBSET links /\ S \in SUBSET Int /\ W \in SUBSET S
      BY <2>2, <2>9, <2>10
    <3> QED BY <2>6, <3>1, Excused
  <2> QED BY <2>4, <2>8, <2>11
<1> QED BY <1>5, <1>6

\* The files that are missing: those left are those the target does not have.
LEMMA FilesCounted ==
    ASSUME NEW doc, IsFiniteSet(DOMAIN doc), DOMAIN doc \subseteq Int, NEW w, NEW live,
           NEW facts, facts = extract_facts(doc, w, live), NEW found,
           live => found = NoContext,
           \A i \in DOMAIN doc : doc[i].place # "label"
    PROVE  Cardinality(FilesAt(facts) \ Cleared(facts, doc, found))
             = Cardinality({i \in FilesAt(facts) : doc[i].form # "bare" \/ found = NoContext
                                                     \/ doc[i].to \notin found[1]})
<1> DEFINE A == facts.anchors
           F == FilesAt(facts)
           V == {i \in DOMAIN doc : /\ found # NoContext
                                    /\ doc[i].kind = "file" /\ doc[i].form = "bare"
                                    /\ doc[i].place \in {"prose", "label"}
                                    /\ doc[i].to \in found[1]}
<1>1. DOMAIN A = Linked(doc) /\ \A i \in Linked(doc) : A[i] = AnchorOf(doc[i], w, live)
  BY Anchors
<1>2. /\ Linked(doc) \subseteq DOMAIN doc /\ \A i \in Linked(doc) : HasAnchor(doc[i])
      /\ \A i \in DOMAIN doc : HasAnchor(doc[i]) => i \in Linked(doc)
  BY DEF Linked
<1>3. F = {i \in Linked(doc) : A[i].missing /\ A[i].class = "file"}
  BY <1>1 DEF FilesAt, MissingAt
<1> HIDE DEF A
<1>4. \A i \in Linked(doc) :
         /\ A[i].class = "file" <=> doc[i].kind = "file"
         /\ doc[i].kind = "file" /\ doc[i].form = "bare" /\ ~live => A[i].missing
  BY <1>1, <1>2, PageAnchor
<1>5. V \subseteq F
  <2>1. ASSUME NEW i \in V PROVE i \in F
    <3>1. /\ found # NoContext /\ doc[i].kind = "file" /\ doc[i].form = "bare"
          /\ doc[i].place = "prose" /\ i \in DOMAIN doc
      OBVIOUS
    <3>2. i \in Linked(doc) /\ ~live
      BY <1>2, <3>1 DEF HasAnchor
    <3> QED BY <1>3, <1>4, <3>1, <3>2
  <2> QED BY <2>1
<1>6. bare_attachments(doc, found) = Cardinality(V)
  <2>1. CASE found = NoContext
    <3>1. V = {}
      BY <2>1
    <3> QED BY <2>1, <3>1, FS_EmptySet DEF bare_attachments
  <2>2. CASE found # NoContext
    BY <2>2 DEF bare_attachments, scanned
  <2> QED BY <2>1, <2>2
<1>7. {i \in F : doc[i].form # "bare" \/ found = NoContext \/ doc[i].to \notin found[1]}
        = F \ V
  <2>1. \A i \in F : i \in DOMAIN doc /\ doc[i].kind = "file" /\ doc[i].place = "prose"
    BY <1>2, <1>3, <1>4 DEF HasAnchor
  <2> HIDE DEF F
  <2> QED BY <2>1
<1>8. IsFiniteSet(F) /\ F \subseteq Int
  <2>1. F \in SUBSET DOMAIN doc
    BY <1>2, <1>3
  <2> QED BY <2>1, FS_Subset
<1>9. Cleared(facts, doc, found) = First(F, Cardinality(V))
  BY <1>6 DEF Cleared
<1> HIDE DEF F, V
<1>10. Cardinality(F \ First(F, Cardinality(V))) = Cardinality(F \ V)
  <2>1. V \in SUBSET F /\ F \in SUBSET Int /\ F \in SUBSET F
    BY <1>5, <1>8
  <2> QED BY <1>8, <2>1, Excused
<1> QED BY <1>7, <1>9, <1>10 DEF F

(***************************************************************************)
(* The checks of links: the inductive invariant.                           *)
(***************************************************************************)

\* Which steps an operation takes.
Staged ==
    /\ request \in Requests
    /\ op = "check" => stage \in {"begin", "html", "source", "changelog", "probe",
                                  "confirm", "judge", "done"}
    /\ op = "preview" => stage \in {"begin", "render", "probe", "confirm", "names",
                                    "comments", "judge", "done"}
    /\ op = "write" => stage \in {"begin", "comments", "names", "render", "probe",
                                  "confirm", "judge", "store", "done"}
    /\ stage # "done" => answer = "none"

\* What exists now existed at some time; what existed all the time, does.
Moves == always \subseteq world /\ world \subseteq was

\* The texts are finite.  The ticket that is checked as it is shown has its
\* attachments resolved, and no names of them are asked for.
IsText(doc) == \E n \in Nat : DOMAIN doc = 1 .. n

Texts ==
    /\ field \in DOMAIN request.fields
    /\ \A k \in DOMAIN stored : IsText(stored[k])
    /\ op = "check" => names = NoContext

\* Every text that is judged was rendered at some time of the call.
RenderedAt(s, w, live) ==
    \E doc, source : /\ IsText(doc)
                     /\ s = Section(doc, source, extract_facts(doc, w, live))

Rendered ==
    \A k \in DOMAIN sections :
        \E w : /\ always \subseteq w /\ w \subseteq was
               /\ RenderedAt(sections[k], w, op = "check")

\* What an instance may answer of a target, and what it takes for that.
Refuses(base) ==
    LET hops == Hops(base)
    IN \E k \in DOMAIN hops :
          ~InScope(hops[k]) \/ (Instances[hops[k]].asks /\ ~Carries(hops, k))
Failed(base) == Refuses(base) \/ \E b \in ToSet(Hops(base)) : <<"up", b>> \notin always
Worked(base) == ~Refuses(base) /\ \A b \in ToSet(Hops(base)) : <<"up", b>> \in was
Wavered(base) == \E b \in ToSet(Hops(base)) : <<"up", b>> \in was \ always

Outcomes == {"exists", "missing", "error", "capped", "not allowed", "provisional"}

ProbedTruly(h, outcome) ==
    /\ outcome \in Outcomes
    /\ outcome = "exists" => Address(h) \in was
    /\ outcome = "missing" => Address(h) \notin always \/ Wavered(h.base)
    /\ outcome \in {"exists", "missing"} => ~Refuses(h.base)
    /\ outcome = "provisional" => Address(h) \notin always \/ Failed(h.base)

Probed ==
    /\ \A h \in DOMAIN probes : ProbedTruly(h, probes[h])
    /\ \A b \in DOMAIN healthy : healthy[b] => Worked(b)

\* No outcome is left to be confirmed when the texts are judged.
ConfirmedBefore ==
    stage = "judge" \/ (op = "preview" /\ stage \in {"names", "comments"}) =>
        Provisional = {}

\* The comments known of a ticket: those it has all the time, and while
\* nobody else changes it the one that this write will add.
KnownTruly ==
    request.target = "ticket" /\ known # NoContext =>
        /\ \A n : n \notin known[1] => <<"comment", n>> \notin always
        /\ changes = 0 /\ answer # "stored" => last + 1 \in known[1]

LookedInv ==
    /\ Staged /\ changes \in Nat /\ Texts
    /\ Moves /\ Rendered /\ Probed /\ ConfirmedBefore /\ KnownTruly

(***************************************************************************)
(* The steps.                                                              *)
(***************************************************************************)

\* The hops of a request have numbers.
LEMMA HopsAreASequence ==
    ASSUME NEW base, NEW k \in DOMAIN Hops(base)
    PROVE  k \in Nat \ {0}
<1>1. CASE base \in DOMAIN Redirects
  <2>1. DOMAIN Hops(base) = 1 .. (1 + Len(Redirects[base]))
    BY <1>1, LinkAssumption DEF LinkAssumption, IsSequence, Hops
  <2> QED BY <2>1, <1>1, LinkAssumption DEF LinkAssumption, IsSequence
<1>2. CASE base \notin DOMAIN Redirects
  <2>1. DOMAIN Hops(base) = 1 .. 1
    BY <1>2 DEF Hops
  <2> QED BY <2>1
<1> QED BY <1>1, <1>2

\* A call has a text to check.
LEMMA RequestTexts ==
    ASSUME request \in Requests
    PROVE  /\ Len(request.fields) \in Nat \ {0}
           /\ DOMAIN request.fields = 1 .. Len(request.fields)
           /\ \A k \in DOMAIN request.fields : IsText(request.fields[k])
<1>1. /\ IsSequence(request.fields) /\ request.fields # <<>>
      /\ \A k \in DOMAIN request.fields : IsSequence(request.fields[k])
  BY LinkAssumption DEF LinkAssumption
<1>2. \A k \in DOMAIN request.fields : IsText(request.fields[k])
  BY <1>1 DEF IsSequence, IsText
<1>3. Len(request.fields) # 0
  BY <1>1 DEF IsSequence
<1> QED BY <1>1, <1>2, <1>3 DEF IsSequence

\* The order of the steps.
LEMMA Order ==
    /\ op = "write" => /\ StageAfter("comments") = "names"
                       /\ StageAfter("names") = "render"
                       /\ StageAfter("render") = "probe"
                       /\ StageAfter("confirm") = "judge"
    /\ op = "preview" => /\ StageAfter("render") = "probe"
                         /\ StageAfter("confirm") = "names"
                         /\ StageAfter("names") = "comments"
                         /\ StageAfter("comments") = "judge"
    /\ op = "check" => StageAfter("confirm") = "judge"
<1>1. CASE op = "write"
  BY <1>1 DEF StageAfter, Stages
<1>2. CASE op = "preview"
  BY <1>2 DEF StageAfter, Stages
<1>3. CASE op = "check"
  BY <1>3 DEF StageAfter, Stages
<1> QED BY <1>1, <1>2, <1>3

\* The world moves by the others, and by the write itself.
LEMMA WorldMoves ==
    ASSUME Moves, changes \in Nat, [Next]_vars
    PROVE  /\ Moves' /\ always' \subseteq always /\ was \subseteq was'
           /\ request' = request
           /\ changes' \in Nat /\ (changes' = 0 => changes = 0)
           /\ changes' = changes \/ (changes' # 0 /\ UNCHANGED <<answer, judged>>)
           /\ Change \/ store \/ UNCHANGED envVars
           /\ ~Change => UNCHANGED changes
<1> USE DEF envVars, Moves
<1>1. CASE Change
  BY <1>1 DEF Change, BecomesOf, outVars
<1>2. CASE store
  BY <1>2 DEF store, BecomesOf
<1>3. CASE ~Change /\ ~store
  BY <1>3 DEF Next, vars, Begin, known_comment_numbers, attachment_names,
              wiki_to_html, html, ticket_source, changelog, check_raises, probe_one, probed,
              instance_answers, confirm_provisional, judge
<1> QED BY <1>1, <1>2, <1>3

LEMMA RequestStays == [Next]_vars => request' = request
<1> SUFFICES ASSUME Next PROVE request' = request
  BY DEF vars
<1>1. CASE Change \/ Begin \/ known_comment_numbers \/ attachment_names \/ judge
  BY <1>1 DEF Change, Begin, known_comment_numbers, attachment_names, judge
<1>2. CASE wiki_to_html \/ html \/ ticket_source \/ changelog \/ check_raises \/ store
  BY <1>2 DEF wiki_to_html, html, ticket_source, changelog, check_raises, store
<1>3. CASE probe_one \/ probed \/ instance_answers \/ confirm_provisional
  BY <1>3 DEF probe_one, probed, instance_answers, confirm_provisional
<1> QED BY <1>1, <1>2, <1>3 DEF Next

LEMMA StagedStep == Staged /\ [Next]_vars => Staged'
<1> SUFFICES ASSUME Staged, [Next]_vars PROVE Staged'
  OBVIOUS
<1>1. request \in Requests /\ op \in {"write", "preview", "check"}
  BY LinkAssumption DEF LinkAssumption, Staged, op
<1>2. CASE UNCHANGED <<request, stage, answer>>
  BY <1>2 DEF Staged, op
<1>3. CASE Begin
  <2>1. /\ op = "write" => Stages[op][1] = "comments"
        /\ op = "preview" => Stages[op][1] = "render"
        /\ op = "check" => Stages[op][1] = "html"
    BY DEF Stages
  <2> QED BY <1>1, <1>3, <2>1 DEF Staged, Begin, op
<1>4. CASE known_comment_numbers \/ attachment_names \/ probed \/ confirm_provisional
  BY <1>1, <1>4, Order DEF Staged, op, known_comment_numbers, attachment_names, probed,
                           confirm_provisional, outVars
<1>5. CASE wiki_to_html
  <2>1. stage = "render" /\ op \in {"write", "preview"} /\ request' = request
    BY <1>1, <1>5 DEF wiki_to_html, Staged
  <2>2. \/ op = "write" /\ stage' \in {"store", "render"} /\ answer' = answer
        \/ stage' = "probe" /\ answer' = answer
        \/ stage' = "done"
    BY <1>5, <2>1, Order DEF wiki_to_html, NextField, Unchecked
  <2> QED BY <2>1, <2>2 DEF Staged, op
<1>6. CASE html \/ ticket_source \/ changelog
  BY <1>1, <1>6 DEF Staged, op, html, ticket_source, changelog, check_raises, outVars
<1>7. CASE judge
  BY <1>1, <1>7 DEF Staged, op, judge, NextField
<1>8. CASE store
  BY <1>1, <1>8 DEF Staged, op, store
<1>9. Change \/ probe_one \/ instance_answers => UNCHANGED <<request, stage, answer>>
  BY DEF Change, probe_one, instance_answers, outVars
<1>10. CASE check_raises
  BY <1>1, <1>10 DEF Staged, op, check_raises, Unchecked, NextField
<1> QED BY <1>2, <1>3, <1>4, <1>5, <1>6, <1>7, <1>8, <1>9, <1>10
        DEF Next, vars, outVars

(***************************************************************************)
(* The gate judges every field of a write, or says so.                     *)
(***************************************************************************)

FieldDone(k) ==
    \/ request.fields[k] = <<>> \/ k \in notes
    \/ \E j \in judged : /\ j.section.shown = request.fields[k]
                         /\ ~\E f \in j.findings : is_blocking(f)

\* The fields are gone through in their order; none is left when it comes
\* to the write; and the text that is probed and judged is this field's.
FieldsInOrder ==
    /\ field \in Nat \ {0} /\ notes \subseteq Nat \ {0}
    /\ \A k \in DOMAIN request.fields : k < field => FieldDone(k)
    /\ stage = "store" \/ answer = "stored" =>
          \A k \in DOMAIN request.fields : FieldDone(k)
    /\ stage \in {"probe", "confirm", "judge"} =>
          \E s \in ToSet(sections) : s.shown = request.fields[field]

GateInv ==
    Staged /\ (op = "write" =>
                  (notes = {0} /\ stage \in {"store", "done"}) \/ FieldsInOrder)

LEMMA DoneStays ==
    ASSUME UNCHANGED request, notes \subseteq notes', judged \subseteq judged',
           NEW k, FieldDone(k)
    PROVE  FieldDone(k)'
BY DEF FieldDone

\* The next field, when this one is done.
LEMMA NextFieldKeeps ==
    ASSUME request \in Requests, FieldsInOrder, NextField, UNCHANGED request,
           notes \subseteq notes', notes' \subseteq Nat \ {0}, judged \subseteq judged',
           answer' = answer, NEW this, this = field, FieldDone(this)'
    PROVE  FieldsInOrder'
<1>1. Len(request.fields) \in Nat /\ DOMAIN request.fields = 1 .. Len(request.fields)
  BY RequestTexts
<1>2. \A k \in DOMAIN request.fields : k <= field => FieldDone(k)'
  BY <1>1, DoneStays DEF FieldsInOrder
<1>3. answer = "stored" => \A k \in DOMAIN request.fields : FieldDone(k)'
  BY DoneStays DEF FieldsInOrder
<1>4. CASE field = Len(request.fields)
  <2>1. stage' = "store" /\ field' = field
    BY <1>4 DEF NextField
  <2>2. \A k \in DOMAIN request.fields : FieldDone(k)'
    BY <1>1, <1>2, <1>4 DEF FieldsInOrder
  <2> QED BY <2>1, <2>2 DEF FieldsInOrder
<1>5. CASE field # Len(request.fields)
  <2>1. stage' = "render" /\ field' = field + 1
    BY <1>5 DEF NextField
  <2>2. \A k \in DOMAIN request.fields : k < field + 1 => FieldDone(k)'
    BY <1>1, <1>2 DEF FieldsInOrder
  <2> QED BY <1>3, <2>1, <2>2 DEF FieldsInOrder
<1> QED BY <1>4, <1>5

\* A step that stays with the field.
LEMMA SameField ==
    ASSUME FieldsInOrder, UNCHANGED <<request, field, notes>>, judged \subseteq judged',
           stage' = "store" \/ answer' = "stored" =>
               stage = "store" \/ answer = "stored",
           stage' \in {"probe", "confirm", "judge"} =>
               \E s \in ToSet(sections') : s.shown = request.fields[field]
    PROVE  FieldsInOrder'
<1>1. \A k \in DOMAIN request.fields : FieldDone(k) => FieldDone(k)'
  BY DoneStays
<1> QED BY <1>1 DEF FieldsInOrder

LEMMA GateStep == GateInv /\ [Next]_vars => GateInv'
<1> SUFFICES ASSUME GateInv, [Next]_vars, op = "write"
             PROVE  (notes = {0} /\ stage \in {"store", "done"})' \/ FieldsInOrder'
  <2>1. [Next]_vars => request' = request
    BY RequestStays
  <2> QED BY <2>1, StagedStep DEF GateInv, op
<1>1. /\ request \in Requests
      /\ stage \in {"begin", "comments", "names", "render", "probe", "confirm",
                    "judge", "store", "done"}
      /\ stage # "done" => answer = "none"
  BY DEF GateInv, Staged
<1>2. CASE notes = {0} /\ stage \in {"store", "done"}
  BY <1>2 DEF Next, vars, outVars, Change, Begin, known_comment_numbers,
              attachment_names, wiki_to_html, html, ticket_source, changelog, check_raises,
              probe_one, probed, instance_answers, confirm_provisional, judge, store
<1>3. CASE FieldsInOrder
  <2>1. CASE UNCHANGED vars
    BY <1>3, <2>1 DEF vars, outVars, FieldsInOrder, FieldDone
  <2>2. CASE Change
    <3>1. UNCHANGED <<request, field, notes, judged, sections, stage, answer>>
      BY <2>2 DEF Change, outVars
    <3> QED BY <1>3, <3>1 DEF FieldsInOrder, FieldDone
  <2>3. CASE Begin
    <3>1. Stages["write"][1] = "comments"
      BY DEF Stages
    <3>2. CASE ~request.gate
      BY <2>3, <3>2 DEF Begin
    <3>3. CASE request.gate
      <4>1. stage' = "comments" /\ UNCHANGED <<request, field, notes, judged, answer>>
        BY <2>3, <3>1, <3>3 DEF Begin
      <4> QED BY <1>3, <4>1, SameField, <1>1, <2>3 DEF Begin
    <3> QED BY <3>2, <3>3
  <2>4. CASE known_comment_numbers \/ attachment_names
    <3>1. /\ stage' \in {"names", "render"}
          /\ UNCHANGED <<request, field, notes, judged, answer>>
      BY <2>4, Order DEF known_comment_numbers, attachment_names, outVars
    <3> QED BY <1>3, <3>1, SameField
  <2>5. CASE wiki_to_html
    <3> DEFINE draft == request.fields[field]
    <3>1. /\ UNCHANGED <<request, judged>>
          /\ \/ NextField /\ UNCHANGED <<notes, answer>> /\ draft = <<>>
             \/ NextField /\ answer' = answer /\ notes' = notes \cup {field}
             \/ /\ sections' = <<Section(draft, <<draft>>,
                                         extract_facts(draft, world, FALSE))>>
                /\ UNCHANGED <<field, notes, answer>> /\ stage' = "probe"
      BY <2>5, Order DEF wiki_to_html, Unchecked, ProbeNext
    <3>2. /\ field \in Nat \ {0} /\ notes \subseteq Nat \ {0}
          /\ NextField => UNCHANGED field \/ field' = field + 1
      BY <1>3 DEF FieldsInOrder, NextField
    <3>3. PICK this : this = field
      OBVIOUS
    <3>4. CASE NextField /\ UNCHANGED <<notes, answer>> /\ draft = <<>>
      <4>1. FieldDone(this)'
        BY <3>1, <3>3, <3>4 DEF FieldDone
      <4> HIDE DEF draft
      <4> QED BY <1>1, <1>3, <3>1, <3>2, <3>3, <3>4, <4>1, NextFieldKeeps
    <3>5. CASE NextField /\ answer' = answer /\ notes' = notes \cup {field}
      <4>1. FieldDone(this)'
        BY <3>3, <3>5 DEF FieldDone
      <4> QED BY <1>1, <1>3, <3>1, <3>2, <3>3, <3>5, <4>1, NextFieldKeeps
    <3>6. CASE /\ sections' = <<Section(draft, <<draft>>,
                                        extract_facts(draft, world, FALSE))>>
               /\ UNCHANGED <<field, notes, answer>> /\ stage' = "probe"
      <4>1. \E s \in ToSet(sections') : s.shown = draft
        <5> DEFINE s == Section(draft, <<draft>>, extract_facts(draft, world, FALSE))
        <5>1. s.shown = draft
          BY DEF Section
        <5> HIDE DEF s, draft
        <5>2. s \in ToSet(<<s>>)
          BY DEF ToSet
        <5> QED BY <3>6, <5>1, <5>2 DEF s
      <4> QED BY <1>1, <1>3, <3>1, <3>6, <4>1, SameField
    <3> QED BY <3>1, <3>4, <3>5, <3>6
  <2>6. CASE probe_one \/ probed \/ instance_answers \/ confirm_provisional
    <3>1. /\ stage' \in {"probe", "confirm", "judge"}
          /\ stage \in {"probe", "confirm", "judge"}
          /\ UNCHANGED <<request, field, notes, judged, answer, sections>>
      BY <2>6, Order DEF probe_one, probed, instance_answers, confirm_provisional, outVars
    <3>2. \E s \in ToSet(sections) : s.shown = request.fields[field]
      BY <1>3, <3>1 DEF FieldsInOrder
    <3> QED BY <1>1, <1>3, <3>1, <3>2, SameField
  <2>7. CASE judge
    <3>1. /\ stage = "judge" /\ UNCHANGED <<request, sections, notes>>
          /\ judged \subseteq judged'
      BY <2>7 DEF judge, probeVars
    <3>2. CASE blocking
      <4>1. stage' = "done" /\ answer' = "refused" /\ field' = field
        BY <2>7, <3>2 DEF judge
      <4> QED BY <1>3, <3>1, <4>1, SameField
    <3>3. CASE ~blocking
      <4>1. NextField /\ answer' = answer
        BY <2>7, <3>3 DEF judge
      <4>2. PICK s \in ToSet(sections) : s.shown = request.fields[field]
        BY <1>3, <3>1 DEF FieldsInOrder
      <4>3. ~\E f \in Findings(s) : is_blocking(f)
        BY <3>3 DEF blocking
      <4>4. \E j \in judged' : j.section = s /\ j.findings = Findings(s)
        <5>1. \E r : /\ r = [section |-> s, findings |-> Findings(s), names |-> names,
                             known |-> known, unprobed |-> {h \in DOMAIN probes :
                                  probes[h] \in {"capped", "error", "not allowed"}}]
                     /\ r \in judged'
          BY <2>7, <4>2 DEF judge
        <5>2. PICK r : /\ r = [section |-> s, findings |-> Findings(s), names |-> names,
                               known |-> known, unprobed |-> {h \in DOMAIN probes :
                                    probes[h] \in {"capped", "error", "not allowed"}}]
                       /\ r \in judged'
          BY <5>1
        <5>3. r.section = s /\ r.findings = Findings(s)
          BY <5>2
        <5> QED BY <5>2, <5>3
      <4>5. PICK this : this = field
        OBVIOUS
      <4>6. FieldDone(this)'
        BY <3>1, <4>2, <4>3, <4>4, <4>5 DEF FieldDone
      <4>7. notes \subseteq Nat \ {0}
        BY <1>3 DEF FieldsInOrder
      <4> QED BY <1>1, <1>3, <3>1, <4>1, <4>5, <4>6, <4>7, NextFieldKeeps
    <3> QED BY <3>2, <3>3
  <2>8. CASE store
    <3>1. /\ stage = "store" /\ stage' = "done"
          /\ UNCHANGED <<request, field, notes, judged, sections>>
      BY <2>8 DEF store
    <3> QED BY <1>3, <3>1, SameField
  <2>9. ~html /\ ~ticket_source /\ ~changelog
    BY <1>1 DEF html, ticket_source, changelog
  <2>10. CASE check_raises
    <3>1. /\ NextField /\ answer' = answer /\ notes' = notes \cup {field}
          /\ UNCHANGED <<request, judged, sections>>
      BY <2>10 DEF check_raises, Unchecked
    <3>2. PICK this : this = field
      OBVIOUS
    <3>3. FieldDone(this)' /\ field \in Nat \ {0} /\ notes \subseteq Nat \ {0}
      BY <1>3, <3>1, <3>2 DEF FieldDone, FieldsInOrder
    <3>4. notes' \subseteq Nat \ {0}
      BY <3>1, <3>3
    <3> QED BY <1>1, <1>3, <3>1, <3>2, <3>3, <3>4, NextFieldKeeps
  <2> QED BY <2>1, <2>2, <2>3, <2>4, <2>5, <2>6, <2>7, <2>8, <2>9, <2>10 DEF Next
<1> QED BY <1>2, <1>3 DEF GateInv

\* What was stored had every field judged and found good, or the answer says
\* that it was not looked at.
THEOREM UncheckedSaid == Spec => []UncheckedIsSaid
<1>1. Init => GateInv
  <2> SUFFICES ASSUME Init PROVE GateInv
    OBVIOUS
  <2>1. Staged
    BY LinkAssumption DEF LinkAssumption, Init, Staged, op
  <2>2. Len(request.fields) \in Nat /\ DOMAIN request.fields = 1 .. Len(request.fields)
    BY RequestTexts DEF Init
  <2>3. FieldsInOrder
    BY <2>2 DEF Init, FieldsInOrder
  <2> QED BY <2>1, <2>3 DEF GateInv
<1>2. GateInv /\ [Next]_vars => GateInv'
  BY GateStep
<1>3. GateInv => UncheckedIsSaid
  BY DEF GateInv, FieldsInOrder, FieldDone, UncheckedIsSaid
<1> QED BY <1>1, <1>2, <1>3, PTL DEF Spec

(***************************************************************************)
(* What is judged was rendered, probed and confirmed.                      *)
(***************************************************************************)

LEMMA TextsStep ==
    ASSUME Staged, Texts, [Next]_vars, request' = request
    PROVE  Texts'
<1>1. /\ Len(request.fields) \in Nat \ {0}
      /\ DOMAIN request.fields = 1 .. Len(request.fields)
      /\ \A k \in DOMAIN request.fields : IsText(request.fields[k])
  BY RequestTexts DEF Staged
<1>2. field' \in DOMAIN request'.fields
  <2>1. UNCHANGED field \/ NextField
    BY DEF Next, vars, Change, Begin, known_comment_numbers, attachment_names,
           wiki_to_html, Unchecked, html, ticket_source, changelog, check_raises, probe_one, probed,
           instance_answers, confirm_provisional, judge, store
  <2> QED BY <1>1, <2>1 DEF NextField, Texts
<1>3. \A k \in DOMAIN stored' : IsText(stored'[k])
  <2>1. CASE UNCHANGED stored
    BY <2>1 DEF Texts
  <2>2. CASE \E k \in DOMAIN stored, x \in Edits : stored' = [stored EXCEPT ![k] = x]
    <3>1. PICK i \in DOMAIN stored, x \in Edits : stored' = [stored EXCEPT ![i] = x]
      BY <2>2
    <3>2. IsText(x)
      BY LinkAssumption DEF LinkAssumption, IsSequence, IsText
    <3> QED BY <3>1, <3>2 DEF Texts
  <2>3. \/ UNCHANGED stored
        \/ \E k \in DOMAIN stored, x \in Edits : stored' = [stored EXCEPT ![k] = x]
    BY DEF Next, vars, envVars, Change, Begin, known_comment_numbers, attachment_names,
           wiki_to_html, html, ticket_source, changelog, check_raises, probe_one, probed,
           instance_answers, confirm_provisional, judge, store
  <2> QED BY <2>1, <2>2, <2>3
<1>4. op' = "check" => names' = NoContext
  BY DEF Next, vars, Change, Begin, known_comment_numbers, attachment_names,
         wiki_to_html, html, ticket_source, changelog, check_raises, probe_one, probed,
         instance_answers, confirm_provisional, judge, store, Staged, Texts, op
<1> QED BY <1>2, <1>3, <1>4 DEF Texts

LEMMA RenderedStep ==
    ASSUME Staged, Texts, Moves, Rendered, [Next]_vars,
           always' \subseteq always, was \subseteq was', request' = request
    PROVE  Rendered'
<1> DEFINE Shown(s) == \E w : /\ always' \subseteq w /\ w \subseteq was'
                             /\ RenderedAt(s, w, op = "check")
<1> SUFFICES ASSUME NEW k \in DOMAIN sections' PROVE Shown(sections'[k])
  BY DEF Rendered, op
<1>1. ASSUME k \in DOMAIN sections, sections'[k] = sections[k]
      PROVE  Shown(sections'[k])
  <2>1. PICK w : /\ always \subseteq w /\ w \subseteq was
                 /\ RenderedAt(sections[k], w, op = "check")
    BY <1>1 DEF Rendered
  <2> QED BY <1>1, <2>1
<1>2. ASSUME RenderedAt(sections'[k], world, op = "check"), UNCHANGED envVars
      PROVE  Shown(sections'[k])
  BY <1>2 DEF envVars, Moves
<1>3. CASE wiki_to_html
  <2> DEFINE draft == request.fields[field]
             doc == IF op = "preview" /\ request.markdown THEN Convert(draft) ELSE draft
             new == Section(doc, <<doc>>, extract_facts(doc, world, FALSE))
  <2>1. UNCHANGED envVars /\ (UNCHANGED sections \/ sections' = <<new>>)
    BY <1>3 DEF wiki_to_html, ProbeNext
  <2>2. RenderedAt(new, world, op = "check")
    <3>1. op # "check"
      BY <1>3 DEF wiki_to_html, Staged
    <3>2. IsText(doc)
      <4>1. PICK n \in Nat : DOMAIN draft = 1 .. n
        BY RequestTexts DEF Texts, Staged, IsText
      <4> HIDE DEF draft
      <4>2. DOMAIN Convert(draft) = DOMAIN draft
        BY DEF Convert
      <4> QED BY <4>1, <4>2 DEF IsText
    <3> HIDE DEF draft, doc
    <3> QED BY <3>1, <3>2 DEF RenderedAt, new
  <2> HIDE DEF new
  <2>3. CASE sections' = <<new>>
    <3>1. sections'[k] = new
      BY <2>3
    <3> QED BY <1>2, <2>1, <2>2, <3>1
  <2> QED BY <1>1, <2>1, <2>3
<1>4. CASE html
  <2>1. UNCHANGED envVars
    BY <1>4 DEF html
  <2>2. CASE UNCHANGED sections
    BY <1>1, <2>2
  <2>3. CASE ~UNCHANGED sections
    <3>1. sections' = [j \in {i \in DOMAIN stored : i = 1 \/ stored[i] # <<>>} |->
              Section(stored[j], NoContext, extract_facts(stored[j], world, TRUE))]
      BY <1>4, <2>3 DEF html
    <3>2. sections'[k] =
            Section(stored[k], NoContext, extract_facts(stored[k], world, TRUE))
      BY <3>1
    <3>3. op = "check"
      BY <1>4, LinkAssumption DEF LinkAssumption, html, Staged, op
    <3>4. RenderedAt(sections'[k], world, op = "check")
      <4>1. IsText(stored[k])
        BY <3>1 DEF Texts
      <4> QED BY <3>2, <3>3, <4>1 DEF RenderedAt
    <3> QED BY <1>2, <2>1, <3>4
  <2> QED BY <2>2, <2>3
<1>5. ASSUME k \in DOMAIN sections, NEW x,
             sections'[k] = [sections[k] EXCEPT !.source = x]
      PROVE  Shown(sections'[k])
  <2>1. PICK w : /\ always \subseteq w /\ w \subseteq was
                 /\ RenderedAt(sections[k], w, op = "check")
    BY <1>5 DEF Rendered
  <2>2. RenderedAt(sections'[k], w, op = "check")
    <3>1. PICK doc, source :
             /\ IsText(doc)
             /\ sections[k] = Section(doc, source, extract_facts(doc, w, op = "check"))
      BY <2>1 DEF RenderedAt
    <3>2. sections'[k] = Section(doc, x, extract_facts(doc, w, op = "check"))
      BY <1>5, <3>1 DEF Section
    <3> QED BY <3>1, <3>2 DEF RenderedAt
  <2> QED BY <2>1, <2>2
<1>6. CASE ticket_source
  <2>1. sections' = [sections EXCEPT ![1].source = <<stored[1]>>]
    BY <1>6 DEF ticket_source
  <2>2. k \in DOMAIN sections
    BY <2>1
  <2>3. CASE k = 1
    BY <1>5, <2>1, <2>2, <2>3
  <2>4. CASE k # 1
    BY <1>1, <2>1, <2>2, <2>4
  <2> QED BY <2>3, <2>4
<1>7. CASE changelog
  <2>1. sections' = [j \in DOMAIN sections |->
                       IF j = 1 \/ stored[j] = <<>> THEN sections[j]
                       ELSE [sections[j] EXCEPT !.source = <<stored[j]>>]]
    BY <1>7 DEF changelog, ProbeNext
  <2>2. /\ k \in DOMAIN sections
        /\ \/ sections'[k] = sections[k]
           \/ sections'[k] = [sections[k] EXCEPT !.source = <<stored[k]>>]
    BY <2>1
  <2> QED BY <1>1, <1>5, <2>2
<1>8. CASE UNCHANGED sections
  BY <1>1, <1>8
<1>9. \/ wiki_to_html \/ html \/ ticket_source \/ changelog \/ UNCHANGED sections
  BY DEF Next, vars, Change, Begin, known_comment_numbers, attachment_names, probe_one,
         probed, instance_answers, confirm_provisional, check_raises, judge, store
<1> QED BY <1>3, <1>4, <1>6, <1>7, <1>8, <1>9

\* What was answered truly stays so.
LEMMA TrulyStays ==
    ASSUME always' \subseteq always, was \subseteq was', request' = request,
           \A h \in DOMAIN probes' : ProbedTruly(h, probes'[h]),
           \A b \in DOMAIN healthy' : healthy'[b] => Worked(b)
    PROVE  Probed'
<1>0. \A b : Refuses(b)' = Refuses(b)
  BY DEF Refuses, InScope, scope_bases, Carries, RequestsDrops, SessionDrops, Hops,
         SameOrigin
<1>1. /\ \A b : Worked(b) => Worked(b)'
      /\ \A b : Failed(b) => Failed(b)'
      /\ \A b : Wavered(b) => Wavered(b)'
  BY <1>0 DEF Worked, Failed, Wavered, Hops
<1> SUFFICES ASSUME NEW h \in DOMAIN probes', NEW outcome, outcome = probes'[h]
             PROVE  ProbedTruly(h, outcome)'
  BY <1>1 DEF Probed
<1>2. ProbedTruly(h, outcome)
  OBVIOUS
<1>3. (Failed(h.base) => Failed(h.base)') /\ (Wavered(h.base) => Wavered(h.base)')
  BY <1>1
<1>4. Address(h)' = Address(h)
  BY DEF Address
<1>5. Refuses(h.base)' = Refuses(h.base)
  BY <1>0
<1> QED BY <1>2, <1>3, <1>4, <1>5 DEF ProbedTruly

\* What an instance answers of a target.
LEMMA AnsweredTruly ==
    ASSUME Moves, NEW h, NEW outcome \in ProbeOutcomes(h)
    PROVE  ProbedTruly(h, outcome)
<1>1. CASE LeavesScope(h.base)
  BY <1>1 DEF ProbeOutcomes, ProbedTruly, Outcomes
<1>2. CASE ~LeavesScope(h.base) /\ ~Answers(h.base)
  <2>1. Failed(h.base)
    BY <1>2 DEF Answers, Passes, Failed, Refuses, Up, Moves, ToSet
  <2>2. outcome \in {"error", "provisional"}
    BY <1>2 DEF ProbeOutcomes
  <2> QED BY <2>1, <2>2 DEF ProbedTruly, Outcomes
<1>3. CASE ~LeavesScope(h.base) /\ Answers(h.base)
  <2>1. \/ outcome = "exists" /\ Address(h) \in world
        \/ outcome \in {"missing", "provisional"} /\ Address(h) \notin world
    BY <1>3 DEF ProbeOutcomes, Address
  <2>2. ~Refuses(h.base)
    BY <1>3 DEF Answers, Passes, Refuses
  <2> QED BY <2>1, <2>2 DEF ProbedTruly, Outcomes, Moves
<1> QED BY <1>1, <1>2, <1>3

LEMMA AnswersWorked == ASSUME Moves, NEW b, Answers(b) PROVE Worked(b)
BY DEF Moves, Answers, Passes, Worked, Refuses, Up, ToSet

\* A target whose instance answers meanwhile is missing.
LEMMA ConfirmedTruly ==
    ASSUME Probed, Controls \subseteq DOMAIN healthy, NEW h \in Provisional
    PROVE  ProbedTruly(h, Confirmed(h)) /\ Confirmed(h) # "provisional"
<1>1. h \in DOMAIN probes /\ probes[h] = "provisional" /\ h.base \in DOMAIN healthy
  BY DEF Provisional, Controls
<1>2. Address(h) \notin always \/ Failed(h.base)
  BY <1>1 DEF Probed, ProbedTruly
<1>3. CASE healthy[h.base]
  <2>1. Worked(h.base)
    BY <1>1, <1>3 DEF Probed
  <2>2. (Address(h) \notin always \/ Wavered(h.base)) /\ ~Refuses(h.base)
    BY <1>2, <2>1 DEF Failed, Worked, Wavered
  <2> QED BY <1>3, <2>2 DEF Confirmed, ProbedTruly, Outcomes
<1>4. CASE ~healthy[h.base]
  BY <1>4 DEF Confirmed, ProbedTruly, Outcomes
<1> QED BY <1>3, <1>4

LEMMA ProbedStep ==
    ASSUME Staged, Moves, Moves', Probed, ConfirmedBefore, [Next]_vars,
           always' \subseteq always, was \subseteq was', request' = request
    PROVE  Probed' /\ ConfirmedBefore'
<1>1. ASSUME UNCHANGED <<probes, healthy>>,
             \/ stage' = stage
             \/ stage' \notin {"judge", "names", "comments"}
             \/ op # "preview" /\ stage' \in {"names", "comments"}
             \/ op = "preview" /\ stage \in {"names", "comments"}
      PROVE  Probed' /\ ConfirmedBefore'
  BY <1>1, TrulyStays DEF Probed, ConfirmedBefore, Provisional, op
<1>2. CASE \E shown : ProbeNext(shown) /\ stage' = "probe"
  <2>1. /\ DOMAIN healthy' = {}
        /\ \A h \in DOMAIN probes' : probes'[h] \in {"capped", "not allowed"}
    <3>1. PICK shown : ProbeNext(shown)
      BY <1>2
    <3>2. \E S : probes' = [h \in S |->
                       IF InScope(h.base) THEN "capped" ELSE "not allowed"]
      BY <3>1 DEF ProbeNext
    <3>3. DOMAIN healthy' = {}
      <4>1. healthy' = <<>>
        BY <3>1 DEF ProbeNext
      <4> QED BY <4>1
    <3>4. PICK S : probes' = [h \in S |->
                       IF InScope(h.base) THEN "capped" ELSE "not allowed"]
      BY <3>2
    <3>5. ASSUME NEW h \in DOMAIN probes' PROVE probes'[h] \in {"capped", "not allowed"}
      <4>1. h \in S /\ probes'[h] = IF InScope(h.base) THEN "capped" ELSE "not allowed"
        BY <3>4
      <4> QED BY <4>1
    <3> QED BY <3>3, <3>5
  <2> QED BY <1>2, <2>1 DEF Probed, ProbedTruly, Outcomes, ConfirmedBefore
<1>3. CASE probe_one
  <2>1. stage' = "probe" /\ healthy' = healthy
    BY <1>3 DEF probe_one
  <2>2. \E h : \E outcome \in ProbeOutcomes(h) :
           probes' = [g \in DOMAIN probes \cup {h} |-> IF g = h THEN outcome ELSE probes[g]]
    BY <1>3 DEF probe_one
  <2>3. PICK h, outcome : /\ outcome \in ProbeOutcomes(h)
                          /\ probes' = [g \in DOMAIN probes \cup {h} |->
                                          IF g = h THEN outcome ELSE probes[g]]
    BY <2>2
  <2>4. \A g \in DOMAIN probes' :
           \/ g = h /\ probes'[g] = outcome
           \/ g \in DOMAIN probes /\ probes'[g] = probes[g]
    BY <2>3
  <2>5. \A g \in DOMAIN probes' : ProbedTruly(g, probes'[g])
    BY <2>3, <2>4, AnsweredTruly DEF Probed
  <2>6. Probed'
    BY <2>1, <2>5, TrulyStays DEF Probed
  <2> QED BY <2>1, <2>6 DEF ConfirmedBefore
<1>4. CASE instance_answers
  <2>1. stage = "confirm" /\ stage' = stage /\ probes' = probes
    BY <1>4 DEF instance_answers
  <2>2. PICK base : healthy' = [b \in DOMAIN healthy \cup {base} |->
                                 IF b = base THEN Answers(b) ELSE healthy[b]]
    BY <1>4 DEF instance_answers
  <2>3. \A b \in DOMAIN healthy' :
           \/ b = base /\ healthy'[b] = Answers(base)
           \/ b \in DOMAIN healthy /\ healthy'[b] = healthy[b]
    BY <2>2
  <2>4. \A b \in DOMAIN healthy' : healthy'[b] => Worked(b)
    BY <2>3, AnswersWorked DEF Probed
  <2>5. Probed'
    BY <2>1, <2>4, TrulyStays DEF Probed
  <2> QED BY <2>1, <2>5 DEF ConfirmedBefore
<1>5. CASE confirm_provisional
  <2>1. /\ healthy' = healthy /\ Controls \subseteq DOMAIN healthy
        /\ probes' = [h \in DOMAIN probes |-> IF h \in Provisional THEN Confirmed(h)
                                              ELSE probes[h]]
    BY <1>5 DEF confirm_provisional
  <2>2. \A h \in DOMAIN probes : /\ ProbedTruly(h, probes'[h])
                                 /\ probes'[h] # "provisional"
    BY <2>1, ConfirmedTruly DEF Probed, Provisional
  <2>3. Probed'
    BY <2>1, <2>2, TrulyStays DEF Probed
  <2> QED BY <2>1, <2>2, <2>3 DEF ConfirmedBefore, Provisional
<1>6. op \in {"write", "preview", "check"}
  BY LinkAssumption DEF LinkAssumption, Staged, op
<1>7. CASE Change \/ probed \/ judge \/ store \/ UNCHANGED vars
  <2>1. /\ UNCHANGED <<probes, healthy>>
        /\ \/ stage' = stage
           \/ stage' \notin {"judge", "names", "comments"}
    BY <1>7 DEF Change, probed, judge, store, NextField, outVars, probeVars, vars
  <2> QED BY <1>1, <2>1
<1>8. CASE html \/ ticket_source
  BY <1>1, <1>8 DEF html, ticket_source, outVars, probeVars
<1>9. CASE Begin
  <2>1. /\ UNCHANGED <<probes, healthy>>
        /\ op = "preview" => stage' = "store" \/ stage' = "render"
        /\ op # "preview" => stage' \in {"store", "comments", "html"}
    BY <1>6, <1>9 DEF Begin, Stages, probeVars
  <2> QED BY <1>1, <1>6, <2>1
<1>10. CASE known_comment_numbers \/ attachment_names
  <2>1. /\ UNCHANGED <<probes, healthy>> /\ stage \in {"comments", "names"}
        /\ op # "preview" => stage' \in {"names", "render"}
    BY <1>6, <1>10, Order DEF known_comment_numbers, attachment_names, Staged, probeVars
  <2> QED BY <1>1, <2>1
<1>11. CASE wiki_to_html
  <2>1. stage = "render" /\ op \in {"write", "preview"}
    BY <1>6, <1>11 DEF wiki_to_html, Staged
  <2>2. \/ \E shown : ProbeNext(shown) /\ stage' = "probe"
        \/ UNCHANGED <<probes, healthy>> /\ stage' \in {"store", "render", "done"}
    BY <1>11, <2>1, Order DEF wiki_to_html, Unchecked, NextField
  <2> QED BY <1>1, <1>2, <2>2
<1>12. CASE changelog
  BY <1>2, <1>12 DEF changelog
<1>13. CASE check_raises
  <2>1. /\ UNCHANGED <<probes, healthy>>
        /\ stage' \in {"store", "render", "done"}
    BY <1>13 DEF check_raises, Unchecked, NextField, probeVars
  <2> QED BY <1>1, <2>1
<1> QED BY <1>3, <1>4, <1>5, <1>7, <1>8, <1>9, <1>10, <1>11, <1>12, <1>13 DEF Next

\* As long as nobody else changes anything, and the write is not made.
LEMMA NothingChanged ==
    ASSUME Staged, changes \in Nat, [Next]_vars, changes' = 0, answer' # "stored"
    PROVE  changes = 0 /\ answer # "stored" /\ last' = last
<1>1. CASE Change
  BY <1>1 DEF Change
<1>2. CASE store
  BY <1>2 DEF store
<1>3. CASE UNCHANGED vars
  BY <1>3 DEF vars, envVars, outVars
<1>4. CASE ~Change /\ ~store /\ Next
  <2>1. UNCHANGED <<last, changes>> /\ stage # "done"
    BY <1>4 DEF Next, Begin, known_comment_numbers, attachment_names, wiki_to_html,
                html, ticket_source, changelog, check_raises, probe_one, probed, instance_answers,
                confirm_provisional, judge, envVars
  <2>2. answer = "none"
    BY <2>1 DEF Staged
  <2> QED BY <2>1, <2>2
<1> QED BY <1>1, <1>2, <1>3, <1>4

LEMMA KnownStep ==
    ASSUME Staged, Moves, KnownTruly, changes \in Nat, [Next]_vars,
           always' \subseteq always, request' = request
    PROVE  KnownTruly'
<1>1. CASE known' = known
  BY <1>1, NothingChanged DEF KnownTruly
<1>2. CASE known_comment_numbers
  <2>1. UNCHANGED <<last, changes, answer, always>>
    BY <1>2 DEF known_comment_numbers, envVars, outVars
  <2>2. CASE request.target = "ticket" /\ known' # NoContext
    <3>1. known' = <<KnownNow>>
      BY <1>2, <2>2 DEF known_comment_numbers
    <3>2. known'[1] = Named("comment") \cup {last + 1}
      BY <3>1 DEF KnownNow
    <3>3. ASSUME NEW n, <<"comment", n>> \in always PROVE n \in Named("comment")
      <4>1. PICK x \in world : x = <<"comment", n>>
        BY <3>3 DEF Moves
      <4>2. x[1] = "comment" /\ x[2] = n
        BY <4>1
      <4> QED BY <4>2 DEF Named
    <3> QED BY <2>1, <3>2, <3>3 DEF KnownTruly
  <2> QED BY <2>2 DEF KnownTruly
<1>3. CASE ~known_comment_numbers
  <2>1. known' = known
    BY <1>3 DEF Next, vars, Change, Begin, attachment_names, wiki_to_html, html,
                ticket_source, changelog, check_raises, probe_one, probed, instance_answers,
                confirm_provisional, judge, store
  <2> QED BY <1>1, <2>1
<1> QED BY <1>2, <1>3

LEMMA LookedStep == LookedInv /\ [Next]_vars => LookedInv'
<1> SUFFICES ASSUME LookedInv, [Next]_vars PROVE LookedInv'
  OBVIOUS
<1>1. /\ Moves' /\ always' \subseteq always /\ was \subseteq was'
      /\ request' = request /\ changes' \in Nat
  BY WorldMoves DEF LookedInv
<1>2. Staged' /\ Texts'
  BY <1>1, StagedStep, TextsStep DEF LookedInv
<1>3. Rendered'
  BY <1>1, RenderedStep DEF LookedInv
<1>4. Probed' /\ ConfirmedBefore'
  BY <1>1, ProbedStep DEF LookedInv
<1>5. KnownTruly'
  BY <1>1, KnownStep DEF LookedInv
<1> QED BY <1>1, <1>2, <1>3, <1>4, <1>5 DEF LookedInv

LEMMA LookedInit == Init => LookedInv
<1> SUFFICES ASSUME Init PROVE LookedInv
  OBVIOUS
<1>1. DOMAIN sections = {} /\ DOMAIN probes = {} /\ DOMAIN healthy = {}
  BY DEF Init
<1>2. Staged
  BY LinkAssumption DEF LinkAssumption, Init, Staged, op
<1>3. Moves /\ KnownTruly /\ changes \in Nat
  BY DEF Init, Moves, KnownTruly
<1>4. Rendered /\ Probed /\ ConfirmedBefore
  BY <1>1 DEF Rendered, Probed, ConfirmedBefore, Provisional
<1>5. Texts
  <2>1. request \in Requests /\ stored = request.fields /\ field = 1 /\ names = NoContext
    BY DEF Init
  <2> QED BY <2>1, RequestTexts DEF Texts
<1> QED BY <1>2, <1>3, <1>4, <1>5 DEF LookedInv

(***************************************************************************)
(* The verdict.                                                            *)
(***************************************************************************)

\* What is judged: each anchor, as it was rendered.
LEMMA JudgedAnchor ==
    ASSUME LookedInv, NEW s \in ToSet(sections), NEW i \in DOMAIN s.facts.anchors
    PROVE  \E w, live : /\ always \subseteq w /\ w \subseteq was
                        /\ s.facts.anchors[i] = AnchorOf(s.shown[i], w, live)
                        /\ HasAnchor(s.shown[i])
<1>1. PICK k \in DOMAIN sections : s = sections[k]
  BY DEF ToSet
<1>2. PICK w : always \subseteq w /\ w \subseteq was /\ RenderedAt(s, w, op = "check")
  BY <1>1 DEF LookedInv, Rendered
<1>3. PICK doc, source : s = Section(doc, source, extract_facts(doc, w, op = "check"))
  BY <1>2 DEF RenderedAt
<1>4. s.shown = doc /\ s.facts = extract_facts(doc, w, op = "check")
  BY <1>3 DEF Section
<1>5. i \in Linked(doc) /\ s.facts.anchors[i] = AnchorOf(doc[i], w, op = "check")
  BY <1>4, Anchors
<1>6. PICK live : live = (op = "check")
  OBVIOUS
<1>7. /\ s.facts.anchors[i] = AnchorOf(s.shown[i], w, live) /\ HasAnchor(s.shown[i])
      /\ always \subseteq w /\ w \subseteq was
  BY <1>2, <1>4, <1>5, <1>6 DEF Linked
<1> QED BY <1>7

\* What is judged: each outcome, final and true.
LEMMA JudgedOutcome ==
    ASSUME LookedInv, stage = "judge"
    PROVE  \A h \in DOMAIN probes :
              /\ probes[h] \in {"exists", "missing", "error", "capped", "not allowed"}
              /\ ProbedTruly(h, probes[h])
BY DEF LookedInv, Probed, ConfirmedBefore, Provisional, ProbedTruly, Outcomes

\* What the text allows, of a section.
Allowed(s) == IF s.source = NoContext THEN {} ELSE request.allowed

LEMMA FoundIsTold ==
    ASSUME NEW s, NEW x,
           \/ x \in missing_local_target(s.facts, SourceOf(s), names)
           \/ x \in target_probes(s.facts, probes, request.check),
           {x.code, x.replaces} \cap request.allowed = {}
    PROVE  x \in Findings(s)
<1>1. Context.names = names /\ Context.check = request.check
  BY DEF Context
<1>2. x \in build_warnings(Context, SourceOf(s), s.facts, probes, Allowed(s))
  BY <1>1, FoundAll DEF Allowed
<1> QED BY <1>2 DEF Findings, Allowed

LEMMA ToldWasFound ==
    ASSUME NEW s, NEW x \in Findings(s), x.code \in DeadCodes
    PROVE  \/ x \in missing_local_target(s.facts, SourceOf(s), names)
           \/ x \in target_probes(s.facts, probes, request.check)
           \/ x \in dangling_comment_ref(SourceOf(s), known)
<1>1. /\ Context.names = names /\ Context.check = request.check
      /\ Context.known = known
  BY DEF Context
<1>2. On("source_not_paired", <<>>).code = "source_not_paired"
  BY DEF On, Found
<1>3. x \in build_warnings(Context, SourceOf(s), s.facts, probes, Allowed(s))
  BY <1>2 DEF Findings, Allowed, DeadCodes, Refusals
<1> QED BY <1>1, <1>3, FoundElse

\* A dead link of a text that is judged.
LEMMA DeadLinkFound ==
    ASSUME LookedInv, stage = "judge", NEW s \in ToSet(sections),
           NEW i \in DOMAIN s.facts.anchors, s.shown[i].kind # "file",
           s.shown[i].kind = "remote" => s.shown[i].realm \in {"ticket", "wiki"},
           Atom(s.shown[i]) \notin was
    PROVE  \/ \E x \in Findings(s) : x.at = i
           \/ /\ s.shown[i].kind = "remote"
              /\ \/ \E x \in Findings(s) : x.code \in AboutUnprobed
                 \/ request.allowed \cap
                      ({"missing_cross_instance_target"} \cup AboutUnprobed) # {}
           \/ s.shown[i].kind # "remote" /\ request.allowed \cap AboutMissing # {}
<1>1. PICK it, a : it = s.shown[i] /\ a = s.facts.anchors[i]
  OBVIOUS
<1>2. /\ it.kind # "file" /\ Atom(it) \notin was
      /\ it.kind = "remote" => it.realm \in {"ticket", "wiki"}
  BY <1>1
<1>3. PICK w, live : w \subseteq was /\ a = AnchorOf(it, w, live) /\ HasAnchor(it)
  BY <1>1, JudgedAnchor
<1>4. CASE it.kind = "remote"
  <2>1. /\ a.href.realm \in {"ticket", "wiki"} /\ Address(a.href) = Atom(it)
    BY <1>2, <1>3, <1>4, RemoteAnchor
  <2>2. \A h \in DOMAIN probes :
           /\ probes[h] \in {"exists", "missing", "error", "capped", "not allowed"}
           /\ probes[h] = "exists" => Address(h) \in was
    BY JudgedOutcome DEF ProbedTruly
  <2>3. ~(a.href \in DOMAIN probes /\ probes[a.href] = "exists")
    BY <1>2, <2>1, <2>2
  <2>4. \E x \in target_probes(s.facts, probes, request.check) :
           /\ x.replaces = x.code
           /\ \/ x.at = i /\ x.code = "missing_cross_instance_target"
              \/ x.code \in AboutUnprobed
    BY <1>1, <2>1, <2>2, <2>3, FoundUnprobed
  <2> QED BY <1>1, <1>4, <2>4, FoundIsTold
<1>5. CASE it.kind # "remote"
  <2>1. it.kind \in {"page", "word", "number"}
    BY <1>2, <1>3, <1>5, AnchorKinds
  <2>2. a.missing /\ a.class # "file"
    <3>1. a.class # "file" /\ a.missing = (Atom(it) \notin w)
      BY <1>3, <2>1, LocalAnchor
    <3> QED BY <1>2, <1>3, <3>1
  <2>3. \E x \in missing_local_target(s.facts, SourceOf(s), names) :
           x.at = i /\ {x.code, x.replaces} \subseteq AboutMissing
    BY <1>1, <2>2, FoundMissing
  <2> QED BY <1>1, <1>5, <2>3, FoundIsTold
<1> QED BY <1>4, <1>5

\* What blocks at an anchor of a text that is judged.
LEMMA BlockedIsDead ==
    ASSUME LookedInv, stage = "judge", NEW s \in ToSet(sections),
           NEW x \in Findings(s)
    PROVE  /\ x.code = "missing_local_target" =>
                 /\ x.at \in DOMAIN s.facts.anchors
                 /\ s.shown[x.at].kind # "file" => Atom(s.shown[x.at]) \notin always
           /\ x.code = "missing_cross_instance_target" =>
                 /\ x.at \in DOMAIN s.facts.anchors
                 /\ \/ Atom(s.shown[x.at]) \notin always
                    \/ Wavered(InterTrac[s.shown[x.at].prefix])
<1>1. CASE x.code = "missing_local_target"
  <2>1. x \in missing_local_target(s.facts, SourceOf(s), names)
    <3>1. x \notin target_probes(s.facts, probes, request.check)
      BY <1>1, FoundProbed DEF AboutUnprobed
    <3>2. x \notin dangling_comment_ref(SourceOf(s), known)
      BY <1>1, FoundDangling
    <3> QED BY <1>1, <3>1, <3>2, ToldWasFound DEF DeadCodes, Refusals
  <2>2. x.at \in DOMAIN s.facts.anchors /\ s.facts.anchors[x.at].missing
    BY <2>1, FoundMissing
  <2>3. PICK it, a : it = s.shown[x.at] /\ a = s.facts.anchors[x.at]
    OBVIOUS
  <2>4. PICK w, live : always \subseteq w /\ a = AnchorOf(it, w, live) /\ HasAnchor(it)
    BY <2>2, <2>3, JudgedAnchor
  <2>5. a.missing
    BY <2>2, <2>3
  <2>6. it.kind # "remote"
    BY <2>4, <2>5, RemoteAnchor
  <2>7. it.kind \in {"page", "word", "number", "file"}
    BY <2>4, <2>6, AnchorKinds
  <2>8. it.kind # "file" => Atom(it) \notin always
    <3>1. it.kind # "file" => a.missing = (Atom(it) \notin w)
      BY <2>4, <2>7, LocalAnchor
    <3> QED BY <2>4, <2>5, <3>1
  <2> QED BY <1>1, <2>2, <2>3, <2>8
<1>2. CASE x.code = "missing_cross_instance_target"
  <2>1. x \in target_probes(s.facts, probes, request.check)
    <3>1. x \notin missing_local_target(s.facts, SourceOf(s), names)
      BY <1>2, FoundMissing DEF AboutMissing
    <3>2. x \notin dangling_comment_ref(SourceOf(s), known)
      BY <1>2, FoundDangling
    <3> QED BY <1>2, <3>1, <3>2, ToldWasFound DEF DeadCodes, Refusals
  <2>2. /\ x.at \in DOMAIN s.facts.anchors
        /\ s.facts.anchors[x.at].href.realm \in {"ticket", "wiki"}
        /\ s.facts.anchors[x.at].href \in DOMAIN probes
        /\ probes[s.facts.anchors[x.at].href] = "missing"
    BY <1>2, <2>1, FoundProbed
  <2>3. PICK it, a : it = s.shown[x.at] /\ a = s.facts.anchors[x.at]
    OBVIOUS
  <2>4. PICK w, live : a = AnchorOf(it, w, live) /\ HasAnchor(it)
    BY <2>2, <2>3, JudgedAnchor
  <2>5. /\ a.href.realm \in {"ticket", "wiki"}
        /\ a.href \in DOMAIN probes /\ probes[a.href] = "missing"
    BY <2>2, <2>3
  <2>6. it.kind = "remote"
    <3>1. it.kind # "remote" => a.href.realm = ""
      BY <2>4, OtherAnchor
    <3> QED BY <2>5, <3>1
  <2>7. Address(a.href) = Atom(it) /\ a.href.base = InterTrac[it.prefix]
    BY <2>4, <2>6, RemoteAnchor
  <2>8. Address(a.href) \notin always \/ Wavered(a.href.base)
    BY <2>5, JudgedOutcome DEF ProbedTruly
  <2> QED BY <1>2, <2>2, <2>3, <2>7, <2>8
<1> QED BY <1>1, <1>2

\* What blocks for a comment.
LEMMA BlockedIsDangling ==
    ASSUME LookedInv, stage = "judge", NEW s, NEW x \in Findings(s),
           x.code = "dangling_comment_ref", request.target = "ticket"
    PROVE  /\ <<"comment", x.token[2]>> \notin always
           /\ changes = 0 /\ answer # "stored" => x.token[2] # last + 1
<1>1. x \in dangling_comment_ref(SourceOf(s), known)
  <2>1. x \notin missing_local_target(s.facts, SourceOf(s), names)
    BY FoundMissing DEF AboutMissing
  <2>2. x \notin target_probes(s.facts, probes, request.check)
    BY FoundProbed DEF AboutUnprobed
  <2> QED BY <2>1, <2>2, ToldWasFound DEF DeadCodes, Refusals
<1>2. known # NoContext /\ x.token[2] \notin known[1]
  BY <1>1, FoundDangling
<1> QED BY <1>2 DEF LookedInv, KnownTruly

\* A step adds to what was judged the texts that are judged now.
LEMMA JudgedStep ==
    ASSUME [Next]_vars, NEW j \in judged', j \notin judged
    PROVE  /\ judge
           /\ \E s \in ToSet(sections) :
                 j.section = s /\ j.findings = Findings(s) /\ j.names = names
<1>1. judge
  BY DEF Next, vars, outVars, Change, Begin, known_comment_numbers, attachment_names,
         wiki_to_html, html, ticket_source, changelog, check_raises, probe_one, probed,
         instance_answers, confirm_provisional, store
<1>2. PICK s \in ToSet(sections) :
         j = [section |-> s, findings |-> Findings(s), names |-> names, known |-> known,
              unprobed |-> {h \in DOMAIN probes :
                              probes[h] \in {"capped", "error", "not allowed"}}]
  BY <1>1 DEF judge
<1> QED BY <1>1, <1>2

\* A link whose target existed at no time of the call is reported, at that
\* link; one on another instance that could not be looked at, as not looked
\* at; unless the text allows the code.
THEOREM DeadLinksTold == Spec => []DeadLinksAreTold
<1>1. Init => LookedInv /\ DeadLinksAreTold
  BY LookedInit DEF Init, DeadLinksAreTold
<1>2. LookedInv /\ DeadLinksAreTold /\ [Next]_vars => LookedInv' /\ DeadLinksAreTold'
  <2> SUFFICES ASSUME LookedInv, DeadLinksAreTold, [Next]_vars PROVE DeadLinksAreTold'
    BY LookedStep
  <2>1. was \subseteq was' /\ request' = request
    BY WorldMoves DEF LookedInv
  <2> SUFFICES
        ASSUME NEW j \in judged', NEW i \in DOMAIN j.section.facts.anchors,
               NEW it, it = ItemOf(j, i), it.kind # "file",
               it.kind = "remote" => it.realm \in {"ticket", "wiki"},
               Atom(it) \notin was'
        PROVE  \/ CodesAt(j, i) # {}
               \/ it.kind = "remote" /\ Codes(j) \cap AboutUnprobed # {}
               \/ it.kind = "remote" /\ request.allowed \cap
                    ({"missing_cross_instance_target"} \cup AboutUnprobed) # {}
               \/ it.kind # "remote" /\ request.allowed \cap AboutMissing # {}
    BY <2>1 DEF DeadLinksAreTold
  <2>2. Atom(it) \notin was
    BY <2>1
  <2>3. CASE j \in judged
    BY <2>2, <2>3 DEF DeadLinksAreTold
  <2>4. CASE j \notin judged
    <3>1. PICK s \in ToSet(sections) : j.section = s /\ j.findings = Findings(s)
      BY <2>4, JudgedStep
    <3>2. stage = "judge"
      BY <2>4, JudgedStep DEF judge
    <3>3. it = s.shown[i] /\ i \in DOMAIN s.facts.anchors
      BY <3>1 DEF ItemOf
    <3>4. \/ \E x \in Findings(s) : x.at = i
          \/ it.kind = "remote" /\ \E x \in Findings(s) : x.code \in AboutUnprobed
          \/ it.kind = "remote" /\ request.allowed \cap
               ({"missing_cross_instance_target"} \cup AboutUnprobed) # {}
          \/ it.kind # "remote" /\ request.allowed \cap AboutMissing # {}
      BY <2>2, <3>2, <3>3, DeadLinkFound
    <3> QED BY <3>1, <3>4 DEF Codes, CodesAt
  <2> QED BY <2>3, <2>4
<1> QED BY <1>1, <1>2, PTL DEF Spec

\* What refuses a write, or fails a preview, is not there: the page or the
\* ticket was missing at some time of the call, the comment is none of the
\* ticket's nor the one this write posts, the target on another instance was
\* missing, or its instance was down for a while.
THEOREM OnlyDeadBlocks == Spec => []OnlyDeadLinksBlock
<1>1. Init => LookedInv /\ OnlyDeadLinksBlock
  BY LookedInit DEF Init, OnlyDeadLinksBlock
<1>2. LookedInv /\ OnlyDeadLinksBlock /\ [Next]_vars => LookedInv' /\ OnlyDeadLinksBlock'
  <2> SUFFICES ASSUME LookedInv, OnlyDeadLinksBlock, [Next]_vars
               PROVE  OnlyDeadLinksBlock'
    BY LookedStep
  <2>1. /\ always' \subseteq always /\ was \subseteq was' /\ request' = request
        /\ changes' = 0 => changes = 0
    BY WorldMoves DEF LookedInv
  <2>2. \A b : Wavered(b) => Wavered(b)'
    BY <2>1 DEF Wavered, Hops
  <2>3. changes' = 0 /\ answer' # "stored" =>
           changes = 0 /\ answer # "stored" /\ last' = last
    BY NothingChanged DEF LookedInv
  <2>4. ASSUME NEW j \in judged', NEW i \in DOMAIN j.section.facts.anchors
        PROVE  /\ "missing_local_target" \in CodesAt(j, i) /\ ItemOf(j, i).kind # "file"
                     => Atom(ItemOf(j, i)) \notin always'
               /\ "missing_cross_instance_target" \in CodesAt(j, i)
                     => \/ Atom(ItemOf(j, i)) \notin always'
                        \/ Wavered(InterTrac[ItemOf(j, i).prefix])'
    <3>1. CASE j \in judged
      BY <2>1, <2>2, <3>1 DEF OnlyDeadLinksBlock, Wavered
    <3>2. CASE j \notin judged
      <4>1. PICK s \in ToSet(sections) : j.section = s /\ j.findings = Findings(s)
        BY <3>2, JudgedStep
      <4>2. stage = "judge"
        BY <3>2, JudgedStep DEF judge
      <4>3. \A c \in CodesAt(j, i) : \E x \in Findings(s) : x.at = i /\ x.code = c
        BY <4>1 DEF CodesAt
      <4>4. ItemOf(j, i) = s.shown[i]
        BY <4>1 DEF ItemOf
      <4>5. "missing_local_target" \in CodesAt(j, i) /\ s.shown[i].kind # "file"
               => Atom(s.shown[i]) \notin always
        BY <4>2, <4>3, BlockedIsDead
      <4>6. "missing_cross_instance_target" \in CodesAt(j, i)
               => \/ Atom(s.shown[i]) \notin always
                  \/ Wavered(InterTrac[s.shown[i].prefix])
        BY <4>2, <4>3, BlockedIsDead
      <4> QED BY <2>1, <2>2, <4>4, <4>5, <4>6
    <3> QED BY <3>1, <3>2
  <2>5. ASSUME NEW j \in judged', NEW f \in j.findings, f.code = "dangling_comment_ref",
               request.target = "ticket"
        PROVE  /\ <<"comment", f.token[2]>> \notin always'
               /\ changes' = 0 /\ answer' # "stored" => f.token[2] # last' + 1
    <3>1. /\ <<"comment", f.token[2]>> \notin always
          /\ changes = 0 /\ answer # "stored" => f.token[2] # last + 1
      <4>1. CASE j \in judged
        BY <2>5, <4>1 DEF OnlyDeadLinksBlock
      <4>2. CASE j \notin judged
        <5>1. PICK s \in ToSet(sections) : j.section = s /\ j.findings = Findings(s)
          BY <4>2, JudgedStep
        <5>2. stage = "judge"
          BY <4>2, JudgedStep DEF judge
        <5> QED BY <2>5, <5>1, <5>2, BlockedIsDangling
      <4> QED BY <4>1, <4>2
    <3> QED BY <2>1, <2>3, <3>1
  <2> QED BY <2>1, <2>4, <2>5 DEF OnlyDeadLinksBlock, Wavered
<1> QED BY <1>1, <1>2, PTL DEF Spec

(***************************************************************************)
(* The scope of the probes.                                                *)
(***************************************************************************)

\* What is sent to a hop.
LEMMA SentHop ==
    ASSUME [Next]_vars, NEW s \in sent', s \notin sent
    PROVE  \E base : \E k \in DOMAIN Hops(base) :
              /\ Hops(base)[k] = s.to /\ InScope(s.to)
              /\ s.auth = Carries(Hops(base), k)
<1>1. UNCHANGED sent \/ \E base : send(base)
  BY DEF Next, vars, probeVars, Change, Begin, known_comment_numbers,
         attachment_names, wiki_to_html, html, ticket_source, changelog, check_raises,
         probe_one, probed, instance_answers, confirm_provisional, judge, store
<1>2. PICK base : send(base)
  BY <1>1
<1>3. PICK k \in {j \in Reached(base) : InScope(Hops(base)[j])} :
         s = [to |-> Hops(base)[k], auth |-> Carries(Hops(base), k)]
  BY <1>2 DEF send
<1>4. k \in DOMAIN Hops(base) /\ InScope(Hops(base)[k])
  BY <1>3 DEF Reached
<1>5. s.to = Hops(base)[k] /\ s.auth = Carries(Hops(base), k)
  BY <1>3
<1> QED BY <1>4, <1>5

\* A link that leads out of the allowlist is not called missing, and some
\* target is said to be unchecked, unless the text allows that.
LEMMA LedOutUnprobed ==
    ASSUME LookedInv, stage = "judge", NEW s \in ToSet(sections),
           NEW i \in DOMAIN s.facts.anchors, s.shown[i].kind = "remote",
           s.shown[i].realm \in {"ticket", "wiki"},
           LeadsOut(InterTrac[s.shown[i].prefix])
    PROVE  /\ \A x \in Findings(s) :
                 ~(x.at = i /\ x.code = "missing_cross_instance_target")
           /\ \/ \E x \in Findings(s) : x.code \in AboutUnprobed
              \/ request.allowed \cap AboutUnprobed # {}
<1>1. PICK it, a : it = s.shown[i] /\ a = s.facts.anchors[i]
  OBVIOUS
<1>2. PICK w, live : a = AnchorOf(it, w, live) /\ HasAnchor(it)
  BY <1>1, JudgedAnchor
<1>3. /\ a.href.realm \in {"ticket", "wiki"} /\ a.href.base = InterTrac[it.prefix]
  BY <1>1, <1>2, RemoteAnchor
<1>4. Refuses(a.href.base)
  BY <1>1, <1>3 DEF LeadsOut, Refuses, ToSet
<1>5. \A h \in DOMAIN probes :
         /\ probes[h] \in {"exists", "missing", "error", "capped", "not allowed"}
         /\ probes[h] \in {"exists", "missing"} => ~Refuses(h.base)
  BY JudgedOutcome DEF ProbedTruly
<1>6. ~(a.href \in DOMAIN probes /\ probes[a.href] \in {"exists", "missing"})
  BY <1>4, <1>5
<1>7. \A x \in target_probes(s.facts, probes, request.check) :
         ~(x.at = i /\ x.code = "missing_cross_instance_target")
  BY <1>1, <1>6, FoundProbed
<1>8. \A x \in Findings(s) : ~(x.at = i /\ x.code = "missing_cross_instance_target")
  <2> SUFFICES ASSUME NEW x \in Findings(s), x.at = i,
                      x.code = "missing_cross_instance_target"
               PROVE  FALSE
    OBVIOUS
  <2>1. x \notin missing_local_target(s.facts, SourceOf(s), names)
    BY FoundMissing DEF AboutMissing
  <2>2. x \notin dangling_comment_ref(SourceOf(s), known)
    BY FoundDangling
  <2> QED BY <1>7, <2>1, <2>2, ToldWasFound DEF DeadCodes, Refusals
<1>9. PICK x \in target_probes(s.facts, probes, request.check) :
         x.replaces = x.code /\ x.code \in AboutUnprobed
  <2>1. \E x \in target_probes(s.facts, probes, request.check) :
           /\ x.replaces = x.code
           /\ \/ x.at = i /\ x.code = "missing_cross_instance_target"
              \/ x.code \in AboutUnprobed
    BY <1>1, <1>3, <1>5, <1>6, FoundUnprobed
  <2> QED BY <1>7, <2>1
<1> QED BY <1>8, <1>9, FoundIsTold

\* Under an allowlist nothing that is sent, on any hop, leaves it or the own
\* host; nothing carries the credentials to another host; and a link that
\* leads out is never called missing but said to be unchecked.
THEOREM ScopeKept == Spec => []ProbesKeepTheScope
<1>1. Init => LookedInv /\ ProbesKeepTheScope
  BY LookedInit DEF Init, ProbesKeepTheScope
<1>2. LookedInv /\ ProbesKeepTheScope /\ [Next]_vars => LookedInv' /\ ProbesKeepTheScope'
  <2> SUFFICES ASSUME LookedInv, ProbesKeepTheScope, [Next]_vars
               PROVE  ProbesKeepTheScope'
    BY LookedStep
  <2>1. request' = request
    BY RequestStays
  <2>2. \A b : LeadsOut(b)' = LeadsOut(b)
    BY <2>1 DEF LeadsOut, InScope, scope_bases, Hops, SameOrigin
  <2>3. ASSUME NEW s \in sent'
        PROVE  /\ request.scope # NoContext =>
                     s.to \in request.scope[1] /\ SameOrigin(s.to)
               /\ s.auth => SameOrigin(s.to)
    <3>1. CASE s \in sent
      BY <3>1 DEF ProbesKeepTheScope
    <3>2. CASE s \notin sent
      <4>1. PICK base : \E k \in DOMAIN Hops(base) :
               /\ Hops(base)[k] = s.to /\ InScope(s.to)
               /\ s.auth = Carries(Hops(base), k)
        BY <3>2, SentHop
      <4>2. PICK k \in DOMAIN Hops(base) :
               /\ Hops(base)[k] = s.to /\ InScope(s.to)
               /\ s.auth = Carries(Hops(base), k)
        BY <4>1
      <4>3. k \in 1 .. k
        BY HopsAreASequence
      <4> QED BY <4>2, <4>3 DEF InScope, scope_bases, Carries, SessionDrops
    <3> QED BY <3>1, <3>2
  <2>4. ASSUME NEW j \in judged', NEW i \in DOMAIN j.section.facts.anchors,
               ItemOf(j, i).kind = "remote", ItemOf(j, i).realm \in {"ticket", "wiki"},
               LeadsOut(InterTrac[ItemOf(j, i).prefix])
        PROVE  /\ "missing_cross_instance_target" \notin CodesAt(j, i)
               /\ \/ Codes(j) \cap AboutUnprobed # {}
                  \/ request.allowed \cap AboutUnprobed # {}
    <3>1. CASE j \in judged
      BY <2>4, <3>1 DEF ProbesKeepTheScope
    <3>2. CASE j \notin judged
      <4>1. PICK s \in ToSet(sections) : j.section = s /\ j.findings = Findings(s)
        BY <3>2, JudgedStep
      <4>2. stage = "judge"
        BY <3>2, JudgedStep DEF judge
      <4>3. ItemOf(j, i) = s.shown[i]
        BY <4>1 DEF ItemOf
      <4>4. /\ \A x \in Findings(s) :
                  ~(x.at = i /\ x.code = "missing_cross_instance_target")
            /\ \/ \E x \in Findings(s) : x.code \in AboutUnprobed
               \/ request.allowed \cap AboutUnprobed # {}
        BY <2>4, <4>1, <4>2, <4>3, LedOutUnprobed
      <4> QED BY <4>1, <4>4 DEF Codes, CodesAt
    <3> QED BY <3>1, <3>2
  <2> QED BY <2>1, <2>2, <2>3, <2>4 DEF ProbesKeepTheScope, SameOrigin, ItemOf, CodesAt,
                                        Codes
<1> QED BY <1>1, <1>2, PTL DEF Spec

(***************************************************************************)
(* The count of what is refused.                                           *)
(***************************************************************************)

\* A missing target is refused unless it is cleared or excused.
LEMMA RefusedHere ==
    ASSUME NEW s, NEW i \in MissingAt(s.facts), request.allowed \cap AboutMissing = {}
    PROVE  (\E x \in Findings(s) : x.at = i /\ x.code \in Refusals)
             <=> /\ i \notin Incidental(s.facts, SourceOf(s))
                 /\ i \notin Cleared(s.facts, SourceOf(s), names)
<1>1. PICK incidental : incidental = Incidental(s.facts, SourceOf(s))
  OBVIOUS
<1>2. PICK cleared : cleared = Cleared(s.facts, SourceOf(s), names)
  OBVIOUS
<1>3. PICK f : f = missing_local_target(s.facts, SourceOf(s), names)
  OBVIOUS
<1>4. f = {Told(s.facts, incidental, k) : k \in MissingAt(s.facts) \ cleared}
  BY <1>1, <1>2, <1>3, FoundLocal
<1>5. \A k : LET x == Told(s.facts, incidental, k)
             IN /\ x.at = k /\ {x.code, x.replaces} \subseteq AboutMissing
                /\ x.code \in Refusals <=> k \notin incidental
  BY DEF Told, Found, At, AboutMissing, Refusals
<1>6. ASSUME NEW x \in Findings(s), x.at = i, x.code \in Refusals
      PROVE  i \notin incidental /\ i \notin cleared
  <2>1. x \in f
    <3>1. x \notin target_probes(s.facts, probes, request.check)
      BY <1>6, FoundProbed DEF AboutUnprobed, Refusals
    <3>2. x \notin dangling_comment_ref(SourceOf(s), known)
      BY <1>6, FoundDangling DEF Refusals
    <3> QED BY <1>3, <1>6, <3>1, <3>2, ToldWasFound DEF DeadCodes
  <2>2. PICK k \in MissingAt(s.facts) \ cleared : x = Told(s.facts, incidental, k)
    BY <1>4, <2>1
  <2>3. k = i
    BY <1>5, <1>6, <2>2
  <2> QED BY <1>5, <1>6, <2>2, <2>3
<1>7. ASSUME i \notin incidental, i \notin cleared
      PROVE  \E x \in Findings(s) : x.at = i /\ x.code \in Refusals
  <2>1. PICK x \in f : x = Told(s.facts, incidental, i)
    BY <1>4, <1>7
  <2>2. /\ x.at = i /\ x.code \in Refusals
        /\ {x.code, x.replaces} \cap request.allowed = {}
    BY <1>5, <1>7, <2>1
  <2>3. x \in Findings(s)
    BY <1>3, <2>2, FoundIsTold
  <2> QED BY <2>2, <2>3
<1> QED BY <1>1, <1>2, <1>6, <1>7

\* What is judged: a finite text, and the facts of it.
LEMMA JudgedText ==
    ASSUME LookedInv, NEW s \in ToSet(sections)
    PROVE  \E w, live : /\ IsText(s.shown) /\ s.facts = extract_facts(s.shown, w, live)
                        /\ live => names = NoContext
<1>1. PICK k \in DOMAIN sections : s = sections[k]
  BY DEF ToSet
<1>2. PICK w : RenderedAt(s, w, op = "check")
  BY <1>1 DEF LookedInv, Rendered
<1>3. PICK doc, source : /\ IsText(doc)
                         /\ s = Section(doc, source, extract_facts(doc, w, op = "check"))
  BY <1>2 DEF RenderedAt
<1>4. s.shown = doc /\ s.facts = extract_facts(doc, w, op = "check")
  BY <1>3 DEF Section
<1>5. PICK live : live = (op = "check")
  OBVIOUS
<1>6. live => names = NoContext
  BY <1>5 DEF LookedInv, Texts
<1>7. s.facts = extract_facts(s.shown, w, live)
  BY <1>4, <1>5
<1> QED BY <1>3, <1>4, <1>6, <1>7

\* Of a text that is judged with its source: as many links to one page are
\* refused as were written as links, and as many files as the target lacks.
LEMMA JudgedCount ==
    ASSUME LookedInv, stage = "judge", NEW s \in ToSet(sections),
           s.source = <<s.shown>>,
           request.allowed \cap AboutMissing = {},
           NEW refused \in SUBSET MissingAt(s.facts),
           \A i \in MissingAt(s.facts) :
              i \in refused <=> \E x \in Findings(s) : x.at = i /\ x.code \in Refusals
    PROVE  /\ \A dest : \A links \in SUBSET MissingAt(s.facts) :
                 (\A i \in MissingAt(s.facts) :
                    i \in links <=> /\ s.shown[i].kind \in {"page", "word"}
                                     /\ PageOf(s.shown[i]) = dest)
                 => Cardinality(links \cap refused)
                      = Cardinality({i \in links : s.shown[i].kind = "page"})
           /\ \A files \in SUBSET MissingAt(s.facts) :
                 /\ \A i \in DOMAIN s.shown : s.shown[i].place # "label"
                 /\ \A i \in MissingAt(s.facts) : i \in files <=> s.shown[i].kind = "file"
                 => Cardinality(files \cap refused)
                      = Cardinality({i \in files : s.shown[i].form # "bare"
                                       \/ names = NoContext \/ s.shown[i].to \notin names[1]})
<1> DEFINE facts == s.facts
           doc == s.shown
<1>2. PICK w, live : /\ IsText(doc) /\ facts = extract_facts(doc, w, live)
                     /\ live => names = NoContext
  BY JudgedText
<1>3. IsFiniteSet(DOMAIN doc) /\ DOMAIN doc \subseteq Int
  <2>1. PICK n \in Nat : DOMAIN doc = 1 .. n
    BY <1>2 DEF IsText
  <2> QED BY <2>1, FS_Interval
<1>4. SourceOf(s) = doc
  BY DEF SourceOf, NoContext
<1>5. \A i \in MissingAt(facts) :
         i \in refused <=> i \notin Incidental(facts, doc) /\ i \notin Cleared(facts, doc, names)
  BY <1>4, RefusedHere
<1>6. \A i \in MissingAt(facts) :
         /\ facts.anchors[i].class = "wiki" <=> doc[i].kind \in {"page", "word"}
         /\ facts.anchors[i].class = "file" <=> doc[i].kind = "file"
  <2> SUFFICES ASSUME NEW i \in MissingAt(facts)
               PROVE  /\ facts.anchors[i].class = "wiki" <=> doc[i].kind \in {"page", "word"}
                      /\ facts.anchors[i].class = "file" <=> doc[i].kind = "file"
    OBVIOUS
  <2>1. i \in Linked(doc) /\ facts.anchors[i] = AnchorOf(doc[i], w, live)
    BY <1>2, Anchors DEF MissingAt
  <2>2. HasAnchor(doc[i])
    BY <2>1 DEF Linked
  <2> QED BY <2>1, <2>2, PageAnchor
<1>7. /\ \A i \in Cleared(facts, doc, names) : facts.anchors[i].class = "file"
      /\ \A i \in Incidental(facts, doc) : facts.anchors[i].class = "wiki"
  BY DEF Cleared, First, FilesAt, Incidental, autolinked_page_name
<1>8. ASSUME NEW dest, NEW links \in SUBSET MissingAt(facts),
             \A i \in MissingAt(facts) :
                i \in links <=> doc[i].kind \in {"page", "word"} /\ PageOf(doc[i]) = dest
      PROVE  Cardinality(links \cap refused)
               = Cardinality({i \in links : doc[i].kind = "page"})
  <2>1. links \cap refused = links \ Incidental(facts, doc)
    <3>1. \A i \in links : i \notin Cleared(facts, doc, names)
      BY <1>6, <1>7, <1>8
    <3> QED BY <1>5, <3>1
  <2>2. links = LinksAt(facts, doc, dest)
    BY <1>8 DEF LinksAt
  <2>3. Cardinality(LinksAt(facts, doc, dest) \ Incidental(facts, doc))
          = Cardinality({i \in LinksAt(facts, doc, dest) : doc[i].kind = "page"})
    BY <1>2, <1>3, PagesCounted
  <2> QED BY <2>1, <2>2, <2>3
<1>9. ASSUME NEW files \in SUBSET MissingAt(facts),
             \A i \in DOMAIN doc : doc[i].place # "label",
             \A i \in MissingAt(facts) : i \in files <=> doc[i].kind = "file"
      PROVE  Cardinality(files \cap refused)
               = Cardinality({i \in files : doc[i].form # "bare"
                                \/ names = NoContext \/ doc[i].to \notin names[1]})
  <2>1. files = FilesAt(facts)
    BY <1>6, <1>9 DEF FilesAt
  <2>2. files \cap refused = files \ Cleared(facts, doc, names)
    <3>1. \A i \in files : i \notin Incidental(facts, doc)
      BY <1>6, <1>7, <1>9
    <3> QED BY <1>5, <3>1
  <2>3. Cardinality(FilesAt(facts) \ Cleared(facts, doc, names))
          = Cardinality({i \in FilesAt(facts) : doc[i].form # "bare"
                           \/ names = NoContext \/ doc[i].to \notin names[1]})
    <3> HIDE DEF facts, doc
    <3> QED BY <1>2, <1>3, <1>9, FilesCounted
  <2> QED BY <2>1, <2>2, <2>3
<1> QED BY <1>8, <1>9

\* Of the links to one page that is missing, as many are refused as were
\* written as links, however many times its name stands in prose; of the
\* attachments, as many as the target does not have.
THEOREM FindingsCounted == Spec => []FindingsAreCounted
<1>1. Init => LookedInv /\ FindingsAreCounted
  BY LookedInit DEF Init, FindingsAreCounted
<1>2. LookedInv /\ FindingsAreCounted /\ [Next]_vars => LookedInv' /\ FindingsAreCounted'
  <2> SUFFICES ASSUME LookedInv, FindingsAreCounted, [Next]_vars PROVE FindingsAreCounted'
    BY LookedStep
  <2>1. request' = request
    BY RequestStays
  <2> DEFINE Counted(j) ==
        LET anchors == j.section.facts.anchors
            missing == {i \in DOMAIN anchors : anchors[i].missing}
            refused == {i \in missing : CodesAt(j, i) \cap Refusals # {}}
            LinksTo(dest) == {i \in missing : /\ ItemOf(j, i).kind \in {"page", "word"}
                                              /\ PageOf(ItemOf(j, i)) = dest}
            IsDead(it) == it.form # "bare" \/ j.names = NoContext
                          \/ it.to \notin j.names[1]
        IN (/\ j.section.source = <<j.section.shown>>
            /\ request.allowed \cap AboutMissing = {}) =>
             /\ \A i \in DOMAIN anchors : ItemOf(j, i).kind \in {"page", "word"} =>
                  LET links == LinksTo(PageOf(ItemOf(j, i)))
                  IN Cardinality(links \cap refused)
                     = Cardinality({k \in links : ItemOf(j, k).kind = "page"})
             /\ (\A it \in ToSet(j.section.shown) : it.place # "label") =>
                  LET files == {i \in missing : ItemOf(j, i).kind = "file"}
                  IN Cardinality(files \cap refused)
                     = Cardinality({k \in files : IsDead(ItemOf(j, k))})
  <2>2. ASSUME NEW j \in judged' PROVE Counted(j)
    <3>1. CASE j \in judged
      BY <3>1 DEF FindingsAreCounted
    <3>2. CASE j \notin judged
      <4>1. /\ j.section \in ToSet(sections) /\ j.findings = Findings(j.section)
            /\ j.names = names
        BY <3>2, JudgedStep
      <4>2. stage = "judge"
        BY <3>2, JudgedStep DEF judge
      <4> SUFFICES ASSUME j.section.source = <<j.section.shown>>,
                          request.allowed \cap AboutMissing = {}
                   PROVE  Counted(j)
        OBVIOUS
      <4> DEFINE missing == MissingAt(j.section.facts)
                 refused == {i \in missing : CodesAt(j, i) \cap Refusals # {}}
                 LinksTo(dest) == {i \in missing : /\ ItemOf(j, i).kind \in {"page", "word"}
                                                   /\ PageOf(ItemOf(j, i)) = dest}
                 files == {i \in missing : ItemOf(j, i).kind = "file"}
                 IsDead(it) == it.form # "bare" \/ j.names = NoContext
                               \/ it.to \notin j.names[1]
      <4>3. /\ \A dest : \A links \in SUBSET missing :
                   (\A i \in missing : i \in links <=>
                      /\ j.section.shown[i].kind \in {"page", "word"}
                      /\ PageOf(j.section.shown[i]) = dest)
                   => Cardinality(links \cap refused)
                        = Cardinality({i \in links : j.section.shown[i].kind = "page"})
            /\ \A fs \in SUBSET missing :
                   /\ \A i \in DOMAIN j.section.shown : j.section.shown[i].place # "label"
                   /\ \A i \in missing : i \in fs <=> j.section.shown[i].kind = "file"
                   => Cardinality(fs \cap refused)
                        = Cardinality({i \in fs : j.section.shown[i].form # "bare"
                                         \/ names = NoContext
                                         \/ j.section.shown[i].to \notin names[1]})
        <5>1. refused \in SUBSET missing
          OBVIOUS
        <5>2. \A i \in missing : i \in refused <=>
                 \E x \in Findings(j.section) : x.at = i /\ x.code \in Refusals
          BY <4>1 DEF CodesAt
        <5> HIDE DEF refused
        <5> QED BY <4>1, <4>2, <5>1, <5>2, JudgedCount
      <4> HIDE DEF refused
      <4>4. ASSUME NEW dest
            PROVE  Cardinality(LinksTo(dest) \cap refused)
                     = Cardinality({k \in LinksTo(dest) : ItemOf(j, k).kind = "page"})
        <5>1. LinksTo(dest) \in SUBSET missing
          OBVIOUS
        <5>2. \A i \in missing : i \in LinksTo(dest) <=>
                 /\ j.section.shown[i].kind \in {"page", "word"}
                 /\ PageOf(j.section.shown[i]) = dest
          BY DEF ItemOf
        <5> HIDE DEF LinksTo, missing
        <5> QED BY <4>3, <5>1, <5>2 DEF ItemOf
      <4>5. ASSUME \A it \in ToSet(j.section.shown) : it.place # "label"
            PROVE  Cardinality(files \cap refused)
                     = Cardinality({k \in files : IsDead(ItemOf(j, k))})
        <5>1. files \in SUBSET missing
          OBVIOUS
        <5>2. \A i \in missing : i \in files <=> j.section.shown[i].kind = "file"
          BY DEF ItemOf
        <5>3. \A i \in DOMAIN j.section.shown : j.section.shown[i].place # "label"
          BY <4>5 DEF ToSet
        <5> HIDE DEF files, missing
        <5> QED BY <4>1, <4>3, <5>1, <5>2, <5>3 DEF ItemOf
      <4> QED BY <4>4, <4>5 DEF refused, MissingAt
    <3> QED BY <3>1, <3>2
  <2> QED BY <2>1, <2>2 DEF FindingsAreCounted
<1> QED BY <1>1, <1>2, PTL DEF Spec
===============================================================================
