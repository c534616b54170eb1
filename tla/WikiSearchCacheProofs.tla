------------------------ MODULE WikiSearchCacheProofs ------------------------
(***************************************************************************)
(* Proofs about WikiSearchCache, for any number of searches, pages, scopes *)
(* and changes, and any size of the batches and of the kept indexes.       *)
(***************************************************************************)
EXTENDS WikiSearchCache, SequenceTheorems, TLAPS

(***************************************************************************)
(* The inductive invariant.                                                *)
(***************************************************************************)

\* A search that has begun has one of the scopes.
ChosenScope == \A s \in Searches : pc[s] # "idle" => scope[s] \in Scopes

\* No revision is later than the clock.
PastRevisions ==
    \A p \in Pages : \A i \in 1 .. Len(history[p]) : history[p][i].time <= clock

\* A search sees what the pages are.
SeesNow ==
    \A s \in Searches : Active(s) => \A p \in Pages : Text(p) \in seen[s][p]

\* What was read of a page is what the page is, as long as it has the key
\* that was read with it: the text is read after the key, and a key that
\* was given up does not come back.
Faithful(p, rec) ==
    /\ rec.key.time <= clock
    /\ p \notin truncated /\ Exists(p) /\ rec.key = PageKey(p)
         => rec.text = Text(p)

RecordsAreFaithful ==
    /\ \A p \in Pages : Faithful(p, cache[p]) /\ Faithful(p, fetched[p])
    /\ infoRead.key.time <= clock

\* A refresh begins with its locals empty.
CleanStart ==
    /\ (\A s \in Searches : pc[s] \notin {"listinfo", "fetch", "index"}) =>
          listing = [p \in Pages |-> NoKey] /\ unlisted = {}
    /\ (\A s \in Searches : pc[s] \notin {"fetch", "index"}) =>
          unread = {} /\ todo = {} /\ fetched = [p \in Pages |-> NoPage]

\* Of a page that is listed, the search has seen what is cached under the
\* listed key; of one that is not, that it is not there.
ListedWasSeen(s) ==
    /\ \A p \in unlisted : listing[p] = NoKey
    /\ \A p \in Pages \ (truncated \cup unlisted) :
          IF listing[p] = NoKey THEN NoText \in seen[s][p]
          ELSE cache[p].key = listing[p] => cache[p].text \in seen[s][p]

\* What is kept was seen, and so was what is read, as far as it is.
ReadWasSeen(s) ==
    /\ unread \subseteq batch
    /\ \A p \in Pages \ truncated :
          /\ p \notin stale => cache[p].text \in seen[s][p]
          /\ p \in stale =>
               /\ fetched[p] = NoPage \/ fetched[p].text \in seen[s][p]
               /\ p \notin unread \cup todo => fetched[p].text \in seen[s][p]

CachedWasSeen(s) ==
    \A p \in Pages \ truncated : cache[p].text \in seen[s][p]

SearchKnows(s) ==
    /\ pc[s] = "listinfo" => ListedWasSeen(s)
    /\ pc[s] = "fetch" => ReadWasSeen(s)
    /\ pc[s] = "index" => CachedWasSeen(s)

\* The kept indexes match the cache, but for changes that are remembered.
Match ==
    \A sc \in Scopes : Indexed(sc) => \A p \in sc : index[sc][p] = cache[p].text

Matching == Match \/ (changed /\ \E s \in Searches : pc[s] = "fetch")

FreshInv ==
    /\ PastRevisions
    /\ SeesNow
    /\ RecordsAreFaithful
    /\ CleanStart
    /\ \A s \in Searches : SearchKnows(s)
    /\ FreshResults

(***************************************************************************)
(* Types.                                                                  *)
(***************************************************************************)

\* What a page is, from its revisions.
LEMMA PageFacts ==
    ASSUME TypeOK, NEW p \in Pages
    PROVE  /\ Len(history[p]) \in Nat
           /\ Exists(p) <=> Len(history[p]) # 0
           /\ Exists(p) => /\ Len(history[p]) \in 1 .. Len(history[p])
                           /\ history[p][Len(history[p])] \in [time : Nat, text : Nat]
           /\ PageKey(p) \in Key
           /\ Text(p) \in Nat
           /\ Exists(p) <=> PageKey(p) # NoKey
<1>1. history[p] \in Seq([time : Nat, text : Nat])
  BY DEF TypeOK
<1>2. /\ Len(history[p]) \in Nat
      /\ Exists(p) <=> Len(history[p]) # 0
      /\ Exists(p) => /\ Len(history[p]) \in 1 .. Len(history[p])
                      /\ history[p][Len(history[p])] \in [time : Nat, text : Nat]
  <2> DEFINE h == history[p]
  <2>1. /\ Len(h) \in Nat
        /\ h = <<>> <=> Len(h) = 0
        /\ \A i \in 1 .. Len(h) : h[i] \in [time : Nat, text : Nat]
    <3> HIDE DEF h
    <3> QED BY <1>1, ElementOfSeq, EmptySeq, LenProperties DEF h
  <2> QED BY <2>1 DEF Exists
<1> QED BY <1>2 DEF PageKey, Text, NoKey, Key, NoText

\* The kept indexes: no more of them than allowed, and none that was not
\* kept before but the one moved to the end.
LEMMA LruFacts ==
    ASSUME TypeOK, NEW sc \in Scopes, lru' = Evicted(MovedToEnd(sc))
    PROVE  /\ lru' \in Seq(Scopes)
           /\ Len(lru') <= IndexMax
           /\ \A o : Indexed(o)' => o = sc \/ Indexed(o)
<1> DEFINE moved == MovedToEnd(sc)
<1>1. /\ lru \in Seq(Scopes) /\ Len(lru) \in Nat /\ Len(lru) <= IndexMax
      /\ \A i \in 1 .. Len(lru) : lru[i] \in Scopes
      /\ IndexMax \in Nat \ {0}
  BY WikiSearchCacheAssumption DEF TypeOK
<1>2. /\ moved \in Seq(Scopes)
      /\ Len(moved) <= IndexMax + 1
      /\ \A i \in 1 .. Len(moved) : moved[i] = sc \/ Indexed(moved[i])
  <2>1. CASE Indexed(sc)
    <3> DEFINE at == CHOOSE j \in 1 .. Len(lru) : lru[j] = sc
               f[j \in 1 .. Len(lru)] ==
                   IF j < at THEN lru[j]
                   ELSE IF j < Len(lru) THEN lru[j + 1] ELSE sc
    <3>1. at \in 1 .. Len(lru)
      BY <2>1 DEF Indexed
    <3>2. ASSUME NEW j \in 1 .. Len(lru)
          PROVE  f[j] \in Scopes /\ (f[j] = sc \/ Indexed(f[j]))
      <4>1. CASE j < at
        BY <1>1, <4>1 DEF Indexed
      <4>2. CASE ~(j < at) /\ j < Len(lru)
        <5>1. j + 1 \in 1 .. Len(lru)
          BY <1>1, <4>2
        <5>2. f[j] = lru[j + 1]
          BY <4>2
        <5> QED BY <1>1, <5>1, <5>2 DEF Indexed
      <4>3. CASE ~(j < at) /\ ~(j < Len(lru))
        BY <4>3
      <4> QED BY <4>1, <4>2, <4>3
    <3>3. moved = f
      BY <2>1 DEF MovedToEnd
    <3>4. f \in [1 .. Len(lru) -> Scopes]
      BY <3>2
    <3> HIDE DEF f, moved
    <3>5. f \in Seq(Scopes) /\ Len(f) = Len(lru)
      BY <1>1, <3>4
    <3> QED BY <1>1, <3>2, <3>3, <3>5
  <2>2. CASE ~Indexed(sc)
    <3>1. moved = Append(lru, sc)
      BY <2>2 DEF MovedToEnd
    <3> HIDE DEF moved
    <3>2. /\ moved \in Seq(Scopes) /\ Len(moved) = Len(lru) + 1
          /\ moved[Len(lru) + 1] = sc
          /\ \A i \in 1 .. Len(lru) : moved[i] = lru[i]
      BY <1>1, <3>1, AppendProperties
    <3> QED BY <1>1, <3>2 DEF Indexed
  <2> QED BY <2>1, <2>2
<1> HIDE DEF moved
<1>3. lru' = IF Len(moved) > IndexMax THEN Tail(moved) ELSE moved
  BY DEF Evicted, moved
<1>4. CASE Len(moved) > IndexMax
  <2>1. moved # <<>> /\ Len(moved) \in Nat
    BY <1>1, <1>2, <1>4
  <2>2. /\ Tail(moved) \in Seq(Scopes) /\ Len(Tail(moved)) = Len(moved) - 1
        /\ \A i \in 1 .. Len(Tail(moved)) : Tail(moved)[i] = moved[i + 1]
    BY <1>2, <2>1, HeadTailProperties
  <2>3. \A i \in 1 .. Len(lru') : lru'[i] = sc \/ Indexed(lru'[i])
    BY <1>2, <1>3, <1>4, <2>1, <2>2
  <2> QED BY <1>1, <1>2, <1>3, <1>4, <2>1, <2>2, <2>3 DEF Indexed
<1>5. CASE ~(Len(moved) > IndexMax)
  BY <1>1, <1>2, <1>3, <1>5 DEF Indexed
<1> QED BY <1>4, <1>5

Typed == TypeOK /\ ChosenScope

\* What is seen of the wiki keeps its type.
LEMMA WitnessedType ==
    ASSUME TypeOK, NEW p \in Pages, NEW t \in Nat, Witnessed(p, t)
    PROVE  seen' \in [Searches -> [Pages -> SUBSET Nat]]
BY DEF TypeOK, Witnessed

\* The steps of the wiki.
LEMMA WikiTypes ==
    ASSUME Typed, NEW p \in Pages,
           SavePage(p) \/ DeletePage(p) \/ DeleteLatestVersion(p)
    PROVE  Typed'
<1> USE DEF Typed, TypeOK, ChosenScope, cacheVars, refreshVars, searchVars
<1>1. CASE SavePage(p)
  <2>1. clock' \in Nat /\ saves' \in Nat
    BY <1>1 DEF SavePage
  <2>2. seen' \in [Searches -> [Pages -> SUBSET Nat]]
    BY <1>1, <2>1, WitnessedType DEF SavePage
  <2>3. Append(history[p], [time |-> clock', text |-> saves + 1])
            \in Seq([time : Nat, text : Nat])
    <3>1. [time |-> clock', text |-> saves + 1] \in [time : Nat, text : Nat]
      BY <2>1
    <3>2. history[p] \in Seq([time : Nat, text : Nat])
      OBVIOUS
    <3> QED BY <3>1, <3>2, AppendProperties
  <2>4. history' \in [Pages -> Seq([time : Nat, text : Nat])]
    BY <1>1, <2>3 DEF SavePage
  <2> QED BY <1>1, <2>1, <2>2, <2>4 DEF SavePage
<1>2. CASE DeletePage(p)
  <2>1. seen' \in [Searches -> [Pages -> SUBSET Nat]]
    BY <1>2, WitnessedType DEF DeletePage, NoText
  <2>2. <<>> \in Seq([time : Nat, text : Nat])
    OBVIOUS
  <2>3. history' \in [Pages -> Seq([time : Nat, text : Nat])]
    BY <1>2, <2>2 DEF DeletePage
  <2> QED BY <1>2, <2>1, <2>3 DEF DeletePage
<1>3. CASE DeleteLatestVersion(p)
  <2> DEFINE h == history[p]
  <2>1. h \in Seq([time : Nat, text : Nat]) /\ Len(h) \in Nat /\ Len(h) > 1
    BY <1>3, PageFacts DEF DeleteLatestVersion
  <2>2. /\ SubSeq(h, 1, Len(h) - 1) \in Seq([time : Nat, text : Nat])
        /\ h[Len(h) - 1] \in [time : Nat, text : Nat]
    <3> HIDE DEF h
    <3>1. 1 \in Int /\ Len(h) - 1 \in Int /\ Len(h) - 1 \in 1 .. Len(h)
      BY <2>1
    <3>2. ASSUME NEW i \in 1 .. Len(h) - 1 PROVE h[i] \in [time : Nat, text : Nat]
      <4>1. i \in 1 .. Len(h)
        BY <2>1
      <4> QED BY <2>1, <4>1, ElementOfSeq, Zenon
    <3>3. h[Len(h) - 1] \in [time : Nat, text : Nat]
      BY <2>1, <3>1, ElementOfSeq, Zenon
    <3>4. SubSeq(h, 1, Len(h) - 1) \in Seq([time : Nat, text : Nat])
      BY <3>1, <3>2, SubSeqProperties, Zenon
    <3> QED BY <3>3, <3>4
  <2>3. seen' \in [Searches -> [Pages -> SUBSET Nat]]
    BY <1>3, <2>2, WitnessedType DEF DeleteLatestVersion
  <2>4. history' \in [Pages -> Seq([time : Nat, text : Nat])]
    BY <1>3, <2>2 DEF DeleteLatestVersion
  <2> QED BY <1>3, <2>3, <2>4 DEF DeleteLatestVersion
<1> QED BY <1>1, <1>2, <1>3

\* That a page may be taken for missing, too.
LEMMA NothingSeenType ==
    ASSUME TypeOK, NEW s \in Searches, NEW p \in Pages,
           \/ UNCHANGED seen
           \/ seen' = [seen EXCEPT ![s][p] = @ \cup {NoText}]
    PROVE  seen' \in [Searches -> [Pages -> SUBSET Nat]]
<1>1. [seen[s] EXCEPT ![p] = @ \cup {NoText}] \in [Pages -> SUBSET Nat]
  BY DEF TypeOK, NoText
<1> QED BY <1>1 DEF TypeOK

\* The steps of a search.
LEMMA SearchTypes ==
    ASSUME Typed, NEW s \in Searches, Begin(s) \/ Acquire(s) \/ Refresh(s)
    PROVE  Typed'
<1> USE DEF Typed, TypeOK, ChosenScope, wikiVars, cacheVars, refreshVars,
            searchVars, Goto, NoKey, NoPage, NoText, NoInfo, Nobody, Key, Record, Texts
<1>1. CASE Begin(s)
  <2>1. PICK chosen \in Scopes : scope' = [scope EXCEPT ![s] = chosen]
    BY <1>1 DEF Begin
  <2>2. chosen \in SUBSET Pages
    BY WikiSearchCacheAssumption
  <2>3. [p \in Pages |-> {Text(p)}] \in [Pages -> SUBSET Nat]
    <3>1. \A p \in Pages : Text(p) \in Nat
      BY PageFacts
    <3> QED BY <3>1
  <2> QED BY <1>1, <2>1, <2>2, <2>3 DEF Begin
<1>2. CASE Acquire(s)
  BY <1>2 DEF Acquire
<1>3. CASE ListRecent(s)
  <2>1. listing' \in [Pages -> Key]
    BY <1>3, PageFacts DEF ListRecent
  <2> QED BY <1>3, <2>1 DEF ListRecent
<1>4. CASE ListFails(s)
  BY <1>4 DEF ListFails, Release
<1>5. CASE ListNames(s)
  BY <1>5 DEF ListNames
<1>6. ASSUME NEW p \in Pages, ListInfo(s, p) PROVE Typed'
  <2>1. listing' \in [Pages -> Key]
    <3>1. PageKey(p) \in Key
      BY PageFacts
    <3> QED BY <1>6, <3>1 DEF ListInfo
  <2>2. seen' \in [Searches -> [Pages -> SUBSET Nat]]
    BY <1>6, NothingSeenType DEF ListInfo
  <2>3. unlisted' \subseteq Pages
    BY <1>6 DEF ListInfo
  <2> QED BY <1>6, <2>1, <2>2, <2>3 DEF ListInfo
<1>7. ASSUME NEW p \in Pages, ReadInfo(s, p) PROVE Typed'
  <2>1. PageKey(p) \in Key
    BY PageFacts
  <2> QED BY <1>7, <2>1 DEF ReadInfo
<1>8. ASSUME NEW p \in Pages, SkipPage(s, p) PROVE Typed'
  <2>1. seen' \in [Searches -> [Pages -> SUBSET Nat]]
    BY <1>8, NothingSeenType DEF SkipPage
  <2>2. unread' \subseteq Pages
    BY <1>8 DEF SkipPage
  <2>3. infoRead' \in [page : Pages \cup {Nobody}, key : Key]
    BY <1>8 DEF SkipPage
  <2>4. UNCHANGED <<wikiVars, absent, lock, cacheVars, listing, unlisted, stale,
                    todo, batch, mode, fetched, changed, searchVars>>
    BY <1>8 DEF SkipPage
  <2> QED BY <2>1, <2>2, <2>3, <2>4
<1>9. CASE Compare(s)
  BY <1>9 DEF Compare
<1>10. CASE StartBatch(s)
  BY <1>10 DEF StartBatch
<1>11. CASE ReadText(s)
  <2>1. PICK p \in unread :
            /\ fetched' = [fetched EXCEPT ![p] =
                              [key |-> infoRead.key, text |-> Text(p)]]
            /\ unread' = unread \ {p}
    BY <1>11 DEF ReadText
  <2>2. [key |-> infoRead.key, text |-> Text(p)] \in Record
    <3>1. Text(p) \in Nat
      BY PageFacts
    <3>2. infoRead.key \in Key
      OBVIOUS
    <3> QED BY <3>1, <3>2
  <2>3. fetched' \in [Pages -> Record] /\ infoRead' = NoInfo
    BY <1>11, <2>1, <2>2 DEF ReadText
  <2> QED BY <1>11, <2>1, <2>3 DEF ReadText
<1>12. CASE BatchFails(s)
  BY <1>12 DEF BatchFails
<1>13. CASE NoMulticall(s)
  BY <1>13 DEF NoMulticall
<1>14. CASE Install(s)
  <2>1. <<>> \in Seq(Scopes) /\ Len(<<>>) <= IndexMax
    BY WikiSearchCacheAssumption
  <2>2. cache' \in [Pages -> Record]
    BY <1>14 DEF Install
  <2>3. lru' \in Seq(Scopes) /\ Len(lru') <= IndexMax
    BY <1>14, <2>1 DEF Install
  <2> QED BY <1>14, <2>2, <2>3 DEF Install
<1>15. CASE TakeIndex(s)
  <2> DEFINE sc == scope[s]
             texts == IF Indexed(sc) THEN index[sc]
                      ELSE [p \in Pages |->
                               IF p \in sc THEN cache[p].text ELSE NoText]
  <2>1. sc \in Scopes
    BY <1>15 DEF TakeIndex
  <2>2. texts \in Texts
    BY <2>1
  <2>3. /\ result' = [result EXCEPT ![s] = texts]
        /\ index' = [index EXCEPT ![sc] = texts]
        /\ lru' = Evicted(MovedToEnd(sc))
    BY <1>15 DEF TakeIndex
  <2>4. lru' \in Seq(Scopes) /\ Len(lru') <= IndexMax
    BY <2>1, <2>3, LruFacts
  <2> HIDE DEF sc, texts
  <2>5. result' \in [Searches -> Texts] /\ index' \in [Scopes -> Texts]
    BY <2>1, <2>2, <2>3
  <2>6. /\ listing' \in [Pages -> Key] /\ fetched' \in [Pages -> Record]
        /\ infoRead' \in [page : Pages \cup {Nobody}, key : Key]
        /\ {unlisted', stale', todo', batch', unread'} = {{}}
        /\ mode' = "single" /\ changed' = FALSE /\ lock' = Nobody
    BY <1>15 DEF TakeIndex, Release, EndRefresh
  <2>7. ChosenScope' /\ pc' \in [Searches -> {"idle", "waiting", "list", "listinfo",
                                             "fetch", "index", "done", "failed"}]
    BY <1>15 DEF TakeIndex
  <2>8. UNCHANGED <<wikiVars, absent, cache, scope, seen>>
    BY <1>15 DEF TakeIndex
  <2> QED BY <2>4, <2>5, <2>6, <2>7, <2>8
<1> QED BY <1>1, <1>2, <1>3, <1>4, <1>5, <1>6, <1>7, <1>8, <1>9, <1>10, <1>11,
           <1>12, <1>13, <1>14, <1>15 DEF Refresh

LEMMA TypedAlways == Spec => []Typed
<1>1. Init => Typed
  <2> SUFFICES ASSUME Init PROVE Typed
    OBVIOUS
  <2> USE DEF Init, NoKey, NoPage, NoText, NoInfo, Nobody, Key, Record, Texts
  <2>1. <<>> \in Seq([time : Nat, text : Nat]) /\ <<>> \in Seq(Scopes)
    OBVIOUS
  <2>2. Len(lru) <= IndexMax
    BY WikiSearchCacheAssumption
  <2> QED BY <2>1, <2>2 DEF Typed, TypeOK, ChosenScope
<1>2. Typed /\ [Next]_vars => Typed'
  <2> SUFFICES ASSUME Typed, [Next]_vars PROVE Typed'
    OBVIOUS
  <2>1. CASE ForgetAbsence
    BY <2>1 DEF ForgetAbsence, Typed, TypeOK, ChosenScope, wikiVars, cacheVars,
                refreshVars, searchVars
  <2>2. CASE UNCHANGED vars
    BY <2>2 DEF vars, Typed, TypeOK, ChosenScope, wikiVars, cacheVars,
                refreshVars, searchVars
  <2> QED BY <2>1, <2>2, WikiTypes, SearchTypes DEF Next
<1> QED BY <1>1, <1>2, PTL DEF Spec

\* The variables keep their types, and the kept indexes their bound.
THEOREM TypeCorrect == Spec => []TypeOK
<1>1. Typed => TypeOK
  BY DEF Typed
<1> QED BY <1>1, TypedAlways, PTL

(***************************************************************************)
(* The lock, and the indexes kept under it.                                *)
(***************************************************************************)

\* One search at a time lists, reads and installs.
THEOREM OneAtATime == Spec => []OneRefresh
<1>1. Init => OneRefresh
  BY WikiSearchCacheAssumption DEF Init, OneRefresh, Nobody
<1>2. TypeOK /\ OneRefresh /\ [Next]_vars => OneRefresh'
  <2> SUFFICES ASSUME TypeOK, OneRefresh, [Next]_vars PROVE OneRefresh'
    OBVIOUS
  <2> USE DEF OneRefresh, searchVars
  <2>1. ASSUME NEW s \in Searches, Begin(s) PROVE OneRefresh'
    BY <2>1 DEF Begin, Goto, TypeOK
  <2>2. ASSUME NEW s \in Searches, Acquire(s) PROVE OneRefresh'
    BY <2>2, WikiSearchCacheAssumption DEF Acquire, Goto, TypeOK, Nobody
  <2>3. ASSUME NEW s \in Searches, Refresh(s) PROVE OneRefresh'
    <3>1. CASE ListRecent(s) \/ ListNames(s) \/ Compare(s) \/ Install(s)
      BY <3>1 DEF ListRecent, ListNames, Compare, Install, Goto, TypeOK
    <3>2. CASE ListFails(s) \/ TakeIndex(s)
      BY <3>2, WikiSearchCacheAssumption
         DEF ListFails, TakeIndex, Release, Goto, TypeOK, Nobody
    <3>3. CASE \/ \E p \in Pages : ListInfo(s, p) \/ ReadInfo(s, p) \/ SkipPage(s, p)
               \/ StartBatch(s) \/ ReadText(s) \/ BatchFails(s) \/ NoMulticall(s)
      BY <3>3 DEF ListInfo, ReadInfo, SkipPage, StartBatch, ReadText, BatchFails,
                  NoMulticall
    <3> QED BY <2>3, <3>1, <3>2, <3>3 DEF Refresh
  <2>4. ASSUME NEW p \in Pages, SavePage(p) \/ DeletePage(p) \/ DeleteLatestVersion(p)
        PROVE  OneRefresh'
    BY <2>4 DEF SavePage, DeletePage, DeleteLatestVersion
  <2>5. CASE ForgetAbsence
    BY <2>5 DEF ForgetAbsence
  <2>6. CASE UNCHANGED vars
    BY <2>6 DEF vars
  <2> QED BY <2>1, <2>2, <2>3, <2>4, <2>5, <2>6 DEF Next
<1> QED BY <1>1, <1>2, TypeCorrect, PTL DEF Spec

\* A step that leaves the cache and the indexes alone.
LEMMA MatchStays ==
    ASSUME Matching, UNCHANGED cacheVars,
           \/ UNCHANGED <<changed, pc>>
           \/ \A s \in Searches : pc[s] # "fetch"
    PROVE  Matching'
BY DEF Matching, Match, Indexed, cacheVars

\* The pages compared: what is dropped from the cache is remembered as a
\* change.
LEMMA CompareMatches ==
    ASSUME TypeOK, OneRefresh, Matching, NEW s \in Searches, Compare(s)
    PROVE  Matching'
<1>1. pc'[s] = "fetch" /\ changed' = (cache' # cache) /\ UNCHANGED <<lru, index>>
  BY DEF Compare, Goto, TypeOK
<1>2. \A o \in Searches : pc[o] # "fetch"
  BY DEF Compare, OneRefresh
<1> QED BY <1>1, <1>2 DEF Matching, Match, Indexed

\* The pages installed: unless the indexes are discarded, nothing was.
LEMMA InstallMatches ==
    ASSUME TypeOK, OneRefresh, Matching, NEW s \in Searches, Install(s)
    PROVE  Matching'
<1>1. CASE changed \/ \E p \in stale : Disturbs(p)
  <2>1. lru' = <<>>
    BY <1>1 DEF Install
  <2> QED BY <2>1 DEF Matching, Match, Indexed
<1>2. CASE ~(changed \/ \E p \in stale : Disturbs(p))
  <2>1. lru' = lru /\ UNCHANGED index
    BY <1>2 DEF Install, refreshVars
  <2>2. \A p \in stale : fetched[p] = NoPage /\ cache[p] = NoPage
    BY <1>2 DEF Disturbs
  <2>3. cache' = cache
    <3>1. \A p \in Pages : cache'[p] = cache[p]
      BY <2>2 DEF Install
    <3>2. cache' = [p \in Pages |-> cache'[p]]
      BY DEF Install
    <3> QED BY <3>1, <3>2 DEF TypeOK
  <2> QED BY <1>2, <2>1, <2>3 DEF Matching, Match, Indexed
<1> QED BY <1>1, <1>2

\* An index is built from what is cached, and kept with those that are.
LEMMA TakeIndexMatches ==
    ASSUME Typed, OneRefresh, Matching, NEW s \in Searches, TakeIndex(s)
    PROVE  /\ Matching'
           /\ \A p \in scope[s] : result'[s][p] = cache[p].text
<1> DEFINE sc == scope[s]
           texts == IF Indexed(sc) THEN index[sc]
                    ELSE [p \in Pages |->
                             IF p \in sc THEN cache[p].text ELSE NoText]
<1>1. /\ sc \in Scopes /\ sc \subseteq Pages
      /\ result' = [result EXCEPT ![s] = texts]
      /\ index' = [index EXCEPT ![sc] = texts]
      /\ lru' = Evicted(MovedToEnd(sc))
      /\ UNCHANGED cache
  BY WikiSearchCacheAssumption DEF TakeIndex, Typed, ChosenScope
<1>2. \A o \in Searches : pc[o] # "fetch"
  BY DEF TakeIndex, OneRefresh
<1>3. Match
  BY <1>2 DEF Matching
<1>4. \A p \in sc : texts[p] = cache[p].text
  BY <1>1, <1>3 DEF Match
<1>5. \A o : Indexed(o)' => o = sc \/ Indexed(o)
  BY <1>1, LruFacts DEF Typed
<1> HIDE DEF texts, sc
<1>6. Match'
  <2> SUFFICES ASSUME NEW o \in Scopes, Indexed(o)', NEW p \in o
               PROVE  index'[o][p] = cache[p].text
    BY <1>1 DEF Match
  <2>1. CASE o = sc
    BY <1>1, <1>4, <2>1 DEF Typed, TypeOK
  <2>2. CASE o # sc
    BY <1>1, <1>3, <1>5, <2>2 DEF Match, Typed, TypeOK
  <2> QED BY <2>1, <2>2
<1>7. result'[s] = texts
  BY <1>1 DEF Typed, TypeOK
<1> QED BY <1>4, <1>6, <1>7 DEF Matching, sc

LEMMA MatchingStep ==
    ASSUME Typed, OneRefresh, Matching, [Next]_vars
    PROVE  Matching'
<1> USE DEF cacheVars, refreshVars, searchVars
<1>1. ASSUME NEW s \in Searches, Begin(s) PROVE Matching'
  <2>1. UNCHANGED <<cacheVars, changed>>
    BY <1>1 DEF Begin
  <2>2. (\E o \in Searches : pc[o] = "fetch") => \E o \in Searches : pc'[o] = "fetch"
    BY <1>1 DEF Begin, Goto, Typed, TypeOK
  <2> QED BY <2>1, <2>2 DEF Matching, Match, Indexed
<1>2. ASSUME NEW s \in Searches, Acquire(s) PROVE Matching'
  <2>1. UNCHANGED <<cacheVars, changed>>
    BY <1>2 DEF Acquire
  <2>2. (\E o \in Searches : pc[o] = "fetch") => \E o \in Searches : pc'[o] = "fetch"
    BY <1>2 DEF Acquire, Goto, Typed, TypeOK
  <2> QED BY <2>1, <2>2 DEF Matching, Match, Indexed
<1>3. ASSUME NEW s \in Searches, Refresh(s) PROVE Matching'
  <2>1. CASE ListRecent(s) \/ ListFails(s) \/ ListNames(s)
    <3>1. \A o \in Searches : pc[o] # "fetch"
      BY <2>1 DEF ListRecent, ListFails, ListNames, OneRefresh
    <3>2. UNCHANGED cacheVars
      BY <2>1 DEF ListRecent, ListFails, ListNames
    <3> QED BY <3>1, <3>2, MatchStays
  <2>2. CASE Compare(s)
    BY <2>2, CompareMatches DEF Typed
  <2>3. CASE Install(s)
    BY <2>3, InstallMatches DEF Typed
  <2>4. CASE TakeIndex(s)
    BY <2>4, TakeIndexMatches
  <2>5. CASE \/ \E p \in Pages : ListInfo(s, p) \/ ReadInfo(s, p) \/ SkipPage(s, p)
             \/ StartBatch(s) \/ ReadText(s) \/ BatchFails(s) \/ NoMulticall(s)
    <3>1. UNCHANGED <<cacheVars, changed, pc>>
      BY <2>5 DEF ListInfo, ReadInfo, SkipPage, StartBatch, ReadText, BatchFails,
                  NoMulticall
    <3> QED BY <3>1, MatchStays
  <2> QED BY <1>3, <2>1, <2>2, <2>3, <2>4, <2>5 DEF Refresh
<1>4. ASSUME NEW p \in Pages, SavePage(p) \/ DeletePage(p) \/ DeleteLatestVersion(p)
      PROVE  Matching'
  <2>1. UNCHANGED <<cacheVars, changed, pc>>
    BY <1>4 DEF SavePage, DeletePage, DeleteLatestVersion
  <2> QED BY <2>1, MatchStays
<1>5. CASE ForgetAbsence
  BY <1>5, MatchStays DEF ForgetAbsence
<1>6. CASE UNCHANGED vars
  BY <1>6, MatchStays DEF vars
<1> QED BY <1>1, <1>2, <1>3, <1>4, <1>5, <1>6 DEF Next

\* An index that is kept is one of the pages now cached.
THEOREM IndexesMatch == Spec => []IndexesMatchCache
<1>1. Init => Matching
  BY DEF Init, Matching, Match, Indexed
<1>2. Typed /\ OneRefresh /\ Matching /\ [Next]_vars => Matching'
  BY MatchingStep
<1>3. OneRefresh /\ Matching => IndexesMatchCache
  <2> SUFFICES ASSUME OneRefresh, Matching, lock = Nobody
               PROVE  Match
    BY DEF IndexesMatchCache, Match
  <2> QED BY WikiSearchCacheAssumption DEF OneRefresh, Matching, Nobody
<1> QED BY <1>1, <1>2, <1>3, TypedAlways, OneAtATime, PTL DEF Spec

(***************************************************************************)
(* Nothing is searched that is older than the search.                      *)
(***************************************************************************)

\* A step of the wiki leaves the searches alone; what they have seen grows.
LEMMA WikiFrame ==
    ASSUME Typed, FreshInv, truncated \subseteq truncated',
           UNCHANGED <<lock, cacheVars, refreshVars, searchVars>>,
           \A s \in Searches : \A p \in Pages : seen[s][p] \subseteq seen'[s][p],
           PastRevisions', SeesNow', RecordsAreFaithful'
    PROVE  FreshInv'
<1> USE DEF cacheVars, refreshVars, searchVars
<1>1. CleanStart'
  BY DEF FreshInv, CleanStart
<1>2. ASSUME NEW s \in Searches PROVE SearchKnows(s)'
  <2>1. ListedWasSeen(s) => ListedWasSeen(s)'
    BY DEF ListedWasSeen
  <2>2. ReadWasSeen(s) => ReadWasSeen(s)'
    BY DEF ReadWasSeen
  <2>3. CachedWasSeen(s) => CachedWasSeen(s)'
    BY DEF CachedWasSeen
  <2> QED BY <2>1, <2>2, <2>3 DEF FreshInv, SearchKnows
<1>3. FreshResults'
  BY DEF FreshInv, FreshResults, Typed, TypeOK
<1> QED BY <1>1, <1>2, <1>3 DEF FreshInv

\* What is seen when page p becomes text t.
LEMMA WitnessedFacts ==
    ASSUME TypeOK, NEW p \in Pages, NEW t \in Nat, Witnessed(p, t), UNCHANGED pc
    PROVE  /\ \A s \in Searches : \A q \in Pages : seen[s][q] \subseteq seen'[s][q]
           /\ \A s \in Searches : Active(s)' => Active(s) /\ t \in seen'[s][p]
<1> SUFFICES ASSUME NEW s \in Searches
             PROVE  /\ \A q \in Pages : seen[s][q] \subseteq seen'[s][q]
                    /\ Active(s)' => Active(s) /\ t \in seen'[s][p]
  OBVIOUS
<1>1. CASE Active(s)
  <2>1. seen'[s] = [seen[s] EXCEPT ![p] = @ \cup {t}]
    BY <1>1 DEF Witnessed
  <2> QED BY <1>1, <2>1 DEF TypeOK
<1>2. CASE ~Active(s)
  BY <1>2 DEF Witnessed, Active, TypeOK
<1> QED BY <1>1, <1>2

\* Pages other than p stay as they are.
LEMMA OtherPages ==
    ASSUME TypeOK, NEW p \in Pages, NEW h, history' = [history EXCEPT ![p] = h]
    PROVE  /\ history'[p] = h
           /\ \A q \in Pages \ {p} : /\ history'[q] = history[q]
                                     /\ Exists(q)' <=> Exists(q)
                                     /\ Text(q)' = Text(q)
                                     /\ PageKey(q)' = PageKey(q)
BY DEF TypeOK, Exists, Text, PageKey

\* A save: its time is later than any that was read.
LEMMA SaveKeeps ==
    ASSUME Typed, FreshInv, ~SameSecond, NEW p \in Pages, SavePage(p)
    PROVE  FreshInv'
<1> DEFINE rev == [time |-> clock + 1, text |-> saves + 1]
           h == Append(history[p], rev)
<1>1. /\ clock \in Nat /\ saves \in Nat
      /\ history[p] \in Seq([time : Nat, text : Nat])
      /\ Len(history[p]) \in Nat
  BY PageFacts DEF Typed, TypeOK
<1>2. clock' = clock + 1 /\ history' = [history EXCEPT ![p] = h]
  BY DEF SavePage
<1>3. /\ Len(h) = Len(history[p]) + 1 /\ h[Len(h)] = rev /\ h # <<>>
      /\ \A i \in 1 .. Len(history[p]) : h[i] = history[p][i]
  BY <1>1
<1> HIDE DEF h
<1>4. history'[p] = h /\ Exists(p)' /\ Text(p)' = saves + 1
      /\ PageKey(p)' = [version |-> Len(h), time |-> clock + 1]
  <2>1. history'[p] = h
    BY <1>2 DEF Typed, TypeOK
  <2>2. Exists(p)'
    BY <1>3, <2>1 DEF Exists
  <2>3. h[Len(h)].text = saves + 1 /\ h[Len(h)].time = clock + 1
    BY <1>3
  <2> HIDE DEF rev
  <2> QED BY <2>1, <2>2, <2>3 DEF Text, PageKey
<1>4a. \A q \in Pages \ {p} : /\ history'[q] = history[q]
                              /\ Exists(q)' <=> Exists(q)
                              /\ Text(q)' = Text(q)
                              /\ PageKey(q)' = PageKey(q)
  BY <1>2, OtherPages, Zenon DEF Typed
<1>5. PastRevisions'
  <2> SUFFICES ASSUME NEW q \in Pages, NEW i \in 1 .. Len(history'[q])
               PROVE  history'[q][i].time <= clock + 1
    BY <1>2 DEF PastRevisions
  <2>1. CASE q = p
    <3>1. CASE i = Len(h)
      BY <1>1, <1>3, <1>4, <2>1, <3>1
    <3>2. CASE i # Len(h)
      <4>1. i \in 1 .. Len(history[p]) /\ h[i] = history[p][i]
        BY <1>1, <1>3, <1>4, <2>1, <3>2
      <4>2. history[p][i] \in [time : Nat, text : Nat]
        BY <1>1, <4>1, ElementOfSeq
      <4>3. history[p][i].time <= clock
        BY <4>1 DEF FreshInv, PastRevisions
      <4> QED BY <1>1, <1>4, <2>1, <4>1, <4>2, <4>3
    <3> QED BY <3>1, <3>2
  <2>2. CASE q # p
    <3>1. history'[q] = history[q]
      BY <1>2, <2>2, OtherPages DEF Typed
    <3>2. history[q] \in Seq([time : Nat, text : Nat])
      BY DEF Typed, TypeOK
    <3>3. history[q][i] \in [time : Nat, text : Nat]
      BY <3>1, <3>2, ElementOfSeq
    <3>4. history[q][i].time <= clock
      BY <3>1 DEF FreshInv, PastRevisions
    <3> QED BY <1>1, <3>1, <3>3, <3>4
  <2> QED BY <2>1, <2>2
<1>6. Witnessed(p, saves + 1) /\ UNCHANGED pc
  BY DEF SavePage, searchVars
<1>7. SeesNow'
  <2> SUFFICES ASSUME NEW s \in Searches, Active(s)', NEW q \in Pages
               PROVE  Text(q)' \in seen'[s][q]
    BY DEF SeesNow
  <2>1. CASE q = p
    BY <1>1, <1>4, <1>6, <2>1, WitnessedFacts DEF Typed
  <2>2. CASE q # p
    <3>1. Active(s) /\ seen[s][q] \subseteq seen'[s][q]
      BY <1>1, <1>6, WitnessedFacts DEF Typed
    <3>2. Text(q) \in seen[s][q]
      BY <3>1 DEF FreshInv, SeesNow
    <3> QED BY <1>4a, <2>2, <3>1, <3>2
  <2> QED BY <2>1, <2>2
<1>8. UNCHANGED <<truncated, cache, fetched, infoRead>>
  BY DEF SavePage, cacheVars, refreshVars
<1>9. ASSUME NEW q \in Pages, NEW rec \in Record, Faithful(q, rec)
      PROVE  /\ rec.key.time <= clock + 1
             /\ q \notin truncated /\ Exists(q)' /\ rec.key = PageKey(q)'
                  => rec.text = Text(q)'
  <2>1. rec.key.time \in Nat /\ rec.key.time <= clock
    BY <1>9 DEF Faithful, Record, Key
  <2>2. CASE q = p
    BY <1>1, <1>4, <2>1, <2>2
  <2>3. CASE q # p
    BY <1>1, <1>4a, <1>9, <2>1, <2>3 DEF Faithful
  <2> QED BY <2>2, <2>3
<1>10. RecordsAreFaithful'
  <2>1. \A q \in Pages : cache[q] \in Record /\ fetched[q] \in Record
    BY DEF Typed, TypeOK
  <2>2. infoRead.key.time \in Nat /\ infoRead.key.time <= clock
    BY DEF Typed, TypeOK, Key, FreshInv, RecordsAreFaithful
  <2>3. \A q \in Pages : Faithful(q, cache[q]) /\ Faithful(q, fetched[q])
    BY DEF FreshInv, RecordsAreFaithful
  <2>4. infoRead.key.time <= clock + 1
    BY <1>1, <2>2
  <2>5. \A q \in Pages : Faithful(q, cache[q])' /\ Faithful(q, fetched[q])'
    BY <1>2, <1>8, <1>9, <2>1, <2>3 DEF Faithful
  <2> QED BY <1>2, <1>8, <2>4, <2>5 DEF RecordsAreFaithful
<1>11. \A s \in Searches : \A q \in Pages : seen[s][q] \subseteq seen'[s][q]
  BY <1>1, <1>6, WitnessedFacts DEF Typed
<1> QED BY <1>5, <1>7, <1>8, <1>10, <1>11, WikiFrame DEF SavePage

\* The length of a sequence that loses its last element.
LEMMA OneLess ==
    ASSUME NEW len \in Nat, len > 1, NEW n, n = len - 1
    PROVE  /\ n \in Nat \ {0} /\ 1 \in Int /\ n \in Int /\ n \in 1 .. len
           /\ \A i \in 1 .. n : i \in 1 .. len
OBVIOUS

\* A deletion, of the page or of its latest version: the page is not there,
\* or is one that lost a version.
LEMMA DeleteKeeps ==
    ASSUME Typed, FreshInv, NEW p \in Pages,
           DeletePage(p) \/ DeleteLatestVersion(p)
    PROVE  FreshInv'
<1> DEFINE h == history'[p]
<1>1. /\ history' = [history EXCEPT ![p] = h]
      /\ UNCHANGED <<clock, lock, cacheVars, refreshVars, searchVars>>
      /\ truncated \subseteq truncated'
  BY DEF DeletePage, DeleteLatestVersion, Typed, TypeOK
<1>2. \A q \in Pages \ {p} : /\ history'[q] = history[q]
                             /\ Exists(q)' <=> Exists(q)
                             /\ Text(q)' = Text(q)
                             /\ PageKey(q)' = PageKey(q)
  <2> HIDE DEF h
  <2> QED BY <1>1, OtherPages, Zenon DEF Typed
<1>3. /\ Text(p)' \in Nat /\ Witnessed(p, Text(p)')
      /\ p \in truncated' \/ ~Exists(p)'
      /\ \A i \in 1 .. Len(h) : i \in 1 .. Len(history[p]) /\ h[i] = history[p][i]
  <2>1. CASE DeletePage(p)
    <3>1. h = <<>>
      BY <2>1 DEF DeletePage, Typed, TypeOK
    <3>2. ~Exists(p)' /\ Text(p)' = NoText
      BY <3>1 DEF Exists, Text
    <3>3. Len(h) = 0
      BY <3>1
    <3> QED BY <2>1, <3>2, <3>3 DEF DeletePage, NoText
  <2>2. CASE DeleteLatestVersion(p)
    <3> DEFINE g == history[p]
               n == Len(history[p]) - 1
    <3>1. /\ h = SubSeq(g, 1, n) /\ Witnessed(p, g[n].text)
          /\ p \in truncated' /\ Len(g) > 1
          /\ g \in Seq([time : Nat, text : Nat])
      BY <2>2 DEF DeleteLatestVersion, Typed, TypeOK
    <3>2. Len(g) \in Nat /\ \A i \in 1 .. Len(g) : g[i] \in [time : Nat, text : Nat]
      <4> HIDE DEF g
      <4> QED BY <3>1, LenProperties, ElementOfSeq
    <3> HIDE DEF g
    <3>3. /\ n \in Nat \ {0} /\ 1 \in Int /\ n \in Int /\ n \in 1 .. Len(g)
          /\ \A i \in 1 .. n : i \in 1 .. Len(g)
      <4>1. n = Len(g) - 1
        BY DEF g
      <4> HIDE DEF n
      <4>2. Len(g) \in Nat /\ Len(g) > 1
        BY <3>1, <3>2
      <4> QED BY <4>1, <4>2, OneLess
    <3> HIDE DEF n
    <3>3a. 1 <= n /\ n - 1 + 1 = n /\ \A i \in Int : 1 + i - 1 = i
      BY <3>3
    <3>4. /\ Len(h) = n
          /\ \A i \in 1 .. n : h[i] = g[i]
      <4>1. \A i \in 1 .. n : g[i] \in [time : Nat, text : Nat]
        BY <3>2, <3>3
      <4> HIDE DEF h
      <4>2. /\ Len(SubSeq(g, 1, n)) = IF 1 <= n THEN n - 1 + 1 ELSE 0
            /\ \A i \in 1 .. n - 1 + 1 : SubSeq(g, 1, n)[i] = g[1 + i - 1]
        BY <3>3, <4>1, SubSeqProperties
      <4>3. Len(h) = n
        BY <3>1, <3>3a, <4>2
      <4>4. ASSUME NEW i \in 1 .. n PROVE h[i] = g[i]
        <5>1. 1 + i - 1 = i /\ i \in 1 .. n - 1 + 1
          BY <3>3, <3>3a
        <5> QED BY <3>1, <4>2, <5>1
      <4> QED BY <4>3, <4>4
    <3>5. Text(p)' = g[n].text
      <4>1. h # <<>>
        BY <3>3, <3>4
      <4>2. h[n] = g[n]
        BY <3>3, <3>4
      <4> QED BY <3>4, <4>1, <4>2 DEF Text, Exists
    <3>6. g[n].text \in Nat
      BY <3>2, <3>3
    <3> QED BY <3>1, <3>3, <3>4, <3>5, <3>6 DEF g
  <2> QED BY <2>1, <2>2
<1> HIDE DEF h
<1>4. PastRevisions'
  <2> SUFFICES ASSUME NEW q \in Pages, NEW i \in 1 .. Len(history'[q])
               PROVE  history'[q][i].time <= clock
    BY <1>1 DEF PastRevisions
  <2>1. CASE q = p
    BY <1>3, <2>1 DEF h, FreshInv, PastRevisions
  <2>2. CASE q # p
    BY <1>2, <2>2 DEF FreshInv, PastRevisions
  <2> QED BY <2>1, <2>2
<1>5. /\ \A s \in Searches : \A q \in Pages : seen[s][q] \subseteq seen'[s][q]
      /\ \A s \in Searches : Active(s)' => Active(s) /\ Text(p)' \in seen'[s][p]
  <2>1. UNCHANGED pc
    BY <1>1 DEF searchVars
  <2> QED BY <1>3, <2>1, WitnessedFacts DEF Typed
<1>6. SeesNow'
  <2> SUFFICES ASSUME NEW s \in Searches, Active(s)', NEW q \in Pages
               PROVE  Text(q)' \in seen'[s][q]
    BY DEF SeesNow
  <2>1. CASE q = p
    BY <1>5, <2>1
  <2>2. CASE q # p
    <3>1. Active(s) /\ seen[s][q] \subseteq seen'[s][q]
      BY <1>5
    <3>2. Text(q) \in seen[s][q]
      BY <3>1 DEF FreshInv, SeesNow
    <3> QED BY <1>2, <2>2, <3>1, <3>2
  <2> QED BY <2>1, <2>2
<1>7. RecordsAreFaithful'
  <2>1. ASSUME NEW q \in Pages, NEW rec, Faithful(q, rec)
        PROVE  /\ rec.key.time <= clock
               /\ q \notin truncated' /\ Exists(q)' /\ rec.key = PageKey(q)'
                    => rec.text = Text(q)'
    <3>1. CASE q = p
      BY <1>3, <2>1, <3>1 DEF Faithful
    <3>2. CASE q # p
      BY <1>1, <1>2, <2>1, <3>2 DEF Faithful
    <3> QED BY <3>1, <3>2
  <2>2. \A q \in Pages : Faithful(q, cache[q])' /\ Faithful(q, fetched[q])'
    <3>1. UNCHANGED <<clock, cache, fetched>>
      BY <1>1 DEF cacheVars, refreshVars
    <3>2. \A q \in Pages : Faithful(q, cache[q]) /\ Faithful(q, fetched[q])
      BY DEF FreshInv, RecordsAreFaithful
    <3> QED BY <2>1, <3>1, <3>2 DEF Faithful
  <2> QED BY <1>1, <2>2 DEF FreshInv, RecordsAreFaithful, refreshVars
<1> QED BY <1>1, <1>4, <1>5, <1>6, <1>7, WikiFrame

\* A search begins with what the pages are, and takes the lock with the
\* locals of the refresh empty.
LEMMA BeginKeeps ==
    ASSUME Typed, FreshInv, NEW s \in Searches, Begin(s) \/ Acquire(s)
    PROVE  FreshInv'
<1> USE DEF wikiVars, cacheVars, refreshVars, searchVars
<1>1. /\ UNCHANGED <<wikiVars, cacheVars, refreshVars, result>>
      /\ pc[s] \in {"idle", "waiting"} /\ pc'[s] \in {"waiting", "list"}
      /\ \A o \in Searches \ {s} : /\ pc'[o] = pc[o] /\ scope'[o] = scope[o]
                                  /\ seen'[o] = seen[o]
  BY DEF Begin, Acquire, Goto, Typed, TypeOK
<1>2. \A p \in Pages : Text(p)' = Text(p) /\ Text(p) \in seen'[s][p]
  <2>1. CASE Begin(s)
    <3>1. seen'[s] = [p \in Pages |-> {Text(p)}]
      BY <2>1 DEF Begin, Typed, TypeOK
    <3> QED BY <1>1, <3>1 DEF Text, Exists
  <2>2. CASE Acquire(s)
    <3>1. Active(s) /\ seen' = seen
      BY <2>2 DEF Acquire, Active
    <3> QED BY <1>1, <3>1 DEF FreshInv, SeesNow, Text, Exists
  <2> QED BY <2>1, <2>2
<1>3. PastRevisions'
  BY <1>1 DEF FreshInv, PastRevisions
<1>4. SeesNow'
  BY <1>1, <1>2 DEF FreshInv, SeesNow, Active
<1>5. RecordsAreFaithful'
  <2>1. \A p \in Pages : Faithful(p, cache[p])' /\ Faithful(p, fetched[p])'
    BY <1>1 DEF FreshInv, RecordsAreFaithful, Faithful, Exists, Text, PageKey
  <2> QED BY <1>1, <2>1 DEF FreshInv, RecordsAreFaithful
<1>6. CleanStart'
  BY <1>1 DEF FreshInv, CleanStart
<1>7. ASSUME NEW o \in Searches PROVE SearchKnows(o)'
  <2>1. CASE o = s
    BY <1>1, <2>1 DEF SearchKnows
  <2>2. CASE o # s
    BY <1>1, <2>2 DEF FreshInv, SearchKnows, ListedWasSeen, ReadWasSeen, CachedWasSeen
  <2> QED BY <2>1, <2>2
<1>8. FreshResults'
  BY <1>1 DEF FreshInv, FreshResults
<1> QED BY <1>3, <1>4, <1>5, <1>6, <1>7, <1>8 DEF FreshInv

\* A step of the search that holds the lock leaves the wiki and the other
\* searches alone.
LEMMA RefreshFrame ==
    ASSUME Typed, OneRefresh, FreshInv, NEW s \in Searches,
           pc[s] \in {"list", "listinfo", "fetch", "index"},
           UNCHANGED <<wikiVars, scope>>,
           \A o \in Searches \ {s} : /\ pc'[o] = pc[o] /\ result'[o] = result[o]
                                    /\ seen'[o] = seen[o],
           \A p \in Pages : seen[s][p] \subseteq seen'[s][p],
           RecordsAreFaithful', CleanStart', SearchKnows(s)',
           pc'[s] = "done" =>
               \A p \in scope[s] \ truncated : result'[s][p] \in seen'[s][p]
    PROVE  FreshInv'
<1>1. PastRevisions'
  BY DEF FreshInv, PastRevisions, wikiVars
<1>2. SeesNow'
  <2>1. \A p \in Pages : Text(p)' = Text(p)
    BY DEF wikiVars, Text, Exists
  <2> QED BY <2>1 DEF FreshInv, SeesNow, Active
<1>3. ASSUME NEW o \in Searches, o # s PROVE SearchKnows(o)'
  <2>1. pc'[o] \notin {"list", "listinfo", "fetch", "index"}
    BY <1>3 DEF OneRefresh
  <2> QED BY <2>1 DEF SearchKnows
<1>4. FreshResults'
  BY DEF FreshInv, FreshResults, wikiVars
<1> QED BY <1>1, <1>2, <1>3, <1>4 DEF FreshInv

\* The records are as faithful as they were when none is new.
LEMMA RecordsStay ==
    ASSUME FreshInv, UNCHANGED <<wikiVars, infoRead>>,
           \A p \in Pages : /\ cache'[p] \in {cache[p], fetched[p], NoPage}
                           /\ fetched'[p] \in {fetched[p], NoPage},
           Typed
    PROVE  RecordsAreFaithful'
<1>1. clock \in Nat
  BY DEF Typed, TypeOK
<1>2. \A p \in Pages : /\ Exists(p)' <=> Exists(p)
                      /\ PageKey(p)' = PageKey(p) /\ Text(p)' = Text(p)
  BY DEF wikiVars, Exists, PageKey, Text
<1>3. ASSUME NEW p \in Pages PROVE Faithful(p, NoPage)
  <2>1. NoPage.key = NoKey /\ NoKey.time = 0
    BY DEF NoPage, NoKey
  <2>2. Exists(p) => PageKey(p) # NoKey
    BY PageFacts DEF Typed
  <2> QED BY <1>1, <2>1, <2>2 DEF Faithful
<1>4. ASSUME NEW p \in Pages, NEW rec, Faithful(p, rec)
      PROVE  /\ rec.key.time <= clock'
             /\ p \notin truncated' /\ Exists(p)' /\ rec.key = PageKey(p)'
                  => rec.text = Text(p)'
  BY <1>2, <1>4 DEF Faithful, wikiVars
<1>5. \A p \in Pages : Faithful(p, cache[p])' /\ Faithful(p, fetched[p])'
  BY <1>3, <1>4 DEF FreshInv, RecordsAreFaithful, Faithful
<1> QED BY <1>5 DEF FreshInv, RecordsAreFaithful, wikiVars

\* What a search takes a page for is added to what it has seen.
LEMMA SeenGrows ==
    ASSUME TypeOK, NEW s \in Searches, NEW p \in Pages,
           \/ UNCHANGED seen
           \/ seen' = [seen EXCEPT ![s][p] = @ \cup {NoText}]
    PROVE  /\ \A o \in Searches \ {s} : seen'[o] = seen[o]
           /\ \A q \in Pages : seen[s][q] \subseteq seen'[s][q]
<1>1. CASE UNCHANGED seen
  BY <1>1
<1>2. CASE seen' = [seen EXCEPT ![s][p] = @ \cup {NoText}]
  <2>1. /\ seen'[s] = [seen[s] EXCEPT ![p] = @ \cup {NoText}]
        /\ \A o \in Searches \ {s} : seen'[o] = seen[o]
    BY <1>2 DEF TypeOK
  <2>2. seen[s] \in [Pages -> SUBSET Nat]
    BY DEF TypeOK
  <2> QED BY <2>1, <2>2
<1> QED BY <1>1, <1>2

\* The listing.
LEMMA ListingKeeps ==
    ASSUME Typed, OneRefresh, FreshInv, NEW s \in Searches,
           \/ ListRecent(s) \/ ListNames(s) \/ ListFails(s)
           \/ \E p \in Pages : ListInfo(s, p)
    PROVE  FreshInv'
<1> USE DEF wikiVars, cacheVars, searchVars
<1>1. /\ UNCHANGED <<wikiVars, scope, result, cache, infoRead, fetched>>
      /\ pc[s] \in {"list", "listinfo", "fetch", "index"}
      /\ \A o \in Searches \ {s} : /\ pc'[o] = pc[o] /\ result'[o] = result[o]
                                  /\ seen'[o] = seen[o]
      /\ \A p \in Pages : seen[s][p] \subseteq seen'[s][p]
      /\ pc'[s] # "done"
  <2>1. ASSUME NEW p \in Pages, ListInfo(s, p)
        PROVE  /\ \A o \in Searches \ {s} : seen'[o] = seen[o]
               /\ \A q \in Pages : seen[s][q] \subseteq seen'[s][q]
               /\ UNCHANGED <<wikiVars, searchVars, cache, infoRead, fetched>>
               /\ pc[s] = "listinfo"
    BY <2>1, SeenGrows DEF ListInfo, Typed
  <2>2. CASE ListRecent(s) \/ ListNames(s) \/ ListFails(s)
    BY <2>2 DEF ListRecent, ListNames, ListFails, Goto, refreshVars, Typed, TypeOK
  <2> QED BY <2>1, <2>2
<1>2. RecordsAreFaithful'
  BY <1>1, RecordsStay
<1>3. \A o \in Searches : pc[o] \notin {"fetch", "index"}
  BY DEF ListRecent, ListNames, ListFails, ListInfo, OneRefresh
<1>4. CleanStart' /\ SearchKnows(s)'
  <2>1. CASE ListFails(s)
    <3>1. pc'[s] = "failed" /\ UNCHANGED refreshVars
      BY <2>1 DEF ListFails, Goto, Typed, TypeOK
    <3>2. \A o \in Searches : pc[o] \notin {"listinfo", "fetch", "index"}
      BY <2>1 DEF ListFails, OneRefresh
    <3> QED BY <1>1, <3>1, <3>2 DEF FreshInv, CleanStart, SearchKnows, refreshVars
  <2>2. CASE ~ListFails(s)
    <3>1. pc'[s] = "listinfo" /\ UNCHANGED <<unread, todo, fetched>>
      BY <2>2 DEF ListRecent, ListNames, ListInfo, Goto, Typed, TypeOK
    <3>2. CleanStart'
      BY <1>3, <3>1 DEF FreshInv, CleanStart
    <3>3. ASSUME NEW p \in Pages \ truncated, listing'[p] = PageKey(p)
          PROVE  IF listing'[p] = NoKey THEN NoText \in seen'[s][p]
                 ELSE cache'[p].key = listing'[p] => cache'[p].text \in seen'[s][p]
      <4>1. Text(p) \in seen[s][p]
        BY <1>1 DEF FreshInv, SeesNow, Active
      <4>2. Exists(p) <=> PageKey(p) # NoKey
        BY PageFacts DEF Typed
      <4>3. ~Exists(p) => Text(p) = NoText
        BY DEF Text
      <4>4. Faithful(p, cache[p])
        BY DEF FreshInv, RecordsAreFaithful
      <4> QED BY <1>1, <3>3, <4>1, <4>2, <4>3, <4>4 DEF Faithful
    <3>4. ListedWasSeen(s)'
      <4>1. CASE ListRecent(s)
        <5>1. unlisted' = {} /\ \A p \in Pages : listing'[p] = PageKey(p)
          BY <4>1 DEF ListRecent
        <5> QED BY <1>1, <3>3, <5>1 DEF ListedWasSeen
      <4>2. CASE ListNames(s)
        <5>1. unlisted' = {p \in Pages : Exists(p)} /\ listing' = listing
          BY <4>2 DEF ListNames
        <5>2. listing = [p \in Pages |-> NoKey]
          <6>1. \A o \in Searches : pc[o] \notin {"listinfo", "fetch", "index"}
            BY <4>2 DEF ListNames, OneRefresh
          <6> QED BY <6>1 DEF FreshInv, CleanStart
        <5>3. \A p \in Pages \ unlisted' : PageKey(p) = NoKey
          BY <5>1 DEF PageKey
        <5> QED BY <1>1, <3>3, <5>1, <5>2, <5>3 DEF ListedWasSeen
      <4>3. ASSUME NEW p \in Pages, ListInfo(s, p) PROVE ListedWasSeen(s)'
        <5>1. /\ ListedWasSeen(s) /\ p \in unlisted /\ unlisted' = unlisted \ {p}
          BY <4>3 DEF ListInfo, FreshInv, SearchKnows
        <5>2. \A q \in Pages \ {p} : listing'[q] = listing[q]
          BY <4>3 DEF ListInfo, Typed, TypeOK
        <5>3. \/ listing'[p] = PageKey(p)
              \/ listing'[p] = NoKey /\ NoText \in seen'[s][p]
          <6>1. CASE listing' = [listing EXCEPT ![p] = PageKey(p)]
            BY <6>1 DEF Typed, TypeOK
          <6>2. CASE listing' = listing /\ seen' = [seen EXCEPT ![s][p] = @ \cup {NoText}]
            <7>1. NoText \in seen'[s][p]
              BY <6>2 DEF Typed, TypeOK
            <7> QED BY <5>1, <6>2, <7>1 DEF ListedWasSeen
          <6> QED BY <4>3, <6>1, <6>2 DEF ListInfo
        <5>4. \A q \in unlisted' : listing'[q] = NoKey
          BY <5>1, <5>2 DEF ListedWasSeen, Typed, TypeOK
        <5>5. ASSUME NEW q \in Pages \ (truncated \cup unlisted')
              PROVE  IF listing'[q] = NoKey THEN NoText \in seen'[s][q]
                     ELSE cache'[q].key = listing'[q] => cache'[q].text \in seen'[s][q]
          <6>1. CASE q = p
            BY <3>3, <5>3, <6>1
          <6>2. CASE q # p
            BY <1>1, <5>1, <5>2, <6>2 DEF ListedWasSeen
          <6> QED BY <6>1, <6>2
        <5> QED BY <1>1, <5>4, <5>5 DEF ListedWasSeen
      <4> QED BY <2>2, <4>1, <4>2, <4>3
    <3> QED BY <3>1, <3>2, <3>4 DEF SearchKnows
  <2> QED BY <2>1, <2>2
<1> QED BY <1>1, <1>2, <1>4, RefreshFrame

\* The comparison: what is kept is cached under the very key that is listed.
LEMMA CompareKeeps ==
    ASSUME Typed, OneRefresh, FreshInv, NEW s \in Searches, Compare(s)
    PROVE  FreshInv'
<1> USE DEF wikiVars
<1>1. /\ UNCHANGED <<wikiVars, scope, result, seen, infoRead, fetched, listing>>
      /\ pc[s] = "listinfo" /\ pc'[s] = "fetch" /\ unlisted = {}
      /\ \A o \in Searches \ {s} : pc'[o] = pc[o]
      /\ \A p \in Pages : cache'[p] = IF listing[p] = NoKey THEN NoPage ELSE cache[p]
      /\ stale' = {p \in Pages : listing[p] # NoKey /\ cache[p].key # listing[p]}
      /\ stale' \subseteq unread' \cup todo'
      /\ unread = {} => unread' \subseteq batch'
  BY DEF Compare, Outdated, Goto, Typed, TypeOK
<1>2. \A o \in Searches : pc[o] \notin {"fetch", "index"}
  BY <1>1 DEF OneRefresh
<1>3. unread = {} /\ fetched = [p \in Pages |-> NoPage]
  BY <1>2 DEF FreshInv, CleanStart
<1>4. RecordsAreFaithful'
  BY <1>1, RecordsStay
<1>5. CleanStart'
  BY <1>1 DEF CleanStart
<1>6. ReadWasSeen(s)'
  <2>1. ListedWasSeen(s)
    BY <1>1 DEF FreshInv, SearchKnows
  <2>2. ASSUME NEW p \in Pages \ truncated, p \notin stale'
        PROVE  cache'[p].text \in seen[s][p]
    <3>1. NoPage.text = NoText
      BY DEF NoPage
    <3> QED BY <1>1, <2>1, <2>2, <3>1 DEF ListedWasSeen
  <2>3. \A p \in Pages : fetched'[p] = NoPage
    BY <1>1, <1>3
  <2> QED BY <1>1, <1>3, <2>2, <2>3 DEF ReadWasSeen
<1> QED BY <1>1, <1>4, <1>5, <1>6, RefreshFrame DEF SearchKnows

\* The reads: a text that is read is the text the page has.
LEMMA ReadingKeeps ==
    ASSUME Typed, OneRefresh, FreshInv, NEW s \in Searches,
           \/ StartBatch(s) \/ ReadText(s) \/ BatchFails(s) \/ NoMulticall(s)
           \/ \E p \in Pages : ReadInfo(s, p) \/ SkipPage(s, p)
    PROVE  FreshInv'
<1> USE DEF wikiVars, cacheVars, searchVars
<1>1. /\ UNCHANGED <<wikiVars, pc, scope, result, cache, stale, listing, unlisted>>
      /\ pc[s] = "fetch"
      /\ \A o \in Searches \ {s} : seen'[o] = seen[o]
      /\ \A p \in Pages : seen[s][p] \subseteq seen'[s][p]
  <2>1. ASSUME NEW p \in Pages, SkipPage(s, p)
        PROVE  /\ \A o \in Searches \ {s} : seen'[o] = seen[o]
               /\ \A q \in Pages : seen[s][q] \subseteq seen'[s][q]
               /\ UNCHANGED <<wikiVars, searchVars, cache, stale, listing, unlisted>>
               /\ pc[s] = "fetch"
    BY <2>1, SeenGrows DEF SkipPage, Typed
  <2>2. CASE ~\E p \in Pages : SkipPage(s, p)
    BY <2>2 DEF StartBatch, ReadText, BatchFails, NoMulticall, ReadInfo
  <2> QED BY <2>1, <2>2
<1>2. ReadWasSeen(s)
  BY <1>1 DEF FreshInv, SearchKnows
<1>3. CleanStart'
  BY <1>1 DEF FreshInv, CleanStart
<1>4. ASSUME RecordsAreFaithful', ReadWasSeen(s)'
      PROVE  FreshInv'
  BY <1>1, <1>3, <1>4, RefreshFrame DEF SearchKnows
<1>5. CASE StartBatch(s)
  <2>1. /\ UNCHANGED <<seen, infoRead, fetched>>
        /\ unread' \subseteq batch' /\ unread' \cup todo' = unread \cup todo
    BY <1>5 DEF StartBatch
  <2>2. RecordsAreFaithful'
    BY <1>1, <2>1, RecordsStay
  <2>3. ReadWasSeen(s)'
    BY <1>1, <1>2, <2>1 DEF ReadWasSeen
  <2> QED BY <1>4, <2>2, <2>3
<1>6. ASSUME NEW p \in Pages, ReadInfo(s, p) PROVE FreshInv'
  <2>1. /\ UNCHANGED <<seen, fetched, unread, batch, todo>>
        /\ infoRead'.key = PageKey(p) /\ Exists(p)
    BY <1>6 DEF ReadInfo
  <2>2. ReadWasSeen(s)'
    BY <1>1, <1>2, <2>1 DEF ReadWasSeen
  <2>3. PageKey(p).time <= clock
    <3>1. PageKey(p).time = history[p][Len(history[p])].time
      BY <2>1 DEF PageKey
    <3>2. Len(history[p]) \in 1 .. Len(history[p])
      BY <2>1, PageFacts DEF Typed
    <3> QED BY <3>1, <3>2 DEF FreshInv, PastRevisions
  <2>4. \A q \in Pages : Faithful(q, cache[q])' /\ Faithful(q, fetched[q])'
    BY <1>1, <2>1 DEF FreshInv, RecordsAreFaithful, Faithful, Exists, PageKey, Text
  <2>5. RecordsAreFaithful'
    BY <1>1, <2>1, <2>3, <2>4 DEF RecordsAreFaithful
  <2> QED BY <1>4, <2>2, <2>5
<1>7. CASE ReadText(s)
  <2>1. PICK p \in unread :
            /\ Exists(p)
            /\ fetched' = [fetched EXCEPT ![p] =
                              [key |-> infoRead.key, text |-> Text(p)]]
            /\ unread' = unread \ {p}
    BY <1>7 DEF ReadText
  <2>2. /\ p \in Pages /\ infoRead' = NoInfo /\ UNCHANGED <<seen, batch, todo>>
        /\ fetched'[p] = [key |-> infoRead.key, text |-> Text(p)]
        /\ \A q \in Pages \ {p} : fetched'[q] = fetched[q]
    BY <1>7, <2>1 DEF ReadText, Typed, TypeOK
  <2>3. Text(p) \in seen[s][p]
    BY <1>1, <2>2 DEF FreshInv, SeesNow, Active
  <2>4. ReadWasSeen(s)'
    <3>1. unread' \subseteq batch'
      BY <1>2, <2>1, <2>2 DEF ReadWasSeen
    <3>2. ASSUME NEW q \in Pages \ truncated, q \in stale
          PROVE  /\ fetched'[q] = NoPage \/ fetched'[q].text \in seen'[s][q]
                 /\ q \notin unread' \cup todo' => fetched'[q].text \in seen'[s][q]
      <4>1. CASE q = p
        BY <2>2, <2>3, <4>1
      <4>2. CASE q # p
        BY <1>2, <2>1, <2>2, <3>2, <4>2 DEF ReadWasSeen
      <4> QED BY <4>1, <4>2
    <3> QED BY <1>1, <1>2, <2>2, <3>1, <3>2 DEF ReadWasSeen
  <2>5. \A q \in Pages : Faithful(q, cache[q])' /\ Faithful(q, fetched[q])'
    <3> SUFFICES ASSUME NEW q \in Pages
                 PROVE  Faithful(q, cache[q])' /\ Faithful(q, fetched[q])'
      OBVIOUS
    <3>1. Faithful(q, cache[q])'
      BY <1>1 DEF FreshInv, RecordsAreFaithful, Faithful, Exists, PageKey, Text
    <3>2. CASE q = p
      <4>1. infoRead.key.time <= clock
        BY DEF FreshInv, RecordsAreFaithful
      <4>2. Text(q)' = Text(q) /\ clock' = clock
        BY <1>1 DEF Text, Exists
      <4>3. Faithful(q, fetched[q])'
        BY <2>2, <3>2, <4>1, <4>2 DEF Faithful
      <4> QED BY <3>1, <4>3
    <3>3. CASE q # p
      BY <1>1, <2>2, <3>1, <3>3
         DEF FreshInv, RecordsAreFaithful, Faithful, Exists, PageKey, Text
    <3> QED BY <3>2, <3>3
  <2>6. infoRead'.key.time <= clock'
    BY <1>1, <2>2 DEF NoInfo, NoKey, Typed, TypeOK
  <2>7. RecordsAreFaithful'
    BY <2>5, <2>6 DEF RecordsAreFaithful
  <2> QED BY <1>4, <2>4, <2>7
<1>8. ASSUME NEW p \in Pages, SkipPage(s, p) PROVE FreshInv'
  <2>1. /\ UNCHANGED <<fetched, batch, todo>> /\ infoRead' = NoInfo
        /\ unread' = unread \ {p}
        /\ NoText \in seen'[s][p]
    <3>1. seen' = [seen EXCEPT ![s][p] = @ \cup {NoText}]
      BY <1>8 DEF SkipPage
    <3>2. seen'[s] = [seen[s] EXCEPT ![p] = @ \cup {NoText}]
      BY <3>1 DEF Typed, TypeOK
    <3>3. seen[s] \in [Pages -> SUBSET Nat]
      BY DEF Typed, TypeOK
    <3> QED BY <1>8, <3>2, <3>3 DEF SkipPage
  <2>2. NoPage.text = NoText
    BY DEF NoPage
  <2>3. ReadWasSeen(s)'
    BY <1>1, <1>2, <2>1, <2>2 DEF ReadWasSeen
  <2>4. \A q \in Pages : Faithful(q, cache[q])' /\ Faithful(q, fetched[q])'
    BY <1>1, <2>1 DEF FreshInv, RecordsAreFaithful, Faithful, Exists, PageKey, Text
  <2>5. infoRead'.key.time <= clock'
    BY <1>1, <2>1 DEF NoInfo, NoKey, Typed, TypeOK
  <2>6. RecordsAreFaithful'
    BY <2>4, <2>5 DEF RecordsAreFaithful
  <2> QED BY <1>4, <2>3, <2>6
<1>9. CASE BatchFails(s)
  <2>1. /\ UNCHANGED <<seen, batch, todo>> /\ infoRead' = NoInfo /\ unread' = batch
        /\ \A p \in Pages : fetched'[p] = IF p \in batch THEN NoPage ELSE fetched[p]
    BY <1>9 DEF BatchFails
  <2>2. ReadWasSeen(s)'
    BY <1>1, <1>2, <2>1 DEF ReadWasSeen
  <2>3. \A q \in Pages : Faithful(q, cache[q])' /\ Faithful(q, fetched[q])'
    <3>1. \A q \in Pages : Exists(q) => PageKey(q) # NoKey
      BY PageFacts DEF Typed
    <3>2. NoPage.key = NoKey /\ NoKey.time <= clock
      BY DEF NoPage, NoKey, Typed, TypeOK
    <3> QED BY <1>1, <2>1, <3>1, <3>2
            DEF FreshInv, RecordsAreFaithful, Faithful, Exists, PageKey, Text
  <2>4. infoRead'.key.time <= clock'
    BY <1>1, <2>1 DEF NoInfo, NoKey, Typed, TypeOK
  <2>5. RecordsAreFaithful'
    BY <2>3, <2>4 DEF RecordsAreFaithful
  <2> QED BY <1>4, <2>2, <2>5
<1>10. CASE NoMulticall(s)
  <2>1. /\ UNCHANGED <<seen, infoRead, fetched>>
        /\ unread' \subseteq batch' /\ unread \cup todo \subseteq unread' \cup todo'
    BY <1>10 DEF NoMulticall
  <2>2. RecordsAreFaithful'
    BY <1>1, <2>1, RecordsStay
  <2>3. ReadWasSeen(s)'
    BY <1>1, <1>2, <2>1 DEF ReadWasSeen
  <2> QED BY <1>4, <2>2, <2>3
<1> QED BY <1>5, <1>6, <1>7, <1>8, <1>9, <1>10

\* What was read is installed, and what is cached is searched.
LEMMA EndingKeeps ==
    ASSUME Typed, OneRefresh, Matching, FreshInv, NEW s \in Searches,
           Install(s) \/ TakeIndex(s)
    PROVE  FreshInv'
<1> USE DEF wikiVars
<1>1. CASE Install(s)
  <2>1. /\ UNCHANGED <<wikiVars, scope, result, seen, infoRead, fetched>>
        /\ pc[s] = "fetch" /\ pc'[s] = "index" /\ todo = {} /\ unread = {}
        /\ \A o \in Searches \ {s} : pc'[o] = pc[o]
        /\ \A p \in Pages : cache'[p] = IF p \in stale THEN fetched[p] ELSE cache[p]
    BY <1>1 DEF Install, Goto, refreshVars, Typed, TypeOK
  <2>2. RecordsAreFaithful'
    BY <2>1, RecordsStay
  <2>3. CleanStart'
    BY <2>1 DEF CleanStart
  <2>4. ReadWasSeen(s)
    BY <2>1 DEF FreshInv, SearchKnows
  <2>5. CachedWasSeen(s)'
    BY <2>1, <2>4 DEF ReadWasSeen, CachedWasSeen
  <2> QED BY <2>1, <2>2, <2>3, <2>5, RefreshFrame DEF SearchKnows
<1>2. CASE TakeIndex(s)
  <2>1. /\ UNCHANGED <<wikiVars, scope, seen, cache>>
        /\ pc[s] = "index" /\ pc'[s] = "done"
        /\ \A o \in Searches \ {s} : pc'[o] = pc[o] /\ result'[o] = result[o]
        /\ EndRefresh
    BY <1>2 DEF TakeIndex, Goto, Typed, TypeOK
  <2>2. \A p \in scope[s] : result'[s][p] = cache[p].text
    BY <1>2, TakeIndexMatches
  <2>3. scope[s] \subseteq Pages /\ CachedWasSeen(s)
    BY <2>1 DEF FreshInv, SearchKnows, Typed, TypeOK
  <2>4. \A p \in scope[s] \ truncated : result'[s][p] \in seen[s][p]
    BY <2>2, <2>3 DEF CachedWasSeen
  <2>5. CleanStart'
    BY <2>1 DEF CleanStart, EndRefresh
  <2>6. RecordsAreFaithful'
    <3>1. \A p \in Pages : fetched'[p] = NoPage
      BY <2>1 DEF EndRefresh
    <3>2. \A q \in Pages : Exists(q) => PageKey(q) # NoKey
      BY PageFacts DEF Typed
    <3>3. NoPage.key = NoKey /\ NoKey.time <= clock
      BY DEF NoPage, NoKey, Typed, TypeOK
    <3>4. \A q \in Pages : Faithful(q, cache[q])' /\ Faithful(q, fetched[q])'
      BY <2>1, <3>1, <3>2, <3>3
         DEF FreshInv, RecordsAreFaithful, Faithful, Exists, PageKey, Text
    <3> QED BY <2>1, <3>3, <3>4 DEF RecordsAreFaithful, EndRefresh, NoInfo
  <2> QED BY <2>1, <2>4, <2>5, <2>6, RefreshFrame DEF SearchKnows
<1> QED BY <1>1, <1>2

\* Where no two revisions share a second, a search finds of a page that did
\* not lose only its latest version what the page was at some moment since
\* the search began, and misses only a page that was not there or could not
\* be read.
THEOREM FreshSearches == ~SameSecond => (Spec => []FreshResults)
<1> SUFFICES ASSUME ~SameSecond PROVE Spec => []FreshResults
  OBVIOUS
<1>1. Init => FreshInv
  <2> SUFFICES ASSUME Init PROVE FreshInv
    OBVIOUS
  <2>1. \A p \in Pages : ~Exists(p) /\ Len(history[p]) = 0
    BY DEF Init, Exists
  <2>2. PastRevisions
    BY <2>1 DEF PastRevisions
  <2>3. \A s \in Searches : pc[s] = "idle"
    BY DEF Init
  <2>4. RecordsAreFaithful
    BY <2>1 DEF Init, RecordsAreFaithful, Faithful, NoPage, NoKey, NoInfo
  <2> QED BY <2>2, <2>3, <2>4
          DEF Init, FreshInv, SeesNow, Active, CleanStart, SearchKnows, FreshResults
<1>2. Typed /\ OneRefresh /\ Matching /\ FreshInv /\ [Next]_vars => FreshInv'
  <2> SUFFICES ASSUME Typed, OneRefresh, Matching, FreshInv, [Next]_vars
               PROVE  FreshInv'
    OBVIOUS
  <2>1. ASSUME NEW s \in Searches, Begin(s) \/ Acquire(s) PROVE FreshInv'
    BY <2>1, BeginKeeps
  <2>2. ASSUME NEW s \in Searches, Refresh(s) PROVE FreshInv'
    BY <2>2, ListingKeeps, CompareKeeps, ReadingKeeps, EndingKeeps DEF Refresh
  <2>3. ASSUME NEW p \in Pages, SavePage(p) \/ DeletePage(p) \/ DeleteLatestVersion(p)
        PROVE  FreshInv'
    BY <2>3, SaveKeeps, DeleteKeeps
  <2>4. CASE ForgetAbsence \/ UNCHANGED vars
    <3>1. UNCHANGED <<wikiVars, lock, cacheVars, refreshVars, searchVars, seen>>
      BY <2>4 DEF ForgetAbsence, vars
    <3>2. PastRevisions' /\ SeesNow' /\ RecordsAreFaithful'
      BY <3>1 DEF FreshInv, PastRevisions, SeesNow, RecordsAreFaithful, Faithful, Active,
                  Exists, PageKey, Text, wikiVars, cacheVars, refreshVars, searchVars
    <3> QED BY <3>1, <3>2, WikiFrame DEF wikiVars
  <2> QED BY <2>1, <2>2, <2>3, <2>4 DEF Next
<1>3. Init => Matching
  BY DEF Init, Matching, Match, Indexed
<1>4. Typed /\ OneRefresh /\ Matching /\ [Next]_vars => Matching'
  BY MatchingStep
<1>5. FreshInv => FreshResults
  BY DEF FreshInv
<1> QED BY <1>1, <1>2, <1>3, <1>4, <1>5, TypedAlways, OneAtATime, PTL DEF Spec

=============================================================================
