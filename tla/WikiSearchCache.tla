--------------------------- MODULE WikiSearchCache ---------------------------
(***************************************************************************)
(* The page cache behind wiki_search: TracClient.search_wiki_pages,        *)
(* _refresh_wiki_cache and the fetches under it (core/client.py).          *)
(*                                                                         *)
(* Searches run in threads; the cache and the per-scope indexes are        *)
(* refreshed under one lock.  A refresh is a listing and then, for each    *)
(* page that looks changed, its info and its text, and the wiki goes on    *)
(* changing between any two of those reads (a system.multicall executes    *)
(* its entries one by one on the server, so batching does not help).       *)
(*                                                                         *)
(* A stored revision is its modification time, in seconds as XML-RPC       *)
(* carries it, and a text that no other revision has; a page is the        *)
(* sequence of its revisions and its version their number.                 *)
(***************************************************************************)
EXTENDS Naturals, Sequences, FiniteSets

CONSTANTS
    Pages,
    Scopes,           \* the prefixes searched for, each the pages it matches
    Searches,         \* calls of search_wiki_pages, each made once
    IndexMax,         \* WIKI_SCOPE_INDEX_MAX
    BatchPages,       \* WIKI_FETCH_BATCH_PAGES
    MaxSaves,         \* bound: revisions stored while the model runs
    PageDeletes,      \* bound: deletions of a page or of a latest version
    SameSecond,       \* whether two revisions may fall into one second
    OneByOne          \* whether a server may lack getRecentChanges

ASSUME WikiSearchCacheAssumption ==
    /\ \A scope \in Scopes : scope \subseteq Pages
    /\ IndexMax \in Nat \ {0}
    /\ BatchPages \in Nat \ {0}
    /\ MaxSaves \in Nat
    /\ PageDeletes \in Nat
    /\ {SameSecond, OneByOne} \subseteq BOOLEAN
    /\ "nobody" \notin Pages \cup Searches

VARIABLES
    \* The wiki.
    history,      \* each page's revisions, oldest first
    clock,        \* the second of the latest save
    saves,        \* how many saves there have been; the next text's number
    deletions,    \* how many deletions (bounded)
    truncated,    \* history: the pages that have lost only a latest version
    \* The client, shared by the searches.
    absent,       \* _wiki_multicall: remembered missing
    lock,         \* _wiki_cache_lock: who holds it
    cache,        \* _wiki_cache
    lru,          \* _wiki_scope_index: its scopes, oldest first ...
    index,        \* ... and the texts each was built from
    \* The refresh in progress: locals of the lock's holder.
    listing,      \* the key each page was listed with
    unlisted,     \* the fallback: pages whose info is still to be read
    stale,        \* the pages to read again ...
    todo,         \* ... those of no batch yet ...
    batch,        \* ... those of the batch under way ...
    unread,       \* ... and what is left of it
    mode,         \* how the batch is read: "multi" or "single"
    infoRead,     \* the page whose info was read and text was not
    fetched,      \* what has been read, by page
    changed,      \* the cache differs from what the indexes were built from
    \* Per search.
    pc,
    scope,
    result,       \* the texts searched
    seen          \* history: what each page was since the search began

wikiVars    == <<history, clock, saves, deletions, truncated>>
cacheVars   == <<cache, lru, index>>
refreshVars == <<listing, unlisted, stale, todo, batch, unread, mode,
                 infoRead, fetched, changed>>
searchVars  == <<pc, scope, result>>
vars == <<wikiVars, absent, lock, cacheVars, refreshVars, searchVars, seen>>

Nobody  == "nobody"
NoText  == 0
NoKey   == [version |-> 0, time |-> 0]
NoPage  == [key |-> NoKey, text |-> NoText]

Key     == [version : Nat, time : Nat]
Record  == [key : Key, text : Nat]
Texts   == [Pages -> Nat]

TypeOK ==
    /\ history \in [Pages -> Seq([time : Nat, text : Nat])]
    /\ clock \in Nat
    /\ saves \in Nat
    /\ deletions \in Nat
    /\ truncated \subseteq Pages
    /\ absent \in BOOLEAN
    /\ lock \in Searches \cup {Nobody}
    /\ cache \in [Pages -> Record]
    /\ lru \in Seq(Scopes) /\ Len(lru) <= IndexMax
    /\ index \in [Scopes -> Texts]
    /\ listing \in [Pages -> Key]
    /\ unlisted \subseteq Pages
    /\ stale \subseteq Pages
    /\ todo \subseteq Pages
    /\ batch \subseteq Pages
    /\ unread \subseteq Pages
    /\ mode \in {"multi", "single"}
    /\ infoRead \in [page : Pages \cup {Nobody}, key : Key]
    /\ fetched \in [Pages -> Record]
    /\ changed \in BOOLEAN
    /\ pc \in [Searches -> {"idle", "waiting", "list", "listinfo", "fetch",
                            "index", "done", "failed"}]
    /\ scope \in [Searches -> SUBSET Pages]
    /\ result \in [Searches -> Texts]
    /\ seen \in [Searches -> [Pages -> SUBSET Nat]]

\* What a page is now: its text, and the key getPageInfo gives.
Exists(p)  == history[p] # <<>>
Text(p)    == IF Exists(p) THEN history[p][Len(history[p])].text ELSE NoText
PageKey(p) ==
    IF Exists(p)
    THEN [version |-> Len(history[p]), time |-> history[p][Len(history[p])].time]
    ELSE NoKey

NoInfo == [page |-> Nobody, key |-> NoKey]

Init ==
    /\ history = [p \in Pages |-> <<>>]
    /\ clock = 1
    /\ saves = 0
    /\ deletions = 0
    /\ truncated = {}
    /\ absent = FALSE
    /\ lock = Nobody
    /\ cache = [p \in Pages |-> NoPage]
    /\ lru = <<>>
    /\ index = [s \in Scopes |-> [p \in Pages |-> NoText]]
    /\ listing = [p \in Pages |-> NoKey]
    /\ unlisted = {}
    /\ stale = {}
    /\ todo = {}
    /\ batch = {}
    /\ unread = {}
    /\ mode = "single"
    /\ infoRead = NoInfo
    /\ fetched = [p \in Pages |-> NoPage]
    /\ changed = FALSE
    /\ pc = [s \in Searches |-> "idle"]
    /\ scope = [s \in Searches |-> {}]
    /\ result = [s \in Searches |-> [p \in Pages |-> NoText]]
    /\ seen = [s \in Searches |-> [p \in Pages |-> {}]]

(***************************************************************************)
(* The wiki changes.                                                       *)
(***************************************************************************)

Active(s) == pc[s] \notin {"idle", "done", "failed"}

\* Page p is now (or reads as) text t, for every search under way.
Witnessed(p, t) ==
    seen' = [s \in Searches |->
                IF Active(s) THEN [seen[s] EXCEPT ![p] = @ \cup {t}]
                             ELSE seen[s]]

SavePage(p) ==
    /\ saves < MaxSaves
    /\ clock' \in {clock + 1} \cup (IF SameSecond THEN {clock} ELSE {})
    /\ saves' = saves + 1
    /\ history' = [history EXCEPT ![p] =
                      Append(@, [time |-> clock', text |-> saves + 1])]
    /\ Witnessed(p, saves + 1)
    /\ UNCHANGED <<deletions, truncated, absent, lock, cacheVars, refreshVars,
                   searchVars>>

DeletePage(p) ==
    /\ deletions < PageDeletes
    /\ Exists(p)
    /\ history' = [history EXCEPT ![p] = <<>>]
    /\ deletions' = deletions + 1
    /\ Witnessed(p, NoText)
    /\ UNCHANGED <<clock, saves, truncated, absent, lock, cacheVars, refreshVars,
                   searchVars>>

\* Trac can delete the latest version of a page and keep the others.
DeleteLatestVersion(p) ==
    /\ deletions < PageDeletes
    /\ Len(history[p]) > 1
    /\ history' = [history EXCEPT ![p] = SubSeq(@, 1, Len(@) - 1)]
    /\ deletions' = deletions + 1
    /\ truncated' = truncated \cup {p}
    /\ Witnessed(p, history[p][Len(history[p]) - 1].text)
    /\ UNCHANGED <<clock, saves, absent, lock, cacheVars, refreshVars,
                   searchVars>>

(***************************************************************************)
(* search_wiki_pages, up to the listing.                                   *)
(***************************************************************************)

Goto(s, step) == pc' = [pc EXCEPT ![s] = step]

Begin(s) ==
    /\ pc[s] = "idle"
    /\ \E chosen \in Scopes : scope' = [scope EXCEPT ![s] = chosen]
    /\ seen' = [seen EXCEPT ![s] = [p \in Pages |-> {Text(p)}]]
    /\ Goto(s, "waiting")
    /\ UNCHANGED <<wikiVars, absent, lock, cacheVars, refreshVars, result>>

Acquire(s) ==
    /\ pc[s] = "waiting"
    /\ lock = Nobody
    /\ lock' = s
    /\ Goto(s, "list")
    /\ UNCHANGED <<wikiVars, absent, cacheVars, refreshVars, scope, result,
                   seen>>

KeepLock == UNCHANGED lock                                    \* faulty
Release == lock' = Nobody

\* wiki.getRecentChanges from the epoch lists every page in one reply.
ListRecent(s) ==
    /\ pc[s] = "list"
    /\ listing' = [p \in Pages |-> PageKey(p)]
    /\ unlisted' = {}
    /\ Goto(s, "listinfo")
    /\ UNCHANGED <<wikiVars, absent, lock, cacheVars, stale, todo, batch,
                   unread, mode, infoRead, fetched, changed, scope, result,
                   seen>>

\* The listing fails: so does the search, and the lock is released.
ListFails(s) ==
    /\ pc[s] = "list"
    /\ Release
    /\ Goto(s, "failed")
    /\ UNCHANGED <<wikiVars, absent, cacheVars, refreshVars, scope, result,
                   seen>>

\* A server without it: getAllPages, and getPageInfo page by page, leaving
\* out a page whose info cannot be read.
ListNames(s) ==
    /\ OneByOne
    /\ pc[s] = "list"
    /\ unlisted' = {p \in Pages : Exists(p)}
    /\ Goto(s, "listinfo")
    /\ UNCHANGED <<wikiVars, absent, lock, cacheVars, listing, stale, todo,
                   batch, unread, mode, infoRead, fetched, changed, scope,
                   result, seen>>

ListInfo(s, p) ==
    /\ pc[s] = "listinfo"
    /\ p \in unlisted
    /\ unlisted' = unlisted \ {p}
    /\ \/ /\ listing' = [listing EXCEPT ![p] = PageKey(p)]
          /\ UNCHANGED seen
       \/ /\ seen' = [seen EXCEPT ![s][p] = @ \cup {NoText}]
          /\ UNCHANGED listing
    /\ UNCHANGED <<wikiVars, absent, lock, cacheVars, stale, todo, batch,
                   unread, mode, infoRead, fetched, changed, searchVars>>

(***************************************************************************)
(* _refresh_wiki_cache: what is gone, what is stale, and the reads.        *)
(***************************************************************************)

\* A page is read again unless it is cached under the very key it is listed
\* with: neither the version alone nor the time alone will do.
OutdatedVersion(p) == cache[p].key.version # listing[p].version \* faulty
Outdated(p) == cache[p].key # listing[p]

Compare(s) ==
    /\ pc[s] = "listinfo"
    /\ unlisted = {}
    /\ cache' = [p \in Pages |->
                    IF listing[p] = NoKey THEN NoPage ELSE cache[p]]
    /\ changed' = (cache' # cache)
    /\ stale' = {p \in Pages : listing[p] # NoKey /\ Outdated(p)}
    /\ IF absent THEN todo' = {} /\ batch' = stale' /\ unread' = stale'
                 ELSE todo' = stale' /\ UNCHANGED <<batch, unread>>
    /\ Goto(s, "fetch")
    /\ UNCHANGED <<wikiVars, absent, lock, lru, index, listing, unlisted, mode,
                   infoRead, fetched, scope, result, seen>>

StartBatch(s) ==
    /\ pc[s] = "fetch"
    /\ unread = {}
    /\ \E pages \in SUBSET todo :
        /\ pages # {}
        /\ Cardinality(pages) = BatchPages \/ pages = todo
        /\ Cardinality(pages) <= BatchPages
        /\ batch' = pages
        /\ unread' = pages
        /\ todo' = todo \ pages
    /\ mode' = "multi"
    /\ UNCHANGED <<wikiVars, absent, lock, cacheVars, listing, unlisted, stale,
                   infoRead, fetched, changed, searchVars, seen>>

\* getPageInfo, then getPage: the text is never older than the key.
ReadInfo(s, p) ==
    /\ pc[s] = "fetch"
    /\ p \in unread
    /\ infoRead = NoInfo
    /\ Exists(p)
    /\ infoRead' = [page |-> p, key |-> PageKey(p)]
    /\ UNCHANGED <<wikiVars, absent, lock, cacheVars, listing, unlisted, stale,
                   todo, batch, unread, mode, fetched, changed, searchVars,
                   seen>>

ReadText(s) ==
    /\ pc[s] = "fetch"
    /\ \E p \in unread :
        /\ infoRead.page = p
        /\ Exists(p)
        /\ fetched' = [fetched EXCEPT ![p] =
                          [key |-> infoRead.key, text |-> Text(p)]]
        /\ unread' = unread \ {p}
    /\ infoRead' = NoInfo
    /\ UNCHANGED <<wikiVars, absent, lock, cacheVars, listing, unlisted, stale,
                   todo, batch, mode, changed, searchVars, seen>>

\* A page whose info or text cannot be read is skipped.  A multicall reply
\* of the wrong shape skips every page of the batch.
SkipPage(s, p) ==
    /\ pc[s] = "fetch"
    /\ p \in unread
    /\ infoRead.page \in {p, Nobody}
    /\ unread' = unread \ {p}
    /\ infoRead' = NoInfo
    /\ seen' = [seen EXCEPT ![s][p] = @ \cup {NoText}]
    /\ UNCHANGED <<wikiVars, absent, lock, cacheVars, listing, unlisted, stale,
                   todo, batch, mode, fetched, changed, searchVars>>

\* A multicall that fails as a whole (a fault, a timeout, an unparseable
\* reply) is read again, page by page.
BatchFails(s) ==
    /\ pc[s] = "fetch"
    /\ mode = "multi"
    /\ batch # {}
    /\ mode' = "single"
    /\ unread' = batch
    /\ infoRead' = NoInfo
    /\ fetched' = [p \in Pages |-> IF p \in batch THEN NoPage ELSE fetched[p]]
    /\ UNCHANGED <<wikiVars, absent, lock, cacheVars, listing, unlisted, stale,
                   todo, batch, changed, searchVars, seen>>

\* No multicall on this server: it is remembered missing, and everything
\* not read yet is read page by page.
NoMulticall(s) ==
    /\ pc[s] = "fetch"
    /\ mode = "multi"
    /\ batch # {}
    /\ unread = batch
    /\ infoRead = NoInfo
    /\ absent' = TRUE
    /\ mode' = "single"
    /\ batch' = batch \cup todo
    /\ unread' = batch \cup todo
    /\ todo' = {}
    /\ UNCHANGED <<wikiVars, lock, cacheVars, listing, unlisted, stale,
                   infoRead, fetched, changed, searchVars, seen>>

\* Installing a page that was read, or dropping one that was not, changes
\* the cache the indexes were built from.
OnlyWhenRead(p) == fetched[p] # NoPage                        \* faulty
Disturbs(p) == fetched[p] # NoPage \/ cache[p] # NoPage

Install(s) ==
    /\ pc[s] = "fetch"
    /\ todo = {}
    /\ unread = {}
    /\ cache' = [p \in Pages |-> IF p \in stale THEN fetched[p] ELSE cache[p]]
    /\ lru' = IF changed \/ \E p \in stale : Disturbs(p) THEN <<>> ELSE lru
    /\ Goto(s, "index")
    /\ UNCHANGED <<wikiVars, absent, lock, index, refreshVars, scope, result,
                   seen>>

(***************************************************************************)
(* search_wiki_pages: the scope's index, least recently used ones evicted. *)
(***************************************************************************)

Indexed(sc) == \E i \in 1 .. Len(lru) : lru[i] = sc

\* The scope in the last place: moved there, or inserted.
MovedToEnd(sc) ==
    IF Indexed(sc)
    THEN LET i == CHOOSE j \in 1 .. Len(lru) : lru[j] = sc
         IN [j \in 1 .. Len(lru) |-> IF j < i THEN lru[j]
                                     ELSE IF j < Len(lru) THEN lru[j + 1] ELSE sc]
    ELSE Append(lru, sc)

Evicted(scopes) ==
    IF Len(scopes) > IndexMax THEN Tail(scopes) ELSE scopes

\* The locals of a refresh end with it.
EndRefresh ==
    /\ listing' = [p \in Pages |-> NoKey]
    /\ unlisted' = {}
    /\ stale' = {}
    /\ todo' = {}
    /\ batch' = {}
    /\ unread' = {}
    /\ mode' = "single"
    /\ infoRead' = NoInfo
    /\ fetched' = [p \in Pages |-> NoPage]
    /\ changed' = FALSE

TakeIndex(s) ==
    /\ pc[s] = "index"
    /\ LET sc == scope[s]
           texts == IF Indexed(sc)
                    THEN index[sc]
                    ELSE [p \in Pages |->
                             IF p \in sc THEN cache[p].text ELSE NoText]
       IN  /\ result' = [result EXCEPT ![s] = texts]
           /\ index' = [index EXCEPT ![sc] = texts]
           /\ lru' = Evicted(MovedToEnd(sc))
    /\ Release
    /\ EndRefresh
    /\ Goto(s, "done")
    /\ UNCHANGED <<wikiVars, absent, cache, scope, seen>>

\* _OptionalMethod: the absence of multicall is forgotten after a while.
ForgetAbsence ==
    /\ absent
    /\ absent' = FALSE
    /\ UNCHANGED <<wikiVars, lock, cacheVars, refreshVars, searchVars, seen>>

-----------------------------------------------------------------------------

Refresh(s) ==
    \/ ListRecent(s) \/ ListFails(s) \/ ListNames(s)
    \/ \E p \in Pages : ListInfo(s, p) \/ ReadInfo(s, p) \/ SkipPage(s, p)
    \/ Compare(s) \/ StartBatch(s) \/ ReadText(s) \/ BatchFails(s)
    \/ NoMulticall(s) \/ Install(s) \/ TakeIndex(s)

Next ==
    \/ \E s \in Searches : Begin(s) \/ Acquire(s) \/ Refresh(s)
    \/ \E p \in Pages : SavePage(p) \/ DeletePage(p) \/ DeleteLatestVersion(p)
    \/ ForgetAbsence

\* Every request of a refresh is answered or times out, and a free lock is
\* taken by some search that waits for it.
Fairness == \A s \in Searches : WF_vars(Refresh(s)) /\ WF_vars(Acquire(s))

Spec == Init /\ [][Next]_vars /\ Fairness

-----------------------------------------------------------------------------

\* Whatever changes while a search waits, lists, reads and ranks, the text
\* it searches for a page is one the page had at some moment since the
\* search began, and a page is left out only if at some moment it did not
\* exist or could not be read.  Nothing older survives in the cache, unless
\* the page fell back to an earlier version (or, with SameSecond, came back
\* at the same version in the same second): then the key may be an old one
\* and the text cached under it a newer one.
FreshResults ==
    \A s \in Searches :
        pc[s] = "done" =>
            \A p \in scope[s] \ truncated : result[s][p] \in seen[s][p]

\* An index that is kept is the index of the pages now cached: every change
\* of the cache discards the indexes before the lock is released.
IndexesMatchCache ==
    lock = Nobody =>
        \A sc \in Scopes : Indexed(sc) =>
            \A p \in sc : index[sc][p] = cache[p].text

\* The lock excludes: one search at a time lists, reads and installs.
OneRefresh ==
    \A s \in Searches : lock = s <=> pc[s] \in {"list", "listinfo", "fetch",
                                                "index"}

\* A search that has begun ends: a listing that fails, a batch that fails
\* or a page that cannot be read never leaves the lock behind.
EverySearchEnds ==
    \A s \in Searches : pc[s] = "waiting" ~> pc[s] \in {"done", "failed"}

\* _refresh_wiki_cache: "a deleted and recreated page, a deleted latest
\* version and a page without a version are all seen": a search during which
\* nothing changes and nothing fails searches the wiki as it is.
ChangesAreAllSeen ==
    \A s \in Searches :
        pc[s] = "done" =>
            \A p \in scope[s] :
                Cardinality(seen[s][p]) = 1 => result[s][p] \in seen[s][p]

=============================================================================
