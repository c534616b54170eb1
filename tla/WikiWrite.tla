------------------------------ MODULE WikiWrite ------------------------------
(***************************************************************************)
(* Versioned writes to one wiki page through TracClient.put_wiki_page      *)
(* (core/client.py) by the tools wiki_update, wiki_create, wiki_delete     *)
(* (mcp/tools/wiki_write.py) and wiki_file_push (mcp/tools/wiki_file.py),  *)
(* against a Trac server that may or may not have the plugin method        *)
(* wiki.putPageIfVersion (plugins/tracrpc_comment/wiki_put.py).            *)
(*                                                                         *)
(* Tool calls run in threads and overlap freely.  Every XML-RPC request is *)
(* a step of its own; a write request is two steps of the server, because  *)
(* WikiPage.save inserts version + 1 of a version it loaded earlier and    *)
(* only the (name, version) primary key stands between the two.  The reply *)
(* to a write may be lost, and the request behind it may still be served   *)
(* after the caller has given up on it.                                    *)
(*                                                                         *)
(* The data are abstracted to what tells writes apart: a stored revision   *)
(* is a row [version, rev] where rev is unique over all time, so a page    *)
(* deleted and created again at the same version is a different row.       *)
(***************************************************************************)
EXTENDS Naturals

CONSTANTS
    Calls,        \* tool calls, each made at most once
    Tools,        \* the tools those calls may be of
    MaxWebSaves,  \* bound: saves by other Trac users (web UI, other clients)
    WebDeletes,   \* whether other Trac users may delete the page
    Deployments   \* whether the server may start with the plugin, without

ASSUME WikiWriteAssumption ==
    /\ Tools \subseteq {"update", "create", "push", "delete"}
    /\ MaxWebSaves \in Nat
    /\ WebDeletes \in BOOLEAN
    /\ Deployments \subseteq BOOLEAN

VARIABLES
    \* The Trac server.
    rows,         \* the page's rows in the wiki table
    lastRev,      \* the number of revisions ever stored
    webSaves,     \* how many of them other users stored (bounded)
    everDeleted,  \* history: the page has been deleted at some time
    plugin,       \* the server has wiki.putPageIfVersion
    \* The client, shared by the calls.
    absent,       \* _OptionalMethod: the method is remembered missing
    \* Per call.
    pc,           \* where its handler is
    base,         \* the row its version argument names, NoRow for None
    path,         \* the write request it sent: "cas" or "put"
    srv,          \* where the server is with that request
    loaded,       \* the row the server loaded for it
    reply,        \* the server's answer, not yet received
    readback,     \* the version read back after the store
    result,       \* what the caller is told
    stored,       \* history: the row this call stored
    over          \* history: the latest row when it was stored

pageVars   == <<rows, lastRev, webSaves, everDeleted>>
serverVars == <<srv, loaded, reply>>
historyVars == <<stored, over>>
vars == <<pageVars, plugin, absent, pc, base, path, serverVars,
          readback, result, historyVars>>

NoRow == [version |-> 0, rev |-> 0]
Row   == [version : Nat, rev : Nat]

PC      == {"idle", "read", "put", "delete", "precheck", "wait", "readback",
            "done"}
Replies == {"none", "true", "conflict", "fault", "nomethod"}

\* An error result, or an exception that becomes one.
Refusals  == {"refused", "exists", "not_found", "conflict", "error"}
\* The three ways a caller learns that its page was stored.
Successes == {"ok", "flagged", "stored_unknown"}
Results   == Refusals \cup Successes \cup {"none", "deleted", "timeout"}

TypeOK ==
    /\ rows \subseteq Row
    /\ lastRev \in Nat
    /\ webSaves \in Nat
    /\ everDeleted \in BOOLEAN
    /\ plugin \in BOOLEAN
    /\ absent \in BOOLEAN
    /\ pc \in [Calls -> PC]
    /\ base \in [Calls -> Row]
    /\ path \in [Calls -> {"none", "cas", "put"}]
    /\ srv \in [Calls -> {"idle", "queued", "loaded", "recheck"}]
    /\ loaded \in [Calls -> Row]
    /\ reply \in [Calls -> Replies]
    /\ readback \in [Calls -> Nat]
    /\ result \in [Calls -> Results]
    /\ stored \in [Calls -> Row]
    /\ over \in [Calls -> Row]

Init ==
    /\ \E existing \in {{}, {[version |-> 1, rev |-> 1]}} : rows = existing
    /\ lastRev = 1
    /\ webSaves = 0
    /\ everDeleted = FALSE
    /\ plugin \in Deployments
    /\ absent = FALSE
    /\ pc = [c \in Calls |-> "idle"]
    /\ base = [c \in Calls |-> NoRow]
    /\ path = [c \in Calls |-> "none"]
    /\ srv = [c \in Calls |-> "idle"]
    /\ loaded = [c \in Calls |-> NoRow]
    /\ reply = [c \in Calls |-> "none"]
    /\ readback = [c \in Calls |-> 0]
    /\ result = [c \in Calls |-> "none"]
    /\ stored = [c \in Calls |-> NoRow]
    /\ over = [c \in Calls |-> NoRow]

(***************************************************************************)
(* The page on the server.                                                 *)
(***************************************************************************)

\* The page's current row: the one with the highest version, or none.
IsLatest(r) ==
    \/ /\ r \in rows
       /\ \A q \in rows : q.version <= r.version
    \/ /\ r = NoRow
       /\ rows = {}

Latest == {r \in rows \cup {NoRow} : IsLatest(r)}

\* The (name, version) primary key: the row already exists.
NeverOccupied(version) == FALSE                              \* faulty
Occupied(version) == \E q \in rows : q.version = version

Save(version) ==
    /\ rows' = rows \cup {[version |-> version, rev |-> lastRev + 1]}
    /\ lastRev' = lastRev + 1

(***************************************************************************)
(* The handlers, up to the call of put_wiki_page.                          *)
(***************************************************************************)

Finish(c, outcome) ==
    /\ pc' = [pc EXCEPT ![c] = "done"]
    /\ result' = [result EXCEPT ![c] = outcome]

Goto(c, step) ==
    /\ pc' = [pc EXCEPT ![c] = step]
    /\ UNCHANGED result

\* The caller of wiki_update has read the page and holds its version.
ReadForUpdate(c) ==
    /\ pc[c] = "idle"
    /\ "update" \in Tools
    /\ \E r \in Latest :
        /\ r # NoRow
        /\ base' = [base EXCEPT ![c] = r]
    /\ Goto(c, "read")
    /\ UNCHANGED <<pageVars, plugin, absent, path, serverVars, readback,
                   historyVars>>

\* _handle_update: the link gate may refuse, otherwise the write begins.
UpdateGate(c) ==
    /\ pc[c] = "read"
    /\ \/ Finish(c, "refused")
       \/ Goto(c, "put")
    /\ UNCHANGED <<pageVars, plugin, absent, base, path, serverVars,
                   readback, historyVars>>

\* _handle_create: the existence check, then the gate.  The write that
\* follows is unversioned and is a separate request.  "refused" stands for
\* a probe that fails as well: neither sends a write.
CreateProbe(c) ==
    /\ pc[c] = "idle"
    /\ "create" \in Tools
    /\ \/ Finish(c, "refused")
       \/ \E r \in Latest : IF r # NoRow THEN Finish(c, "exists")
                                         ELSE Goto(c, "put")
    /\ UNCHANGED <<pageVars, plugin, absent, base, path, serverVars, readback,
                   historyVars>>

\* _handle_push: the gate, then the existence probe, whose version is the
\* one the write is based on; a missing page is created, unversioned.
PushProbe(c) ==
    /\ pc[c] = "idle"
    /\ "push" \in Tools
    /\ \/ Finish(c, "refused") /\ UNCHANGED base
       \/ /\ \E r \in Latest : base' = [base EXCEPT ![c] = r]
          /\ Goto(c, "put")
    /\ UNCHANGED <<pageVars, plugin, absent, path, serverVars, readback,
                   historyVars>>

\* _handle_delete: the existence check, and then wiki.deletePage.
DeleteProbe(c) ==
    /\ pc[c] = "idle"
    /\ "delete" \in Tools
    /\ \/ Finish(c, "refused")
       \/ \E r \in Latest : IF r = NoRow THEN Finish(c, "not_found")
                                         ELSE Goto(c, "delete")
    /\ UNCHANGED <<pageVars, plugin, absent, base, path, serverVars, readback,
                   historyVars>>

\* A deletion served after its caller gave up is anybody's: WebDelete.
DeletePage(c) ==
    /\ pc[c] = "delete"
    /\ \/ /\ rows' = {}
          /\ everDeleted' = TRUE
          /\ Finish(c, "deleted") \/ Finish(c, "timeout")
       \/ /\ Finish(c, "error") \/ Finish(c, "timeout")
          /\ UNCHANGED <<rows, everDeleted>>
    /\ UNCHANGED <<lastRev, webSaves, plugin, absent, base, path,
                   serverVars, readback, historyVars>>

(***************************************************************************)
(* put_wiki_page.                                                          *)
(***************************************************************************)

Send(c, request) ==
    /\ Goto(c, "wait")
    /\ path' = [path EXCEPT ![c] = request]
    /\ srv' = [srv EXCEPT ![c] = "queued"]
    /\ UNCHANGED <<loaded, reply>>

\* The versions disagree: the write must be refused.
StaleIfOlder(c, r) == r.version < base[c].version             \* faulty
Stale(c, r) == r.version # base[c].version

\* A versioned write goes to the plugin unless it is remembered missing.
PutIfVersion(c) ==
    /\ pc[c] = "put"
    /\ base[c] # NoRow
    /\ ~absent
    /\ Send(c, "cas")
    /\ UNCHANGED <<pageVars, plugin, absent, base, readback,
                   historyVars>>

PutUnversioned(c) ==
    /\ pc[c] = "put"
    /\ base[c] = NoRow
    /\ Send(c, "put")
    /\ UNCHANGED <<pageVars, plugin, absent, base, readback,
                   historyVars>>

\* _put_wiki_page_checked_here with a version: getPageInfo, compare, then
\* post the stock putPage, which ignores the version it is given.  The
\* request may fail too, before anything is posted.
Precheck(c) ==
    /\ \/ pc[c] = "precheck"
       \/ pc[c] = "put" /\ base[c] # NoRow /\ absent
    /\ \E r \in Latest :
        \/ /\ Stale(c, r)
           /\ Finish(c, "conflict")
           /\ UNCHANGED <<path, serverVars>>
        \/ /\ ~Stale(c, r)
           /\ Send(c, "put")
        \/ /\ Finish(c, "error")
           /\ UNCHANGED <<path, serverVars>>
    /\ UNCHANGED <<pageVars, plugin, absent, base, readback,
                   historyVars>>

\* The answer that says the page is stored: True, and nothing else.
TakesFaultAsStored(answer) == answer \in {"true", "fault"}      \* faulty
IsStored(answer) == answer = "true"

\* The reply arrives.  A missing method is remembered and the call falls
\* back to the precheck.
Receive(c) ==
    /\ pc[c] = "wait"
    /\ \/ IsStored(reply[c]) /\ Goto(c, "readback")
          /\ UNCHANGED <<absent, reply>>
       \/ reply[c] = "conflict" /\ Finish(c, "conflict")
          /\ UNCHANGED <<absent, reply>>
       \/ reply[c] = "fault" /\ Finish(c, "error") /\ UNCHANGED <<absent, reply>>
       \/ /\ reply[c] = "nomethod"
          /\ Goto(c, "precheck")
          /\ absent' = TRUE
          /\ reply' = [reply EXCEPT ![c] = "none"]
    /\ UNCHANGED <<pageVars, plugin, base, path, srv, loaded, readback,
                   historyVars>>

\* The read timeout of the request (or a dropped connection, or an HTTP
\* error page): the call ends, the server may not have.
NoReadTimeout(c) ==                                           \* faulty
    /\ pc[c] = "wait" /\ reply[c] # "none"
    /\ Finish(c, "timeout")
    /\ UNCHANGED <<pageVars, plugin, absent, base, path, serverVars,
                   readback, historyVars>>
GiveUp(c) ==
    /\ pc[c] = "wait"
    /\ Finish(c, "timeout")
    /\ UNCHANGED <<pageVars, plugin, absent, base, path, serverVars,
                   readback, historyVars>>

\* An update of version N stores N + 1 when nothing else wrote the page.
NeverUnexpected(c, version) == FALSE                          \* faulty
OffByOne(c, version) == base[c] # NoRow /\ version # base[c].version
                                                              \* faulty
Unexpected(c, version) == base[c] # NoRow /\ version # base[c].version + 1

\* What a failed read-back is: never an error that reads "nothing stored".
PlainError == "error"                                         \* faulty
UncaughtFailure == "uncaught"                                 \* faulty
ReadbackFailure == "stored_unknown"

Readback(c) ==
    /\ pc[c] = "readback"
    /\ \/ /\ Finish(c, ReadbackFailure)
          /\ UNCHANGED readback
       \/ \E r \in Latest :
            /\ r # NoRow
            /\ readback' = [readback EXCEPT ![c] = r.version]
            /\ Finish(c, IF Unexpected(c, r.version) THEN "flagged" ELSE "ok")
    /\ UNCHANGED <<pageVars, plugin, absent, base, path, serverVars,
                   historyVars>>

\* The absence is forgotten once its time is up.
Remember == UNCHANGED absent                                  \* faulty
Forget   == absent' = FALSE

ForgetAbsence ==
    /\ absent
    /\ Forget
    /\ UNCHANGED <<pageVars, plugin, pc, base, path, serverVars,
                   readback, result, historyVars>>

(***************************************************************************)
(* The server's side of a write request.                                   *)
(***************************************************************************)

Answer(c, answer) ==
    /\ srv' = [srv EXCEPT ![c] = "idle"]
    /\ reply' = [reply EXCEPT ![c] = answer]

ServeNoMethod(c) ==
    /\ srv[c] = "queued"
    /\ path[c] = "cas"
    /\ ~plugin
    /\ Answer(c, "nomethod")
    /\ UNCHANGED <<pageVars, plugin, absent, pc, base, path, loaded,
                   readback, result, historyVars>>

\* putPageIfVersion refuses a version that is not current; stock putPage
\* does not look.  Either may deny permission.
ServeLoad(c) ==
    /\ srv[c] = "queued"
    /\ path[c] = "cas" => plugin
    /\ \E r \in Latest :
        \/ /\ path[c] = "cas" /\ Stale(c, r)
           /\ Answer(c, "conflict")
           /\ UNCHANGED loaded
        \/ /\ Answer(c, "fault")
           /\ UNCHANGED loaded
        \/ /\ ~(path[c] = "cas" /\ Stale(c, r))
           /\ srv' = [srv EXCEPT ![c] = "loaded"]
           /\ loaded' = [loaded EXCEPT ![c] = r]
           /\ UNCHANGED reply
    /\ UNCHANGED <<pageVars, plugin, absent, pc, base, path, readback,
                   result, historyVars>>

\* WikiPage.save: "Page not modified", the primary key, or the INSERT.
ServeSave(c) ==
    /\ srv[c] = "loaded"
    /\ \/ /\ loaded[c] # NoRow
          /\ Answer(c, "fault")
          /\ UNCHANGED <<rows, lastRev, historyVars>>
       \/ /\ Occupied(loaded[c].version + 1)
          /\ IF path[c] = "cas"
             THEN srv' = [srv EXCEPT ![c] = "recheck"] /\ UNCHANGED reply
             ELSE Answer(c, "fault")
          /\ UNCHANGED <<rows, lastRev, historyVars>>
       \/ /\ ~Occupied(loaded[c].version + 1)
          /\ Save(loaded[c].version + 1)
          /\ stored' = [stored EXCEPT ![c] =
                [version |-> loaded[c].version + 1, rev |-> lastRev + 1]]
          /\ \E r \in Latest : over' = [over EXCEPT ![c] = r]
          /\ Answer(c, "true")
    /\ UNCHANGED <<webSaves, everDeleted, plugin, absent, pc, base, path,
                   loaded, readback, result>>

\* The plugin's IntegrityError handler, after the rollback: a conflict only
\* if the page now reads at another version.
ServeRecheck(c) ==
    /\ srv[c] = "recheck"
    /\ \E r \in Latest : Answer(c, IF Stale(c, r) THEN "conflict" ELSE "fault")
    /\ UNCHANGED <<pageVars, plugin, absent, pc, base, path, loaded,
                   readback, result, historyVars>>

(***************************************************************************)
(* Everything else that happens to the page and to the server.             *)
(***************************************************************************)

WebSave ==
    /\ webSaves < MaxWebSaves
    /\ \E r \in Latest : Save(r.version + 1)
    /\ webSaves' = webSaves + 1
    /\ UNCHANGED <<everDeleted, plugin, absent, pc, base, path,
                   serverVars, readback, result, historyVars>>

WebDelete ==
    /\ WebDeletes
    /\ rows # {}
    /\ rows' = {}
    /\ everDeleted' = TRUE
    /\ UNCHANGED <<lastRev, webSaves, plugin, absent, pc, base, path,
                   serverVars, readback, result, historyVars>>

\* "a plugin deployed later is picked up without a restart"
DeployPlugin ==
    /\ ~plugin
    /\ plugin' = TRUE
    /\ UNCHANGED <<pageVars, absent, pc, base, path, serverVars,
                   readback, result, historyVars>>

-----------------------------------------------------------------------------

\* Steps of a call that has begun; each ends or waits at most rpc_timeout.
Handler(c) ==
    \/ PutIfVersion(c) \/ PutUnversioned(c) \/ Precheck(c)
    \/ Receive(c) \/ GiveUp(c) \/ Readback(c) \/ DeletePage(c)

Caller(c) ==
    \/ ReadForUpdate(c) \/ UpdateGate(c) \/ CreateProbe(c) \/ PushProbe(c)
    \/ DeleteProbe(c)

Server(c) ==
    \/ ServeNoMethod(c) \/ ServeLoad(c) \/ ServeSave(c) \/ ServeRecheck(c)

Next ==
    \/ \E c \in Calls : Caller(c) \/ Handler(c) \/ Server(c)
    \/ ForgetAbsence
    \/ WebSave
    \/ WebDelete
    \/ DeployPlugin

Fairness ==
    /\ \A c \in Calls : WF_vars(Handler(c))
    /\ WF_vars(ForgetAbsence)

Spec == Init /\ [][Next]_vars /\ Fairness

-----------------------------------------------------------------------------
(***************************************************************************)
(* Safety.                                                                 *)
(***************************************************************************)

\* Every outcome that reads "not stored" -- a refusal by the gate, an
\* existing page, a version conflict from the precheck or from the plugin,
\* a fault or a ValueError -- is true, and stays true: no request of that
\* call is left on the server that could still store the page.
NothingStoredOnRefusal ==
    \A c \in Calls : result[c] \in Refusals => stored[c] = NoRow

\* Every outcome that reads "stored", a failed read-back included, is true.
StoredWhenSaid ==
    \A c \in Calls : result[c] \in Successes => stored[c] # NoRow

\* On a page nobody deletes, a versioned write that comes back without the
\* possible_overwrite flag replaced exactly the revision its caller read,
\* with the plugin or without it: the flag misses no lost race.
UnflaggedReplacedBase ==
    \A c \in Calls :
        result[c] = "ok" /\ base[c] # NoRow /\ ~everDeleted
            => over[c] = base[c]

\* On a page nobody deletes, a write through putPageIfVersion never replaces
\* any revision but the one the caller read, whatever happens to its reply:
\* a request that lands after its caller gave up is still conditional.
ConditionalReplacedBase ==
    \A c \in Calls :
        stored[c] # NoRow /\ path[c] = "cas" /\ ~everDeleted
            => over[c] = base[c]

\* The flag is no false alarm: somebody else's revision is among the
\* versions after the one the write was based on.
FlaggedOnlyOnContention ==
    \A c \in Calls :
        result[c] = "flagged" /\ ~everDeleted
            => \E q \in rows : /\ base[c].version < q.version
                              /\ q.version <= readback[c]
                              /\ q # stored[c]

(***************************************************************************)
(* The inductive strengthening of the properties above.                    *)
(***************************************************************************)

\* A call, its request on the server and the answer agree: a page is stored
\* exactly when the answer is "true", no answer is out while the server is
\* at work, and a refused call has nothing left on the server.
Protocol ==
    \A c \in Calls :
        /\ stored[c] # NoRow <=> reply[c] = "true"
        /\ srv[c] # "idle" => reply[c] = "none"
        /\ pc[c] \in {"idle", "read", "put", "delete", "precheck"}
                => srv[c] = "idle" /\ reply[c] = "none"
        /\ pc[c] = "idle" => base[c] = NoRow
        /\ path[c] = "cas" => base[c] # NoRow
        /\ pc[c] \in {"idle", "read"} => path[c] = "none"
        /\ pc[c] = "readback" => reply[c] = "true"
        /\ pc[c] # "done" => result[c] = "none"
        /\ result[c] \in Refusals => srv[c] = "idle" /\ reply[c] # "true"
        /\ result[c] \in Successes => reply[c] = "true"

\* The rows are versions 1 .. n, once each.
RowsInLine ==
    /\ \A p \in rows : p.version > 0
    /\ \A p \in rows : \A v \in 1 .. p.version : Occupied(v)
    /\ \A p, q \in rows : p.version = q.version => p = q

\* What the call read, loaded and stored is among the rows; a request that
\* reached the save had found its base current (with the plugin) or at least
\* reached (after the precheck); an unflagged result read back base + 1.
CallInLine(c) ==
    /\ base[c] # NoRow => base[c] \in rows
    /\ srv[c] = "loaded" =>
        /\ loaded[c] # NoRow => loaded[c] \in rows
        /\ base[c].version <= loaded[c].version
        /\ path[c] = "cas" => loaded[c] = base[c]
    /\ stored[c] # NoRow =>
        /\ stored[c] \in rows
        /\ over[c] # NoRow => over[c] \in rows
        /\ stored[c].version = over[c].version + 1
        /\ base[c].version <= over[c].version
        /\ path[c] = "cas" => over[c] = base[c]
    /\ result[c] = "ok" /\ base[c] # NoRow =>
        /\ readback[c] = base[c].version + 1
        /\ stored[c].version <= readback[c]

\* On a page nobody deletes, all of that holds.
Lineage == ~everDeleted => RowsInLine /\ \A c \in Calls : CallInLine(c)

\* A flagged result read back a version that was there, of its own row or a
\* later one, and not the next after its base.
FlagsInLine ==
    \A c \in Calls : result[c] = "flagged" /\ ~everDeleted =>
        /\ base[c] # NoRow
        /\ Occupied(readback[c]) /\ stored[c].version <= readback[c]
        /\ readback[c] # base[c].version + 1

(***************************************************************************)
(* Liveness.                                                               *)
(***************************************************************************)

\* A call that has begun its requests ends, whatever the server does:
\* every request has a read timeout.
EveryCallEnds ==
    \A c \in Calls :
        pc[c] \in {"put", "delete", "precheck", "wait", "readback"}
            ~> pc[c] = "done"

\* A plugin deployed later is picked up without a restart: its remembered
\* absence does not last.
DeployedPluginIsFound == <>[](plugin => ~absent)

(***************************************************************************)
(* What the code's own words say, and a lost reply refutes.                *)
(***************************************************************************)

\* put_wiki_page: "Every other exception above means nothing was stored."
\* wiki_file_push: "An error result means nothing was stored."
ErrorMeansNothingStored ==
    \A c \in Calls :
        result[c] \in Refusals \cup {"timeout"} => stored[c] = NoRow

(***************************************************************************)
(* Refinement: on a page nobody deletes, every write that goes through the *)
(* plugin is an atomic compare-and-store; any other write is somebody's.   *)
(***************************************************************************)

CurrentRow == CHOOSE r \in Latest : TRUE

StoredByPlugin == [c \in Calls |-> IF path[c] = "cas" THEN stored[c] ELSE NoRow]

Conditional == INSTANCE ConditionalStore
    WITH page <- CurrentRow, expected <- base, written <- StoredByPlugin

IsConditionalStore == Conditional!Spec

=============================================================================
