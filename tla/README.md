# trac-mcp-server in TLA+

trac-mcp-server is an MCP server (stdio or HTTP) and a command line that let a
language model read and write a Trac site over XML-RPC. Trac keeps the data;
this program keeps almost none. What it must get right is what happens between
its requests: other users save, delete and create meanwhile, replies get lost
while the request behind them is carried out, its own calls overlap in threads,
and the caller is a program that believes what it is told. These modules model
that: which writes can be lost, which answers can be false, what a cache may
still contain, what a cancelled call leaves behind, whose credentials a request
carries, which links a write is refused for, and what a script may conclude
from an exit code.

Paths below are relative to `src/trac_mcp_server/` unless they begin with
`docs/` or `plugins/`.

Contents: 1 inventory, 2 modules, 3 runs, 4 bounds, 5 fairness, 6 proofs,
7 where code and documentation disagree, 8 what is not modelled, 9 plan.

## 1. Inventory

### Parts, their state and how they interact

| Part | State | Operations | Talks to |
|---|---|---|---|
| RPC client, `core/client.py` | sessions per thread; three `_OptionalMethod` memories; the wiki page cache and its indexes under a lock | one method per Trac request or sequence of requests | Trac, by XML-RPC: every request is an interleaving point |
| Wiki write tools, `mcp/tools/wiki_write.py`, `wiki_file.py` | none between calls | create, update, delete, push | gate, then `put_wiki_page` |
| Wiki read tools, `wiki_read.py`, `wiki_file.py`, `wiki_conventions.py`, `mcp/resources/wiki.py` | none | get, pull, conventions, search, history, diff | `get_wiki_page`, `get_wiki_page_info`, `search_wiki_pages` |
| Ticket write tools, `ticket_write.py` | none | create, update, delete | gate, then `create_ticket`, `update_ticket`; read-back through the plugin or the change log |
| Ticket batch tools, `ticket_batch.py` | none | create, update, delete many | the semaphore of `core/async_utils.py` |
| Thread helpers, `core/async_utils.py` | one semaphore for the process | `run_sync`, `run_sync_limited`, `gather_limited` | threads; cancellation comes from the MCP session |
| Write gate and checks, `write_gate.py`, `preview/*` | none | render a draft, probe its links, refuse or pass; fails open with a note | Trac |
| Comment tools, `ticket_comment.py` | none | reply, edit, delete a comment | the plugin |
| Plugin on the server, `plugins/tracrpc_comment` | Trac's database | `putPageIfVersion`, `getChangeAt`, `editComment`, `deleteComment`, `replyToComment`, timeline | Trac |
| Instance registry, `instances.py`; scope, `core/scope.py` | declared instances, the time stamp of their file, a client per credentials and scope | resolve, reload, allowlist, describe | configuration files, clients, the gate |
| HTTP transport, `mcp/http_app.py`; token cache, `mcp/oidc.py` | clients by token, least recently used closed beyond 256 | authenticate a request, pick its client | server |
| Server, `mcp/server.py`, `lifespan.py`, `registry.py` | module-level registry, tool set | start-up, tool filtering, dispatch, shutdown | all tools |
| Converters, `converters/*` | none | Markdown to TracWiki and back | |
| Configuration, `config*.py` | none after start-up | precedence, validation | |
| Command line, `cli/*` | a local file, an exit code | the tools' writes and downloads for a script | the server, over HTTP; files go inline |
| Attachments and files, `ticket_attachment.py`, `wiki_attachment.py`, `file_io.py`, `file_handler.py` | none | put, get, delete; push and pull of texts | client, the server's disk under `file_access` |
| Milestones, administration, lists, timeline, detection | none (detection: a cache) | mostly one request each | client |

### What is hard, and the properties it calls for

* *Conditional writes without transactions.* Without the plugin the version is
  compared in one request and the page stored in another. A lost race cannot be
  prevented; it must be reported. With the plugin it must not happen.
* *The outcome of a request whose reply is lost.* "Nothing stored" may be said
  only where it is certain, a create must not be repeated, and a read-back that
  fails after the store must not look like a failed store.
* *Two reads that belong together.* Text and version, key and text, ticket and
  token come from separate requests.
* *Clocks of two grains.* Change tokens count microseconds, the change log and
  the modification times whole seconds.
* *A cache beside a wiki that changes while it is being filled.*
* *A shared bound under cancellation.* A cancelled coroutine returns its slot
  while the thread it started goes on.
* *Names that are used again.* The comment numbers of a ticket, the names of
  attachments, the versions of a page.
* *A registry that is reloaded, and clients that are pooled.* What a name stands
  for, whose credentials a client carries, and what it may reach are fixed at
  one time and used at another.
* *Checks of a moving target.* A link is there when the text is rendered and
  gone when it is probed, or the other way round; the check itself may fail.
* *Two legs.* Between a script and Trac there are two transports, and either
  may lose the answer to a write that is stored.

`PROJECT.json` lists these hazards line by line with the properties that would
catch them.

## 2. Modules

| Module | Models | State | Actions |
|---|---|---|---|
| `WikiWrite` | `put_wiki_page` under the four writing tools, the plugin's `putPageIfVersion`, stock `putPage`, the fallback between them | the page's rows, the plugin's presence, the memory of its absence; per call: handler, request, server, answer, what the caller is told | one per request or decision of the client (`PushProbe`, `PutIfVersion`, `Precheck`, `Receive`, `GiveUp`, `Readback`, ...), one per step of the server (`ServeLoad`, `ServeSave`, `ServeRecheck`, `ServeNoMethod`), and the others (`WebSave`, `WebDelete`, `DeployPlugin`) |
| `ConditionalStore` | what a conditional write promises: one atomic compare-and-store | the page, the revision each call names, the one it wrote | `Read`, `Write`, `OtherWrite` |
| `WikiWriteProofs` | the theorems about `WikiWrite`, and that it implements `ConditionalStore` | | |
| `WikiSearchCache` | `search_wiki_pages`, `_refresh_wiki_cache` and the fetches | the wiki's histories, cache, indexes, lock, the locals of the refresh | listing (two ways), comparison, batched and single reads, failures, install, index |
| `WikiRead` | the two-request reads, and the write based on them | the page, per reader what it asked, got and overwrote | `ReadText`, `ReadInfo` in each reader's order, `Update` |
| `TicketUpdate` | `ticket_update`, `update_ticket`, the conflict report, the read-back | the ticket as its change log; per call as above | `SendUpdate`, `Serve`, `Reread`, `Explain`, `AskPlugin`, `Scan`, ... |
| `TicketCreate` | `ticket_create`, and the search after a timeout | all tickets, a clock; per call the search | `Begin`, `Serve`, `TimeOut`, `Query`, `ReadTicket`, ... |
| `TicketBatch` | the batch tools over the semaphore | tokens, slots, per item coroutine, thread, server | `Acquire`, `Cancel`, `Mint`, `ServeUpdate`, `Receive`, ... |
| `TicketComments` | the tools that edit, delete and answer a comment, and the plugin's three methods | the change logs of tickets, a clock; per call what was read, compared, loaded | `ReadTicket`, `check_base_ts`, `require_change`, `editComment`, `deleteComment`, `replyToComment`, `Other`, ... |
| `ServerConfig` | operators: the four sources of a setting and their precedence, what the server refuses to start with, the tools that pass the filters | | |
| `Instances` | operators: what an instance argument stands for, credentials, allowlists, the key a client is kept under | | |
| `Server` | start, the door of the HTTP transport, per-user clients, the registry with its reload, dispatch, shutdown; over the two above | the deployment, the instances file, the registry's copy, the clients; per call | `Start`, `Receive`, `GetUserClient`, `Look`, `Load`, `Stamp`, `ResolveClient`, `Run`, `DescribeOne`, `EditFile`, `Stop` |
| `LinkChecks` | operators: what every reference of a text is, and which findings the checks make of it | | |
| `LinkCalls` | one call that has links checked (the gate, the preview, the check of a ticket as shown) in a world that changes, with its probes, redirects and confirmations; over `LinkChecks` | what exists; the call's sections, probes, findings | `known_comment_numbers`, `attachment_names`, `wiki_to_html`, `ticket_source`, `changelog`, `probe_one`, `instance_answers`, `confirm_provisional`, `check_raises`, `judge`, `store`, and `Change` |
| `FileTransfers` | the tools that move bytes: attachments, push and pull | the server's disk, the attachments; per call | `read_input`, `put_attachment`, `tell`, `check_output_path`, `fetch`, `deliver_file`, ... |
| `CommandLine` | the command line client in front of `FileTransfers`, and the commands about a ticket | the local file, the command, the exit code, a ticket | `Start`, `lock_token`, `ticket_write`, `Cut`, `report`, `comment_number`, `save`, ... |
| `WikiSearchCacheProofs`, `TicketUpdateProofs`, `TicketBatchProofs`, `TicketCommentsProofs`, `ServerProofs` | the theorems about the module each is named for | | |
| `LookupProofs` | the theorems about the calls that look something up in several requests while it changes: `WikiRead`, `TicketCreate` and `LinkCalls` | | |
| `CommandLineProofs` | the theorems about `FileTransfers` and `CommandLine` | | |

`CommandLine` composes with `FileTransfers` by extending it: a terminal is one of
the callers, a step of either is a step of both. `Server` uses the operators of
`ServerConfig` and `Instances`, `LinkCalls` those of `LinkChecks`. `WikiWrite`
and `ConditionalStore` are the one detailed and abstract pair. Where a module
leaves the gate a choice, `LinkCalls` says which way it falls. `LookupProofs`
extends three modules and composes none of them: each of its theorems is about
the specification it names (`ReadSpec`, `CreateSpec`, or `Spec` of `LinkCalls`), and
the others' variables do not occur in it.

The `MC*` modules give them small instances.

Conventions all modules share:

* A request is two steps or more: the client sends it, the server carries it
  out and answers, the client receives. `GiveUp`, `TimeOut` and the like end
  the client's part at any time; the server's part stays enabled, so a request
  may be served long after its caller was told that it failed.
* Requests are carried out at most once. `requests` is used without a retrying
  adapter, so the client never repeats one on its own.
* Reads have no effect, so a read is one step at the moment it is served, and a
  read that fails is a disjunct beside it. Several reads that only decide
  whether to refuse (the gate) are one nondeterministic step.
* Data are what tells writes apart: a revision is a number no other revision
  has; a comment is one of two texts; a summary is one of two.
* A variable commented *history* records what happened for a property to refer
  to. No action's guard reads it.
* An operator commented *faulty* stands before the one it is a mistaken version
  of. It is used by no specification. It shows which mistake each property
  catches (the `mutants` of `PROJECT.json`).

What is taken from Trac and its XML-RPC plugin (the `external` entries of the
map): a reply of Trac to an upload that names no file
means that it is stored under the name asked for, as the handler takes it;
`WikiPage.save` inserts the version after the one it loaded and the
primary key refuses a second row of the same version; `ticket.update` compares
`_ts` and saves in one step, and reads back the ticket it returns in another;
`system.multicall` runs its entries one after the other; a ticket's changes
have different times; a comment takes the number after the ticket's highest, so
that of a deleted last comment is used again. `update_ticket`, `_change_token_from_update`, `_fetch_wiki_batch` and
`putPageIfVersion` are written on these assumptions and say so.

## 3. Runs

| Run | Question | Properties |
|---|---|---|
| `WikiWriteCalls` | Is what a wiki write reports true, and is a lost race reported? | `NothingStoredOnRefusal`, `StoredWhenSaid`: every answer but a timeout tells whether the page was stored. `UnflaggedReplacedBase`: no versioned write that comes back unflagged overwrote a revision its caller had not read, by either path. `FlaggedOnlyOnContention`: a flag means somebody else's revision. `ConditionalReplacedBase`: through the plugin nothing unread is ever overwritten, not even by a request that lands late |
| `WikiWriteRefinement` | Does the plugin's path implement an atomic store? Does every call end, and is a plugin found that is deployed later? | `IsConditionalStore`, `EveryCallEnds`, `DeployedPluginIsFound` |
| `WikiSearchRefresh` | Can a search see the past? | `FreshResults`: a text that is searched was the page's at some time during the search. `IndexesMatchCache`: no index outlives its pages. `EverySearchEnds` |
| `WikiReadParts` | What do a text and a version read in two requests have to do with each other? | `PinnedReadsMatch`, `PartsAreRecent`, `PinnedEditsLoseNothing` |
| `WikiReadLostUpdate` | Is a version_conflict told of every change since the read? | `ReadEditWriteLosesNothing`, which fails (section 7) |
| `TicketUpdateCalls` | Is the token a lock, and is the right comment named? | `LockIsExact`: a change is stored on the very state its token was read from, whoever read it, and is refused only for a change stored since. `NotStoredWhenSaid`, `ConflictNamesAll`, `VerdictsAreTrue` |
| `TicketCreateSearch` | What does the search after a timeout prove? | `TimeoutsAreSafe`: no second ticket, and none is named but one of the same reporter and summary in the window. `MissedOnlyIf`: what must have happened if the search overlooks the ticket |
| `TicketBatchCalls` | Do concurrent items, failures and cancellations keep bound and answer true? | `SlotsAreConserved`, `AnswersAreTrue`, `UpdatesAreBasedApart`, `CollisionsHaveWinners`: what is refused lost to an update carried out since it read the ticket. `EveryBatchIsAnswered` |
| `TicketCommentCalls` | Is the comment that is edited the one that was read? | `EditIsOfWhatWasRead`: although comments are deleted, numbers used again, and a call may land on another ticket. `AnswersAreTrue`: what is reported was done, or the comment was deleted by somebody else between the plugin's look and its act |
| `ServerCalls` | Who gets in, as whom, and to what? | `OnlyEntitledCallersEnter`: with a token the operator gave out, with one for Trac to judge, or, where none is asked for, only from this machine or by the operator's word; whatever combination of settings. `CallsUseOwnCredentials`, `ClientsKeepTheirScope`: although clients are shared and evicted. `NamesAreFresh`: a name is resolved by a file no older than the call. `UncheckedOnlyAfterAnEdit`: the registry makes the gate give up only on an edit of its file |
| `LinkCheckCalls` | Which links is a write refused for, or a reader told of? | `DeadLinksAreTold`: what was missing all the time is found, unless one of the documented limits applies. `OnlyDeadLinksBlock`: what refuses a write was missing at some time. `FindingsAreCounted`: as many as there are links. `ProbesKeepTheScope`: no probe, and no hop of one, leaves the scope or takes credentials to another host, and what leads out is said to be unchecked. `UncheckedIsSaid`: whatever the check raised |
| `CommandLineCalls` | What may a script go by? | `FileAccessIsKept`, `AnswersNameWhatIsStored`, `ExitCodesAreTrue` |

The modules of the wiki and of the tickets but comments state a type invariant
(`TypeOK`, `ReadTypeOK`, `CreateTypeOK`). The runs leave it out, because it is proved
for each of them (section 6).

What the passing runs show, in short: a wiki write never says "not stored" of
a stored page except by a timeout; the flag misses no lost race on a page that
is not deleted; the plugin's path is atomic; the cache never serves what a page
has not been since the search began, roll-backs aside; only the pinned read
is safe to base a write on; the token protects a ticket as documented, and a
comment up to the window the code names; a batch loses no slot; no combination
of settings opens a listener nobody asked to be open; pooled clients do not mix
callers; a write is refused for dead links only; and an exit code is a safe
thing to retry on, but for the answers the server itself could not learn and
for a ticket whose number cannot be read from the answer.

Two properties of `WikiWrite` exclude pages that are deleted (`everDeleted`). That is not
a convenience of the model: versions start again at 1 after a deletion, and
neither the client nor the plugin can tell a page from its successor at the
same version. `FreshResults` excludes pages whose latest version was deleted,
for the reason given in section 7.

## 4. Bounds

* `WikiWrite`: two calls, since every property is about one call and whoever
  gets in its way, and the other call may be of any tool; two saves by others
  let the page move on twice, so that a version comparison that is off by one
  differs from the right one; deletions are unbounded in number (a page can be
  created again only as often as there are writers). `WebDelete` also stands
  for a deletion that is carried out after its caller gave up.
* `WikiSearchCache`: two pages, two scopes, one of them inside the other, room
  for one index (so that eviction happens), batches of one (so that there are
  several), two saves and one deletion: enough for a page that is deleted and
  created again, and for one that is saved and rolled back. Each revision has
  a second of its own (`SameSecond = FALSE`); with `TRUE` a page deleted and
  created again within one second is indistinguishable from the old one.
* `WikiRead`: two readers, two saves, one deletion, version arguments up to 2.
* `TicketUpdate`: two calls and one change by anybody else make three changes
  of one ticket, and three ticks to the second put all of them in one second or
  not. Two texts tell a twin from another comment.
* `TicketCreate`: two calls, a ticket of somebody else, a search of the latest
  two of three, a window of one tick of three.
* `TicketBatch`: three items over two slots, so that one waits; all of one
  ticket, so that they collide.

* `TicketComments`: two calls of any kind over two tickets, one of which is read,
  with three change sets to begin with, two more changes by the calls and two by
  others: a last comment can be deleted and its number taken by another one
  between any two steps of an edit.
* `Server`: two interchangeable callers, who may present any of five tokens, so
  that every pair of identities meets in the pool; one edit of the instances
  file, before or during any look at it; room for one per-user client, so that
  the second evicts the first. Fifteen deployments: four that start, and one
  that is refused for each reason there is. Two edits add the case of an edit
  during the reload an edit caused, which is no different from one during the
  first load.
* `LinkCalls`: one call at a time, since calls share nothing but the world; the
  world changes twice, so that a target can vanish and come back during the
  call; two probes at once over more targets; texts with each kind of
  reference, form and place; instances on the own host and on others, that do and
  do not ask who calls, with allowlists that name some of each, and redirects that
  stay, that leave, and that leave and come back.
* `CommandLine`: a caller of the tools and a terminal on the same attachments;
  a content that fits the inline limit and one that does not; one change by
  others, which may be of the disk, the folders, the attachments, the ticket or
  the local file.

The counters these bounds cap (`MaxWebSaves`, `MaxSaves`, `PageDeletes`,
`MaxDeletes`, `MaxOthers`, `MaxTime`, `MaxVersion`, `MaxEdits`, `MaxChanges`) exist only to make the
instances finite. The theorems of section 6 hold for every value of them.

Where a configuration says `CHECK_DEADLOCK FALSE` the calls are finitely many:
the model stops when all have ended.

## 5. Fairness

* A handler's step (`Handler`, `Refresh`, `Thread`) is weakly fair: the thread
  runs, and its request is answered or times out, since every request has a
  connect and a read timeout (`_rpc_call`, `timeout=(10, rpc_timeout)`).
* The steps of the server are not fair: a request may never be carried out.
* `Acquire` of the search lock is weakly fair for each search: a `threading.Lock`
  promises no order, but the searches are finitely many, so some search's wait
  ends each time the lock is free.
* `Coroutine` is weakly fair for each item: `asyncio.Semaphore` wakes its waiters
  in order.
* `ForgetAbsence` is weakly fair: the memory of a missing method is a deadline.
* A caller's decision to make a call, and everything other users do, is not fair.

The other modules check no liveness and state no fairness: their calls make a
bounded number of requests one after the other, and what was to be shown of
timeouts is shown where requests repeat (`WikiWrite`, `WikiSearchCache`,
`TicketBatch`).

## 6. Proofs

Proved for every value of the constants; the named assumption of each module
(`WikiWriteAssumption`, `TicketBatchAssumption`, `TicketUpdateAssumption`,
`CommentsAssumption`, `TransferAssumption`, `CommandAssumption`, ...) is all that is
assumed. TLC evaluates each of them on the instance of its run.
`CommentsAssumption` says of the tickets it begins with what Trac's change table
does: numbers and times rise together, and no two changes have the same time.
`ServerAssumption` says that a token may be missing, and lists the forms an instance
argument has. `LinkAssumption` says of the calls which operations there are, and
that each has at least one text, a finite sequence.

Three theorems have a hypothesis besides, and each is needed:

* The refinement: nobody deletes the page. A page deleted and created again at the
  version a caller read is accepted as unmodified (section 7).
* `FreshSearches`: `~SameSecond`, no two revisions in one second. The key under which
  a text is cached is a version and a time in whole seconds; a page deleted and
  created again within one has the same key and another text, and the code cannot
  know. It is the value of the run.
* `OwnCredentials`: `AccountsAreApart`, the accounts named in the instances file are
  no user's, nor the server's own. An operator who gives an instance a user's
  account has every caller of it work under that account; no code could tell.
  The run's module assumes it of its instance, so that TLC evaluates it.

| Module | Theorem | Property |
|---|---|---|
| `WikiWriteProofs` | `TypeCorrect` | `TypeOK` |
| | `ProtocolHolds` | `Protocol` |
| | `RefusalsStoreNothing` | `NothingStoredOnRefusal` |
| | `SuccessesAreStored` | `StoredWhenSaid` |
| | `LineageHolds` | `Lineage` |
| | `UnflaggedWritesReplaceTheirBase` | `UnflaggedReplacedBase` |
| | `ConditionalWritesReplaceTheirBase` | `ConditionalReplacedBase` |
| | `FlagsMeanContention` | `FlaggedOnlyOnContention` |
| | `ImplementsConditionalStore` | `IsConditionalStore` |
| `WikiSearchCacheProofs` | `TypeCorrect` | `TypeOK` |
| | `OneAtATime` | `OneRefresh` |
| | `IndexesMatch` | `IndexesMatchCache` |
| | `FreshSearches` | `FreshResults` |
| `TicketBatchProofs` | `TypeCorrect` | `TypeOK` |
| | `SlotsConserved` | `SlotsAreConserved` |
| | `AnswersTrue` | `AnswersAreTrue` |
| | `UpdatesApart` | `UpdatesAreBasedApart` |
| | `CollisionsWon` | `CollisionsHaveWinners` |
| `LookupProofs`, of `WikiRead` | `ReadTypeCorrect` | `ReadTypeOK` |
| | `PinnedReads` | `PinnedReadsMatch` |
| | `RecentParts` | `PartsAreRecent` |
| | `PinnedEdits` | `PinnedEditsLoseNothing` |
| of `TicketCreate` | `CreateTypeCorrect` | `CreateTypeOK` |
| | `CreatesAreSafe` | `TimeoutsAreSafe` |
| | `MissesAreExcused` | `MissedOnlyIf` |
| of `LinkCalls` | `DeadLinksTold` | `DeadLinksAreTold` |
| | `OnlyDeadBlocks` | `OnlyDeadLinksBlock` |
| | `FindingsCounted` | `FindingsAreCounted` |
| | `ScopeKept` | `ProbesKeepTheScope` |
| | `UncheckedSaid` | `UncheckedIsSaid` |
| `TicketUpdateProofs` | `TypeCorrect` | `TypeOK` |
| | `TokenIsALock` | `LockIsExact` |
| | `RefusalsStoreNothing` | `NotStoredWhenSaid` |
| | `ConflictsNameAll` | `ConflictNamesAll` |
| | `VerdictsTrue` | `VerdictsAreTrue` |
| `TicketCommentsProofs` | `EditsAreOfWhatWasRead` | `EditIsOfWhatWasRead` |
| | `AnswersTrue` | `AnswersAreTrue` |
| `CommandLineProofs` | `FileAccess` | `FileAccessIsKept` |
| | `AnswersTrue` | `AnswersNameWhatIsStored` |
| | `ServerKeepsItsWord` | `FileAccessIsKept`, `AnswersNameWhatIsStored` |
| | `ExitCodesTrue` | `ExitCodesAreTrue` |
| `ServerProofs` | `OnlyEntitledEnter` | `OnlyEntitledCallersEnter` |
| | `NamesStayFresh` | `NamesAreFresh` |
| | `UncheckedAfterAnEdit` | `UncheckedOnlyAfterAnEdit` |
| | `ScopesAreKept` | `ClientsKeepTheirScope` |
| | `OwnCredentials` | `CallsUseOwnCredentials` |

*`WikiWrite`, the first invariant.* That a refused call stored nothing is not inductive: the
caller is refused on an answer, and it takes an argument that no request of the
same call can store afterwards. `Protocol` supplies it. It ties the four places
in which a call's progress is recorded: the page is stored exactly when the
answer is "true"; while the server is at work no answer is out; a call that has
not sent, or that fell back to the precheck, has nothing on the server; a
refusal leaves nothing there. It is inductive given the types, and both
properties follow from it.

*`WikiWrite`, the second invariant.* That an unflagged write replaced its base needs the page
itself: rows are versions 1 .. n, once each (`RowsInLine`), and what each call
read, loaded, stored and replaced is among them in order (`CallInLine`). The
step that matters is the save: the row after the loaded one is free (primary
key), the rows are in line, so the loaded row is the latest, hence the row
replaced is the row loaded (lemma `SaveOnTop`). With the plugin the loaded row is
the base. Without it the loaded row is the base or later, and the version read
back is at least the one stored: if it is base + 1, so is the stored one, and
the row replaced has the base's version, so it is the base. `Lineage` is
stated under `~everDeleted`; a deletion makes it true for good.

*`WikiWrite`, the third.* That a flag is no false alarm needs what was read back to
be a row, since "somebody else's" is said of rows: `FlagsInLine`. The version read
back is not base + 1 and not below the stored one, the stored row is on top of a
row no older than the base, and the rows are without gaps; so a row lies between
the base and what was read back that is not the call's own.

*The refinement.* A step of `WikiWrite` is a step of `ConditionalStore` or a
stutter of it. With the rows in line there is one latest row, so the abstract
page is well defined (`LatestIsCurrent`); a save puts the next version on top of
it, under a revision number above all others (`RevisionsNumbered`), so it is the
abstract `Successor` (`SavedIsSuccessor`). A save behind the plugin is `Write`,
because its base is the loaded row and the loaded row is the latest; any other
save is `OtherWrite`; a caller that takes a version reads; the rest stutters,
the choice of the path included, for a call that has not stored anything.

*`WikiSearchCache`.* An index matches the cache but for changes still remembered
(`Matching`): a refresh that changed the cache drops the
indexes before it releases the lock, whether it succeeds or fails. `Evicted` and `MovedToEnd` only reorder
and forget (`LruFacts`, by the facts about sequences, for any `IndexMax`). Freshness
is about two clocks, the page's and the search's. `RecordsAreFaithful`: a text that
was read is the page's text as long as the page still has the key that was read
before it, since keys only rise and one that was given up does not come back. So
when the listing finds a cached key unchanged, the cached text is what the page
is at that moment, and the search sees it (`ListedWasSeen`); what is stale is
read within the search (`ReadWasSeen`); and what the refresh leaves in the cache
was all seen (`CachedWasSeen`), which the index copies.

*`TicketBatch`.* The slots need the set of running coroutines counted: one joins
it per slot taken, one leaves it per slot freed, and a cancellation frees as many
as it stops (`OneStarts`, `OneStops`, `SomeStop`). The semaphore's type is a
consequence, so types, slots and the agreement of an item's coroutine, thread and
request (`ItemsAgree`) are one induction, `Batched`. Over it a second one,
`TokensAgree`: a ticket's token is above that of every update carried out and at
that of an update on its way, unless another write came first. That keeps the
tokens of two updates carried out apart, and gives every collision its winner:
whoever moved the token past the one that was refused based his on it or on a later
one.

*`WikiRead`.* `Known`: every version and text of the page is among the pairs, and
is the only pair of that version while nobody deletes; a read under way knows the
page as it is; a pinned text has its version in the pairs, and `wiki_conventions`
never has the text before the version.

*`TicketUpdate`.* The log only grows and its times rise (`LogInv`), so what is known
of a change stays known, and all steps but `Serve` and `OtherChange` leave it
alone. `basis` remembers how many changes the ticket had when the token was read, by
the caller or by the client itself, and `covers` the same of the token an update
returns. A token is the time of the change at its `basis` (`TokenInv`), times rise, and
the request is carried out only if its token is the log's last time; so the
change lands right behind that state, and a request that is refused has found
the log longer. "Nothing stored" is true because a stored
change has a later time than its token, and the token returned is no earlier
(`NothingIsNothing`). A conflict names all because seconds rise with ticks
(`SecondsRise`, from the division of the naturals, whatever the length of a
second). Of one candidate only, it is the call's own if the token is that of its
change, since that is a candidate (`OnlyCandidate`).

*`TicketCreate`.* `Agreed` ties a call's request, its reply and its ticket together: one
ticket at most, there exactly if the server answered "created", and a refused call has
nothing on the server. `OwnIsTwin`: the ticket is what was asked for and no older
than the request. `Searched`: the search looks at this reporter's tickets only, and
names one that matches. For the miss, `Pending`: the call's own ticket is still to
be read, or it came after the query, could not be read, or `QueryMax` later ones of
the same reporter stood before it. The query's step is the heart: if the own ticket
is none of the latest `QueryMax`, the listed ones are all later, hence in the crowd.

*`TicketComments`.* Why does the token pin a comment, when comments can be deleted
and their numbers used again? A ticket may even come back to an earlier token,
when its last changes are deleted. `TokenInv`: among the changes no younger than
the token, the one that was seen is the only one with its number, and this
survives every change of the ticket, because what is new is younger and what is
old can only go (`Moves`, `Bystander`). When the comparison succeeds nothing is
younger, so the number is the one seen, on the ticket that was read, since no
other ticket has a change of that time (`check_base_tsKeeps`). From there
`PinInv` carries it to the edit, until the ticket changes.

*`FileTransfers` and `CommandLine`.* How far a call is tells what is settled about
it: the mode and the path were checked before the step they are used in
(`FileInv`), nothing is stored before the request that stores, and the answer is
the last step. Most steps store nothing (`QuietStep`, `Outcome`). For the client
the server's invariant is carried over, since a step of the client leaves the
server's variables alone or is a call of it. `PlaceInv` ties the stage of a
command to the place of its call on the server; a connection that is cut ends
the command with 3 while the server goes on, and every other code is given on
an answer. The number told is that of the last comment that ends in the text
sent; the call's own is one that does.

*`Server`.* Who is in was admitted, and the settings are those of a deployment that
starts (`Settled`, `Doorkeeping`): the theorem about the door is then about
`ServerStarts` and `Admitted` together, for every combination of the four sources.
The registry's copy is of the edit that `read` names unless an edit fell between
load and stamp (`Copied`); a call looks alone (`InTurn`), so no other call's load can
take its copy back. `Undisturbed` is the same for the names that `describe` walks
over: while the file is as the call found it, all of them are in the copy. A
client is described by the resolution that would make it (`KeptFor`), not by who
made it: what the pool returns has the same key, and everything the properties
speak of is in the key. That is why sharing and eviction cannot mix callers up,
and what makes it necessary that the key holds scope and password.

*`LinkCalls`.* The world moves between rendering, probing and judging, so all that can be
known of a fact is that it held at some time. `Moves`: what has existed all the time
exists now, and what exists now has existed. `Rendered`: each text being judged is
what Trac makes of it in some world between the two. `Probed`: an outcome
"exists" is of a target that did exist; "missing" is of one that was away at
some time, or whose instance was down for a while; "provisional", a ticket
that could not be had, says less, since the instance may be refusing the caller, and
only the control request turns it into "missing" (`ConfirmedTruly`). When the
texts are judged nothing is provisional any more (`ConfirmedBefore`, by the order of
the steps, `Staged`). `KnownTruly` is what the comment numbers are good for. From these
follow both directions, what is dead is told and what blocks is dead, given
what the checks find of the facts (the lemmas `Found...`: no other check has one of
the codes, `FoundElse`, and only what the text allows is left out, `FoundAll`).

That the findings are counted is about the checks alone. `FirstCount`: the first n
of at least n places are n, since the number of places before a place is a
bijection to 0 .. N - 1. So excusing, from the front, as many anchors as there are
names in prose leaves as many as there are links (`Excused`), although the anchors that
are excused need not be those of the names; it needs that each name in prose has
an anchor of its own among those that may be excused (`PagesCounted`, `FilesCounted`).

That a field let through was judged is an induction over the fields, in the order they
are checked (`FieldsInOrder`): every field before the one at hand is empty, noted, or
judged and not refused.

That a probe keeps the scope and its credentials is about each hop (`SentHop`): the
session looks at every request, not at the first one; and it drops the credentials
by the host of the request, not by the step to it, so that a chain which leaves and
comes back is no way round. What a link that leads out is called is an induction
over the probes.

*Only model-checked.* Liveness: `EveryCallEnds`, `DeployedPluginIsFound`,
`EverySearchEnds` and `EveryBatchIsAnswered` rest on fairness, and fairness on
`ENABLED`, which the provers do not handle. Every invariant of a passing run is
proved, and so is the refinement. `ReadEditWriteLosesNothing` is false (section 7).

## 7. Where code and documentation disagree

Shown by a run, `WikiReadLostUpdate`: "version_conflict: Page was modified after
you read it" (`docs/reference/mcp-tools.md:1121`). `wiki_get` may pair an old text
with a newer version, and the update based on it is accepted.

Each of the following is stated by a definition that TLC refutes when it is
added to the configuration of its module's run as an `INVARIANT`:

* `WikiWrite.ErrorMeansNothingStored`: "Every other exception above means nothing
  was stored" (`core/client.py:1598`), "error result means nothing was stored"
  (`wiki_file.py:66`). Not of a lost reply.
* `WikiSearchCache.ChangesAreAllSeen`: "a deleted latest version [is] seen"
  (`core/client.py:1415`). Not if the deleted version was saved between the read
  of the key and the read of the text: its text stays under the older key.
* `TicketUpdate.UnlockedNeverCollides`: without `base_ts` "the write always
  succeeds" (`ticket_write.py:107`). It fails if the ticket changes between the
  client's own two requests.
* `TicketCreate.CouldNotCheckIsNotAbsence`: "could not check" and "nothing there"
  "must not be conflated" (`core/client.py:910`). A ticket that cannot be read
  is passed over.
* `Server.EditsTakeEffect`: "Pick up edits to the instances file without a server
  restart" (`instances.py:328`). A client is kept by address,
  user, password and scope; an edit of `insecure` alone finds the old client.
* `LinkCalls.UnconfiguredIsTold`: "Every comparison here is scoped to the one token
  being checked" (`preview/checks.py:1395`). A reference with a prefix that is not
  configured is silenced by a quotation of it elsewhere in the text.
* `CommandLine.ExitOneMeansNothingStored`: "Exit 1 always means nothing was stored"
  (`docs/reference/cli.md:212`, also `:178` and `cli/client.py:54`). Trac stores a
  comment, its reply to the server is lost, the server answers with an error, and
  the command exits with 1. `ExitCodesAreTrue` is what is left of the sentence.
* `TicketComments.SuccessesAreDone`: "Edited comment N", "Deleted comment N"
  (`ticket_comment.py:339`, `:386`). The plugin loads the change and acts on its time
  in a second step; if the comment is deleted in between, and Trac does not complain
  of a change that is gone, the plugin returns True although nothing was done. Whether
  Trac complains is outside this repository, and the model allows both;
  `AnswersAreTrue` names the case.

Met while modelling:

* A page deleted and created again at the version the caller read is accepted
  as unmodified by both paths (`docs/reference/mcp-tools.md:1121`).
* `intervening_versions` are "the versions this call did not write"
  (`core/client.py:1580`); when another save lands after this one, its own
  version is among them.
* `wiki_create` "Fails if the page exists" (`wiki_write.py:96`): not if it is
  created between the check and the write.
* `putPageIfVersion` stores nothing on a mismatch "even when another write lands
  while this call is running" (`wiki_put.py:134`): a deletion in between is no
  mismatch to it, and the save then creates the next version of a deleted page.
* A timed-out create that is served after the search is reported as most likely
  not made; under per-user OIDC the search asks for an empty reporter and can
  find nothing (`KnowsUser = FALSE`).
* "an unrelated older ticket that happens to share the summary is not mistaken
  for this one" (`core/client.py:905`): not if it is less than ten minutes older.
* `TRAC_MAX_PARALLEL_REQUESTS` bounds neither calls through `run_sync` nor the
  threads of cancelled calls.
* A `ticket-create` whose answer names no number exits with 1, not with 4
  (`cli/client.py:509`), and one whose ticket is found after a timeout exits with 1
  as well. A file that cannot be written to locally ends a download with 3, as if the
  transport had failed.
* A malformed instances file fails every call that names an instance, or has
  instances described, until it is repaired; and a name that vanishes between
  the list of names and the look at one makes `describe` raise, so that a write
  goes through unchecked.
* `oidc_rpc_url` given in the YAML file does not relax the need for credentials:
  only the environment is asked.
* A write of a description that refers to the number after the last comment is
  let through, although it posts no comment (`write_gate.py`,
  `known_comment_numbers`; `preview/gate.py:113`).
* `ticket_comment_delete` takes no `base_ts`: a deletion that is repeated after a
  lost reply may take the comment that has the number by then.
* `wiki_file_pull` reports version 1 of a page whose info could not be read.

## 8. Not modelled

Formatting and wording, the ranking and its snippets, sessions, headers and
XML: pure functions or I/O between the steps that are modelled. Besides:

* The converters between Markdown and TracWiki, `convert_preview` and
  `trac-convert` as far as the text goes: long chains of regular expressions,
  whose correctness is about characters.
* The checks of layout (tables, lists, macros, code blocks) of `preview/checks.py`,
  for the same reason; what they find is a finding among others.
* Reads and lists of tickets, the timeline, administration, milestones: single
  requests whose outcome is their answer.
* The detection of capabilities, with its own cache, and the scraping of a
  server's pages; `list_instances` scrapes on the event loop, which delays other
  calls but changes none.
* The lookup of an endpoint in `.mcp.json`, the logging, the version check.

## 9. Plan

Done: `WikiWrite` and `ConditionalStore` with their proofs and the refinement, then
`WikiSearchCache`, `WikiRead`, `TicketUpdate`, `TicketCreate`, `TicketBatch`, in that
order: the writes that can lose data first, then the reads they are based on.
Then `Server` with `ServerConfig` and `Instances`, `LinkCalls` with `LinkChecks`,
`TicketComments`, `FileTransfers` and `CommandLine`; and the proofs of section 6.

Next, modules: `SearchPaging`, cursors over a ranking that changes; the cache of
the detection; `milestone_update`'s read and write; passes of the converters as
operators over tokens.

Next, proofs: abstract specifications beside `ConditionalStore`, for which a refinement
is worth proving: of a ticket's update as one comparison and store on its token.

Next, instances: `KnowsUser = FALSE` for both ticket modules, `MaxEdits = 2` for
`Server`.
