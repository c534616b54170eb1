------------------------------ MODULE WikiRead ------------------------------
(***************************************************************************)
(* Reading a wiki page as text plus version, in two requests, while others *)
(* save and delete it; and the versioned write that is based on what was   *)
(* read.  Four readers do it in four ways:                                 *)
(*   "get"          wiki_get and the trac://wiki resource: both requests   *)
(*                  at once, in either order (asyncio.gather)              *)
(*   "pull"         wiki_file_pull: the text, then the info                *)
(*   "conventions"  wiki_conventions: the info, then the text of the       *)
(*                  version it names                                       *)
(* The first two pass the caller's version argument, if any, to both.      *)
(*                                                                         *)
(* The write is an atomic compare-and-store, what wiki.putPageIfVersion    *)
(* promises (ConditionalStore, and WikiWrite for how far that goes), so    *)
(* whatever is lost here is lost by the read.                              *)
(***************************************************************************)
EXTENDS Integers, Sequences

CONSTANTS
    Readers,
    Kinds,       \* which of the readers there are
    MaxVersion,  \* bound on the version argument
    MaxSaves,    \* bound: saves by other Trac users
    MaxDeletes   \* bound: deletions by other Trac users

ASSUME WikiReadAssumption ==
    /\ Kinds \subseteq {"get", "pull", "conventions"}
    /\ {MaxVersion, MaxSaves, MaxDeletes} \subseteq Nat

VARIABLES
    page,      \* the texts of versions 1, 2, ..., all different
    saves,     \* how many texts there have been
    deletes,   \* how many deletions there have been
    kind, pin, \* per reader: how it reads, its version argument (0 for none)
    progress,
    pending,   \* the requests that have not been answered
    text,      \* the answer to getPage
    version,   \* the version in the answer to getPageInfo
    over,      \* history: the text this reader's write replaced
    pairs,     \* history: every version and text there has been
    texts,     \* history: the page's texts since the read began ...
    versions   \* ... and its versions, 0 when it does not exist

pageVars   == <<page, saves, deletes, pairs>>
answerVars == <<text, version>>
seenVars   == <<texts, versions>>
readVars == <<pageVars, kind, pin, progress, pending, answerVars, over, seenVars>>

Latest == 0
None   == 0

ReadTypeOK ==
    /\ page \in Seq(Nat \ {0})
    /\ saves \in Nat /\ deletes \in Nat
    /\ kind \in [Readers -> Kinds \cup {"none"}]
    /\ pin \in [Readers -> Nat]
    /\ progress \in [Readers -> {"idle", "reading", "read", "failed", "written",
                           "conflict"}]
    /\ pending \in [Readers -> SUBSET {"text", "info"}]
    /\ text \in [Readers -> Nat]
    /\ version \in [Readers -> Nat]
    /\ over \in [Readers -> Nat]
    /\ pairs \subseteq Nat \X Nat
    /\ texts \in [Readers -> SUBSET Nat]
    /\ versions \in [Readers -> SUBSET Nat]

ReadInit ==
    /\ page = <<1>>
    /\ saves = 1
    /\ deletes = 0
    /\ kind = [r \in Readers |-> "none"]
    /\ pin = [r \in Readers |-> Latest]
    /\ progress = [r \in Readers |-> "idle"]
    /\ pending = [r \in Readers |-> {}]
    /\ text = [r \in Readers |-> None]
    /\ version = [r \in Readers |-> None]
    /\ over = [r \in Readers |-> None]
    /\ pairs = {<<1, 1>>}
    /\ texts = [r \in Readers |-> {}]
    /\ versions = [r \in Readers |-> {}]

(***************************************************************************)
(* The page.                                                               *)
(***************************************************************************)

Current(pg) == IF pg = <<>> THEN None ELSE pg[Len(pg)]

\* The page becomes pg, and every read under way may have met it.
Becomes(pg) ==
    /\ page' = pg
    /\ texts' = [r \in Readers |-> IF progress[r] = "reading"
                                   THEN texts[r] \cup {Current(pg)}
                                   ELSE texts[r]]
    /\ versions' = [r \in Readers |-> IF progress[r] = "reading"
                                      THEN versions[r] \cup {Len(pg)}
                                      ELSE versions[r]]

Store ==
    /\ Becomes(Append(page, saves + 1))
    /\ saves' = saves + 1
    /\ pairs' = pairs \cup {<<Len(page) + 1, saves + 1>>}

OtherSave ==
    /\ saves <= MaxSaves
    /\ Store
    /\ UNCHANGED <<deletes, kind, pin, progress, pending, answerVars, over>>

OtherDelete ==
    /\ deletes < MaxDeletes
    /\ page # <<>>
    /\ Becomes(<<>>)
    /\ deletes' = deletes + 1
    /\ UNCHANGED <<saves, pairs, kind, pin, progress, pending, answerVars, over>>

(***************************************************************************)
(* The read.                                                               *)
(***************************************************************************)

Start(r) ==
    /\ progress[r] = "idle"
    /\ \E k \in Kinds, v \in 0 .. MaxVersion :
        /\ k = "conventions" => v = Latest
        /\ kind' = [kind EXCEPT ![r] = k]
        /\ pin' = [pin EXCEPT ![r] = v]
    /\ progress' = [progress EXCEPT ![r] = "reading"]
    /\ pending' = [pending EXCEPT ![r] = {"text", "info"}]
    /\ texts' = [texts EXCEPT ![r] = {Current(page)}]
    /\ versions' = [versions EXCEPT ![r] = {Len(page)}]
    /\ UNCHANGED <<pageVars, answerVars, over>>

\* A version argument names that version, and no argument the latest.
DefaultsToFirst(v) == IF v = Latest THEN 1 ELSE v             \* faulty
Asked(v) == IF v = Latest THEN Len(page) ELSE v
IsThere(v) == Asked(v) \in 1 .. Len(page)

\* The version whose text is asked for: _read_page pins it.
Unpinned(r) == pin[r]                                         \* faulty
TextVersion(r) == IF kind[r] = "conventions" THEN version[r] ELSE pin[r]

Answered(r, request) ==
    /\ request \in pending[r]
    /\ pending' = [pending EXCEPT ![r] = @ \ {request}]
    /\ progress' = IF pending[r] = {request} THEN [progress EXCEPT ![r] = "read"] ELSE progress

\* _read_page awaits the info before it asks for the text.
AnyOrder(r) == TRUE                                           \* faulty
InfoIsIn(r) == kind[r] = "conventions" => "info" \notin pending[r]

ReadText(r) ==
    /\ progress[r] = "reading"
    /\ InfoIsIn(r)
    /\ IsThere(TextVersion(r))
    /\ Answered(r, "text")
    /\ text' = [text EXCEPT ![r] = page[Asked(TextVersion(r))]]
    /\ UNCHANGED <<pageVars, kind, pin, version, over, seenVars>>

ReadInfo(r) ==
    /\ progress[r] = "reading"
    /\ kind[r] = "pull" => "text" \notin pending[r]
    /\ IsThere(pin[r])
    /\ Answered(r, "info")
    /\ version' = [version EXCEPT ![r] = Asked(pin[r])]
    /\ UNCHANGED <<pageVars, kind, pin, text, over, seenVars>>

\* getPageInfo answers 0 for a missing page on some instances; wiki_file_pull
\* takes that for version 1, the others fail on it.
UnknownVersion == -1                                          \* faulty
AssumedVersion == 1

ReadNoInfo(r) ==
    /\ progress[r] = "reading"
    /\ kind[r] = "pull"
    /\ "text" \notin pending[r]
    /\ ~IsThere(pin[r])
    /\ Answered(r, "info")
    /\ version' = [version EXCEPT ![r] = AssumedVersion]
    /\ UNCHANGED <<pageVars, kind, pin, text, over, seenVars>>

\* A fault or a lost reply to either request ends the read with an error;
\* so does a page or a version that is not there.
ReadFails(r) ==
    /\ progress[r] = "reading"
    /\ progress' = [progress EXCEPT ![r] = "failed"]
    /\ UNCHANGED <<pageVars, kind, pin, pending, answerVars, over, seenVars>>

(***************************************************************************)
(* The write that follows: the edited text, and the version that was read. *)
(***************************************************************************)

Update(r) ==
    /\ progress[r] = "read"
    /\ IF version[r] = Len(page)
       THEN /\ Store
            /\ over' = [over EXCEPT ![r] = Current(page)]
            /\ progress' = [progress EXCEPT ![r] = "written"]
       ELSE /\ progress' = [progress EXCEPT ![r] = "conflict"]
            /\ UNCHANGED <<page, saves, pairs, over, seenVars>>
    /\ UNCHANGED <<deletes, kind, pin, pending, answerVars>>

-----------------------------------------------------------------------------

ReadNext ==
    \/ \E r \in Readers :
        \/ Start(r) \/ ReadText(r) \/ ReadInfo(r) \/ ReadNoInfo(r)
        \/ ReadFails(r) \/ Update(r)
    \/ OtherSave
    \/ OtherDelete

ReadSpec == ReadInit /\ [][ReadNext]_readVars

-----------------------------------------------------------------------------

Complete(r) == progress[r] \in {"read", "written", "conflict"}

\* A read that names a version for both requests, the caller's or the one
\* getPageInfo gave, returns a text that was stored under that version.
PinnedReadsMatch ==
    \A r \in Readers :
        Complete(r) /\ (kind[r] = "conventions" \/ (kind[r] = "get" /\ pin[r] # Latest))
            => <<version[r], text[r]>> \in pairs

\* Any read without a version argument returns a text and a version that
\* the page had while it was being read -- except wiki_file_pull's version
\* of a page deleted meanwhile.
PartsAreRecent ==
    \A r \in Readers :
        Complete(r) /\ pin[r] = Latest =>
            /\ kind[r] # "conventions" => text[r] \in texts[r]
            /\ \/ version[r] \in versions[r]
               \/ kind[r] = "pull" /\ 0 \in versions[r] /\ version[r] = 1

\* A write based on a pinned read of a page nobody deletes replaces the very
\* text that was read: nothing saved in between is lost.
PinnedEditsLoseNothing ==
    \A r \in Readers :
        progress[r] = "written" /\ kind[r] = "conventions" /\ deletes = 0
            => over[r] = text[r]

(***************************************************************************)
(* What the documentation of wiki_get and wiki_update says.                *)
(***************************************************************************)

\* wiki_update: "version_conflict: Page was modified after you read it":
\* a write that is accepted replaces what its caller read.
ReadEditWriteLosesNothing ==
    \A r \in Readers : progress[r] = "written" => over[r] = text[r]

=============================================================================
