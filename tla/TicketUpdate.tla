---------------------------- MODULE TicketUpdate ----------------------------
(***************************************************************************)
(* ticket_update on one ticket: the handler (mcp/tools/ticket_write.py),   *)
(* TracClient.update_ticket and _build_update_conflict (core/client.py),   *)
(* and the read-back that names the comment just posted, through the       *)
(* plugin's ticket.getChangeAt or by scanning the change log.              *)
(*                                                                         *)
(* The ticket is its change log.  Trac's change token _ts is the time of   *)
(* the latest change, in ticks (microseconds); the change log shows times  *)
(* in whole seconds.  ticket.update compares the token and saves in one    *)
(* step, which is how the client relies on it, and reads the token it      *)
(* returns back in another: a change stored in between is in that token.   *)
(* Every change takes the next comment number, and its row carries the     *)
(* number, the author, whether it is threaded (replyToComment) and a text. *)
(***************************************************************************)
EXTENDS Integers, Sequences, FiniteSets

CONSTANTS
    Calls,         \* ticket_update calls, each made at most once
    Texts,         \* comment texts that Trac stores
    Updates,       \* what a call may send: [text, fields]
    OtherChanges,  \* what anybody else may store: [author, text, threaded]
    MaxOthers,     \* bound: changes by anybody else
    Bases,         \* whether a call may name a base_ts
    KnowsUser,     \* whether the client knows its Trac user (not under OIDC)
    TicksPerSecond

NoText == "no text"   \* no comment at all
Blank  == "blank"     \* a comment that is empty after whitespace stripping

Me    == "me"         \* the client's Trac user, in whatever session
Other == "other"

ASSUME TicketUpdateAssumption ==
    /\ {NoText, Blank} \cap Texts = {}
    /\ Updates \subseteq [text : Texts \cup {NoText, Blank},
                          fields : {"none", "same", "changed"}]
    /\ \A u \in Updates : u.text = Blank => u.fields # "changed"
    /\ OtherChanges \subseteq [author : {Me, Other}, text : Texts \cup {NoText},
                               threaded : BOOLEAN]
    /\ MaxOthers \in Nat
    /\ Bases \subseteq BOOLEAN
    /\ KnowsUser \in BOOLEAN
    /\ TicksPerSecond \in Nat \ {0, 1}

VARIABLES
    log,       \* the ticket's changes, by comment number
    others,    \* how many of them others stored (bounded)
    \* Per call.
    pc,
    update,    \* what it sends
    base,      \* its base_ts argument ...
    given,     \* ... if it has one
    lock,      \* the _ts it sends
    srv,       \* where the server is with the request
    reply,     \* the server's answer
    newTs,     \* the token in the answer
    result,    \* what the caller is told
    number,    \* the comment number the caller is told, 0 for none
    named,     \* the changes a version_conflict names
    \* History, read by no guard.
    own,       \* the number of the change this call stored
    basis,     \* how many changes the state had that its token was read from
    covers,    \* how many the state had that newTs was read from
    explained  \* how many the change log had that explained a conflict, 0 for
               \* one that could not be read

callVars  == <<update, base, given, lock>>
replyVars == <<srv, reply, newTs>>
toldVars  == <<result, number, named>>
pastVars  == <<own, basis, covers, explained>>
vars == <<log, others, pc, callVars, replyVars, toldVars, pastVars>>

Change == [ts : Nat, author : {Me, Other}, text : Texts \cup {NoText, Blank},
           threaded : BOOLEAN]

NoUpdate == [text |-> NoText, fields |-> "none"]
NoTs     == 0

Results == {"none", "refused", "error", "timeout", "conflict", "nothing",
            "updated", "matched", "mismatched", "unnumbered"}

TypeOK ==
    /\ log \in Seq(Change)
    /\ others \in Nat
    /\ pc \in [Calls -> {"idle", "ready", "mint", "wait", "explain", "plugin",
                         "scan", "done"}]
    /\ update \in [Calls -> Updates \cup {NoUpdate}]
    /\ base \in [Calls -> Nat]
    /\ given \in [Calls -> BOOLEAN]
    /\ lock \in [Calls -> Nat]
    /\ srv \in [Calls -> {"idle", "queued", "saved"}]
    /\ reply \in [Calls -> {"none", "ok", "collision", "fault"}]
    /\ newTs \in [Calls -> Nat]
    /\ result \in [Calls -> Results]
    /\ number \in [Calls -> 0 .. Len(log)]
    /\ named \in [Calls -> SUBSET (1 .. Len(log))]
    /\ own \in [Calls -> 0 .. Len(log)]
    /\ basis \in [Calls -> 0 .. Len(log)]
    /\ covers \in [Calls -> 0 .. Len(log)]
    /\ explained \in [Calls -> 0 .. Len(log)]

(***************************************************************************)
(* The ticket.                                                             *)
(***************************************************************************)

Second(ts) == ts \div TicksPerSecond

\* The ticket was created at tick 1.
Token == IF log = <<>> THEN 1 ELSE log[Len(log)].ts

\* A change comes a tick after the one before it, or in a later second.
Times == {Token + 1, (Second(Token) + 1) * TicksPerSecond}

Stored(author, text, threaded) ==
    \E ts \in Times :
        log' = Append(log, [ts |-> ts, author |-> author, text |-> text,
                            threaded |-> threaded])

Init ==
    /\ log = <<>>
    /\ others = 0
    /\ pc = [c \in Calls |-> "idle"]
    /\ update = [c \in Calls |-> NoUpdate]
    /\ base = [c \in Calls |-> NoTs]
    /\ given = [c \in Calls |-> FALSE]
    /\ lock = [c \in Calls |-> NoTs]
    /\ srv = [c \in Calls |-> "idle"]
    /\ reply = [c \in Calls |-> "none"]
    /\ newTs = [c \in Calls |-> NoTs]
    /\ result = [c \in Calls |-> "none"]
    /\ number = [c \in Calls |-> 0]
    /\ named = [c \in Calls |-> {}]
    /\ own = [c \in Calls |-> 0]
    /\ basis = [c \in Calls |-> 0]
    /\ covers = [c \in Calls |-> 0]
    /\ explained = [c \in Calls |-> 0]

\* Anybody else, the same Trac user in another session included, changes
\* the ticket or replies to one of its comments.
OtherChange ==
    /\ others < MaxOthers
    /\ \E o \in OtherChanges : Stored(o.author, o.text, o.threaded)
    /\ others' = others + 1
    /\ UNCHANGED <<pc, callVars, replyVars, toldVars, pastVars>>

(***************************************************************************)
(* The handler, up to the request.                                         *)
(***************************************************************************)

Goto(c, step) ==
    /\ pc' = [pc EXCEPT ![c] = step]
    /\ UNCHANGED toldVars

Finish(c, outcome) ==
    /\ pc' = [pc EXCEPT ![c] = "done"]
    /\ result' = [result EXCEPT ![c] = outcome]

\* The tokens a caller can hold, and how much of the ticket the read showed
\* that gave it: the ticket as it is, or as an earlier update returned it.
TokensRead ==
    {[ts |-> Token, changes |-> Len(log)]} \cup
    {[ts |-> newTs[d], changes |-> covers[d]] : d \in {e \in Calls : newTs[e] # NoTs}}

\* The caller reads the ticket for its token, goes on from the token an
\* earlier call returned, or does without.
Begin(c) ==
    /\ pc[c] = "idle"
    /\ \E u \in Updates : update' = [update EXCEPT ![c] = u]
    /\ \/ /\ TRUE \in Bases
          /\ given' = [given EXCEPT ![c] = TRUE]
          /\ \E read \in TokensRead :
                /\ base' = [base EXCEPT ![c] = read.ts]
                /\ basis' = [basis EXCEPT ![c] = read.changes]
       \/ /\ FALSE \in Bases
          /\ UNCHANGED <<given, base, basis>>
    /\ Goto(c, "ready")
    /\ UNCHANGED <<log, others, lock, replyVars, own, covers, explained>>

\* The link gate (or a reply_to that names no comment) refuses, or not.
Gate(c) ==
    /\ pc[c] = "ready"
    /\ \/ Finish(c, "refused") /\ UNCHANGED <<number, named>>
       \/ Goto(c, "mint")
    /\ UNCHANGED <<log, others, callVars, replyVars, pastVars>>

\* update_ticket: base_ts is sent as it is; without one, ticket.get mints a
\* token immediately before the write.
AlwaysMinted(c) == Token                                      \* faulty
NoneAsToken(c) == IF given[c] THEN base[c] ELSE -1             \* faulty
LockToken(c) == IF given[c] THEN base[c] ELSE Token

SendUpdate(c) ==
    /\ pc[c] = "mint"
    /\ \/ /\ lock' = [lock EXCEPT ![c] = LockToken(c)]
          /\ basis' = [basis EXCEPT ![c] = IF given[c] THEN @ ELSE Len(log)]
          /\ srv' = [srv EXCEPT ![c] = "queued"]
          /\ Goto(c, "wait")
       \/ /\ ~given[c]
          /\ Finish(c, "error")
          /\ UNCHANGED <<lock, basis, srv, number, named>>
    /\ UNCHANGED <<log, others, update, base, given, reply, newTs, own, covers, explained>>

(***************************************************************************)
(* ticket.update on the server.                                            *)
(***************************************************************************)

\* Trac stores nothing for a comment that is blank and no changed field.
Changes(u) == u.text \in Texts \/ u.fields = "changed"

Serve(c) ==
    /\ srv[c] = "queued"
    /\ \/ /\ lock[c] # Token
          /\ srv' = [srv EXCEPT ![c] = "idle"]
          /\ reply' = [reply EXCEPT ![c] = "collision"]
          /\ UNCHANGED <<log, own>>
       \/ /\ srv' = [srv EXCEPT ![c] = "idle"]
          /\ reply' = [reply EXCEPT ![c] = "fault"]
          /\ UNCHANGED <<log, own>>
       \/ /\ lock[c] = Token
          /\ IF Changes(update[c])
             THEN /\ Stored(Me, update[c].text, FALSE)
                  /\ own' = [own EXCEPT ![c] = Len(log) + 1]
             ELSE UNCHANGED <<log, own>>
          /\ srv' = [srv EXCEPT ![c] = "saved"]
          /\ UNCHANGED reply
    /\ UNCHANGED <<others, pc, callVars, newTs, toldVars, basis, covers, explained>>

\* The answer carries the ticket as it is read back after the save.
Reread(c) ==
    /\ srv[c] = "saved"
    /\ srv' = [srv EXCEPT ![c] = "idle"]
    /\ reply' = [reply EXCEPT ![c] = "ok"]
    /\ newTs' = [newTs EXCEPT ![c] = Token]
    /\ covers' = [covers EXCEPT ![c] = Len(log)]
    /\ UNCHANGED <<log, others, pc, callVars, toldVars, own, basis, explained>>

\* The read timeout of the request: the server may go on.
GiveUp(c) ==
    /\ pc[c] = "wait"
    /\ Finish(c, "timeout")
    /\ UNCHANGED <<log, others, callVars, replyVars, number, named, pastVars>>

(***************************************************************************)
(* The handler, from the answer on.                                        *)
(***************************************************************************)

\* An unmoved token, or without a base_ts a blank comment and no field:
\* Trac stored nothing.
UnmovedSecond(c) == given[c] /\ Second(newTs[c]) = Second(base[c]) \* faulty
Unmoved(c) == given[c] /\ newTs[c] = base[c]

SaysNothingStored(c) ==
    \/ Unmoved(c)
    \/ ~given[c] /\ update[c] = [text |-> Blank, fields |-> "none"]

Receive(c) ==
    /\ pc[c] = "wait"
    /\ \/ /\ reply[c] = "collision" /\ given[c]
          /\ Goto(c, "explain")
       \/ /\ reply[c] = "fault" \/ (reply[c] = "collision" /\ ~given[c])
          /\ Finish(c, "error")
          /\ UNCHANGED <<number, named>>
       \/ /\ reply[c] = "ok" /\ SaysNothingStored(c)
          /\ Finish(c, "nothing")
          /\ UNCHANGED <<number, named>>
       \/ /\ reply[c] = "ok" /\ ~SaysNothingStored(c)
          /\ update[c].text = NoText
          /\ Finish(c, "updated")
          /\ UNCHANGED <<number, named>>
       \/ /\ reply[c] = "ok" /\ ~SaysNothingStored(c)
          /\ update[c].text # NoText
          /\ Goto(c, "plugin")
    /\ UNCHANGED <<log, others, callVars, replyVars, pastVars>>

\* _build_update_conflict: the changes since base_ts, as far as the change
\* log's whole seconds can tell; none when it cannot be read.
SinceTick(i, ts) == Second(log[i].ts) * TicksPerSecond >= ts    \* faulty
Since(i, ts) == Second(log[i].ts) >= Second(ts)

Explain(c) ==
    /\ pc[c] = "explain"
    /\ Finish(c, "conflict")
    /\ \/ /\ named' = [named EXCEPT ![c] =
                         {i \in 1 .. Len(log) : Since(i, base[c])}]
          /\ explained' = [explained EXCEPT ![c] = Len(log)]
       \/ UNCHANGED <<named, explained>>
    /\ UNCHANGED <<log, others, callVars, replyVars, number, own, basis, covers>>

\* Whether the change may be one of this client's own ticket.update calls:
\* not threaded, and by its user where that is known.
MayBeOwn(i) == ~log[i].threaded /\ (KnowsUser => log[i].author = Me)

Tell(c, i, verdict) ==
    /\ Finish(c, verdict)
    /\ number' = [number EXCEPT ![c] = i]
    /\ UNCHANGED named

\* _comment_from_plugin: the change at the very tick of the token, taken
\* only if its author and its text are this call's.
AnyText(c, i) == TRUE                                         \* faulty
HasSentText(c, i) == log[i].text = update[c].text

AskPlugin(c) ==
    /\ pc[c] = "plugin"
    /\ \E i \in 1 .. Len(log) :
        /\ log[i].ts = newTs[c]
        /\ MayBeOwn(i)
        /\ HasSentText(c, i)
        /\ Tell(c, i, "matched")
    /\ UNCHANGED <<log, others, callVars, replyVars, pastVars>>

\* The plugin is missing, is remembered missing, fails, times out or names
\* a change that need not be this call's.
PluginDoesNotTell(c) ==
    /\ pc[c] = "plugin"
    /\ Goto(c, "scan")
    /\ UNCHANGED <<log, others, callVars, replyVars, pastVars>>

\* The rows of the second the token names.
Candidates(c) ==
    {i \in 1 .. Len(log) : MayBeOwn(i) /\ Second(log[i].ts) = Second(newTs[c])}

\* One candidate is this call's; of several, the latest with the text sent.
FirstCandidate(c) ==                                          \* faulty
    {i \in Candidates(c) : \A j \in Candidates(c) : i <= j}
Chosen(c) ==
    IF Cardinality(Candidates(c)) = 1
    THEN Candidates(c)
    ELSE {i \in Candidates(c) :
             /\ HasSentText(c, i)
             /\ \A j \in Candidates(c) : HasSentText(c, j) => j <= i}

Scan(c) ==
    /\ pc[c] = "scan"
    /\ \/ \E i \in Chosen(c) :
            Tell(c, i, IF HasSentText(c, i) THEN "matched" ELSE "mismatched")
       \/ Chosen(c) = {} /\ Tell(c, 0, "unnumbered")
    /\ UNCHANGED <<log, others, callVars, replyVars, pastVars>>

\* The change log cannot be read before the deadline.
ScanFails(c) ==
    /\ pc[c] = "scan"
    /\ Tell(c, 0, "unnumbered")
    /\ UNCHANGED <<log, others, callVars, replyVars, pastVars>>

-----------------------------------------------------------------------------

Handler(c) ==
    \/ SendUpdate(c) \/ GiveUp(c) \/ Receive(c) \/ Explain(c)
    \/ AskPlugin(c) \/ PluginDoesNotTell(c) \/ Scan(c) \/ ScanFails(c)

Next ==
    \/ \E c \in Calls : Begin(c) \/ Gate(c) \/ Handler(c) \/ Serve(c) \/ Reread(c)
    \/ OtherChange

Spec == Init /\ [][Next]_vars

-----------------------------------------------------------------------------

\* The lock of update_ticket, with a base_ts or with the token it reads for
\* itself: a change is stored on the very state that token was read from,
\* nothing in between, also by a request that outlives its call; and the
\* update is refused only because a change was stored after that read.
LockIsExact ==
    \A c \in Calls :
        /\ own[c] # 0 => own[c] = basis[c] + 1
        /\ reply[c] = "collision" => Len(log) > basis[c]

\* "Trac stored nothing" is never said of a change that was stored, and
\* neither is any error but a timeout.
NotStoredWhenSaid ==
    \A c \in Calls :
        result[c] \in {"nothing", "refused", "conflict", "error"} => own[c] = 0

\* A comment reported as posted and matching was stored, and its number is
\* that comment's or a twin's: another comment with the very same text.
MatchedIsOwnOrTwin ==
    \A c \in Calls :
        result[c] = "matched" =>
            /\ own[c] # 0
            /\ log[number[c]].text = log[own[c]].text

\* A wrong verdict needs a lost race: unless another change got into the
\* token the server returned, or says the very same, the number told is the
\* call's own and the verdict a match, whatever else that second holds.
VerdictIsOwn ==
    \A c \in Calls :
        /\ result[c] \in {"matched", "mismatched"}
        /\ own[c] # 0
        /\ newTs[c] = log[own[c]].ts
        /\ \A i \in 1 .. Len(log) : log[i].text = update[c].text => i = own[c]
        => result[c] = "matched" /\ number[c] = own[c]

\* The two together: what ticket_update says of the comment it posted
\* (_find_posted_comment, _comment_from_plugin).
VerdictsAreTrue == MatchedIsOwnOrTwin /\ VerdictIsOwn

\* A version_conflict says what happened: unless the change log could not be
\* read, it names every change the log has beyond the state the caller read,
\* and there is one, in whatever second they fell (_build_update_conflict).
ConflictNamesAll ==
    \A c \in Calls :
        result[c] = "conflict" /\ explained[c] # 0 =>
            /\ explained[c] > basis[c]
            /\ basis[c] + 1 .. explained[c] \subseteq named[c]

(***************************************************************************)
(* What the tool's description says.                                       *)
(***************************************************************************)

\* "Omitting base_ts skips conflict detection entirely -- the write always
\* succeeds even if the ticket changed underneath you".
UnlockedNeverCollides ==
    \A c \in Calls : ~given[c] => reply[c] # "collision"

=============================================================================
