---------------------------- MODULE TicketCreate ----------------------------
(***************************************************************************)
(* ticket_create: the handler (mcp/tools/ticket_write.py) and              *)
(* TracClient.create_ticket (core/client.py), which does not retry a       *)
(* create whose reply timed out but looks for the ticket it may have made. *)
(*                                                                         *)
(* A request whose caller has given up may still be served, before the     *)
(* search, between two of its reads, or after it.  Others create tickets   *)
(* too, with the same user and the same summary if they like.              *)
(*                                                                         *)
(* A ticket is its summary, its reporter and its time of creation; its     *)
(* number is its place in the sequence.                                    *)
(***************************************************************************)
EXTENDS Naturals, Sequences, FiniteSets

CONSTANTS
    Calls,      \* ticket_create calls, each made at most once
    Summaries,  \* the summaries in use
    MaxOthers,  \* bound: tickets created by anybody else
    MaxTime,    \* bound on the clock
    Window,     \* _CREATE_MATCH_WINDOW_SECONDS, in units of the clock
    QueryMax,   \* how many of the reporter's tickets the search looks at
    KnowsUser   \* whether the client knows its Trac user (not under OIDC)

Me    == "me"     \* the client's Trac user, in whatever session
Other == "other"
Nobody == "nobody"

ASSUME TicketCreateAssumption ==
    /\ {MaxOthers, MaxTime, Window} \subseteq Nat
    /\ QueryMax \in Nat \ {0}
    /\ KnowsUser \in BOOLEAN
    /\ Nobody \notin Calls

VARIABLES
    tickets,    \* every ticket ever created, by number
    clock,
    others,     \* how many of them others created (bounded)
    \* Per call.
    pc,
    summary,
    sentAt,     \* sent_at
    srv,        \* where the server is with the request
    reply,      \* its answer: a number, 0 for a fault, -1 for none yet
    toRead,     \* the tickets the search has still to read
    result,     \* what the caller is told
    number,     \* the ticket number the caller is told, 0 for none
    unreadable, \* history: the tickets the search could not read
    asked       \* history: how many tickets there were at the query

searchVars == <<toRead, unreadable, asked>>
toldVars   == <<result, number>>
createVars == <<tickets, clock, others, pc, summary, sentAt, srv, reply, searchVars,
          toldVars>>

Ticket == [summary : Summaries, reporter : {Me, Other}, at : Nat,
           call : Calls \cup {Nobody}]
Replies == {"none", "created", "fault"}
Results == {"none", "refused", "error", "created", "created_anyway",
            "not_created", "unknown"}

CreateTypeOK ==
    /\ tickets \in Seq(Ticket)
    /\ clock \in Nat
    /\ others \in Nat
    /\ pc \in [Calls -> {"idle", "wait", "query", "read", "done"}]
    /\ summary \in [Calls -> Summaries]
    /\ sentAt \in [Calls -> Nat]
    /\ srv \in [Calls -> {"idle", "queued"}]
    /\ reply \in [Calls -> Replies]
    /\ toRead \in [Calls -> SUBSET (1 .. Len(tickets))]
    /\ unreadable \in [Calls -> SUBSET (1 .. Len(tickets))]
    /\ asked \in [Calls -> 0 .. Len(tickets)]
    /\ result \in [Calls -> Results]
    /\ number \in [Calls -> 0 .. Len(tickets)]

CreateInit ==
    /\ tickets = <<>>
    /\ clock = Window
    /\ others = 0
    /\ pc = [c \in Calls |-> "idle"]
    /\ summary \in [Calls -> Summaries]
    /\ sentAt = [c \in Calls |-> 0]
    /\ srv = [c \in Calls |-> "idle"]
    /\ reply = [c \in Calls |-> "none"]
    /\ toRead = [c \in Calls |-> {}]
    /\ unreadable = [c \in Calls |-> {}]
    /\ asked = [c \in Calls |-> 0]
    /\ result = [c \in Calls |-> "none"]
    /\ number = [c \in Calls |-> 0]

\* The ticket this call created, as a set of at most one number.
Own(c) == {i \in DOMAIN tickets : tickets[i].call = c}

(***************************************************************************)
(* Time and the server.                                                    *)
(***************************************************************************)

Tick ==
    /\ clock < MaxTime
    /\ clock' = clock + 1
    /\ UNCHANGED <<tickets, others, pc, summary, sentAt, srv, reply,
                   searchVars, toldVars>>

Create(text, user, c) ==
    tickets' = Append(tickets, [summary |-> text, reporter |-> user,
                                at |-> clock, call |-> c])

OtherCreate ==
    /\ others < MaxOthers
    /\ \E text \in Summaries, user \in {Me, Other} : Create(text, user, Nobody)
    /\ others' = others + 1
    /\ UNCHANGED <<clock, pc, summary, sentAt, srv, reply, searchVars,
                   toldVars>>

Serve(c) ==
    /\ srv[c] = "queued"
    /\ srv' = [srv EXCEPT ![c] = "idle"]
    /\ \/ /\ Create(summary[c], Me, c)
          /\ reply' = [reply EXCEPT ![c] = "created"]
       \/ /\ reply' = [reply EXCEPT ![c] = "fault"]
          /\ UNCHANGED tickets
    /\ UNCHANGED <<clock, others, pc, summary, sentAt, searchVars, toldVars>>

(***************************************************************************)
(* The handler and create_ticket.                                          *)
(***************************************************************************)

Finish(c, outcome, i) ==
    /\ pc' = [pc EXCEPT ![c] = "done"]
    /\ result' = [result EXCEPT ![c] = outcome]
    /\ number' = [number EXCEPT ![c] = i]

\* The link gate refuses, or the create is sent.
SendCreate(c) ==
    /\ pc[c] = "idle"
    /\ \/ /\ Finish(c, "refused", 0)
          /\ UNCHANGED <<sentAt, srv>>
       \/ /\ pc' = [pc EXCEPT ![c] = "wait"]
          /\ sentAt' = [sentAt EXCEPT ![c] = clock]
          /\ srv' = [srv EXCEPT ![c] = "queued"]
          /\ UNCHANGED toldVars
    /\ UNCHANGED <<tickets, clock, others, summary, reply, searchVars>>

Receive(c) ==
    /\ pc[c] = "wait"
    /\ \/ /\ reply[c] = "created"
          /\ \E i \in Own(c) : Finish(c, "created", i)
       \/ /\ reply[c] = "fault"
          /\ Finish(c, "error", 0)
    /\ UNCHANGED <<tickets, clock, others, summary, sentAt, srv, reply,
                   searchVars>>

\* The connection drops: neither a fault nor a timeout, and not looked into.
LoseConnection(c) ==
    /\ pc[c] = "wait"
    /\ Finish(c, "unknown", 0)
    /\ UNCHANGED <<tickets, clock, others, summary, sentAt, srv, reply,
                   searchVars>>

\* The read timeout.  The create is not repeated: it is not idempotent.
SendAgain(c) ==                                               \* faulty
    /\ pc[c] = "wait"
    /\ srv' = [srv EXCEPT ![c] = "queued"]
    /\ pc' = [pc EXCEPT ![c] = "query"]
    /\ UNCHANGED <<tickets, clock, others, summary, sentAt, reply,
                   searchVars, toldVars>>
TimeOut(c) ==
    /\ pc[c] = "wait"
    /\ pc' = [pc EXCEPT ![c] = "query"]
    /\ UNCHANGED <<tickets, clock, others, summary, sentAt, srv, reply,
                   searchVars, toldVars>>

(***************************************************************************)
(* _find_recently_created_ticket.                                          *)
(***************************************************************************)

\* ticket.query: the reporter's tickets, latest first, at most QueryMax.
\* A client that does not know its user asks for an empty reporter.
Reported == {i \in DOMAIN tickets : KnowsUser /\ tickets[i].reporter = Me}

EarliestOf(numbers) ==                                        \* faulty
    {i \in numbers : Cardinality({j \in numbers : j < i}) < QueryMax}
LatestOf(numbers) ==
    {i \in numbers : Cardinality({j \in numbers : j > i}) < QueryMax}

Query(c) ==
    /\ pc[c] = "query"
    /\ toRead' = [toRead EXCEPT ![c] = LatestOf(Reported)]
    /\ asked' = [asked EXCEPT ![c] = Len(tickets)]
    /\ pc' = [pc EXCEPT ![c] = "read"]
    /\ UNCHANGED <<tickets, clock, others, summary, sentAt, srv, reply,
                   unreadable, toldVars>>

\* The search itself fails: nothing is known, and the timeout is reported.
TakenAsError == "unhandled"                                   \* faulty
NothingKnown == "unknown"

QueryFails(c) ==
    /\ pc[c] = "query"
    /\ Finish(c, NothingKnown, 0)
    /\ UNCHANGED <<tickets, clock, others, summary, sentAt, srv, reply,
                   searchVars>>

\* A match: the summary, and created no earlier than the window allows.
AnyAge(c, i) == tickets[i].summary = summary[c]               \* faulty
Matches(c, i) ==
    /\ tickets[i].summary = summary[c]
    /\ tickets[i].at + Window >= sentAt[c]

\* The next ticket, latest first; a read that fails is passed over.
ReadTicket(c) ==
    /\ pc[c] = "read"
    /\ \E i \in toRead[c] :
        /\ \A j \in toRead[c] : j <= i
        /\ toRead' = [toRead EXCEPT ![c] = @ \ {i}]
        /\ \/ /\ Matches(c, i)
              /\ Finish(c, "created_anyway", i)
              /\ UNCHANGED unreadable
           \/ /\ ~Matches(c, i)
              /\ UNCHANGED <<pc, toldVars, unreadable>>
           \/ /\ unreadable' = [unreadable EXCEPT ![c] = @ \cup {i}]
              /\ UNCHANGED <<pc, toldVars>>
    /\ UNCHANGED <<tickets, clock, others, summary, sentAt, srv, reply, asked>>

FindNothing(c) ==
    /\ pc[c] = "read"
    /\ toRead[c] = {}
    /\ Finish(c, "not_created", 0)
    /\ UNCHANGED <<tickets, clock, others, summary, sentAt, srv, reply,
                   searchVars>>

-----------------------------------------------------------------------------

Handler(c) ==
    \/ Receive(c) \/ LoseConnection(c) \/ TimeOut(c) \/ Query(c)
    \/ QueryFails(c) \/ ReadTicket(c) \/ FindNothing(c)

CreateNext ==
    \/ \E c \in Calls : SendCreate(c) \/ Handler(c) \/ Serve(c)
    \/ OtherCreate
    \/ Tick

CreateSpec == CreateInit /\ [][CreateNext]_createVars

-----------------------------------------------------------------------------

\* A call creates at most one ticket, and none if it says it was refused or
\* reports the server's fault.
AtMostOneTicket ==
    \A c \in Calls :
        /\ Cardinality(Own(c)) <= 1
        /\ result[c] \in {"refused", "error"} => Own(c) = {}

\* A ticket named after a timeout has the summary that was sent, the right
\* reporter, and was not there longer than the window before the call.
NamedIsRecentTwin ==
    \A c \in Calls :
        result[c] = "created_anyway" =>
            LET t == tickets[number[c]]
            IN  /\ t.summary = summary[c]
                /\ t.reporter = Me
                /\ t.at + Window >= sentAt[c]

\* What a lost reply may lead to: no second ticket, and none is named but one
\* of this reporter and summary in the window (create_ticket,
\* _find_recently_created_ticket).
TimeoutsAreSafe == AtMostOneTicket /\ NamedIsRecentTwin

\* A created ticket is missed only if the request was served after the
\* search, if its own read failed, or if QueryMax later tickets of the same
\* reporter crowded it out.
MissedOnlyIf ==
    \A c \in Calls : \A i \in Own(c) :
        result[c] = "not_created" /\ KnowsUser =>
            \/ i > asked[c]
            \/ i \in unreadable[c]
            \/ Cardinality({j \in i + 1 .. asked[c] : tickets[j].reporter = Me})
                    >= QueryMax

(***************************************************************************)
(* What the docstring says.                                                *)
(***************************************************************************)

\* _find_recently_created_ticket: "'could not check' and 'checked, nothing
\* there' lead to different messages and must not be conflated."
CouldNotCheckIsNotAbsence ==
    \A c \in Calls : result[c] = "not_created" => unreadable[c] = {}

=============================================================================
