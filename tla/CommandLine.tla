------------------------------ MODULE CommandLine ------------------------------
(***************************************************************************)
(* The command line client (cli/client.py) as a caller of the server that  *)
(* FileTransfers models: what a command sends, what it makes of the        *)
(* answer, and the exit code a script goes by.  A file of the user's own   *)
(* disk is carried inline.  The commands about a ticket work on one ticket *)
(* here: its token, its description and its comments, oldest first.        *)
(*                                                                         *)
(* Codes: 0 done, 1 the server answered with an error, 2 a usage or local  *)
(* file error, 3 no server, 4 stored, though not all about it is known.    *)
(***************************************************************************)
EXTENDS FileTransfers, Sequences

CONSTANTS
    Terminals,          \* the callers that are such clients
    Commands,           \* what they are given: op, name, replace, stream, based
    Homes,              \* what the local file holds; Void: there is no file,
                        \* Nowhere: there is no folder either
    Nowhere,
    MaxComment,         \* MAX_COMMENT_CHARS
    Tails               \* <<text, tail>>: the one ends in the other

ASSUME CommandAssumption ==
    /\ Terminals \subseteq Callers /\ MaxComment \in Nat
    /\ \A x \in Homes \cup {Nowhere} : <<x, x>> \in Tails

VARIABLES
    home,       \* the local file of each terminal
    command, stage, exit,
    sent,       \* what was read of the local file
    token,      \* the change token the client goes by
    number,     \* the comment's number as the client tells it
    ticket, created,
    wrote       \* history: <<terminal, number>> of the ticket writes stored

cliVars == <<home, command, stage, exit, sent, token, number, ticket, created, wrote>>
localVars == <<command, stage, exit, sent, token, number>>
cliSpecVars == <<vars, cliVars>>

NoCode == 9
NoCommand == [op |-> "none", name |-> Void, replace |-> FALSE, stream |-> FALSE, based |-> FALSE]
TicketWrites == {"comment", "describe", "create"}
Pulls == {"body", "get", "pull"}

CliInit ==
    /\ Init
    /\ home \in [Terminals -> Homes]
    /\ command = [t \in Terminals |-> NoCommand]
    /\ stage = [t \in Terminals |-> "idle"] /\ exit = [t \in Terminals |-> NoCode]
    /\ sent = [t \in Terminals |-> Void]
    /\ token = [t \in Terminals |-> 0] /\ number = [t \in Terminals |-> 0]
    /\ ticket = [ts |-> 1, description |-> "small", comments |-> <<>>]
    /\ created = 0
    /\ wrote = {}

\* Others change the ticket, or take the folder of the local file away.
OtherHere ==
    /\ others < MaxOthers /\ others' = others + 1
    /\ \/ /\ \E x \in Contents :
                \/ ticket' = [ticket EXCEPT !.ts = @ + 1, !.comments = Append(@, x)]
                \/ ticket' = [ticket EXCEPT !.ts = @ + 1, !.description = x]
          /\ UNCHANGED home
       \/ /\ \E t \in Terminals : home' = [home EXCEPT ![t] = Nowhere]
          /\ UNCHANGED ticket
    /\ UNCHANGED <<mode, disk, folders, attached, foldersWas, callVars, touched, stored,
                   fetched, localVars, created, wrote>>

Exit(t, code) ==
    /\ exit' = [exit EXCEPT ![t] = code]
    /\ stage' = [stage EXCEPT ![t] = "done"]
At(t, label) == stage' = [stage EXCEPT ![t] = label] /\ UNCHANGED exit

NoFile(t) == home[t] \in {Void, Nowhere}

\* What is refused before any call (_read_text, _read_bytes, _read_body,
\* _check_output_dir, and the arguments).
BadUsage(t, r) ==
    \/ r.op \in Pulls /\ ~r.stream /\ home[t] = Nowhere
    \/ r.op \notin Pulls /\ ~r.stream /\ NoFile(t)
    \/ r.op = "put" /\ r.stream /\ r.name = Void
    \/ r.op \in TicketWrites /\ ~NoFile(t) /\ Size(home[t]) = 0
    \/ r.op = "comment" /\ ~NoFile(t) /\ Size(home[t]) > MaxComment

\* The request of a command that moves a file, always inline.
RequestOf(t, r) ==
    [op |-> r.op, name |-> IF r.name = Void THEN "file" ELSE r.name, path |-> Void,
     inline |-> IF r.op \in Uploads THEN home[t] ELSE Void, replace |-> r.replace]

\* main, _run: the server is looked up first; then the command's own checks.
Start(t) ==
    /\ stage[t] = "idle"
    /\ \E r \in Commands :
          /\ r.stream /\ r.op \notin Pulls => ~NoFile(t)      \* stdin brings some text
          /\ command' = [command EXCEPT ![t] = r]
          /\ sent' = [sent EXCEPT ![t] = home[t]]
          /\ \/ Exit(t, 3) /\ UNCHANGED <<request, pc, token>>
             \/ BadUsage(t, r) /\ Exit(t, 2) /\ UNCHANGED <<request, pc, token>>
             \/ /\ ~BadUsage(t, r) /\ r.op \in Uploads \cup Downloads
                /\ request' = [request EXCEPT ![t] = RequestOf(t, r)]
                /\ Goto(t, IF r.op \in Uploads THEN "input" ELSE "check")
                /\ At(t, "called") /\ UNCHANGED token
             \/ /\ ~BadUsage(t, r) /\ r.op \in {"comment", "describe"} /\ ~r.based
                /\ At(t, "lock") /\ UNCHANGED <<request, pc, token>>
             \/ /\ ~BadUsage(t, r)
                /\ \/ r.op \in {"create", "body"}
                   \/ r.op \in {"comment", "describe"} /\ r.based
                /\ token' = [token EXCEPT ![t] = 1]
                /\ Goto(t, "ticket") /\ At(t, "called") /\ UNCHANGED request
    /\ UNCHANGED <<mode, world, bytes, reply, answer, touched, stored, fetched,
                   home, number, ticket, created, wrote>>

\* _lock_token: the token, read just before the write.
lock_token(t) ==
    /\ stage[t] = "lock"
    /\ \/ /\ token' = [token EXCEPT ![t] = ticket.ts]
          /\ At(t, "called") /\ Goto(t, "ticket")
       \/ \E code \in {1, 3} : Exit(t, code) /\ UNCHANGED <<token, pc>>
    /\ UNCHANGED <<mode, world, request, bytes, reply, answer, touched, stored, fetched,
                   home, command, sent, number, ticket, created, wrote>>

(***************************************************************************)
(* The server, for the commands about the ticket.  An update is refused    *)
(* under another token, by the gate or by Trac; its reply may be lost on   *)
(* the way from Trac, when it was stored or not.                           *)
(***************************************************************************)

Answered(t, result, name, data) ==
    /\ Goto(t, "done")
    /\ answer' = [answer EXCEPT ![t] = [result |-> result, name |-> name, bytes |-> data]]

Changed(t) ==
    IF command[t].op = "comment" THEN [ticket EXCEPT !.ts = @ + 1, !.comments = Append(@, sent[t])]
    ELSE [ticket EXCEPT !.ts = @ + 1, !.description = sent[t]]
ticket_write(t) ==
    /\ pc[t] = "ticket" /\ command[t].op \in TicketWrites
    /\ \/ Answered(t, "refused", Void, Void) /\ UNCHANGED <<ticket, created, wrote>>
       \/ Answered(t, "error", Void, Void) /\ UNCHANGED <<ticket, created, wrote>>
       \/ /\ \/ /\ command[t].op = "create"
                /\ created' = created + 1 /\ UNCHANGED ticket
             \/ /\ command[t].op # "create" /\ token[t] = ticket.ts
                /\ ticket' = Changed(t) /\ UNCHANGED created
          /\ wrote' = wrote \cup {<<t, Len(ticket'.comments)>>}
          /\ \E result \in {"saved", "error"} : Answered(t, result, Void, sent[t])
    /\ UNCHANGED <<mode, world, request, bytes, reply, touched, stored, fetched, home, localVars>>

ticket_read(t) ==
    /\ pc[t] = "ticket" /\ command[t].op = "body"
    /\ \/ Answered(t, "body", Void, ticket.description)
       \/ \E i \in DOMAIN ticket.comments : Answered(t, "body", Void, ticket.comments[i])
       \/ Answered(t, "error", Void, Void)
    /\ UNCHANGED <<mode, world, request, bytes, reply, touched, stored, fetched, cliVars>>

(***************************************************************************)
(* The client, once the call is over, or cut off before.                   *)
(***************************************************************************)

\* The transport fails, the server goes on.
Cut(t) ==
    /\ stage[t] = "called" /\ Exit(t, 3)
    /\ UNCHANGED <<vars, home, command, sent, token, number, ticket, created, wrote>>

AsAnError(t) == 1                                              \* faulty
EXIT_STORED_INCOMPLETE(t) == 4

Over(t) == stage[t] = "called" /\ pc[t] = "done"
Kept == {"stored", "saved"}
Delivered == {"inline", "body"}

report(t) ==
    /\ Over(t) /\ answer[t].result \notin Kept \cup Delivered /\ Exit(t, 1)
    /\ UNCHANGED <<vars, home, command, sent, token, number, ticket, created, wrote>>

\* A push may come with readback_failed; the number of a new ticket is read
\* from the text, the number of a comment from the result or, of an older
\* server, by a call of its own.
told_stored(t) ==
    /\ Over(t) /\ answer[t].result \in Kept
    /\ LET op == command[t].op
       IN \/ op # "comment" /\ Exit(t, 0) /\ UNCHANGED number
          \/ op = "push" /\ Exit(t, EXIT_STORED_INCOMPLETE(t)) /\ UNCHANGED number
          \/ op = "create" /\ Exit(t, 1) /\ UNCHANGED number
          \/ /\ op = "comment" /\ Exit(t, 0)
             /\ \E w \in wrote : w[1] = t /\ number' = [number EXCEPT ![t] = w[2]]
          \/ op = "comment" /\ At(t, "readback") /\ UNCHANGED number
    /\ UNCHANGED <<vars, home, command, sent, token, ticket, created, wrote>>

\* The last comment that ends in the text.
OwnComment(t) == {i \in DOMAIN ticket.comments : <<ticket.comments[i], sent[t]>> \in Tails}
comment_number(t) ==
    /\ stage[t] = "readback"
    /\ \/ /\ OwnComment(t) # {} /\ Exit(t, 0)
          /\ \E i \in OwnComment(t) :
                /\ \A j \in OwnComment(t) : j <= i
                /\ number' = [number EXCEPT ![t] = i]
       \/ Exit(t, EXIT_STORED_INCOMPLETE(t)) /\ UNCHANGED number
    /\ UNCHANGED <<vars, home, command, sent, token, ticket, created, wrote>>

\* The folder is looked at again; an older server sends no payload.
save(t) ==
    /\ Over(t) /\ answer[t].result \in Delivered
    /\ \/ Exit(t, 1) /\ UNCHANGED home
       \/ /\ home[t] = Nowhere /\ ~command[t].stream
          /\ Exit(t, 2) /\ UNCHANGED home
       \/ /\ home[t] # Nowhere \/ command[t].stream
          /\ Exit(t, 0) /\ home' = [home EXCEPT ![t] = answer[t].bytes]
    /\ UNCHANGED <<vars, command, sent, token, number, ticket, created, wrote>>

CliNext ==
    \/ Other /\ UNCHANGED cliVars
    \/ OtherHere
    \/ \E c \in Callers \ Terminals : Call(c) /\ UNCHANGED cliVars
    \/ \E c \in Callers : Serve(c) /\ UNCHANGED cliVars
    \/ \E t \in Terminals :
          \/ Start(t) \/ lock_token(t) \/ ticket_write(t) \/ ticket_read(t) \/ Cut(t)
          \/ report(t) \/ told_stored(t) \/ comment_number(t) \/ save(t)

CliSpec == CliInit /\ [][CliNext]_cliSpecVars

(***************************************************************************)
(* Properties.                                                             *)
(***************************************************************************)

Stored(t) == (\E s \in stored : s[1] = t) \/ (\E w \in wrote : w[1] = t)

\* What a script may go by.  0 and 4: the write is stored; 0 after a download:
\* the local file holds what the server sent, or its folder was taken away
\* later.  2: nothing was stored, and unless it was a download nothing was
\* sent.  1: nothing was stored, unless the server had to answer with an error
\* because Trac's reply to a write that it stored was lost, or the answer to a
\* ticket that was created gave no number.  The number told is that of the
\* comment, or of a later one that ends in the same text.
\* (EXIT_STORED_INCOMPLETE, save of a download, _comment_number.)
ExitCodesAreTrue ==
    \A t \in Terminals :
        LET op == command[t].op  code == exit[t]
        IN /\ code \in {0, 4} /\ op \notin Pulls => Stored(t)
           /\ code = 0 /\ op \in Pulls => home[t] \in {answer[t].bytes, Nowhere}
           /\ code = 2 => ~Stored(t) /\ (op \notin Pulls => pc[t] = "idle")
           /\ code = 1 /\ Stored(t) =>
                 answer[t].result = "error" \/ (op = "create" /\ answer[t].result = "saved")
           /\ number[t] # 0 => /\ \E w \in wrote : w[1] = t /\ w[2] <= number[t]
                               /\ <<ticket.comments[number[t]], sent[t]>> \in Tails

\* "Exit 1 always means nothing was stored." (docs/reference/cli.md.)  It does
\* not: the reply to a write may be lost on its way to the server.
ExitOneMeansNothingStored == \A t \in Terminals : exit[t] = 1 => ~Stored(t)
===============================================================================
