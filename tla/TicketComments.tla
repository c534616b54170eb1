---------------------------- MODULE TicketComments ----------------------------
(***************************************************************************)
(* The tools that edit, delete and answer one comment of a ticket          *)
(* (mcp/tools/ticket_comment.py), the RPC methods of the plugin they need  *)
(* (tracrpc_comment/ticket_comment.py), and everybody else.                *)
(*                                                                         *)
(* A caller reads a ticket, then names a comment of it by its number; the  *)
(* call may land on another ticket than the one that was read, as it does  *)
(* when the instance it names, or fails to name, is not the one it means.  *)
(* Only an edit takes the change token of what was read, and the handler   *)
(* compares it in a request of its own, before the edit.                   *)
(***************************************************************************)
EXTENDS Naturals, Sequences, SequencesExt

CONSTANTS
    Callers, Tickets,
    Read,           \* the tickets a caller may have read
    Log, Start,     \* what the tickets hold when it all begins, and the time then
    MaxTime,        \* bound: the time of the last change
    MaxOthers       \* bound: what others do

\* A change set: its number, its time, whether it changed fields, and the
\* comment it answers.  Its text is left out: an edit moves no token.
ChangeSet(num, at, fields, parent) ==
    [num |-> num, at |-> at, fields |-> fields, parent |-> parent]
ChangeSets == [num : Nat \ {0}, at : Nat \ {0}, fields : BOOLEAN, parent : Nat]

\* Numbers and times rise together, and no two changes are of one time.
InOrder(logs, now) ==
    \A t \in Tickets :
        /\ \A i \in DOMAIN logs[t] : logs[t][i].at <= now
        /\ \A i, j \in DOMAIN logs[t] :
              i < j => logs[t][i].at < logs[t][j].at /\ logs[t][i].num < logs[t][j].num
        /\ \A u \in Tickets \ {t} : \A i \in DOMAIN logs[t], j \in DOMAIN logs[u] :
              logs[t][i].at # logs[u][j].at

ASSUME CommentsAssumption ==
    /\ Read \subseteq Tickets /\ Start \in Nat /\ MaxTime \in Nat /\ MaxOthers \in Nat
    /\ DOMAIN Log = Tickets /\ (\A t \in Tickets : Log[t] \in Seq(ChangeSets))
    /\ InOrder(Log, Start)

VARIABLES
    log,      \* per ticket, its change sets in the order of their times
    clock,    \* the time of the last change anywhere
    others,
    pc, request,
    token,    \* the change token the caller read
    seen,     \* the change set he saw under the number, by its time
    loaded,   \* the change set the plugin found under the number
    answer,
    served,   \* history: what the plugin did for the call
    slipped   \* history: the ticket changed after the token was compared

serverVars == <<log, clock>>
callVars == <<pc, request, token, seen, answer>>
vars == <<serverVars, others, callVars, loaded, served, slipped>>

NoRequest == [op |-> "none", from |-> "", to |-> "", num |-> 0, force |-> FALSE]
Nothing == [ticket |-> "", at |-> 0, num |-> 0, parent |-> 0, reverts |-> FALSE]

Requests ==
    {[op |-> o, from |-> f, to |-> t, num |-> n, force |-> b] :
        o \in {"edit", "delete", "reply"}, f \in Read, t \in Tickets,
        n \in 1..MaxTime, b \in BOOLEAN}

Init ==
    /\ log = Log /\ clock = Start /\ others = 0
    /\ pc = [c \in Callers |-> "idle"]
    /\ request = [c \in Callers |-> NoRequest]
    /\ token = [c \in Callers |-> 0] /\ seen = [c \in Callers |-> 0]
    /\ loaded = [c \in Callers |-> 0]
    /\ answer = [c \in Callers |-> "none"]
    /\ served = [c \in Callers |-> Nothing]
    /\ slipped = [c \in Callers |-> FALSE]

\* The change token: the time of the last change there is.
TokenOf(t) == IF log[t] = <<>> THEN 0 ELSE Last(log[t]).at

\* The number after the highest: that of a deleted last comment is used again.
NextNumber(t) == IF log[t] = <<>> THEN 1 ELSE Last(log[t]).num + 1

Numbered(t, n) == {i \in DOMAIN log[t] : log[t][i].num = n}
Timed(t, at) == {i \in DOMAIN log[t] : log[t][i].at = at}
TimeOf(t, n) == IF Numbered(t, n) = {} THEN 0
                ELSE log[t][CHOOSE i \in Numbered(t, n) : TRUE].at

\* Whose token no longer covers what he is about to edit.
Slips(t) ==
    slipped' = [c \in Callers |-> slipped[c] \/
                 /\ pc[c] \in {"gate", "send", "load", "act"}
                 /\ request[c].op = "edit" /\ request[c].to = t]

Append1(t, set) == log' = [log EXCEPT ![t] = Append(@, set)]
Remove1(t, i) == log' = [log EXCEPT ![t] = RemoveAt(@, i)]

(***************************************************************************)
(* Everybody else: comments, changes of fields, and deletions.             *)
(***************************************************************************)

Other(t) ==
    /\ others < MaxOthers /\ others' = others + 1
    /\ \/ /\ clock < MaxTime /\ clock' = clock + 1
          /\ \E fields \in BOOLEAN :
                Append1(t, ChangeSet(NextNumber(t), clock + 1, fields, 0))
       \/ \E i \in DOMAIN log[t] :
             Remove1(t, i) /\ UNCHANGED clock
    /\ Slips(t)
    /\ UNCHANGED <<callVars, loaded, served>>

(***************************************************************************)
(* The caller: ticket_get, ticket_changelog, then the call.                *)
(***************************************************************************)

Goto(c, label) == pc' = [pc EXCEPT ![c] = label]
Finish(c, result) == Goto(c, "done") /\ answer' = [answer EXCEPT ![c] = result]
First(op) == IF op = "edit" THEN "check" ELSE IF op = "reply" THEN "gate" ELSE "send"

ReadTicket(c) ==
    /\ pc[c] = "idle" /\ Goto(c, "reading")
    /\ \E r \in Requests :
          /\ log[r.from] # <<>> /\ (r.force => r.op = "delete")
          /\ request' = [request EXCEPT ![c] = r]
          /\ token' = [token EXCEPT ![c] = IF r.op = "edit" THEN TokenOf(r.from) ELSE 0]
    /\ UNCHANGED <<serverVars, others, seen, answer, loaded, served, slipped>>

ReadChangelog(c) ==
    /\ pc[c] = "reading"
    /\ LET r == request[c]
       IN /\ Numbered(r.from, r.num) # {}
          /\ seen' = [seen EXCEPT ![c] = IF r.op = "edit" THEN TimeOf(r.from, r.num) ELSE 0]
          /\ Goto(c, First(r.op))
    /\ UNCHANGED <<serverVars, others, request, token, answer, loaded, served, slipped>>

(***************************************************************************)
(* The handlers.                                                           *)
(***************************************************************************)

Unchecked(c) == TRUE                                           \* faulty
IsCurrent(c) == TokenOf(request[c].to) = token[c]

check_base_ts(c) ==
    /\ pc[c] = "check"
    /\ IF IsCurrent(c) THEN Goto(c, "gate") /\ UNCHANGED answer
       ELSE Finish(c, "version_conflict")
    /\ token' = [token EXCEPT ![c] = 0]
    /\ UNCHANGED <<serverVars, others, request, seen, loaded, served, slipped>>

\* The link gate, on the author's own text; then, for an edit, a read of the
\* text to be replaced, whose failure is no reason to stop.
gate_or_refuse(c) ==
    /\ pc[c] = "gate"
    /\ \/ Goto(c, "send") /\ UNCHANGED answer
       \/ Finish(c, "link_check_failed")
    /\ UNCHANGED <<serverVars, others, request, token, seen, loaded, served, slipped>>

\* The request, to a server that has the plugin or not.
send(c) ==
    /\ pc[c] = "send"
    /\ \/ Goto(c, "load") /\ UNCHANGED answer
       \/ Finish(c, "method_not_available")
    /\ UNCHANGED <<serverVars, others, request, token, seen, loaded, served, slipped>>

\* The reply is lost, or late; the plugin carries the request out all the same.
GiveUp(c) ==
    /\ pc[c] \in {"load", "act"} /\ answer[c] = "none"
    /\ answer' = [answer EXCEPT ![c] = "error"]
    /\ UNCHANGED <<serverVars, others, pc, request, token, seen, loaded, served, slipped>>

(***************************************************************************)
(* The plugin: the ticket is loaded, and acted on in a second transaction. *)
(***************************************************************************)

Reply(c, result) ==
    Goto(c, "done")
        /\ answer' = [answer EXCEPT ![c] = IF @ = "error" THEN @ ELSE result]

\* A change set goes as a whole: its changes of fields are taken back.
Ruthless(set, force) == TRUE                                   \* faulty
MayDelete(set, force) == ~set.fields \/ force

require_change(c) ==
    /\ pc[c] = "load"
    /\ LET r == request[c]
           found == {log[r.to][i] : i \in Numbered(r.to, r.num)}
           refused == {set \in found : r.op = "delete" /\ ~MayDelete(set, r.force)}
       IN \/ /\ \E set \in found \ refused : loaded' = [loaded EXCEPT ![c] = set.at]
             /\ Goto(c, "act") /\ UNCHANGED answer
          \/ /\ refused # {} /\ Reply(c, "bundled_change_refused")
             /\ UNCHANGED loaded
          \/ /\ Reply(c, "fault")       \* no such comment, or no permission
             /\ UNCHANGED loaded
    /\ UNCHANGED <<serverVars, others, request, token, seen, served, slipped>>

Done(c, t, set, reverts) ==
    served' = [served EXCEPT ![c] = [ticket |-> t, at |-> set.at, num |-> set.num,
                                     parent |-> set.parent, reverts |-> reverts]]

\* Of a change that is gone by now Trac may complain; if it does not, the
\* plugin returns True and the handler reports success, having done nothing.
Gone(c) ==
    /\ pc[c] = "act" /\ request[c].op # "reply"
    /\ Timed(request[c].to, loaded[c]) = {}
    /\ \/ Reply(c, "fault")
       \/ Reply(c, IF request[c].op = "edit" THEN "edited" ELSE "deleted")
    /\ UNCHANGED <<serverVars, others, request, token, seen, loaded, served, slipped>>

editComment(c) ==
    /\ pc[c] = "act" /\ request[c].op = "edit"
    /\ LET t == request[c].to
       IN \E i \in Timed(t, loaded[c]) : Done(c, t, log[t][i], FALSE)
    /\ Reply(c, "edited")
    /\ loaded' = [loaded EXCEPT ![c] = 0]
    /\ UNCHANGED <<serverVars, others, request, token, seen, slipped>>

deleteComment(c) ==
    /\ pc[c] = "act" /\ request[c].op = "delete"
    /\ LET t == request[c].to
       IN \E i \in Timed(t, loaded[c]) :
            Remove1(t, i) /\ Done(c, t, log[t][i], log[t][i].fields) /\ Slips(t)
    /\ Reply(c, "deleted")
    /\ loaded' = [loaded EXCEPT ![c] = 0]
    /\ UNCHANGED <<clock, others, request, token, seen>>

replyToComment(c) ==
    /\ pc[c] = "act" /\ request[c].op = "reply" /\ clock < MaxTime
    /\ clock' = clock + 1
    /\ LET t   == request[c].to
           set == ChangeSet(NextNumber(t), clock + 1, FALSE, request[c].num)
       IN Append1(t, set) /\ Done(c, t, set, FALSE) /\ Slips(t)
    /\ Reply(c, "posted")
    /\ loaded' = [loaded EXCEPT ![c] = 0]
    /\ UNCHANGED <<others, request, token, seen>>

Next ==
    \/ \E t \in Tickets : Other(t)
    \/ \E c \in Callers :
          \/ ReadTicket(c) \/ ReadChangelog(c)
          \/ check_base_ts(c) \/ gate_or_refuse(c) \/ send(c) \/ GiveUp(c)
          \/ require_change(c) \/ Gone(c)
          \/ editComment(c) \/ deleteComment(c) \/ replyToComment(c)

Spec == Init /\ [][Next]_vars

(***************************************************************************)
(* Properties.                                                             *)
(***************************************************************************)

\* An edit changes the comment its caller had read, on the ticket he had read
\* it on, although comments are deleted and their numbers used again, and
\* although the call may land elsewhere: unless the ticket changed in the
\* window between the comparison of the token and the edit, which
\* _check_base_ts documents.
EditIsOfWhatWasRead ==
    \A c \in Callers :
        (request[c].op = "edit" /\ served[c] # Nothing /\ ~slipped[c]) =>
            served[c].ticket = request[c].from /\ served[c].at = seen[c]

\* The comment that the plugin had found under the number was taken away
\* before it acted, and is not there.
TakenAway(c) == loaded[c] # 0 /\ Timed(request[c].to, loaded[c]) = {}

\* What a caller is told: a deletion that takes changes of fields back was
\* asked for with force; a reply that is reported was posted, once, on the
\* ticket and to the number named; an edit or a deletion that is reported was
\* done, to the number and the ticket named, or else the comment it had found
\* there was deleted by somebody else in the middle of it; and what is refused
\* was not done.  (_handle_edit, _handle_delete, _handle_reply.)
AnswersAreTrue ==
    \A c \in Callers :
        LET r == request[c]  s == served[c]
        IN /\ s.reverts => r.force
           /\ answer[c] \in {"edited", "deleted"} =>
                 \/ s.ticket = r.to /\ s.num = r.num
                 \/ s = Nothing /\ TakenAway(c)
           /\ answer[c] = "posted" => s.ticket = r.to /\ s.parent = r.num
           /\ answer[c] \in {"version_conflict", "link_check_failed", "fault",
                             "bundled_change_refused", "method_not_available"}
                => s = Nothing

\* Not so: an edit or a deletion that is reported was done.
SuccessesAreDone ==
    \A c \in Callers : answer[c] \in {"edited", "deleted"} => served[c] # Nothing
===============================================================================
