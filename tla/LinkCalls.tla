------------------------------ MODULE LinkCalls -------------------------------
(***************************************************************************)
(* One call that has links checked, while the things it links to come and  *)
(* go: the gate before a write (write_gate.py), the dry run                *)
(* (convert_preview.py), and the check of a ticket as it is shown          *)
(* (render_check.py, preview/live.py).  Each renders, probes the targets   *)
(* on other instances (preview/targets.py) over a session that minds where *)
(* it sends what (core/scope.py), and judges what it found (LinkChecks).   *)
(***************************************************************************)
EXTENDS LinkChecks

CONSTANTS
    Requests,     \* the calls
    Worlds,       \* what may exist when one begins
    Toggles,      \* what may come or go meanwhile
    MaxChanges,   \* bound: changes of the world
    Edits,        \* what the texts of the ticket may be edited to
    Instances,    \* per instance: its host, and whether it asks who calls
    Redirects,    \* the instances that send a probe on, and by which hops
    OwnInstance, OwnPrefix,
    Concurrency   \* how many targets are fetched at once

ASSUME LinkAssumption ==
    /\ MaxChanges \in Nat /\ Concurrency \in Nat \ {0}
    /\ OwnInstance \in DOMAIN Instances
    /\ \A r \in Requests : /\ r.op \in {"write", "preview", "check"}
                           /\ IsSequence(r.fields) /\ r.fields # <<>>
                           /\ \A k \in DOMAIN r.fields : IsSequence(r.fields[k])
    /\ \A doc \in Edits : IsSequence(doc)
    /\ \A b \in DOMAIN Redirects : IsSequence(Redirects[b])

VARIABLES
    request,    \* the call
    world,      \* what exists: pages, tickets, files, comments, instances up
    last,       \* the last comment number used on the ticket
    stored,     \* the ticket's description and comment, if it has one
    changes,
    stage,
    field,      \* the field being checked
    known,      \* the comment numbers the call knows of, if it does
    names,      \* the attachments it knows of, if it does
    sections,   \* the text being judged: shown, its source, its facts
    todo,       \* the targets still to be fetched
    probes,     \* the outcomes
    healthy,    \* the instances asked whether they answer, and the answer
    notes,      \* the fields whose check did not run, 0 for "gate off"
    answer,
    judged,     \* history: what was judged, and the findings
    sent,       \* history: the requests sent, with or without credentials
    was, always \* history: what existed at some time, and all the time

envVars  == <<world, last, stored, changes, was, always>>
probeVars == <<todo, probes, healthy, sent>>
outVars  == <<notes, answer, judged>>
vars == <<request, envVars, stage, field, known, names, sections, probeVars, outVars>>

op == request.op
Up(base) == <<"up", base>> \in world

\* The order of the steps of each operation.
Stages == [write   |-> <<"comments", "names", "render", "probe", "confirm", "judge">>,
           preview |-> <<"render", "probe", "confirm", "names", "comments", "judge">>,
           check   |-> <<"html", "source", "changelog", "probe", "confirm", "judge">>]
StageAfter(step) ==
    Stages[op][1 + CHOOSE i \in DOMAIN Stages[op] : Stages[op][i] = step]

Init ==
    /\ request \in Requests
    /\ world \in Worlds /\ was = world /\ always = world
    /\ last = 1
    /\ stored = request.fields
    /\ changes = 0
    /\ stage = "begin" /\ field = 1
    /\ known = NoContext /\ names = NoContext
    /\ sections = <<>>
    /\ todo = <<>> /\ probes = <<>> /\ healthy = <<>> /\ sent = {}
    /\ notes = {} /\ answer = "none" /\ judged = {}

(***************************************************************************)
(* The others.                                                             *)
(***************************************************************************)

BecomesOf(w) == world' = w /\ was' = was \cup w /\ always' = always \cap w

Change ==
    /\ changes < MaxChanges /\ answer = "none"
    /\ changes' = changes + 1
    /\ \/ /\ \E x \in Toggles : BecomesOf(IF x \in world THEN world \ {x}
                                          ELSE world \cup {x})
          /\ UNCHANGED <<last, stored>>
       \* A comment, or an edit of a field, which uses up a number too.
       \/ /\ last' = last + 1
          /\ BecomesOf(world) \/ BecomesOf(world \cup {<<"comment", last + 1>>})
          /\ UNCHANGED stored
       \/ /\ op = "check"
          /\ \E k \in DOMAIN stored, x \in Edits : stored' = [stored EXCEPT ![k] = x]
          /\ UNCHANGED <<world, was, always, last>>
    /\ UNCHANGED <<request, stage, field, known, names, sections, probeVars, outVars>>

(***************************************************************************)
(* What a call knows of its target.  Failing to learn the comment numbers  *)
(* passes every reference; failing to learn the attachments passes none.   *)
(***************************************************************************)

Mentions(kind) ==
    \E k \in DOMAIN request.fields :
        \E it \in ToSet(request.fields[k]) : it.kind = kind

Named(kind) == {x[2] : x \in {y \in world : y[1] = kind}}

\* The number this write will use up is known too.
KnownNow == Named("comment") \cup {last + 1}

Begin ==
    /\ stage = "begin"
    /\ IF op = "write" /\ ~request.gate
       THEN stage' = "store" /\ notes' = {0}
       ELSE stage' = Stages[op][1] /\ UNCHANGED notes
    /\ UNCHANGED <<request, envVars, field, known, names, sections, probeVars,
                   answer, judged>>

known_comment_numbers ==
    /\ stage = "comments" /\ stage' = StageAfter("comments")
    /\ IF request.target = "new" THEN known' = <<{}>>
       ELSE IF request.target = "ticket" /\ Mentions("comment")
       THEN known' \in {<<KnownNow>>, NoContext}
       ELSE known' = NoContext
    /\ UNCHANGED <<request, envVars, field, names, sections, probeVars, outVars>>

attachment_names ==
    /\ stage = "names" /\ stage' = StageAfter("names")
    /\ IF request.target \in {"ticket", "page", "new"} /\ Mentions("file")
       THEN names' \in (IF request.target = "new" THEN {<<{}>>}
                        ELSE {<<Named("file")>>, NoContext})
       ELSE names' = NoContext
    /\ UNCHANGED <<request, envVars, field, known, sections, probeVars, outVars>>

(***************************************************************************)
(* The targets to fetch: each once, in the order of the document, without  *)
(* those out of scope, and no more than the cap.                           *)
(***************************************************************************)

SameOrigin(base) == Instances[base].host = Instances[OwnInstance].host

\* Of the instances the caller is allowed, if there is a list of them, those
\* on the client's own host.
scope_bases == {base \in request.scope[1] : SameOrigin(base)}
InScope(base) == request.scope = NoContext \/ base \in scope_bases

InOrder(anchors) ==
    LET places == SetToSortSeq(DOMAIN anchors, <)
    IN [n \in DOMAIN places |-> anchors[places[n]]]

\* The addresses of the targets, each where it first occurs.
Targets(texts) ==
    LET anchors == FlattenSeq([k \in DOMAIN texts |->
                                 InOrder(texts[k].facts.anchors)])
        Add(seen, a) == IF ~is_probeable(a) \/ Contains(seen, a.href) THEN seen
                        ELSE Append(seen, a.href)
    IN FoldLeft(Add, <<>>, anchors)

Within(hrefs, cap) == SubSeq(hrefs, 1, IF cap < Len(hrefs) THEN cap ELSE Len(hrefs))

\* Sets the probing of these texts up; without "check" nothing is probed.
ProbeNext(texts) ==
    LET targets == IF request.check THEN Targets(texts) ELSE <<>>
        allowed == SelectSeq(targets, LAMBDA h : InScope(h.base))
        tried   == Within(allowed, request.cap)
    IN /\ sections' = texts
       /\ todo' = tried
       /\ probes' = [h \in ToSet(targets) \ ToSet(tried) |->
                       IF InScope(h.base) THEN "capped" ELSE "not allowed"]
       /\ healthy' = <<>>

Section(doc, source, facts) == [shown |-> doc, source |-> source, facts |-> facts]

(***************************************************************************)
(* Rendering.  A gate that cannot render, or whose checks raise, says so    *)
(* and lets the field pass; the other calls end in an error.               *)
(***************************************************************************)

NextField ==
    IF field = Len(request.fields) THEN stage' = "store" /\ UNCHANGED field
    ELSE stage' = "render" /\ field' = field + 1

UncheckedUnsaid ==                                            \* faulty
    IF op = "write" THEN NextField /\ UNCHANGED <<notes, answer>>
    ELSE stage' = "done" /\ answer' = "error" /\ UNCHANGED <<notes, field>>
Unchecked ==
    IF op = "write"
    THEN notes' = notes \cup {field} /\ NextField /\ UNCHANGED answer
    ELSE stage' = "done" /\ answer' = "error" /\ UNCHANGED <<notes, field>>

wiki_to_html ==
    /\ stage = "render"
    /\ LET draft == request.fields[field]
           doc   == IF op = "preview" /\ request.markdown THEN Convert(draft)
                    ELSE draft
       IN \/ /\ op = "write" /\ draft = <<>>
             /\ NextField
             /\ UNCHANGED <<sections, todo, probes, healthy, notes, answer>>
          \/ /\ draft # <<>>
             /\ ProbeNext(<<Section(doc, <<doc>>, extract_facts(doc, world, FALSE))>>)
             /\ stage' = StageAfter("render")
             /\ UNCHANGED <<field, notes, answer>>
          \/ /\ draft # <<>>
             /\ Unchecked
             /\ UNCHANGED <<sections, todo, probes, healthy>>
    /\ UNCHANGED <<request, envVars, known, names, sent, judged>>

\* The page of the ticket, the ticket, its change log: three requests.
html ==
    /\ stage = "html"
    /\ \/ /\ sections' = [k \in {j \in DOMAIN stored : j = 1 \/ stored[j] # <<>>} |->
                             Section(stored[k], NoContext,
                                     extract_facts(stored[k], world, TRUE))]
          /\ stage' = "source" /\ UNCHANGED answer
       \/ /\ answer' \in {"not_found", "server_error"}
          /\ stage' = "done" /\ UNCHANGED sections
    /\ UNCHANGED <<request, envVars, field, known, names, probeVars, notes, judged>>

\* Whatever else a check may raise: setting the probes up, the registry, the
\* scope, the rules themselves.
check_raises ==
    /\ stage \in {"probe", "confirm", "judge"} \cup
         (IF op = "check" THEN {"source", "changelog"} ELSE {})
    /\ Unchecked
    /\ UNCHANGED <<request, envVars, known, names, sections, probeVars, judged>>

ticket_source ==
    /\ stage = "source" /\ stage' = "changelog"
    /\ sections' = [sections EXCEPT ![1].source = <<stored[1]>>]
    /\ UNCHANGED <<request, envVars, field, known, names, probeVars, outVars>>

\* A comment is paired with the text of its number, if there is any left.
changelog ==
    /\ stage = "changelog" /\ stage' = "probe"
    /\ ProbeNext([k \in DOMAIN sections |->
                    IF k = 1 \/ stored[k] = <<>> THEN sections[k]
                    ELSE [sections[k] EXCEPT !.source = <<stored[k]>>]])
    /\ UNCHANGED <<request, envVars, field, known, names, sent, outVars>>

(***************************************************************************)
(* Probing.  A request goes to an instance and from there, if that one     *)
(* redirects, to another; the session looks at every hop.                  *)
(***************************************************************************)

Hops(base) == IF base \in DOMAIN Redirects THEN <<base>> \o Redirects[base]
              ELSE <<base>>

\* Who takes the credentials off a request: the library, off a redirect from
\* one host to another; the session, off whatever leaves the own one.
RequestsDrops(hops, k) ==
    k > 1 /\ Instances[hops[k]].host # Instances[hops[k - 1]].host
LeavesItToRequests(base) == FALSE                              \* faulty
SessionDrops(base) == ~SameOrigin(base)

\* Once taken off, they are not on the request that follows either.
Carries(hops, k) ==
    \A j \in 1 .. k : ~RequestsDrops(hops, j) /\ ~SessionDrops(hops[j])

Passes(hops, k) ==
    Up(hops[k]) /\ (Instances[hops[k]].asks => Carries(hops, k))

\* The hops that are come to: a hop is sent only within the scope, and the
\* next is known only if the instance answers this one.
Reached(base) ==
    LET hops == Hops(base)
    IN {k \in DOMAIN hops : \A j \in 1 .. (k - 1) :
            InScope(hops[j]) /\ Passes(hops, j)}

send(base) ==
    LET hops == Hops(base)
    IN sent' = sent \cup {[to |-> hops[k], auth |-> Carries(hops, k)] :
                            k \in {j \in Reached(base) : InScope(hops[j])}}

\* DestinationOutOfScope; and a 200 from the instance at the end.
LeavesScope(base) == \E k \in Reached(base) : ~InScope(Hops(base)[k])
Answers(base) ==
    \A k \in DOMAIN Hops(base) : InScope(Hops(base)[k]) /\ Passes(Hops(base), k)

\* A page that is missing looks like an invitation to write it; a ticket
\* that is missing looks like an instance that is unwell, and the other
\* way round.
ProbeOutcomes(h) ==
    IF LeavesScope(h.base) THEN {"not allowed"}
    ELSE IF ~Answers(h.base)
    THEN {"error"} \cup (IF h.realm = "ticket" THEN {"provisional"} ELSE {})
    ELSE IF <<h.base, h.realm, h.to>> \o h.tail \in world THEN {"exists"}
    ELSE IF h.realm = "ticket" THEN {"provisional"} ELSE {"missing"}

probe_one ==
    /\ stage = "probe"
    /\ \E i \in 1..(IF Len(todo) < Concurrency THEN Len(todo) ELSE Concurrency) :
         \E outcome \in ProbeOutcomes(todo[i]) :
            /\ probes' = [h \in DOMAIN probes \cup {todo[i]} |->
                            IF h = todo[i] THEN outcome ELSE probes[h]]
            /\ todo' = RemoveAt(todo, i)
            /\ send(todo[i].base)
    /\ UNCHANGED <<request, envVars, stage, field, known, names, sections, healthy,
                   outVars>>

probed ==
    /\ stage = "probe" /\ todo = <<>> /\ stage' = "confirm"
    /\ UNCHANGED <<request, envVars, field, known, names, sections, probeVars,
                   outVars>>

Provisional == {h \in DOMAIN probes : probes[h] = "provisional"}
Controls == {h.base : h \in Provisional}

\* The control: a page that may or may not exist, where either answers.
instance_answers ==
    /\ stage = "confirm"
    /\ \E base \in Controls \ DOMAIN healthy :
         /\ healthy' = [b \in DOMAIN healthy \cup {base} |->
                          IF b = base THEN Answers(b) ELSE healthy[b]]
         /\ send(base)
    /\ UNCHANGED <<request, envVars, stage, field, known, names, sections, todo,
                   probes, outVars>>

\* Faulty: what did not answer exists.
Trusting(h) == IF healthy[h.base] THEN "missing" ELSE "exists"
\* Faulty: a ticket missing from an instance that does not answer.
Unconfirmed(h) == "missing"
Confirmed(h) == IF healthy[h.base] THEN "missing" ELSE "error"

confirm_provisional ==
    /\ stage = "confirm" /\ Controls \subseteq DOMAIN healthy
    /\ probes' = [h \in DOMAIN probes |-> IF h \in Provisional THEN Confirmed(h)
                                          ELSE probes[h]]
    /\ stage' = StageAfter("confirm")
    /\ UNCHANGED <<request, envVars, field, known, names, sections, todo,
                   healthy, sent, outVars>>

(***************************************************************************)
(* The verdict.                                                            *)
(***************************************************************************)

Context ==
    [source |-> IF op = "preview" /\ request.markdown
                THEN <<request.fields[field]>> ELSE NoContext,
     own    |-> IF op = "check" THEN NoContext ELSE OwnPrefix,
     known  |-> known,
     names  |-> names,
     check  |-> request.check]

\* Where no source is paired with what is shown, none is searched.
SourceOf(s) == IF s.source = NoContext THEN <<>> ELSE s.source[1]

Findings(s) ==
    build_warnings(Context, SourceOf(s), s.facts, probes,
                   IF s.source = NoContext THEN {} ELSE request.allowed)
        \cup (IF s.source = NoContext THEN {On("source_not_paired", <<>>)} ELSE {})

blocking == \E s \in ToSet(sections) : \E f \in Findings(s) : is_blocking(f)

judge ==
    /\ stage = "judge"
    /\ judged' = judged \cup {[section |-> s, findings |-> Findings(s),
                               names |-> names, known |-> known,
                               unprobed |-> {h \in DOMAIN probes :
                                    probes[h] \in {"capped", "error", "not allowed"}}]
                              : s \in ToSet(sections)}
    /\ IF op = "write" /\ ~blocking THEN NextField /\ UNCHANGED answer
       ELSE /\ stage' = "done" /\ UNCHANGED field
            /\ answer' = IF op = "write" THEN "refused" ELSE "reported"
    /\ UNCHANGED <<request, envVars, known, names, sections, probeVars, notes>>

\* The write, once every field has passed.
store ==
    /\ stage = "store" /\ stage' = "done" /\ answer' = "stored"
    /\ last' = IF request.target = "ticket" THEN last + 1 ELSE last
    /\ BecomesOf(IF request.posts THEN world \cup {<<"comment", last + 1>>}
                 ELSE world)
    /\ UNCHANGED <<request, stored, changes, field, known, names, sections,
                   probeVars, notes, judged>>

Next ==
    \/ Change
    \/ Begin \/ known_comment_numbers \/ attachment_names \/ wiki_to_html
    \/ html \/ ticket_source \/ changelog \/ check_raises
    \/ probe_one \/ probed \/ instance_answers \/ confirm_provisional
    \/ judge \/ store

Spec == Init /\ [][Next]_vars

(***************************************************************************)
(* Properties.                                                             *)
(***************************************************************************)

\* Codes that a document may allow, about a local target that is missing.
AboutMissing == {"missing_local_target", "incidental_wiki_autolink",
                 "local_target_captured_tail"}
\* Those of them that refuse a write.
Refusals == {"missing_local_target", "local_target_captured_tail"}
\* What a call says of the targets it could not look at.
AboutUnprobed == {"target_check_disabled", "target_check_failed",
                  "target_check_capped", "target_check_not_allowed"}

Codes(j) == {f.code : f \in j.findings}
CodesAt(j, i) == {f.code : f \in {g \in j.findings : g.at = i}}
ItemOf(j, i) == j.section.shown[i]

\* A link whose target existed at no time of the call is reported, at that
\* link; one on another instance that could not be looked at, as not looked
\* at; unless the document allows the code.  (build_warnings, probe_targets.)
DeadLinksAreTold ==
    \A j \in judged : \A i \in DOMAIN j.section.facts.anchors :
        LET it     == ItemOf(j, i)
            remote == it.kind = "remote"
            codes  == IF remote
                      THEN {"missing_cross_instance_target"} \cup AboutUnprobed
                      ELSE AboutMissing
        IN (/\ it.kind # "file" /\ (remote => it.realm \in {"ticket", "wiki"})
            /\ Atom(it) \notin was) =>
               \/ CodesAt(j, i) # {}
               \/ remote /\ Codes(j) \cap AboutUnprobed # {}
               \/ request.allowed \cap codes # {}

\* What refuses a write, or fails a preview, is not there: the page or the
\* ticket was missing at some time of the call, the comment is none of the
\* ticket's nor the one this write posts, the target on another instance was
\* missing, or its instance was down for a while.  (confirm_provisional,
\* known_comment_numbers.)
OnlyDeadLinksBlock ==
    \A j \in judged :
        /\ \A i \in DOMAIN j.section.facts.anchors :
              LET it == ItemOf(j, i)
              IN /\ "missing_local_target" \in CodesAt(j, i) /\ it.kind # "file"
                      => Atom(it) \notin always
                 /\ "missing_cross_instance_target" \in CodesAt(j, i)
                      => \/ Atom(it) \notin always
                         \/ \E b \in ToSet(Hops(InterTrac[it.prefix])) :
                               <<"up", b>> \in was \ always
        /\ request.target = "ticket" =>
             \A f \in {g \in j.findings : g.code = "dangling_comment_ref"} :
                 /\ <<"comment", f.token[2]>> \notin always
                 /\ changes = 0 /\ answer # "stored" => f.token[2] # last + 1

\* Of the links to one page that is missing, as many are refused as were
\* written as links, however many times its name stands in prose; of the
\* attachments, as many as the target does not have.
\* (_check_missing_local_target.)
FindingsAreCounted ==
    \A j \in judged :
        LET anchors == j.section.facts.anchors
            missing == {i \in DOMAIN anchors : anchors[i].missing}
            refused == {i \in missing : CodesAt(j, i) \cap Refusals # {}}
            LinksTo(page) == {i \in missing : /\ ItemOf(j, i).kind \in {"page", "word"}
                                              /\ PageOf(ItemOf(j, i)) = page}
            IsDead(it) == it.form # "bare" \/ j.names = NoContext
                          \/ it.to \notin j.names[1]
        IN (/\ j.section.source = <<j.section.shown>>
            /\ request.allowed \cap AboutMissing = {}) =>
             /\ \A i \in DOMAIN anchors : ItemOf(j, i).kind \in {"page", "word"} =>
                  LET links == LinksTo(PageOf(ItemOf(j, i)))
                  IN Cardinality(links \cap refused)
                     = Cardinality({k \in links : ItemOf(j, k).kind = "page"})
             /\ (\A it \in ToSet(j.section.shown) : it.place # "label") =>
                  LET files == {i \in missing : ItemOf(j, i).kind = "file"}
                  IN Cardinality(files \cap refused)
                     = Cardinality({k \in files : IsDead(ItemOf(j, k))})

\* Under an allowlist no request, and no hop of one, goes to an instance that
\* is not on it or not on the own host; with or without one, no credentials go
\* to another host, however a request was sent on; and a link that leads out
\* of the allowlist is not called missing but said to be unchecked, unless the
\* document allows the code.  (ScopedSession.send, _probe_one,
\* _instance_answers.)
LeadsOut(base) == \E b \in ToSet(Hops(base)) : ~InScope(b)
ProbesKeepTheScope ==
    /\ \A s \in sent :
          /\ request.scope # NoContext => s.to \in request.scope[1] /\ SameOrigin(s.to)
          /\ s.auth => SameOrigin(s.to)
    /\ \A j \in judged : \A i \in DOMAIN j.section.facts.anchors :
          LET it == ItemOf(j, i)
          IN (/\ it.kind = "remote" /\ it.realm \in {"ticket", "wiki"}
              /\ LeadsOut(InterTrac[it.prefix])) =>
                 /\ "missing_cross_instance_target" \notin CodesAt(j, i)
                 /\ \/ Codes(j) \cap AboutUnprobed # {}
                    \/ request.allowed \cap AboutUnprobed # {}

\* What was stored had every field judged and found good, or the answer says
\* that it was not looked at.  (check_writes, unchecked_note.)
UncheckedIsSaid ==
    (op = "write" /\ answer = "stored" /\ notes # {0}) =>
        \A k \in DOMAIN request.fields :
            \/ request.fields[k] = <<>> \/ k \in notes
            \/ \E j \in judged : /\ j.section.shown = request.fields[k]
                                  /\ ~\E f \in j.findings : is_blocking(f)

\* Said by _check_unconfigured_intertrac_prefix, and not so: every comparison
\* is scoped to the one token being checked.  A reference in prose with a
\* prefix that is not configured is silenced by a quotation of it elsewhere.
UnconfiguredIsTold ==
    \A j \in judged : \A it \in ToSet(j.section.shown) :
        (/\ it.kind = "remote" /\ it.form = "plain" /\ it.place = "prose"
         /\ it.realm \in {"ticket", "wiki"} /\ it.prefix \notin DOMAIN InterTrac) =>
            \E f \in j.findings : f.token = Raw(it)
=============================================================================
