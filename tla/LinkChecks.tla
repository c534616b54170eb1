------------------------------ MODULE LinkChecks ------------------------------
(***************************************************************************)
(* The link checks (preview/checks.py, facts.py, gate.py): from a text and *)
(* what Trac renders of it to a set of findings, some of which refuse a    *)
(* write.                                                                  *)
(*                                                                         *)
(* A document is a sequence of items, each one construct of the text:      *)
(*   page     an authored link to a local page: [[P]] ("brackets"), wiki:P *)
(*            ("realm"), [wiki:P words] ("label"), a target with an        *)
(*            escape left in it ("percent")                                *)
(*   word     a page name in prose, "plain" or with the escape !           *)
(*   file     attachment:F "bare" or "qualified" by a page                 *)
(*   number   #N "plain", after the words "pull request", or ticket:N      *)
(*            ("realm")                                                    *)
(*   remote   p:#N and p:wiki:P, "plain", [p:wiki:P] ("bracket") or        *)
(*            [p:wiki:P words] ("label"); p:A/B (realm "slashed")          *)
(*   comment  comment:N, "bare" or "scoped" to a ticket                    *)
(*   markup   a construct that did not convert; debris  quotes left over   *)
(*   code     a code block, list  a nested list, for the converter to lose *)
(* An item stands in prose, in a code span, in a fence, or in the label of *)
(* another link, and has a tail: characters that follow it at once.        *)
(*                                                                         *)
(* The world is the set of the things that exist.  A text, as the checks   *)
(* compare them, is the sequence of its parts.                             *)
(***************************************************************************)
EXTENDS Naturals, Sequences, FiniteSets, SequencesExt

CONSTANTS
    InterTrac,    \* the configured prefixes and the instance each stands for
    LocalBases,   \* the instances on this host
    AutoLinked    \* the page names Trac links in prose

NoContext == <<>>          \* None: no such information; else <<the value>>
NoHref == [base |-> "", realm |-> "", to |-> "", tail |-> <<>>]

\* A finite sequence, of whatever.
IsSequence(s) == Len(s) \in Nat /\ DOMAIN s = 1 .. Len(s)

\* What Trac takes into a target that no bracket ends; not a full stop.
Swallowed(it) ==
    IF /\ it.tail \in {"'s", "/#4"}
       /\ it.form = "realm" \/ (it.kind = "remote" /\ it.form = "plain")
    THEN <<it.tail>> ELSE <<>>

\* The page that a link to a local page, or a name in prose, leads to.
PageOf(it) == <<it.to>> \o Swallowed(it)

(***************************************************************************)
(* What Trac makes of a document.                                          *)
(***************************************************************************)

\* What has to exist for the link to be good.
Atom(it) ==
    CASE it.kind \in {"page", "word"} -> <<"page">> \o PageOf(it)
      [] it.kind = "number"           -> <<"ticket", it.to>> \o Swallowed(it)
      [] it.kind = "remote" /\ it.prefix \in DOMAIN InterTrac ->
            <<InterTrac[it.prefix], it.realm, it.to>> \o Swallowed(it)
      [] OTHER                        -> <<it.kind, it.to>>

HasAnchor(it) ==
    /\ it.place = "prose"
    /\ \/ it.kind \in {"page", "file", "number"}
       \/ it.kind = "word" /\ it.form = "plain" /\ it.to \in AutoLinked
       \/ it.kind = "remote" /\ it.prefix \in DOMAIN InterTrac

\* The places of the items that become anchors.
Linked(doc) == {i \in DOMAIN doc : HasAnchor(doc[i])}

TextOf(it) ==
    CASE it.form \in {"label", "percent"}              -> <<"words">>
      [] it.form = "realm"  -> <<it.kind \o ":", it.to>> \o Swallowed(it)
      [] it.kind = "number" /\ it.form # "realm"       -> <<"#", it.to>>
      [] it.kind = "remote" /\ it.form = "plain" ->
            <<it.prefix, it.realm, it.to>> \o Swallowed(it)
      [] it.kind = "remote" /\ it.form = "bracket"     -> <<it.realm, it.to>>
      [] it.kind \in {"comment", "file"}               -> <<it.kind, it.to>>
      [] OTHER                                         -> <<it.to>>

\* Where a page is not shown there is no page to have attachments.
AnchorOf(it, world, live) ==
    [class   |-> CASE it.kind \in {"page", "word"} -> "wiki"
                   [] it.kind = "number"           -> "ticket"
                   [] OTHER                        -> it.kind,
     missing |-> CASE it.kind = "remote"           -> FALSE
                   [] it.kind = "file" /\ it.form = "bare" /\ ~live -> TRUE
                   [] OTHER                        -> Atom(it) \notin world,
     text    |-> TextOf(it),
     page    |-> IF it.kind \in {"page", "word"} THEN PageOf(it) ELSE <<>>,
     href    |-> IF it.kind = "remote"
                 THEN [base |-> InterTrac[it.prefix], realm |-> it.realm,
                       to |-> it.to, tail |-> Swallowed(it)]
                 ELSE NoHref,
     title   |-> IF it.kind = "remote" THEN <<it.realm, it.to>> \o Swallowed(it)
                 ELSE <<>>,
     escaped |-> it.form = "percent"]

extract_facts(doc, world, live) ==
    LET In(place, kinds) == {it \in ToSet(doc) : it.place = place /\ it.kind \in kinds}
    IN [anchors |-> [i \in Linked(doc) |-> AnchorOf(doc[i], world, live)],
        spans   |-> {it \in ToSet(doc) : it.place = "span"},
        prose   |-> {it.to : it \in In("prose", {"markup"})},
        debris  |-> In("prose", {"debris"}) # {}]

NoFacts == [anchors |-> <<>>, spans |-> {}, prose |-> {}, debris |-> FALSE]

(***************************************************************************)
(* The findings.  One is about the anchor "at", or about a token.          *)
(***************************************************************************)

Found(code, at, token, replaces) ==
    [code |-> code, at |-> at, token |-> token, replaces |-> replaces]
At(code, i) == Found(code, i, <<>>, code)
On(code, token) == Found(code, 0, token, code)

\* The codes that are reported and refuse nothing.
Advisory == {"link_ref_in_code_span", "unconfigured_intertrac_prefix",
             "incidental_wiki_autolink", "tracwiki_markup_in_markdown",
             "conversion_warning", "list_item_split", "target_check_failed",
             "target_check_disabled", "target_check_not_allowed",
             "broken_inline_markup_in_render", "source_not_paired"}
is_blocking(f) == f.code \notin Advisory

\* Which anchors; and the findings of one code about them.
Where(facts, Test(_)) == {i \in DOMAIN facts.anchors : Test(facts.anchors[i])}

escaped_link_targets(facts) ==
    {At("escaped_link_target", i) : i \in Where(facts, LAMBDA a : a.escaped)}

link_ref_in_code_span(facts) ==
    {On("link_ref_in_code_span", TextOf(it)) :
        it \in {s \in facts.spans :
                  \/ s.kind = "remote" /\ s.realm \in {"ticket", "wiki"}
                  \/ s.form = "realm" \/ s.kind \in {"comment", "file"}}}

(***************************************************************************)
(* Missing local targets.  A missing page may have been linked by an       *)
(* author or by Trac; the render does not tell, so the names that stand in *)
(* prose are counted, and each excuses one anchor.                         *)
(***************************************************************************)

\* What a scan sees of a text whose fences and code spans are blanked.
scanned(it) == it.place \in {"prose", "label"}

IsAutolink(it, page) ==
    /\ it.kind = "word" /\ it.place = "prose" /\ it.form = "plain"
    /\ <<it.to>> = page /\ it.to \in AutoLinked

\* Faulty: whether the name stands in prose at all.
SomeBareAutolink(doc, page) ==
    IF \E it \in ToSet(doc) : IsAutolink(it, page) THEN Len(doc) ELSE 0
bare_autolinks(doc, page) == Cardinality({i \in DOMAIN doc : IsAutolink(doc[i], page)})

bare_attachments(doc, names) ==
    IF names = NoContext THEN 0
    ELSE Cardinality({i \in DOMAIN doc : /\ doc[i].kind = "file" /\ doc[i].form = "bare"
                                         /\ scanned(doc[i])
                                         /\ doc[i].to \in names[1]})

autolinked_page_name(a) == a.class = "wiki" /\ a.text = a.page

\* A target that took in what follows it.
local_captured_tail(a) ==
    \/ a.class = "ticket" /\ a.text[1] = "number:" /\ Len(a.text) = 3
    \/ /\ a.class = "wiki" /\ a.text = <<"page:">> \o a.page
       /\ Len(a.page) = 2 /\ a.page[2] = "'s"

\* The first n of the places S.
First(S, n) == {i \in S : Cardinality({j \in S : j < i}) < n}

missing_local_target(facts, doc, names) ==
    LET A == facts.anchors
        missing == {i \in DOMAIN A : A[i].missing}
        files == {i \in missing : A[i].class = "file"}
        cleared == First(files, bare_attachments(doc, names))
        Named(page) == {i \in missing : autolinked_page_name(A[i]) /\ A[i].page = page}
        incidental == {i \in missing : /\ autolinked_page_name(A[i])
                                       /\ A[i].page[1] \in AutoLinked
                                       /\ i \in First(Named(A[i].page),
                                                     bare_autolinks(doc, A[i].page))}
    IN {IF i \in incidental THEN At("incidental_wiki_autolink", i)
        ELSE IF local_captured_tail(A[i])
        THEN Found("local_target_captured_tail", i, <<>>, "missing_local_target")
        ELSE At("missing_local_target", i) : i \in missing \ cleared}

(***************************************************************************)
(* References to other instances.  A token of the source is configured if  *)
(* some anchor shows that Trac made a link of it.                          *)
(***************************************************************************)

\* The token as its pattern reads it: the number ends it, a page does not.
Raw(it) ==
    <<it.prefix, it.realm, it.to>> \o
        (IF it.realm = "wiki" /\ it.tail # "" THEN <<it.tail>> ELSE <<>>)

tokens(doc) ==
    {it \in ToSet(doc) : /\ it.kind = "remote" /\ it.realm \in {"ticket", "wiki"}
                         /\ it.place # "fence"}

\* Some code span, anywhere, contains the token, or does so without the
\* punctuation at its end.
code_span_contains(token, facts) ==
    \E s \in facts.spans : s.kind = "remote" /\
        \E n \in {Len(token)} \cup (IF Last(token) = "." THEN {3} ELSE {}) :
            IsPrefix(SubSeq(token, 1, n), Raw(s))

linked_as_written(it, facts) ==
    \E i \in DOMAIN facts.anchors : IsPrefix(facts.anchors[i].text, Raw(it))

configured(it, facts) ==
    IF it.form = "plain" THEN linked_as_written(it, facts)
    ELSE \E i \in DOMAIN facts.anchors :
            LET a == facts.anchors[i]
            IN /\ a.title # <<>>
               /\ a.text = (IF it.form = "bracket" THEN Tail(Raw(it)) ELSE <<"words">>)
               /\ IsPrefix(a.title, Tail(Raw(it)))

captured_punctuation_anchor(it, facts) ==
    /\ it.form = "plain"
    /\ \E i \in DOMAIN facts.anchors :
          IsStrictPrefix(Raw(it), facts.anchors[i].text)

unconfigured_intertrac_prefix(doc, facts, own) ==
    {On(IF own = <<it.prefix>> THEN "self_intertrac_prefix"
        ELSE "unconfigured_intertrac_prefix", Raw(it)) :
        it \in {t \in tokens(doc) : /\ ~code_span_contains(Raw(t), facts)
                                    /\ ~configured(t, facts)
                                    /\ ~captured_punctuation_anchor(t, facts)}}

\* Judged by the target of the link, not by the source.
captured_punctuation(facts) ==
    {LET tail == facts.anchors[i].href.tail
     IN Found("intertrac_target_captured_punctuation", i, <<>>,
              IF tail = <<"/#4">> THEN "missing_intertrac_realm"
              ELSE "intertrac_target_captured_punctuation") :
        i \in Where(facts, LAMBDA a : /\ a.href.realm = "ticket"
                                      /\ a.href.tail # <<>>)}

missing_intertrac_realm(facts) ==
    {At("missing_intertrac_realm", i) :
        i \in Where(facts, LAMBDA a : /\ a.href.realm = "slashed"
                                      /\ a.href.base \in LocalBases)}

(***************************************************************************)
(* References within the instance.                                         *)
(***************************************************************************)

LinksNumber(a, n) == a.class = "ticket" /\ a.text = <<"#", n>>

pr_number_as_ticket(doc, facts) ==
    {On("pr_number_as_ticket", TextOf(it)) :
        it \in {r \in ToSet(doc) :
                  /\ r.kind = "number" /\ r.form = "pull request"
                  /\ scanned(r)
                  /\ Where(facts, LAMBDA a : LinksNumber(a, r.to)) # {}}}

\* #N where the text also has p:#N of another instance.
bare_ref_shadows_prefixed(doc, facts, own) ==
    LET twins == {it.to : it \in {t \in tokens(doc) :
                      /\ t.realm = "ticket" /\ own # <<t.prefix>>
                      /\ ~code_span_contains(Raw(t), facts)
                      /\ linked_as_written(t, facts)}}
    IN {At("bare_ref_shadows_prefixed", i) :
            i \in Where(facts, LAMBDA a : \E n \in twins : LinksNumber(a, n))}

\* Trac does not mark a comment that does not exist.
dangling_comment_ref(doc, known) ==
    IF known = NoContext THEN {}
    ELSE {On("dangling_comment_ref", <<"comment:", it.to>>) :
            it \in {c \in ToSet(doc) : /\ c.kind = "comment" /\ c.form = "bare"
                                       /\ scanned(c)
                                       /\ c.to \notin known[1]}}

(***************************************************************************)
(* Targets on other instances, which only a request can tell.  An outcome  *)
(* is "exists", "missing", "error", "capped" or "not allowed".             *)
(***************************************************************************)

is_probeable(a) == a.href.realm \in {"ticket", "wiki"}
probeable(facts) == Where(facts, is_probeable)

target_probes(facts, probes, check) ==
    LET Outcome(i) == IF facts.anchors[i].href \in DOMAIN probes
                      THEN probes[facts.anchors[i].href] ELSE "error"
        With(outcome) == {i \in probeable(facts) : Outcome(i) = outcome}
        Once(outcome, code) == IF With(outcome) = {} THEN {} ELSE {On(code, <<>>)}
    IN IF ~check
       THEN IF probeable(facts) = {} THEN {} ELSE {On("target_check_disabled", <<>>)}
       ELSE {At("missing_cross_instance_target", i) : i \in With("missing")}
            \cup Once("capped", "target_check_capped")
            \cup Once("not allowed", "target_check_not_allowed")
            \cup Once("error", "target_check_failed")

(***************************************************************************)
(* What did not come out of the render as it went in; and what the         *)
(* converter loses of a Markdown source.                                   *)
(***************************************************************************)

literal_markup_in_render(facts) ==
    {On("literal_markup_in_render", <<m>>) : m \in facts.prose}

broken_inline_markup_in_render(facts) ==
    IF facts.debris THEN {On("broken_inline_markup_in_render", <<>>)} ELSE {}

SourceHas(source, kind) == {it \in ToSet(source) : it.kind = kind /\ it.place = "prose"}

tracwiki_markup_in_markdown(source) ==
    {On("tracwiki_markup_in_markdown", <<it.to>>) :
        it \in {m \in SourceHas(source, "markup") : m.to \in {"table", "block"}}}

code_block_indentation_loss(source) ==
    {On("code_block_indentation_loss", <<it.to>>) : it \in SourceHas(source, "code")}

list_item_split(source) ==
    {On("list_item_split", <<it.to>>) : it \in SourceHas(source, "list")}

(***************************************************************************)
(* All of them, but those the document allows.  The context: the Markdown  *)
(* source if there is one, the instance's own prefix, the comment numbers  *)
(* of the ticket, the names of the attachments, whether targets were       *)
(* probed.                                                                 *)
(***************************************************************************)

build_warnings(context, doc, facts, probes, allowed) ==
    LET found ==
            escaped_link_targets(facts)
            \cup link_ref_in_code_span(facts)
            \cup (IF context.source = NoContext THEN {}
                  ELSE tracwiki_markup_in_markdown(context.source[1])
                       \cup code_block_indentation_loss(context.source[1])
                       \cup list_item_split(context.source[1]))
            \cup missing_local_target(facts, doc, context.names)
            \cup captured_punctuation(facts)
            \cup unconfigured_intertrac_prefix(doc, facts, context.own)
            \cup pr_number_as_ticket(doc, facts)
            \cup bare_ref_shadows_prefixed(doc, facts, context.own)
            \cup dangling_comment_ref(doc, context.known)
            \cup target_probes(facts, probes, context.check)
            \cup missing_intertrac_realm(facts)
            \cup literal_markup_in_render(facts)
            \cup broken_inline_markup_in_render(facts)
    IN {f \in found : f.code \notin allowed /\ f.replaces \notin allowed}

\* What a Markdown draft becomes: its own markup is converted.
Convert(doc) ==
    [i \in DOMAIN doc |->
        IF doc[i].kind = "markup" /\ doc[i].to \notin {"table", "block"}
        THEN [doc[i] EXCEPT !.kind = "text"] ELSE doc[i]]
=============================================================================
