----------------------------- MODULE MCLinkCalls ------------------------------
(***************************************************************************)
(* This instance, a sibling on the same host, one elsewhere, one elsewhere *)
(* that asks who calls, an old address on this host that redirects to a    *)
(* public one and from there back, and that one.                           *)
(***************************************************************************)
EXTENDS LinkCalls

MCInstances ==
    [own |-> [host |-> "here", asks |-> TRUE], sib |-> [host |-> "here", asks |-> TRUE],
     far |-> [host |-> "there", asks |-> FALSE], old |-> [host |-> "here", asks |-> FALSE],
     prv |-> [host |-> "there", asks |-> TRUE],
     pub |-> [host |-> "yonder", asks |-> FALSE]]
MCInterTrac == [s |-> "sib", f |-> "far", p |-> "prv", o |-> "old", u |-> "pub"]
MCLocalBases == {"own", "sib", "old"}
MCRedirects == [old |-> <<"pub", "sib">>, sib |-> <<"sib">>]
MCAllowlists == {<<{"own", "sib", "old", "far"}>>, <<{"own", "old", "pub", "sib"}>>,
                 <<{"own", "far"}>>}
MCOwnPrefix == <<"me">>
MCAutoLinked == {"OldPage", "NewPage"}

Item(kind, to, form) ==
    [kind |-> kind, to |-> to, prefix |-> "", realm |-> "", form |-> form,
     tail |-> "", place |-> "prose"]
Remote(prefix, realm, to) ==
    [Item("remote", to, "plain") EXCEPT !.prefix = prefix, !.realm = realm]
In(place, it) == [it EXCEPT !.place = place]
Then(it, tail) == [it EXCEPT !.tail = tail]

Local == {Item("page", p, f) : p \in {"OldPage", "NewPage"}, f \in {"brackets", "realm"}}
    \cup {Item("page", "NewPage", "label"), Item("page", "NewPage", "percent"),
          Then(Item("page", "OldPage", "realm"), "'s"),
          Item("word", "NewPage", "plain"), Item("word", "NewPage", "escaped"),
          In("span", Item("word", "NewPage", "plain")),
          Item("number", "7", "plain"), Item("number", "7", "pull request"),
          Then(Item("number", "7", "realm"), "'s"), Item("number", "8", "plain")}
Files == {Item("file", "a", "bare"), Item("file", "b", "bare"),
          Item("file", "b", "qualified"), In("label", Item("file", "a", "bare"))}
Comments == {Item("comment", n, "bare") : n \in 1..3}
    \cup {Item("comment", 3, "scoped"), In("label", Item("comment", 2, "bare"))}
Remotes == {Remote("s", "ticket", "7"), Remote("s", "wiki", "NewPage"),
            Remote("f", "ticket", "9"), Remote("f", "wiki", "NewPage"),
            Remote("p", "ticket", "7"), Remote("p", "wiki", "NewPage"), Remote("o", "ticket", "7"), Remote("u", "wiki", "OldPage"),
            Remote("s", "slashed", "OldPage"), Remote("x", "ticket", "7"),
            Remote("me", "ticket", "7"),
            Then(Remote("f", "ticket", "7"), "/#4"),
            Then(Remote("s", "wiki", "OldPage"), "."),
            In("span", Remote("s", "ticket", "7")),
            [Remote("s", "wiki", "OldPage") EXCEPT !.form = "bracket"],
            [Remote("f", "wiki", "OldPage") EXCEPT !.form = "label"]}
Markups == {Item("markup", m, "") : m \in {"bold", "table"}}
    \cup {Item(k, k, "") : k \in {"debris", "code", "list"}}

Pairs(A, B) == {<<a, b>> : a \in A, b \in B}
Ones(A) == {<<a>> : a \in A}

Word == Item("word", "NewPage", "plain")
Link == Item("page", "NewPage", "brackets")
Counted == {<<Word, Link, Word>>, <<Link, Word, Link>>, <<Link, Link, Word>>,
            <<In("span", Word), Link, Word>>, <<Link, Item("word", "NewPage", "escaped"), Link>>,
            <<Item("number", "7", "plain"), In("label", Item("number", "7", "pull request"))>>,
            <<Item("file", "b", "bare"), Item("file", "a", "bare"), Item("file", "b", "bare")>>}
    \cup {<<Remote(p, "ticket", "7"), In("span", Remote(p, "ticket", "7"))>> :
            p \in {"me", "x"}}
Bare == Item("number", "7", "plain")
Far == {Remote("f", "ticket", "9"), Remote("f", "wiki", "NewPage"), Remote("f", "ticket", "7")}

Request(o, target, posts, fields, cap, check, markdown, allowed, gate) ==
    [op |-> o, target |-> target, posts |-> posts, fields |-> fields, cap |-> cap,
     check |-> check, markdown |-> markdown, allowed |-> allowed, gate |-> gate,
     scope |-> NoContext]

Writes(docs, target, posts) ==
    {Request("write", target, posts, <<d>>, 2, TRUE, FALSE, {}, TRUE) : d \in docs}
Previews(docs) ==
    {Request("preview", "ticket", FALSE, <<d>>, 1, TRUE, FALSE, {}, TRUE) : d \in docs}
Limited(requests) ==
    {[r EXCEPT !.scope = list] : r \in requests, list \in MCAllowlists}
Checks(docs) ==
    {Request("check", "ticket", FALSE, <<d, <<Link>>>>, 2, TRUE, FALSE, {}, TRUE) : d \in docs}

Everything == Local \cup Files \cup Comments \cup Remotes \cup Markups
MCRequests ==
    Writes(Ones(Everything) \cup Pairs(Local, Local) \cup Pairs(Files, Files)
             \cup Pairs(Remotes, Far) \cup Counted, "ticket", TRUE)
    \cup Writes(Ones(Files \cup Comments) \cup Pairs({Bare}, Remotes), "new", FALSE)
    \cup Writes(Ones(Files \cup Comments) \cup Pairs(Comments, {Link}), "page", FALSE)
    \cup Previews(Ones(Everything) \cup Pairs(Far, Remotes) \cup Pairs({Link}, Markups))
    \cup Checks(Ones(Everything) \cup Pairs({Bare, Word}, Remotes))
    \cup {Request("write", "ticket", p, <<c, d>>, 2, TRUE, FALSE, {}, TRUE) :
            p \in BOOLEAN, c \in {<<>>, <<Link>>, <<Item("comment", 2, "bare")>>},
            d \in {<<>>, <<Word>>, <<Remote("f", "ticket", "9")>>}}
    \cup Limited(Writes(Ones(Remotes) \cup Pairs({Remote("o", "ticket", "7")}, Far),
                         "ticket", TRUE)
                  \cup Previews(Pairs({Remote("f", "ticket", "9")}, Remotes)))
    \cup {Request("write", "none", FALSE, <<<<Link>>>>, 2, TRUE, FALSE, {}, g) : g \in BOOLEAN}
    \cup {Request("write", "page", FALSE, <<<<Word, Link, Bare>>>>, 2, TRUE, FALSE, a, TRUE) :
            a \in SUBSET {"missing_local_target", "incidental_wiki_autolink"}}
    \cup {Request("preview", "none", FALSE, <<<<m>> \o <<Link>>>>, 1, c, TRUE, {}, TRUE) :
            m \in Markups \cup Far, c \in BOOLEAN}

MCWorlds ==
    {{<<"page", "OldPage">>, <<"ticket", "7">>, <<"comment", 1>>, <<"file", "a">>,
      <<"up", "own">>, <<"up", "sib">>, <<"up", "far">>, <<"up", "old">>, <<"up", "pub">>,
      <<"up", "prv">>, <<"prv", "ticket", "7">>,
      <<"sib", "ticket", "7">>, <<"sib", "wiki", "OldPage">>, <<"far", "ticket", "7">>,
      <<"far", "wiki", "OldPage">>, <<"old", "ticket", "7">>, <<"pub", "wiki", "OldPage">>}}
MCToggles == {<<"page", "NewPage">>, <<"ticket", "7">>, <<"file", "a">>,
              <<"up", "far">>, <<"far", "ticket", "9">>, <<"sib", "ticket", "7">>}
MCEdits == {<<>>, <<Word, Link>>}
===============================================================================
