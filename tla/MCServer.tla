------------------------------ MODULE MCServer ------------------------------
EXTENDS Server, TLC

Host(path) == [host |-> "trac", path |-> path]
Default == Host("main")

Alice  == [name |-> "alice", token |-> "ta", username |-> "alice",
           password |-> "pa", instances |-> NoLimit]
Script == [name |-> "script", token |-> "tb", username |-> "alice",
           password |-> "pa", instances |-> {[host |-> "", path |-> "bcs"]}]
Old    == [name |-> "old", token |-> "tc", username |-> "alice",
           password |-> "pold", instances |-> NoLimit]
Twice  == [Script EXCEPT !.token = "ta"]

Service == [url |-> Default, username |-> "svc", password |-> "ps"]
Files(server, tracSection) == <<[server |-> server], [trac |-> tracSection]>>

\* One deployment per line: command line, environment, files, identities.
Deploy(cli, env, files, identities) ==
    [cli |-> cli, env |-> env, files |-> files, identities |-> identities,
     permissions |-> AllPermissions]

Http == [transport |-> "http"]
Everywhere == [transport |-> "http", host |-> "0.0.0.0"]

Serving == {
    Deploy(Http, Service @@ [auth_token |-> "ts"],
           Files([host |-> "0.0.0.0"], [insecure |-> "on"]), {Alice, Script, Old}),
    [Deploy(Everywhere, Service, <<>>, {Script})
       EXCEPT !.permissions = {"TICKET_VIEW"}],
    Deploy(Everywhere, [oidc_rpc_url |-> "https"], Files(<<>>, [url |-> Default]),
           {}),
    [Deploy([read_only |-> "on"], Service @@ [allowed |-> {Default}], <<>>, {})
       EXCEPT !.permissions = {"WIKI_VIEW"}],
    Deploy(Everywhere @@ [allow_unauthenticated |-> "on"],
           Service @@ [write_gate |-> "off"],
           Files([disabled_tools |-> "list_instances"], <<>>), {})}

Refused == {
    Deploy(Everywhere, Service, <<>>, {}),
    Deploy(<<>>, Service, Files(Everywhere, <<>>), {}),
    Deploy(Http, Service, <<>>, {Alice, Twice}),
    Deploy(<<>>, Service, <<>>, {Alice}),
    Deploy(Http @@ [allow_unauthenticated |-> "on"], Service, <<>>, {Alice}),
    Deploy(Http, Service @@ [oidc_rpc_url |-> "http"], <<>>, {}),
    Deploy(Http, Service @@ [oidc_rpc_url |-> "https", auth_token |-> "ts"],
           <<>>, {}),
    Deploy(Http, Service @@ [read_only |-> "maybe"], <<>>, {}),
    Deploy(Http, Service @@ [allowed |-> {Host("bcs")}], <<>>, {}),
    Deploy(<<>>, [url |-> Default], <<[trac |-> [username |-> "svc"]]>>, {}),
    [Deploy(<<>>, Service, <<>>, {}) EXCEPT !.permissions = {}]}

MCDeployments == Serving \cup Refused

Bcs(user, insecure) ==
    [bcs |-> Entry([host |-> "", path |-> "bcs"], user, user, insecure)]
Inherits == Bcs(Unset, "inherited")
Own      == [bcs |-> Entry([host |-> "ops", path |-> "bcs"], "ops", "po", "on")]
Verified == Bcs(Unset, "off")
MCDeclaredFiles == {Inherits, Verified, Own, <<>>, Broken}

Tool(name, permissions, readOnly) ==
    [name |-> name, permissions |-> permissions, readOnly |-> readOnly]
MCTools == {Tool("list_instances", {}, TRUE),
            Tool("wiki_get", {"WIKI_VIEW"}, TRUE),
            Tool("wiki_update", {"WIKI_VIEW", "WIKI_MODIFY"}, FALSE)}

MCArguments == {[form |-> "none"], [form |-> "name", name |-> "bcs"],
                [form |-> "path", path |-> "bcs"],
                [form |-> "url", url |-> [host |-> "else", path |-> "x"]]}
MCTokens == {Unset, "ta", "tb", "tc", "ts", "anything"}

ASSUME MCAccounts == AccountsAreApart

Symmetry == Permutations(Callers)
=============================================================================
