------------------------------- MODULE Server -------------------------------
(***************************************************************************)
(* The server process from its settings to its end: what it starts with,   *)
(* the check of the caller at the HTTP boundary, the resolution of the     *)
(* instance argument against a registry that reloads the instances file    *)
(* when it changes, the clients kept per credentials or per token, the     *)
(* dispatch to the tools that are enabled, and the shutdown.               *)
(*                                                                         *)
(* One event loop runs the handlers: between two awaits nothing else of    *)
(* the server happens, but the operator may edit the instances file        *)
(* between any two looks at it.  "turn" is the call the loop is running.   *)
(***************************************************************************)
EXTENDS Instances

CONSTANTS
    Callers,
    Deployments,    \* the settings the server may be started with
    DeclaredFiles,  \* what the instances file may hold
    Tools,          \* the tools there are, before the filters
    Tokens,         \* what a caller may present, Unset for nothing
    Arguments,      \* the instance arguments
    MaxEdits,       \* bound: edits of the instances file
    MaxCached       \* how many per-user clients are kept

ASSUME ServerAssumption ==
    /\ MaxEdits \in Nat /\ MaxCached \in Nat \ {0}
    /\ Unset \in Tokens
    /\ "none" \notin Callers
    /\ \A a \in Arguments : a.form \in {"none", "name", "path", "url"}

VARIABLES
    d,            \* the deployment: what the operator wrote
    phase,        \* the process
    config,       \* what the settings come to: server, Trac, enabled tools
    file, edits,  \* the instances file and how often it was edited
    declared,     \* the registry's copy of it ...
    seen,         \* ... and the edit it takes the copy to be of
    clients,      \* the registry's clients
    cache,        \* the tokens with a client, oldest use first
    turn,         \* the call the event loop is in, None if none
    pc,           \* per call
    request,      \* per call: token, tool and instance argument
    todo,         \* per call: the declared names still to be described
    client,       \* per call: the client it works with
    answer,       \* per call: how it ended
    resolved,     \* history: what the instance argument stood for
    began,        \* history: the edits there had been when it began
    read,         \* history: the edit the registry's copy really is of
    torn          \* history: an edit fell between a load and its time stamp

None == "none"
NoClient == [url |-> NoUrl]
NoRequest == [token |-> Unset, tool |-> None, arg |-> [form |-> "none"]]
Broken == [parsable |-> FALSE]

startVars    == <<d, config>>
registryVars == <<declared, seen, read, torn>>
callVars == <<pc, request, todo, client, answer, resolved, began>>
vars == <<startVars, phase, file, edits, registryVars, clients, cache, turn, callVars>>

Configured(x) == [server |-> ServerSettings(x), trac |-> TracSettings(x),
                  tools |-> {t.name : t \in Enabled(x, Tools)}]

settings == config.server
trac     == config.trac
perUser  == settings.transport = "http" /\ settings.oidc # Unset

Init ==
    /\ d \in Deployments
    /\ phase = "starting"
    /\ config = Configured(d)
    /\ file \in DeclaredFiles
    /\ edits = 0 /\ seen = 0 /\ read = 0 /\ torn = FALSE
    /\ declared = <<>>
    /\ clients = {} /\ cache = <<>>
    /\ turn = None
    /\ pc = [c \in Callers |-> "idle"]
    /\ request = [c \in Callers |-> NoRequest]
    /\ todo = [c \in Callers |-> {}]
    /\ client = [c \in Callers |-> NoClient]
    /\ answer = [c \in Callers |-> None]
    /\ resolved = [c \in Callers |-> NoClient]
    /\ began = [c \in Callers |-> 0]

(***************************************************************************)
(* Start and end.                                                          *)
(***************************************************************************)

\* The order of the refusals: the server's settings, the permissions and
\* the instances file, the settings of the Trac, the connection to it.
Starts(reachable) ==
    /\ ServerStarts(d)
    /\ PermissionsAreSound(d)
    /\ file # Broken
    /\ TracStarts(d)
    /\ trac.oidc_only \/ reachable

Fail ==
    /\ phase = "starting"
    /\ ~Starts(FALSE)
    /\ phase' = "failed"
    /\ UNCHANGED <<startVars, file, edits, registryVars, clients, cache, turn,
                   callVars>>

Start ==
    /\ phase = "starting"
    /\ Starts(TRUE)
    /\ phase' = "serving"
    /\ declared' = file
    /\ seen' = edits /\ read' = edits
    /\ clients' = IF trac.oidc_only THEN {} ELSE {DefaultConfig(trac)}
    /\ UNCHANGED <<startVars, file, edits, torn, cache, turn, callVars>>

\* The globals are cleared; the calls under way are cancelled.
Stop ==
    /\ phase = "serving"
    /\ turn = None
    /\ phase' = "stopped"
    /\ clients' = {} /\ cache' = <<>>
    /\ pc' = [c \in Callers |-> IF pc[c] = "running" THEN "done" ELSE pc[c]]
    /\ answer' = [c \in Callers |-> IF pc[c] = "running" THEN "cancelled"
                                    ELSE answer[c]]
    /\ UNCHANGED <<startVars, file, edits, registryVars, turn, request, todo,
                   client, resolved, began>>

EditFile ==
    /\ phase = "serving"
    /\ edits < MaxEdits
    /\ edits' = edits + 1
    /\ file' \in DeclaredFiles \ {file}
    /\ torn' = (torn \/ \E c \in Callers : pc[c] = "loaded")
    /\ UNCHANGED <<startVars, phase, declared, seen, read, clients, cache,
                   turn, callVars>>

(***************************************************************************)
(* The caller at the door.                                                 *)
(***************************************************************************)

\* The bearer token against the shared one and every identity's.
WithoutSharedAnybody(token) ==                                 \* faulty
    settings.auth_token # Unset =>
        token = settings.auth_token \/ \E i \in settings.identities : i.token = token
Matches(token) ==
    \/ settings.auth_token = Unset /\ settings.identities = {}
    \/ token # Unset /\ token = settings.auth_token
    \/ \E i \in settings.identities : i.token = token

\* Per-user authentication wants some token; whose is for Trac to say.
Admitted(token) ==
    settings.transport = "http" =>
        Matches(token) /\ (perUser => token # Unset)

\* Who the token stands for.  stdio has no request to carry one.
IdentityOf(token) ==
    IF settings.transport = "http" /\ \E i \in settings.identities : i.token = token
    THEN CHOOSE i \in settings.identities : i.token = token
    ELSE Anybody

End(c, a) ==
    /\ pc' = [pc EXCEPT ![c] = "done"]
    /\ answer' = [answer EXCEPT ![c] = a]
    /\ turn' = None

Receive(c) ==
    /\ phase = "serving" /\ turn = None
    /\ pc[c] = "idle"
    /\ \E token \in IF settings.transport = "http" THEN Tokens ELSE {Unset},
          tool \in {t.name : t \in Tools}, arg \in Arguments :
         /\ request' = [request EXCEPT ![c] =
                          [token |-> token, tool |-> tool, arg |-> arg]]
         /\ began' = [began EXCEPT ![c] = edits]
         /\ IF Admitted(token)
            THEN /\ pc' = [pc EXCEPT ![c] = IF perUser THEN "token" ELSE "resolve"]
                 /\ turn' = c
                 /\ UNCHANGED answer
            ELSE End(c, "unauthorized")
    /\ UNCHANGED <<startVars, phase, file, edits, registryVars, clients, cache,
                   todo, client, resolved>>

(***************************************************************************)
(* The client of a per-user token.                                         *)
(***************************************************************************)

UserClient(token) == [url |-> trac.url, token |-> token]

\* The cache with this token in the last place, and no more than it holds.
Use(token, tokens) ==
    LET moved == Append(SelectSeq(tokens, LAMBDA t : t # token), token)
    IN IF Len(moved) > MaxCached THEN Tail(moved) ELSE moved

\* What the dispatch does with a client: a tool that is not enabled is
\* unknown.
Dispatch(c, with) ==
    /\ client' = [client EXCEPT ![c] = with]
    /\ IF request[c].tool \in config.tools
       THEN /\ pc' = [pc EXCEPT ![c] = "running"]
            /\ turn' = None
            /\ UNCHANGED answer
       ELSE End(c, "unknown_tool")

GetUserClient(c) ==
    /\ turn = c /\ pc[c] = "token"
    /\ IF IsDefault(request[c].arg)
       THEN /\ cache' = Use(request[c].token, cache)
            /\ Dispatch(c, UserClient(request[c].token))
       ELSE /\ End(c, "validation_error")
            /\ UNCHANGED <<cache, client>>
    /\ UNCHANGED <<startVars, phase, file, edits, registryVars, clients,
                   request, todo, resolved, began>>

(***************************************************************************)
(* The registry.  A look at it compares the file's time stamp, and reads   *)
(* the file and then its time stamp again when they differ; the look is    *)
(* for the instance argument ("resolve") or for the addresses of all       *)
(* declared instances ("describe").                                        *)
(***************************************************************************)

NeverStale == FALSE                                            \* faulty
Stale == seen # edits

Describing(c) == todo[c] # {}

\* What a call answers when a look at the registry raises.  The write gate
\* takes any failure of its own as a reason not to check.
Raised(c) ==
    IF Describing(c) /\ request[c].tool = "wiki_update" THEN "unchecked"
    ELSE "error"

LookForDescribing(c) ==                                        \* faulty
    /\ turn = c /\ pc[c] \in {"resolve", "describe"}
    /\ Stale => ~Describing(c)
    /\ pc' = [pc EXCEPT ![c] = "fresh"]
    /\ UNCHANGED <<startVars, phase, file, edits, registryVars, clients, cache,
                   turn, request, todo, client, answer, resolved, began>>

Look(c) ==
    /\ turn = c /\ pc[c] \in {"resolve", "describe"}
    /\ ~Stale
    /\ pc' = [pc EXCEPT ![c] = "fresh"]
    /\ UNCHANGED <<startVars, phase, file, edits, registryVars, clients, cache,
                   turn, request, todo, client, answer, resolved, began>>

Load(c) ==
    /\ turn = c /\ pc[c] \in {"resolve", "describe"}
    /\ Stale
    /\ IF file = Broken
       THEN /\ End(c, Raised(c))
            /\ UNCHANGED <<declared, read, torn>>
       ELSE /\ declared' = file /\ read' = edits /\ torn' = FALSE
            /\ pc' = [pc EXCEPT ![c] = "loaded"]
            /\ UNCHANGED <<turn, answer>>
    /\ UNCHANGED <<startVars, phase, file, edits, seen, clients, cache,
                   request, todo, client, resolved, began>>

Stamp(c) ==
    /\ turn = c /\ pc[c] = "loaded"
    /\ seen' = edits
    /\ pc' = [pc EXCEPT ![c] = "fresh"]
    /\ UNCHANGED <<startVars, phase, file, edits, declared, read, torn,
                   clients, cache, turn, request, todo, client, answer,
                   resolved, began>>

\* A caller kept from the default instance may still ask what there is.
MayAskAnyway(c) ==
    request[c].tool = "list_instances" /\ request[c].arg.form = "none"

ResolveClient(c) ==
    /\ turn = c /\ pc[c] = "fresh"
    /\ ~Describing(c)
    /\ LET found == Resolve(request[c].arg, IdentityOf(request[c].token),
                             trac, declared)
       IN CASE found = Unknown \/ (found = NotAllowed /\ ~MayAskAnyway(c)) ->
                 /\ End(c, found.error)
                 /\ UNCHANGED <<clients, client, resolved>>
            [] found = NotAllowed /\ MayAskAnyway(c) ->
                 /\ Dispatch(c, NoClient)
                 /\ UNCHANGED <<clients, resolved>>
            [] OTHER ->
                 /\ resolved' = [resolved EXCEPT ![c] = found]
                 /\ clients' = clients \cup {ClientFor(found, clients)}
                 /\ Dispatch(c, ClientFor(found, clients))
    /\ UNCHANGED <<startVars, phase, file, edits, registryVars, cache, request,
                   todo, began>>

(***************************************************************************)
(* The tools, as far as they ask the registry: list_instances and the      *)
(* write gate have every declared instance resolved, one after the other.  *)
(* Every other tool works with its client and answers.                     *)
(***************************************************************************)

Describes(c) ==
    \/ request[c].tool = "list_instances" /\ ~perUser
    \/ request[c].tool = "wiki_update" /\ trac.write_gate

Run(c) ==
    /\ turn = None /\ pc[c] = "running"
    /\ IF Describes(c) /\ DOMAIN declared # {}
       THEN /\ todo' = [todo EXCEPT ![c] = DOMAIN declared]
            /\ pc' = [pc EXCEPT ![c] = "describe"]
            /\ turn' = c
            /\ UNCHANGED answer
       ELSE /\ End(c, IF request[c].tool = "wiki_update" /\ ~trac.write_gate
                      THEN "gate off" ELSE "ok")
            /\ UNCHANGED todo
    /\ UNCHANGED <<startVars, phase, file, edits, registryVars, clients, cache,
                   request, client, resolved, began>>

\* The names were listed before the look: one may be gone.
DescribeOne(c) ==
    /\ turn = c /\ pc[c] = "fresh"
    /\ \E name \in todo[c] :
         IF name \notin DOMAIN declared
         THEN End(c, Raised(c)) /\ UNCHANGED todo
         ELSE /\ todo' = [todo EXCEPT ![c] = @ \ {name}]
              /\ IF todo[c] = {name} THEN End(c, "ok")
                 ELSE /\ pc' = [pc EXCEPT ![c] = "describe"]
                      /\ UNCHANGED <<turn, answer>>
    /\ UNCHANGED <<startVars, phase, file, edits, registryVars, clients, cache,
                   request, client, resolved, began>>

Call(c) ==
    \/ Receive(c) \/ GetUserClient(c)
    \/ Look(c) \/ Load(c) \/ Stamp(c) \/ ResolveClient(c)
    \/ Run(c) \/ DescribeOne(c)

Next ==
    \/ Fail \/ Start \/ Stop \/ EditFile
    \/ \E c \in Callers : Call(c)

Spec == Init /\ [][Next]_vars

(***************************************************************************)
(* Properties.                                                             *)
(***************************************************************************)

InTheServer(c) == pc[c] # "idle" /\ answer[c] # "unauthorized"

\* The tokens the operator gave out: the shared one and every identity's.
KnownTokens == ({settings.auth_token} \cup {i.token : i \in d.identities}) \ {Unset}

\* Over HTTP a request gets past the door only with a token the operator
\* gave out; with some token where each user brings his own, for Trac to
\* judge; or where no token is asked for at all: and then nobody but this
\* machine can reach the listener, or the operator has said that anybody
\* may (validate_server_config and the two middlewares together).
OnlyEntitledCallersEnter ==
    \A c \in Callers : InTheServer(c) /\ settings.transport = "http" =>
        \/ request[c].token \in KnownTokens
        \/ perUser /\ request[c].token # Unset
        \/ /\ KnownTokens = {} /\ ~perUser
           /\ settings.open \/ settings.host = "loopback"

\* Accounts are kept apart: those the instances file names are nobody's in
\* particular, and the server's own is no identity's.
AccountsAreApart ==
    \A x \in Deployments :
        LET users == {i.username : i \in x.identities}
            own   == TracSettings(x).username
        IN /\ own \notin users
           /\ \A f \in DeclaredFiles \ {Broken} : \A n \in DOMAIN f :
                 f[n].username # Unset => f[n].username \notin users \cup {own}

\* A call works with its caller's own credentials: his token, or those of
\* his identity, or those the instances file sets for the instance he
\* names; and a caller without an identity never with an identity's
\* (_declared_credentials, _adhoc_credentials, and the key of get_client).
CallsUseOwnCredentials ==
    \A c \in Callers : client[c] # NoClient =>
        LET i == IdentityOf(request[c].token)
            pair(x) == <<x.username, x.password>>
        IN IF perUser THEN client[c].token = request[c].token
           ELSE IF i = Anybody
           THEN pair(client[c]) \notin {pair(j) : j \in settings.identities}
           ELSE \/ pair(client[c]) = pair(i)
                \/ /\ request[c].arg.form = "name"
                   /\ client[c].username \notin
                        {j.username : j \in settings.identities}
                          \cup {trac.username}

\* The scope a client carries, which the link probes enforce, is its
\* caller's, and the client is for an instance in it, whoever made the
\* registry keep that client (_enforce_allowlist, get_client).
ClientsKeepTheirScope ==
    \A c \in Callers : client[c] # NoClient /\ ~perUser =>
        LET allowed == AllowedUrls(IdentityOf(request[c].token), trac)
        IN client[c].allowed = allowed /\ Permitted(client[c].url, allowed)

\* An instance name is resolved by a copy of the file no older than the
\* call, unless the file was edited between its load and the reading of
\* its time stamp (_reload_if_changed).
NamesAreFresh ==
    \A c \in Callers : pc[c] = "fresh" => read >= began[c] \/ torn

\* The link check of a write is skipped for the registry's sake only if
\* the instances file was edited while the call was under way, or if no
\* call looks at it first, each user having his own client (describe,
\* called from the write gate).
UncheckedOnlyAfterAnEdit ==
    \A c \in Callers : answer[c] = "unchecked" => edits > began[c] \/ perUser

\* "Pick up edits to the instances file without a server restart": a call
\* that begins after an edit gets a client with every setting its instance
\* has now, the verification of certificates included.
EditsTakeEffect ==
    \A c \in Callers : client[c] # NoClient /\ ~perUser /\ ~torn =>
        client[c] = resolved[c]

=============================================================================
