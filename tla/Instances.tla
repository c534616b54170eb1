------------------------------ MODULE Instances ------------------------------
(***************************************************************************)
(* The instance registry as functions (instances.py): which Trac, with     *)
(* whose credentials, an optional instance argument stands for; who may    *)
(* reach it; and which client answers for it.                              *)
(*                                                                         *)
(* An address is [host, path], host "" being the default's own, as in a    *)
(* declared entry that gives a path only.  An argument is                  *)
(*   [form |-> "none"]                  not given                          *)
(*   [form |-> "name", name |-> ...]    a name, "default" included         *)
(*   [form |-> "path", path |-> ...]    a path on the default's host       *)
(*   [form |-> "url", url |-> ...]      an absolute address                *)
(***************************************************************************)
EXTENDS ServerConfig

\* Nobody in particular: no bearer token, or the shared one.
Anybody == [name |-> Unset]

\* Errors of a resolution, in the place of a configuration.
Unknown    == [error |-> "unknown_instance"]
NotAllowed == [error |-> "instance_not_allowed"]

\* A declared entry: what it leaves out is inherited.
Entry(url, username, password, insecure) ==
    [url |-> url, username |-> username, password |-> password,
     insecure |-> insecure]

AbsoluteUrl(url, trac) ==
    IF url.host = "" THEN [url EXCEPT !.host = trac.url.host] ELSE url

\* The instances the caller may reach.  An identity has its own list or
\* none; the default's list binds only who comes without an identity.
AllowedUrls(identity, trac) ==
    IF identity = Anybody THEN trac.allowed
    ELSE IF identity.instances = NoLimit THEN NoLimit
    ELSE {AbsoluteUrl(u, trac) : u \in identity.instances}

Permitted(url, allowed) == allowed = NoLimit \/ url \in allowed

Or(value, default) == IF value # Unset THEN value ELSE default

\* The default's settings with another address, credentials and scope.
Synthesize(trac, url, username, password, insecure, allowed) ==
    [url      |-> AbsoluteUrl(url, trac),
     username |-> Or(username, trac.username),
     password |-> Or(password, trac.password),
     insecure |-> IF insecure = "inherited" THEN trac.insecure
                  ELSE insecure = "on",
     allowed  |-> allowed]

\* The default instance itself, as it was configured.
DefaultConfig(trac) ==
    Synthesize(trac, trac.url, Unset, Unset, "inherited", trac.allowed)

\* An address nobody declared takes the caller's credentials.
AdHoc(trac, url, identity, allowed) ==
    IF identity = Anybody
    THEN Synthesize(trac, url, Unset, Unset, "inherited", allowed)
    ELSE Synthesize(trac, url, identity.username, identity.password,
                    "inherited", allowed)

\* An entry that names a user keeps its own credentials; any other takes
\* the caller's, if the caller has some.
Declared(trac, entry, identity, allowed) ==
    IF entry.username # Unset \/ identity = Anybody
    THEN Synthesize(trac, entry.url, entry.username, entry.password,
                    entry.insecure, allowed)
    ELSE Synthesize(trac, entry.url, identity.username, identity.password,
                    entry.insecure, allowed)

IsDefault(arg) == arg.form = "none" \/ arg = [form |-> "name", name |-> "default"]

ResolveUnenforced(arg, identity, trac, declared) ==
    LET allowed == AllowedUrls(identity, trac)
    IN CASE IsDefault(arg) /\ identity = Anybody -> DefaultConfig(trac)
         [] IsDefault(arg) /\ identity # Anybody ->
              AdHoc(trac, trac.url, identity, allowed)
         [] ~IsDefault(arg) /\ arg.form = "name" ->
              IF arg.name \in DOMAIN declared
              THEN Declared(trac, declared[arg.name], identity, allowed)
              ELSE Unknown
         [] arg.form = "path" ->
              AdHoc(trac, [host |-> "", path |-> arg.path], identity, allowed)
         [] arg.form = "url" ->
              IF arg.url.host = trac.url.host
              THEN AdHoc(trac, arg.url, identity, allowed)
              ELSE Unknown

\* The list is compared with the address that came out, on every way.
Resolve(arg, identity, trac, declared) ==
    LET config == ResolveUnenforced(arg, identity, trac, declared)
    IN IF config = Unknown THEN Unknown
       ELSE IF Permitted(config.url, AllowedUrls(identity, trac)) THEN config
       ELSE NotAllowed

\* What a client is kept under.
KeyWithoutPassword(config) == <<config.url, config.username,
                                config.allowed>>               \* faulty
KeyWithoutScope(config) == <<config.url, config.username,
                             config.password>>                 \* faulty
ClientKey(config) == <<config.url, config.username, config.password,
                       config.allowed>>

\* The client for a configuration: the one kept, or a new one.
ClientFor(config, clients) ==
    LET kept == {c \in clients : ClientKey(c) = ClientKey(config)}
    IN IF kept = {} THEN config ELSE CHOOSE c \in kept : TRUE
=============================================================================
