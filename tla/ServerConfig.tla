---------------------------- MODULE ServerConfig ----------------------------
(***************************************************************************)
(* What the server makes of its settings before it serves: the command     *)
(* line over the environment over the YAML file over the defaults          *)
(* (config_bootstrap.py, config_loader.py, config.py), what it refuses to  *)
(* start with, the identities file, and the tools that are left after the  *)
(* permissions, read-only and disabled filters (registry.py).              *)
(*                                                                         *)
(* A deployment is a record of what the operator wrote:                    *)
(*   cli, env   functions from the settings given there to their values    *)
(*   files      the config files that exist, highest precedence first;     *)
(*              each maps the sections it has to such functions            *)
(*   identities the entries of the TRAC_IDENTITIES file                    *)
(*   permissions the lines of the permissions file, AllPermissions if none *)
(* "" is a value left empty.  A switch is written "on" or "off"; any other *)
(* spelling stands for a word the parsers do not know.                     *)
(***************************************************************************)
EXTENDS Naturals, Sequences, FiniteSets

\* A setting nobody gave, an identity or a scope there is none of.
Unset == ""
NoLimit == {[host |-> "*", path |-> "*"]}
AllPermissions == {"*"}

\* The value of a setting in one source.
In(source, setting) ==
    IF setting \in DOMAIN source THEN source[setting] ELSE Unset

\* The sections of the files are not merged: a section of a file of higher
\* precedence replaces that of a lower one, whatever it lacks.
Section(files, section) ==
    LET having == {i \in DOMAIN files : section \in DOMAIN files[i]}
    IN IF having = {} THEN <<>>
       ELSE files[CHOOSE i \in having : \A j \in having : i <= j][section]

\* "a or b or c": the first value that is not empty.
FirstOf(a, b, c, default) ==
    CASE a # Unset -> a
      [] a = Unset /\ b # Unset -> b
      [] a = Unset /\ b = Unset /\ c # Unset -> c
      [] OTHER -> default

Setting(d, section, setting, default) ==
    FirstOf(In(d.cli, setting), In(d.env, setting),
            In(Section(d.files, section), setting), default)

\* A switch: what the environment says counts, even an empty word.
Switch(d, section, setting) ==
    \/ In(d.cli, setting) = "on"
    \/ IF setting \in DOMAIN d.env THEN d.env[setting] = "on"
       ELSE In(Section(d.files, section), setting) = "on"

(***************************************************************************)
(* The server's own settings.                                              *)
(***************************************************************************)

\* The addresses: "loopback" or another; the endpoint of per-user
\* authentication: https, or plain http on the loopback or elsewhere.
ServerSettings(d) ==
    LET transport == Setting(d, "server", "transport", "stdio")
    IN [transport  |-> transport,
        host       |-> Setting(d, "server", "host", "loopback"),
        auth_token |-> Setting(d, "server", "auth_token", Unset),
        oidc       |-> Setting(d, "server", "oidc_rpc_url", Unset),
        plain_ok   |-> Switch(d, "server", "oidc_allow_insecure_http"),
        open       |-> \/ In(d.cli, "allow_unauthenticated") = "on"
                       \/ In(Section(d.files, "server"),
                             "allow_unauthenticated") = "on",
        read_only  |-> Setting(d, "server", "read_only", "off") = "on",
        disabled   |-> Setting(d, "server", "disabled_tools", "none"),
        file_access |-> Setting(d, "server", "file_access",
                                IF transport = "stdio" THEN "local" ELSE "off"),
        identities |-> d.identities]

\* The words a setting may be: anything else is refused.
WordsAreKnown(d, s) ==
    /\ s.transport \in {"stdio", "http"}
    /\ s.file_access \in {"local", "off"}
    /\ In(d.env, "read_only") \in {Unset, "on", "off"}

\* Every entry names a token of its own, a user and a password, and a list
\* of instances that is absent or not empty.
IdentitiesAreSound(identities) ==
    /\ \A i \in identities : Unset \notin {i.token, i.username, i.password}
    /\ \A i, j \in identities : i.token = j.token => i = j
    /\ \A i \in identities : i.instances # {}

OidcUrlIsSafe(s) ==
    \/ s.oidc = "https"
    \/ s.oidc = "http loopback"
    \/ s.oidc = "http" /\ s.plain_ok

\* What the listener asks of a caller, if anything.
Authenticates(s) == s.auth_token # Unset \/ s.identities # {} \/ s.oidc # Unset

\* A plain setting that refuses to listen where anybody may reach it
\* without saying who he is, unless the operator says so.
BindIsSafe(s) == Authenticates(s) \/ s.open \/ s.host = "loopback"

IdentitiesFit(s) ==
    \/ s.identities = {}
    \/ /\ s.transport = "http"
       /\ \A i \in s.identities : i.token # s.auth_token
       /\ ~(s.open /\ s.auth_token = Unset)

ValidServer(s) ==
    /\ IdentitiesFit(s)
    /\ s.transport # "http" => s.oidc = Unset
    /\ s.transport = "http" =>
         /\ s.oidc # Unset =>
              OidcUrlIsSafe(s) /\ s.auth_token = Unset /\ s.identities = {}
         /\ BindIsSafe(s)

ServerStarts(d) ==
    LET s == ServerSettings(d)
    IN WordsAreKnown(d, s) /\ IdentitiesAreSound(d.identities) /\ ValidServer(s)

(***************************************************************************)
(* The settings of the Trac it serves.                                     *)
(***************************************************************************)

\* An instance is an address [host, path]; host "" is the default's own.
NoUrl == [host |-> "", path |-> ""]

\* Whether credentials may be missing: only the environment is asked.
OidcConfigured(d) == In(d.env, "oidc_rpc_url") # Unset

\* Anything but a word for "no" leaves the gate on.
WriteGate(d) ==
    IF "write_gate" \in DOMAIN d.env THEN d.env["write_gate"] # "off"
    ELSE In(Section(d.files, "trac"), "write_gate") # "off"

TracSettings(d) ==
    LET username == Setting(d, "trac", "username", Unset)
        password == Setting(d, "trac", "password", Unset)
    IN [url        |-> IF "url" \in DOMAIN d.cli THEN d.cli["url"]
                       ELSE IF "url" \in DOMAIN d.env THEN d.env["url"]
                       ELSE IF "url" \in DOMAIN Section(d.files, "trac")
                            THEN Section(d.files, "trac")["url"]
                            ELSE NoUrl,
        username   |-> username,
        password   |-> password,
        insecure   |-> Switch(d, "trac", "insecure"),
        write_gate |-> WriteGate(d),
        oidc_only  |-> /\ OidcConfigured(d)
                       /\ username = Unset /\ password = Unset,
        allowed    |-> IF "allowed" \in DOMAIN d.env THEN d.env["allowed"]
                       ELSE NoLimit]

TracStarts(d) ==
    LET t == TracSettings(d)
    IN /\ t.url # NoUrl
       /\ t.oidc_only \/ Unset \notin {t.username, t.password}
       /\ t.allowed # {}
       /\ t.allowed = NoLimit \/ t.url \in t.allowed

(***************************************************************************)
(* The tools.                                                              *)
(***************************************************************************)

\* A permissions file has at least one line.
PermissionsAreSound(d) == d.permissions # {}

Permits(d, tool) ==
    d.permissions = AllPermissions \/ tool.permissions \subseteq d.permissions

\* The tools that pass all three filters.
Enabled(d, tools) ==
    LET s == ServerSettings(d)
    IN {t \in tools : /\ t.name # s.disabled
                      /\ s.read_only => t.readOnly
                      /\ Permits(d, t)}
=============================================================================
