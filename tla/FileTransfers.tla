----------------------------- MODULE FileTransfers -----------------------------
(***************************************************************************)
(* The tools that move files (mcp/tools/file_io.py, the two attachment     *)
(* modules, wiki_file.py): a put and a push take their bytes from a file   *)
(* of the server or from the call, a get and a pull leave theirs in a file *)
(* or in the answer, as file_access says; deletions; and what others do to *)
(* the attachments and to the disk meanwhile.                              *)
(*                                                                         *)
(* Bytes are a content, of which only the size matters.  The attachments   *)
(* are those of one page or ticket; a text that is pushed is carried on in *)
(* WikiWrite, a page that is pulled is the attachment "page" here.         *)
(***************************************************************************)
EXTENDS Naturals, FiniteSets

CONSTANTS
    Callers,
    Calls,                \* the calls they make
    Worlds,               \* what there is when it all begins
    Contents, Size(_),    \* what a file may hold, and how much that is
    Paths, Absolute,      \* places on the server's disk; the absolute paths
    Names,                \* names of attachments: "file" is that of the file
                          \* on the disk, "page" stands for the page's text
    Modes,                \* file_access: "local", "off"
    MaxInline,            \* max_inline_bytes
    MaxOthers             \* bound: what others do

Void == "void"                     \* no content, no path, no name

ASSUME TransferAssumption ==
    /\ Absolute \subseteq Paths /\ MaxInline \in Nat /\ MaxOthers \in Nat
    /\ Modes \subseteq {"local", "off"}
    /\ {"page", "file"} \subseteq Names /\ Void \notin Names

VARIABLES
    mode,
    disk,       \* the files there are, by their paths
    folders,    \* the paths whose folder is there
    attached,   \* the attachments there are, and the page
    others,
    pc, request,
    bytes,      \* what the call holds
    reply,      \* the name Trac replied with; Void: none
    answer,
    touched,    \* history: the paths that calls read and wrote
    foldersWas, \* history: the paths whose folder was there at some time
    stored,     \* history: what was stored under which name, by whom
    fetched     \* history: the callers who had Trac send something

world == <<disk, folders, attached, others, foldersWas>>
callVars == <<pc, request, bytes, reply, answer>>
vars == <<mode, world, callVars, touched, stored, fetched>>

NoAnswer == [result |-> "none", name |-> Void, bytes |-> Void]
NoRequest == [op |-> "none", name |-> Void, path |-> Void, inline |-> Void, replace |-> FALSE]

\* A call: its operation, the attachment it is about, the path it gives and
\* the bytes it brings ("garbage" if they are not base64).
Uploads == {"put", "push"}
Downloads == {"get", "pull"}

Init ==
    /\ mode \in Modes
    /\ \E w \in Worlds : disk = w.disk /\ folders = w.folders /\ attached = w.attached
    /\ foldersWas = folders
    /\ others = 0
    /\ pc = [c \in Callers |-> "idle"]
    /\ request = [c \in Callers |-> NoRequest]
    /\ bytes = [c \in Callers |-> Void] /\ reply = [c \in Callers |-> Void]
    /\ answer = [c \in Callers |-> NoAnswer]
    /\ touched = {} /\ stored = {} /\ fetched = {}

(***************************************************************************)
(* Others: a file or a folder comes or goes, an attachment is removed.     *)
(***************************************************************************)

Other ==
    /\ others < MaxOthers /\ others' = others + 1
    /\ \/ /\ \E p \in folders, x \in Contents \cup {Void} : disk' = [disk EXCEPT ![p] = x]
          /\ UNCHANGED <<folders, attached, foldersWas>>
       \/ /\ \E p \in folders :
                folders' = folders \ {p} /\ disk' = [disk EXCEPT ![p] = Void]
          /\ UNCHANGED <<attached, foldersWas>>
       \/ /\ \E p \in Paths \ folders : folders' = folders \cup {p}
          /\ foldersWas' = foldersWas \cup folders'
          /\ UNCHANGED <<disk, attached>>
       \/ /\ \E n \in Names, x \in Contents \cup {Void} :
                attached' = [attached EXCEPT ![n] = x]
          /\ UNCHANGED <<disk, folders, foldersWas>>
    /\ UNCHANGED <<mode, callVars, touched, stored, fetched>>

(***************************************************************************)
(* A call.                                                                 *)
(***************************************************************************)

Goto(c, label) == pc' = [pc EXCEPT ![c] = label]
Finish(c, result, name, data) ==
    /\ Goto(c, "done")
    /\ answer' = [answer EXCEPT ![c] = [result |-> result, name |-> name, bytes |-> data]]
    /\ bytes' = [bytes EXCEPT ![c] = Void]
Refuse(c, why) == Finish(c, why, Void, Void)
Hold(c, data) == bytes' = [bytes EXCEPT ![c] = data]

AnyBytes(data) == TRUE                                         \* faulty
Fits(data) == Size(data) <= MaxInline

Call(c) ==
    /\ pc[c] = "idle"
    /\ \E r \in Calls :
          /\ request' = [request EXCEPT ![c] = r]
          /\ Goto(c, CASE r.op \in Uploads   -> "input"
                       [] r.op \in Downloads -> "check"
                       [] OTHER              -> "delete")
    /\ UNCHANGED <<mode, world, bytes, reply, answer, touched, stored, fetched>>

\* read_text_input, read_binary_input: one source, and one that is allowed.
read_input(c) ==
    /\ pc[c] = "input"
    /\ LET r == request[c]
       IN IF (r.path = Void) = (r.inline = Void)
          THEN Refuse(c, "validation_error")
          ELSE IF r.path # Void
          THEN IF mode # "local" THEN Refuse(c, "permission_denied")
               ELSE Goto(c, "file") /\ UNCHANGED <<bytes, answer>>
          ELSE IF r.inline = "garbage" \/ r.name = Void \/ ~Fits(r.inline)
          THEN Refuse(c, "validation_error")
          ELSE Goto(c, "store") /\ Hold(c, r.inline) /\ UNCHANGED answer
    /\ UNCHANGED <<mode, world, request, reply, touched, stored, fetched>>

\* validate_file_path, then the file: which may be gone by then.
validate_file_path(c) ==
    /\ pc[c] = "file"
    /\ LET p == request[c].path
       IN IF p \in Absolute /\ disk[p] # Void
          THEN Goto(c, "read") /\ UNCHANGED <<bytes, answer>>
          ELSE Refuse(c, "error")
    /\ UNCHANGED <<mode, world, request, reply, touched, stored, fetched>>

read_bytes(c) ==
    /\ pc[c] = "read"
    /\ LET p == request[c].path
       IN IF disk[p] = Void THEN Refuse(c, "error") /\ UNCHANGED touched
          ELSE /\ Goto(c, "store") /\ Hold(c, disk[p]) /\ UNCHANGED answer
               /\ touched' = touched \cup {p}
    /\ UNCHANGED <<mode, world, request, reply, stored, fetched>>

\* The name of the file, where the call leaves it open.
Wanted(c) == IF request[c].name = Void THEN "file" ELSE request[c].name

\* Trac stores a name that is taken under another, unless it is to be
\* replaced; the reply says which, or is lost.  It may be no name, if the
\* bytes are where they were to go.
StoredAs(c) ==
    IF request[c].replace \/ attached[Wanted(c)] = Void THEN {Wanted(c)}
    ELSE {n \in Names \ {"page"} : attached[n] = Void}
put_attachment(c) ==
    /\ pc[c] = "store"
    /\ \/ \E n \in StoredAs(c) :
             /\ attached' = [attached EXCEPT ![n] = bytes[c]]
             /\ stored' = stored \cup {<<c, n, bytes[c]>>}
             /\ \/ /\ Goto(c, "stored")
                   /\ \E name \in {n, Void} :
                         /\ name = Void => n = Wanted(c)
                         /\ reply' = [reply EXCEPT ![c] = name]
                \/ Goto(c, "lost") /\ UNCHANGED reply
       \/ Goto(c, "lost") /\ UNCHANGED <<attached, stored, reply>>
    /\ UNCHANGED <<mode, disk, folders, others, foldersWas, request, bytes, answer,
                   touched, fetched>>

AsRequested(c) == Wanted(c)                                    \* faulty
stored_name(c) == IF reply[c] = Void THEN Wanted(c) ELSE reply[c]

tell(c) ==
    /\ \/ pc[c] = "stored" /\ Finish(c, "stored", stored_name(c), bytes[c])
       \/ pc[c] = "lost" /\ Refuse(c, "error")
    /\ reply' = [reply EXCEPT ![c] = Void]
    /\ UNCHANGED <<mode, world, request, touched, stored, fetched>>

\* The folder of the file that is to be written must be there.
MayBeWritten(p) == p \in Absolute /\ p \in folders

check_output_path(c) ==
    /\ pc[c] = "check"
    /\ LET p == request[c].path
       IN IF mode # "local"
          THEN IF p # Void THEN Refuse(c, "permission_denied")
               ELSE Goto(c, "fetch") /\ UNCHANGED <<bytes, answer>>
          ELSE IF p = Void THEN Refuse(c, "validation_error")
          ELSE IF ~MayBeWritten(p) THEN Refuse(c, "error")
          ELSE Goto(c, "fetch") /\ UNCHANGED <<bytes, answer>>
    /\ UNCHANGED <<mode, world, request, reply, touched, stored, fetched>>

fetch(c) ==
    /\ pc[c] = "fetch"
    /\ fetched' = fetched \cup {c}
    /\ LET x == attached[request[c].name]
       IN \/ /\ x # Void
             /\ Goto(c, "deliver") /\ Hold(c, x) /\ UNCHANGED answer
          \/ Refuse(c, "not_found")
    /\ UNCHANGED <<mode, world, request, reply, touched, stored>>

\* deliver_output, by a path: looked at once more, then written.
deliver_file(c) ==
    /\ pc[c] = "deliver" /\ request[c].path # Void
    /\ IF MayBeWritten(request[c].path)
       THEN Goto(c, "write") /\ UNCHANGED <<bytes, answer>>
       ELSE Refuse(c, "error")
    /\ UNCHANGED <<mode, world, request, reply, touched, stored, fetched>>

write_bytes(c) ==
    /\ pc[c] = "write"
    /\ LET p == request[c].path
       IN IF p \in folders
          THEN /\ disk' = [disk EXCEPT ![p] = bytes[c]]
               /\ touched' = touched \cup {p}
               /\ Finish(c, "written", Void, bytes[c])
          ELSE Refuse(c, "error") /\ UNCHANGED <<disk, touched>>
    /\ UNCHANGED <<mode, folders, attached, others, foldersWas, request, reply, stored, fetched>>

deliver_inline(c) ==
    /\ pc[c] = "deliver" /\ request[c].path = Void
    /\ IF Fits(bytes[c]) THEN Finish(c, "inline", Void, bytes[c])
       ELSE Refuse(c, "validation_error")
    /\ UNCHANGED <<mode, world, request, reply, touched, stored, fetched>>

delete_attachment(c) ==
    /\ pc[c] = "delete"
    /\ \/ /\ attached' = [attached EXCEPT ![request[c].name] = Void]
          /\ Finish(c, "deleted", request[c].name, Void)
       \/ /\ Refuse(c, "permission_denied") /\ UNCHANGED attached
    /\ UNCHANGED <<mode, disk, folders, others, foldersWas, request, reply, touched, stored, fetched>>

\* What the server does for a call.
Serve(c) ==
    \/ read_input(c) \/ validate_file_path(c) \/ read_bytes(c)
    \/ put_attachment(c) \/ tell(c)
    \/ check_output_path(c) \/ fetch(c)
    \/ deliver_file(c) \/ write_bytes(c) \/ deliver_inline(c)
    \/ delete_attachment(c)

Next == Other \/ \E c \in Callers : Call(c) \/ Serve(c)

Spec == Init /\ [][Next]_vars

(***************************************************************************)
(* Properties.                                                             *)
(***************************************************************************)

\* Where file_access is "off" no call reads or writes the disk of the server;
\* where it is "local" nothing is delivered but by a path.  What moves inline,
\* either way, is within the limit.  A path that cannot be written costs no
\* request: what was fetched for a file had a folder to go to when the call
\* was checked.  (file_io.)
FileAccessIsKept ==
    /\ touched \subseteq Absolute /\ (mode = "off" => touched = {})
    /\ \A c \in Callers :
          LET r == request[c]
          IN /\ answer[c].result = "inline" => mode = "off" /\ Size(answer[c].bytes) <= MaxInline
             /\ \A s \in stored : s[1] = c /\ r.inline # Void => Size(s[3]) <= MaxInline
             /\ c \in fetched /\ mode = "local" => r.path \in foldersWas

\* The name that is told is the one the bytes were stored under, although the
\* one that was asked for was taken meanwhile, and although the reply may be
\* no name; and a call that was refused stored nothing.  (_handle_put.)
AnswersNameWhatIsStored ==
    \A c \in Callers :
        /\ answer[c].result = "stored" => <<c, answer[c].name, answer[c].bytes>> \in stored
        /\ answer[c].result \in {"validation_error", "permission_denied"} =>
              \A s \in stored : s[1] # c
===============================================================================
