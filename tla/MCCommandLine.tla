----------------------------- MODULE MCCommandLine -----------------------------
(***************************************************************************)
(* One caller of the tools and one terminal.  A content that may move      *)
(* inline and be a comment, and one that is too large for both; a place on *)
(* the server's disk and a path that is not absolute.  A call gives a      *)
(* path, or bytes, or both, or neither, and may leave the name to the      *)
(* file; the local file may hold a text, a blank, or be missing, with its  *)
(* folder or without.                                                      *)
(***************************************************************************)
EXTENDS CommandLine

MCSize(x) == IF x = "blank" THEN 0 ELSE IF x = "small" THEN 1 ELSE 3

MCWorlds ==
    {[disk |-> [p \in Paths |-> IF p = "/a/file" THEN "large" ELSE Void], folders |-> {"/a/file"},
      attached |-> [n \in Names |-> IF n = "other" THEN Void ELSE "small"]]}

Given(op, name, path, inline, replace) ==
    [op |-> op, name |-> name, path |-> path, inline |-> inline, replace |-> replace]
MCCalls ==
    {Given("put", n, p, Void, b) : n \in {"file", Void}, p \in Paths \cup {Void}, b \in BOOLEAN}
    \cup {Given("put", "file", Void, x, b) : x \in Contents, b \in BOOLEAN}
    \cup {Given("put", Void, Void, "small", FALSE), Given("put", "file", Void, "garbage", FALSE),
          Given("put", "file", "/a/file", "small", FALSE)}
    \cup {Given("push", "page", p, Void, TRUE) : p \in Paths \cup {Void}}
    \cup {Given("push", "page", Void, x, TRUE) : x \in Contents}
    \cup {Given("get", "file", p, Void, FALSE) : p \in Paths \cup {Void}}
    \cup {Given("pull", "page", p, Void, FALSE) : p \in Paths \cup {Void}}
    \cup {Given("delete", "file", Void, Void, FALSE)}

Typed(op, name, replace, stream, based) ==
    [op |-> op, name |-> name, replace |-> replace, stream |-> stream, based |-> based]
MCCommands ==
    {Typed("put", n, b, s, FALSE) : n \in {"file", Void}, b \in BOOLEAN, s \in BOOLEAN}
    \cup {Typed("push", "page", TRUE, FALSE, FALSE), Typed("pull", "page", FALSE, FALSE, FALSE)}
    \cup {Typed("get", "file", FALSE, s, FALSE) : s \in BOOLEAN}
    \cup {Typed(op, Void, FALSE, FALSE, b) : op \in {"comment", "describe"}, b \in BOOLEAN}
    \cup {Typed("create", Void, FALSE, FALSE, FALSE), Typed("body", Void, FALSE, FALSE, FALSE)}

MCTails == {<<x, x>> : x \in Contents \cup Homes} \cup {<<"large", "small">>}
===============================================================================
