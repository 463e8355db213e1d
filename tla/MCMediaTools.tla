---------------------------- MODULE MCMediaTools ----------------------------
(* A small volume: a file, one of the same name in the first root, and what names them. *)
EXTENDS MediaTools, TLC

CONSTANTS sub, top, subPath, base, gone, own

MCFiles == {sub, top}
MCRequests == {subPath, base, gone}

\* The base name of a path in a directory below the root names another file, in the root.
MCFileOf == subPath :> sub @@ base :> top @@ gone :> None
MCBaseName == subPath :> base @@ base :> base @@ gone :> gone

\* With at most two bytes inlined: a file that fits, one that does not, and a longer one.
MCSizes == {2, 3, 5}
MCMimes == {Image, Audio, "other"}

\* What an upstream tool returns besides paths: its own URL, type, size and further fields,
\* an inline_included that agrees with its content or does not, and media of its own.
MCValues == {None, own} \cup BOOLEAN
Picture == [kind |-> Image]
MCItems == {Note, Picture}

Paths(f, p, n) == "file_path" :> f @@ "path" :> p @@ "filename" :> n
OwnLink == "url" :> own @@ "mime_type" :> own @@ "size_bytes" :> own @@ "rest" :> own
OwnFlag(flag) == "inline_included" :> flag @@ "rest" :> own

\* Every combination of paths with nothing else, and what else there may be with some.
MCReplies ==
    LET Named == MCRequests \cup {None}
        Plain == {Paths(f, p, n) : f, p, n \in Named}
        More == {extra @@ Paths(f, None, n) : extra \in {OwnLink, OwnFlag(TRUE), OwnFlag(FALSE)},
                                              f \in {None, subPath}, n \in {None, base}}
        Reply(e, fields, content) ==
            [isError |-> e, fields |-> fields @@ NoFields, content |-> content]
    IN  {Reply(e, fields, <<Note>>) : e \in BOOLEAN, fields \in Plain}
        \cup {Reply(e, fields, content) : e \in BOOLEAN, fields \in More,
                                          content \in {<<>>, <<Note, Picture>>}}

=============================================================================
