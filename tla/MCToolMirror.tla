---------------------------- MODULE MCToolMirror ----------------------------
(* Small instances of ToolMirror for TLC. *)
EXTENDS ToolMirror, TLC

CONSTANTS a, b, media, d1, d2, bad

MCTools == {a, b, media}
MCReserved == {media}
MCDefs == {d1, d2, bad}
MCMirrorable == {d1, d2}

\* A page with the given entries (a function on a subset of the tools).
PageOf(entries) == entries @@ [n \in MCTools |-> NoTool]

\* Two plain lists; one with an unmirrorable definition and a reserved name; one where
\* a tool moves to another page and another is listed twice with two definitions.
Plain == <<PageOf(a :> d1), PageOf(b :> d1)>>
Shrunk == <<PageOf(a :> d2), PageOf(<<>>)>>
Awkward == <<PageOf(a :> bad @@ media :> d1), PageOf(b :> d2)>>
Moved == <<PageOf(b :> d2), PageOf(b :> d1 @@ a :> d1)>>

MCCatalogs == {Shrunk, Awkward, Moved}
FewCatalogs == {Plain, Shrunk}

============================================================================
