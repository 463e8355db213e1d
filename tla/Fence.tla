-------------------------------- MODULE Fence --------------------------------
(***************************************************************************)
(* internal/serve/resolve.go: the path fence, and as much of a file system *)
(* as it looks at.  A path is the sequence of its components; the "/a/b"   *)
(* and "/ab" that underRoot tells apart by a separator differ as sequences.*)
(* A file system maps the paths that exist to nodes; a link's target is an *)
(* absolute path.                                                          *)
(***************************************************************************)
EXTENDS Naturals, Sequences

File(body) == [kind |-> "file", body |-> body]
Dir == [kind |-> "dir"]
Link(target) == [kind |-> "link", to |-> target]

CONSTANT MaxSteps  \* bound: components followed before a path counts as a link loop

ASSUME StepsAssumption == MaxSteps \in Nat

-----------------------------------------------------------------------------
(* The library: path/filepath and the kernel's path walk. *)

Up == ".."

\* No name in a directory is "..", and links are absolute.
IsFileSystem(fs) ==
    \A path \in DOMAIN fs :
        /\ path \in Seq(STRING) /\ \A i \in DOMAIN path : path[i] # Up
        /\ fs[path].kind = "link" => fs[path].to \in Seq(STRING)

Parent(path) == IF path = <<>> THEN path ELSE SubSeq(path, 1, Len(path) - 1)

\* filepath.Clean of an absolute path.
Clean(names) ==
    LET clean[i \in 0..Len(names)] ==
            IF i = 0 THEN <<>>
            ELSE IF names[i] = Up THEN Parent(clean[i - 1])
            ELSE Append(clean[i - 1], names[i])
    IN  clean[Len(names)]

\* One component of a walk: at is resolved, rest is still to be followed.
Follow(fs, walk) ==
    LET next == Append(walk.at, Head(walk.rest))
        more == Tail(walk.rest)
    IN  IF walk.rest = <<>> \/ walk.status # "ok" THEN walk
        ELSE IF next \notin DOMAIN fs THEN [walk EXCEPT !.status = "missing"]
        ELSE IF fs[next].kind = "link"
             THEN [at |-> <<>>, rest |-> fs[next].to \o more, status |-> "ok"]
        ELSE IF fs[next].kind = "file" /\ more # <<>> THEN [walk EXCEPT !.status = "failed"]
        ELSE [at |-> next, rest |-> more, status |-> "ok"]

\* filepath.EvalSymlinks of a clean absolute path: "missing" is os.ErrNotExist,
\* "failed" any other error (a file used as a directory, too many links).
EvalSymlinks(fs, path) ==
    LET walk[i \in 0..MaxSteps] ==
            IF i = 0 THEN [at |-> <<>>, rest |-> path, status |-> "ok"]
            ELSE Follow(fs, walk[i - 1])
        end == walk[MaxSteps]
    IN  [path   |-> end.at,
         status |-> IF end.status = "ok" /\ end.rest # <<>> THEN "failed" ELSE end.status]

-----------------------------------------------------------------------------
(* The fence itself. *)

\* With a separator appended "/" is the prefix of no clean path.
UnderRoot(path, root) ==
    \/ path = root
    \/ root # <<>> /\ Len(root) <= Len(path) /\ SubSeq(path, 1, Len(root)) = root

\* Roots are resolved at every call, and skipped when that fails.
InSomeRoot(fs, roots, path) ==
    \E i \in DOMAIN roots :
        LET root == EvalSymlinks(fs, roots[i])
        IN  root.status = "ok" /\ UnderRoot(path, root.path)

\* The cheap check by the names alone, before the disk is touched.
Lexical(roots, clean) == \E i \in DOMAIN roots : UnderRoot(clean, roots[i])

Fenced_Lexically(fs, roots, clean) ==
    IF Lexical(roots, clean) THEN EvalSymlinks(fs, clean)
    ELSE [path |-> <<>>, status |-> "escape"]

Fenced(fs, roots, clean) ==
    LET real == EvalSymlinks(fs, clean)
    IN  IF ~Lexical(roots, clean)
        THEN [path |-> <<>>, status |-> "escape"]
        ELSE IF real.status # "ok" \/ InSomeRoot(fs, roots, real.path)
        THEN real
        ELSE [path |-> <<>>, status |-> "escape"]

\* Resolve(roots, p): a relative path is taken against, and fenced by, the first root.
\* The roots are clean.
Resolve(fs, roots, p) ==
    IF p.absolute
    THEN Fenced(fs, roots, Clean(p.names))
    ELSE IF roots = <<>>
    THEN [path |-> <<>>, status |-> "escape"]
    ELSE Fenced(fs, <<roots[1]>>, Clean(roots[1] \o p.names))
=============================================================================
