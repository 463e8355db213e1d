--------------------------- MODULE MCMediaSidecar ---------------------------
(* Small instances of MediaSidecar for TLC. *)
EXTENDS MediaSidecar, TLC

\* The volumes are /m, with files /m/a and /m/d/b, and /n, with file /n/b; /o/b is
\* outside of both; /r is a link to /m.
Volume(a, d, b) ==
    <<"m">> :> Dir @@ <<"m", "a">> :> a @@ <<"m", "d">> :> d @@ <<"m", "d", "b">> :> b
    @@ <<"n">> :> Dir @@ <<"n", "b">> :> File("n")
    @@ <<"o">> :> Dir @@ <<"o", "b">> :> File("outside") @@ <<"r">> :> Link(<<"m">>)

Without(fsys, gone) == [p \in DOMAIN fsys \ gone |-> fsys[p]]

Plain == Volume(File("a"), Dir, File("b"))

\* What the workload can make of it: a file replaced by a link (inside, to the other
\* volume, outside, to itself), a directory or nothing, the directory by a link to the
\* outside or a file.
Variants ==
    { Plain,
      Volume(Link(<<"m", "d", "b">>), Dir, File("b")),
      Volume(Link(<<"n", "b">>), Dir, File("b")),
      Volume(Link(<<"o", "b">>), Dir, File("b")),
      Volume(Link(<<"m", "a">>), Dir, File("b")),
      Volume(Dir, Dir, File("b")),
      Without(Plain, {<<"m", "a">>, <<"m", "d", "b">>}),
      Without(Volume(File("a"), Link(<<"o">>), File("b")), {<<"m", "d", "b">>}),
      Without(Volume(File("a"), File("d"), File("b")), {<<"m", "d", "b">>}) }

Absolute(names) == [absolute |-> TRUE, names |-> names]
Relative(names) == [absolute |-> FALSE, names |-> names]

Paths == { Absolute(<<"m", "a">>), Absolute(<<"m", "d", "b">>), Absolute(<<"o", "b">>),
           Absolute(<<"m", Up, "o", "b">>), Relative(<<"a">>), Relative(<<Up, "n", "b">>) }
OnePath == { Absolute(<<"m", "a">>) }
ThroughLink == { Absolute(<<"r", "a">>) }

OneRoot == << <<"m">> >>
TwoRoots == << <<"m">>, <<"n">> >>
LinkedRoot == << <<"r">> >>
JustPlain == { Plain }
AllTtls == {0, 1, 4, 10}
NoTtl == {-1, 0}
=============================================================================
