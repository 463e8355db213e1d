------------------------------ MODULE ToolView ------------------------------
(***************************************************************************)
(* What the downstream clients of mcp-media-proxy are promised about the   *)
(* mirrored tools (internal/proxy/upstream.go, the package comment and the *)
(* comment of SyncTools), with nothing of how it is done: the registry     *)
(* shows the proxy's own tools always, and of every other tool something   *)
(* the upstream really offered, never going back to an older state of the  *)
(* upstream than one already shown.  ToolMirror implements this module.    *)
(***************************************************************************)
EXTENDS Naturals, Sequences

CONSTANTS
    Tools,       \* tool names
    Reserved,    \* names of the proxy's own tools (UpstreamOptions.ReservedTools)
    Defs,        \* tool definitions an upstream may send
    Mirrorable,  \* the definitions downstreamTool accepts
    NoTool,      \* "no such tool"
    Own,         \* the proxy's own registration of a reserved tool
    NPages,      \* pages of one tools/list answer
    Catalogs     \* the tool lists the upstream may have: page -> tool -> definition

Pages == 1..NPages

\* What the users of this module assume of the constants.
ToolConstants ==
    /\ Reserved \subseteq Tools
    /\ Mirrorable \subseteq Defs
    /\ NoTool \notin Defs
    /\ Own \notin Defs
    /\ Own # NoTool
    /\ NPages \in Nat \ {0}
    /\ Catalogs \subseteq [Pages -> [Tools -> Defs \cup {NoTool}]]

VARIABLES
    history,  \* the catalogs the upstream has had, the current one last
    shown,    \* what the downstream registry has under each name
    asOf      \* per tool: the version of the upstream what is shown is at least from

vars == <<history, shown, asOf>>

Now == Len(history)

InitialShown == [n \in Tools |-> IF n \in Reserved THEN Own ELSE NoTool]

Init ==
    /\ \E c \in Catalogs : history = <<c>>
    /\ shown = InitialShown
    /\ asOf = [n \in Tools |-> 1]

Change ==
    /\ \E c \in Catalogs : history' = Append(history, c)
    /\ UNCHANGED <<shown, asOf>>

\* Some page of the upstream had n as d at or after version v.
OfferedSince(n, d, v) ==
    \E w \in v..Now, k \in Pages : history[w][k][n] = d

\* Every page of the upstream was without n at some moment at or after v.  (Pages
\* are fetched one by one, so not necessarily all of them at the same moment.)
MissedSince(n, v) ==
    \A k \in Pages : \E w \in v..Now : history[w][k][n] = NoTool

Refresh(n) ==
    /\ n \notin Reserved
    /\ \E v \in asOf[n]..Now :
         /\ asOf' = [asOf EXCEPT ![n] = v]
         /\ \/ \E d \in Mirrorable :
                 /\ OfferedSince(n, d, v)
                 /\ shown' = [shown EXCEPT ![n] = d]
            \/ /\ MissedSince(n, v)
               /\ shown' = [shown EXCEPT ![n] = NoTool]
    /\ UNCHANGED history

Next == Change \/ \E n \in Tools : Refresh(n)

Spec == Init /\ [][Next]_vars
=============================================================================
