------------------------------- MODULE Grants -------------------------------
(***************************************************************************)
(* What a signed media URL is worth (the package comments of internal/sign *)
(* and internal/mint), with nothing of signatures, requests and files: a   *)
(* grant to visit one place until some time, made under the secret of the  *)
(* moment and for no longer than the longest lifetime.  Visits begin with  *)
(* a grant that was made, whole, under the secret there is now, and before *)
(* it ends.  MediaSidecar implements this module.                          *)
(***************************************************************************)
EXTENDS Integers

CONSTANTS
    Visitors,
    Secrets,
    Second,      \* ticks of the clock; grants end at whole seconds
    Longest,     \* the longest lifetime, in ticks
    NoVisit

VARIABLES
    time,
    secret,
    granted,     \* grants ever made: where to, until when, how presented, under which secret
    visit        \* the grant each visitor is there with, or NoVisit

vars == <<time, secret, granted, visit>>

Nobody == [v \in Visitors |-> NoVisit]

Init ==
    /\ time \in 0..(Second - 1)
    /\ secret \in Secrets
    /\ granted = {}
    /\ visit = Nobody

TimePasses == time' = time + 1 /\ UNCHANGED <<secret, granted, visit>>

\* Grants of another secret are worth nothing while it is not in use, and those of this
\* secret stay what they were; who is there has to leave.
Rekey ==
    /\ secret' \in Secrets
    /\ visit' = Nobody
    /\ UNCHANGED <<time, granted>>

Grant ==
    /\ \E g \in granted' :
          /\ granted' = granted \cup {g}
          /\ g.secret = secret /\ g.until * Second <= time + Longest
    /\ UNCHANGED <<time, secret, visit>>

Valid(g) == g.secret = secret /\ time <= g.until * Second

Enter(v) ==
    /\ visit[v] = NoVisit
    /\ \E g \in granted : Valid(g) /\ visit' = [visit EXCEPT ![v] = g]
    /\ UNCHANGED <<time, secret, granted>>

Leave(v) ==
    /\ visit' = [visit EXCEPT ![v] = NoVisit]
    /\ UNCHANGED <<time, secret, granted>>

Next == TimePasses \/ Rekey \/ Grant \/ \E v \in Visitors : Enter(v) \/ Leave(v)

Spec == Init /\ [][Next]_vars
=============================================================================
