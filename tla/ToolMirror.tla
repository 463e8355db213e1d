----------------------------- MODULE ToolMirror -----------------------------
(***************************************************************************)
(* internal/proxy/upstream.go: one Upstream mirrors the tools of an        *)
(* upstream MCP server onto the proxy's own server.                        *)
(*                                                                         *)
(* The goroutines are Main, which calls Connect and Close, the Handlers,   *)
(* which run ToolListChangedHandler, and the Callers, which run the        *)
(* handlers registered by forward.  A section under u.mu that makes one    *)
(* access is one action, enabled when mu is free.  The registration loop   *)
(* of SyncTools holds mu over many calls of the downstream server, which   *)
(* clients can observe one by one: there mu is a real lock with an owner.  *)
(* listMu is held from the start of SyncTools to its return.               *)
(***************************************************************************)
EXTENDS Naturals, Sequences, FiniteSets

CONSTANTS
    Tools, Reserved, Defs, Mirrorable, NoTool, Own, NPages, Catalogs,
    Main,         \* the goroutine of run()
    Handlers,     \* goroutines delivering tools/list_changed notifications
    Callers,      \* goroutines serving downstream tools/call requests
    Nobody,       \* no goroutine holds the lock
    MaxVersions,  \* bound: the upstream changes its tools MaxVersions - 1 times
    MaxSessions   \* bound: Connect establishes at most this many sessions

Pages == 1..NPages
Threads == {Main} \cup Handlers
NoSession == 0    \* a nil *mcp.ClientSession; the sessions are 1..MaxSessions
Sessions == 1..MaxSessions

VARIABLES
    history,    \* upstream: the catalogs it has had, the current one last
    notif,      \* notifications sent and not yet handed to a handler
    open,       \* the established client sessions not closed yet
    dialled,    \* how many sessions have been established
    session,    \* u.session
    hasServer,  \* u.server # nil
    mirrored,   \* u.mirrored
    tools,      \* the downstream server's registry
    mu,         \* owner of u.mu
    listMu,     \* owner of u.listMu
    pc,         \* where each thread is
    sess,       \* the local variable session of each thread
    page,       \* the next page the thread's listing asks for
    reads,      \* per thread and page: the version of the upstream it was read at
    todo,       \* names of the listing the registration loop has still to visit
    call,       \* per caller: what its forward handler is doing
    asOf,       \* history: per tool, the version the registration stems from
    lost        \* history: the version at which a change was last missed, or 0

upstreamVars == <<history, notif>>
sessionVars == <<open, dialled, session, hasServer>>
localVars == <<sess, page, reads, todo>>
locks == <<mu, listMu>>
mirrorVars == <<mirrored, tools, asOf>>
vars == <<upstreamVars, sessionVars, pc, localVars, mirrorVars, locks, call, lost>>

View == INSTANCE ToolView WITH shown <- tools

MirrorAssumption ==
    /\ MaxVersions \in Nat \ {0}
    /\ MaxSessions \in Nat
    /\ Main \notin Handlers
    /\ Nobody \notin Threads

ASSUME MirrorAssumption
ASSUME MirrorTools == View!ToolConstants

Now == Len(history)
Locations == {"idle", "publish", "resync", "lock", "session", "list", "commit",
              "apply", "close", "reset", "closing"}
CallLocations == {"idle", "lookup", "sent"}

-----------------------------------------------------------------------------
(* What a listing says, and what is made of it. *)

\* Page k as the listing of t has it.
PageRead(t, k) == history[reads[t][k]][k]

Listed(t, n) == \E k \in Pages : PageRead(t, k)[n] # NoTool

\* One name's entries, page by page: later duplicates are skipped (seen).
First(entries) ==
    entries[CHOOSE k \in Pages : /\ entries[k] # NoTool
                                 /\ \A j \in 1..(k - 1) : entries[j] = NoTool]

Definition(t, n) == First([k \in Pages |-> PageRead(t, k)[n]])

MayMirrorReserved(n, d) == d \in Mirrorable

\* The reserved check of SyncTools and the error result of downstreamTool.
MayMirror(n, d) == n \notin Reserved /\ d \in Mirrorable

Goto(t, at) == pc' = [pc EXCEPT ![t] = at]

-----------------------------------------------------------------------------
(* NewUpstream, with the generic tools already registered on the server. *)

Init ==
    /\ \E c \in Catalogs : history = <<c>>
    /\ notif = 0
    /\ open = {} /\ dialled = 0 /\ session = NoSession /\ hasServer = FALSE
    /\ mirrored = {}
    /\ tools = [n \in Tools |-> IF n \in Reserved THEN Own ELSE NoTool]
    /\ mu = Nobody /\ listMu = Nobody
    /\ pc = [t \in Threads |-> "idle"]
    /\ sess = [t \in Threads |-> NoSession]
    /\ page = [t \in Threads |-> 1]
    /\ reads = [t \in Threads |-> [k \in Pages |-> 1]]
    /\ todo = [t \in Threads |-> {}]
    /\ call = [c \in Callers |-> [at |-> "idle", sess |-> NoSession]]
    /\ asOf = [n \in Tools |-> 1]
    /\ lost = 0

-----------------------------------------------------------------------------
(* The upstream server and the notification stream. *)

\* The upstream's tools change; every open session is told.
UpstreamChange ==
    /\ Now < MaxVersions
    /\ \E c \in Catalogs \ {history[Now]} : history' = Append(history, c)
    /\ notif' = notif + Cardinality(open)
    /\ UNCHANGED <<sessionVars, pc, localVars, mirrorVars, locks, call, lost>>

\* The notification stream breaks and a notification is never delivered.
NotificationLost ==
    /\ notif > 0
    /\ notif' = notif - 1
    /\ lost' = Now
    /\ UNCHANGED <<history, sessionVars, pc, localVars, mirrorVars, locks, call>>

\* The client delivers a notification to ToolListChangedHandler.
Notified(h) ==
    /\ pc[h] = "idle"
    /\ notif > 0
    /\ notif' = notif - 1
    /\ Goto(h, "resync")
    /\ UNCHANGED <<history, sessionVars, localVars, mirrorVars, locks, call, lost>>

-----------------------------------------------------------------------------
(* Connect: dial, publish the session, sync; undo the session on failure. *)

\* client.Connect succeeds.  (When it fails Connect changes nothing.)
Dial ==
    /\ pc[Main] = "idle"
    /\ session = NoSession
    /\ dialled < MaxSessions
    /\ dialled' = dialled + 1
    /\ open' = open \cup {dialled + 1}
    /\ sess' = [sess EXCEPT ![Main] = dialled + 1]
    /\ Goto(Main, "publish")
    /\ UNCHANGED <<upstreamVars, session, hasServer, page, reads, todo, mirrorVars,
                   locks, call, lost>>

Publish ==
    /\ pc[Main] = "publish"
    /\ mu = Nobody
    /\ session' = sess[Main]
    /\ hasServer' = TRUE
    /\ Goto(Main, "lock")
    /\ UNCHANGED <<upstreamVars, open, dialled, localVars, mirrorVars, locks, call,
                   lost>>

CloseFailed_Leaks ==
    /\ pc[Main] = "close"
    /\ Goto(Main, "reset")
    /\ UNCHANGED <<upstreamVars, open, dialled, session, hasServer, localVars,
                   mirrorVars, locks, call, lost>>

\* The initial sync failed: Connect closes the session it established ...
CloseFailed ==
    /\ pc[Main] = "close"
    /\ open' = open \ {sess[Main]}
    /\ Goto(Main, "reset")
    /\ UNCHANGED <<upstreamVars, dialled, session, hasServer, localVars, mirrorVars,
                   locks, call, lost>>

\* ... and takes it back, unless u.session is a different one by now.
Reset ==
    /\ pc[Main] = "reset"
    /\ mu = Nobody
    /\ session' = IF session = sess[Main] THEN NoSession ELSE session
    /\ Goto(Main, "idle")
    /\ UNCHANGED <<upstreamVars, open, dialled, hasServer, localVars, mirrorVars, locks,
                   call, lost>>

\* Close: u.session is taken under mu, then closed outside it.
TakeSession ==
    /\ pc[Main] = "idle"
    /\ session # NoSession
    /\ mu = Nobody
    /\ sess' = [sess EXCEPT ![Main] = session]
    /\ session' = NoSession
    /\ Goto(Main, "closing")
    /\ UNCHANGED <<upstreamVars, open, dialled, hasServer, page, reads, todo,
                   mirrorVars, locks, call, lost>>

CloseSession ==
    /\ pc[Main] = "closing"
    /\ open' = open \ {sess[Main]}
    /\ Goto(Main, "idle")
    /\ UNCHANGED <<upstreamVars, dialled, session, hasServer, localVars, mirrorVars,
                   locks, call, lost>>

-----------------------------------------------------------------------------
(* resync and SyncTools, in a handler or (SyncTools only) in Connect. *)

\* resync returns when there is no downstream server yet.
Resync(h) ==
    /\ pc[h] = "resync"
    /\ mu = Nobody
    /\ Goto(h, IF hasServer THEN "lock" ELSE "idle")
    /\ UNCHANGED <<upstreamVars, sessionVars, localVars, mirrorVars, locks, call, lost>>

AcquireList_Unserialized(t) ==
    /\ pc[t] = "lock"
    /\ listMu' = t
    /\ Goto(t, "session")
    /\ UNCHANGED <<upstreamVars, sessionVars, localVars, mirrorVars, mu, call, lost>>

AcquireList(t) ==
    /\ pc[t] = "lock"
    /\ listMu = Nobody
    /\ listMu' = t
    /\ Goto(t, "session")
    /\ UNCHANGED <<upstreamVars, sessionVars, localVars, mirrorVars, mu, call, lost>>

Fail_KeepsListMu(t) ==
    /\ listMu' = listMu
    /\ Goto(t, IF t = Main THEN "close" ELSE "idle")
    /\ lost' = Now

Fail_ClosesInHandler(t) ==
    /\ listMu' = Nobody
    /\ Goto(t, "close")
    /\ lost' = Now

\* SyncTools returns an error: Connect undoes the session, resync logs it.
Fail(t) ==
    /\ listMu' = Nobody
    /\ Goto(t, IF t = Main THEN "close" ELSE "idle")
    /\ lost' = Now

NotConnected(t) ==
    /\ pc[t] = "session"
    /\ mu = Nobody
    /\ session = NoSession
    /\ Fail(t)
    /\ UNCHANGED <<upstreamVars, sessionVars, localVars, mirrorVars, mu, call>>

ReadSession(t) ==
    /\ pc[t] = "session"
    /\ mu = Nobody
    /\ session # NoSession
    /\ sess' = [sess EXCEPT ![t] = session]
    /\ page' = [page EXCEPT ![t] = 1]
    /\ Goto(t, "list")
    /\ UNCHANGED <<upstreamVars, sessionVars, reads, todo, mirrorVars, locks, call,
                   lost>>

\* One round trip of session.Tools.  No lock but listMu is held.
ReadPage(t) ==
    /\ pc[t] = "list"
    /\ sess[t] \in open
    /\ reads' = [reads EXCEPT ![t][page[t]] = Now]
    /\ IF page[t] < NPages
       THEN page' = [page EXCEPT ![t] = @ + 1] /\ UNCHANGED pc
       ELSE Goto(t, "commit") /\ UNCHANGED page
    /\ UNCHANGED <<upstreamVars, sessionVars, sess, todo, mirrorVars, locks, call,
                   lost>>

\* The upstream answers with an error, the session is closed, or syncTimeout passes.
ListFails(t) ==
    /\ pc[t] = "list"
    /\ Fail(t)
    /\ UNCHANGED <<upstreamVars, sessionVars, localVars, mirrorVars, mu, call>>

BeginApply(t) ==
    /\ pc[t] = "commit"
    /\ mu = Nobody
    /\ mu' = t
    /\ todo' = [todo EXCEPT ![t] = {n \in Tools : Listed(t, n)}]
    /\ Goto(t, "apply")
    /\ UNCHANGED <<upstreamVars, sessionVars, sess, page, reads, mirrorVars, listMu,
                   call, lost>>

\* One turn of the registration loop.
Register(t, n) ==
    /\ pc[t] = "apply"
    /\ n \in todo[t]
    /\ todo' = [todo EXCEPT ![t] = @ \ {n}]
    /\ IF MayMirror(n, Definition(t, n))
       THEN /\ tools' = [tools EXCEPT ![n] = Definition(t, n)]
            /\ mirrored' = mirrored \cup {n}
            /\ asOf' = [asOf EXCEPT ![n] = reads[t][1]]
       ELSE UNCHANGED mirrorVars
    /\ UNCHANGED <<upstreamVars, sessionVars, pc, sess, page, reads, locks, call, lost>>

Vanished_None(t) == {}

\* What the removal loop, which follows the registration loop, has still to remove.
Vanished(t) == {n \in mirrored : ~Listed(t, n)}

Remove(t, n) ==
    /\ pc[t] = "apply"
    /\ todo[t] = {}
    /\ n \in Vanished(t)
    /\ tools' = [tools EXCEPT ![n] = NoTool]
    /\ mirrored' = mirrored \ {n}
    /\ asOf' = [asOf EXCEPT ![n] = reads[t][1]]
    /\ UNCHANGED <<upstreamVars, sessionVars, pc, localVars, locks, call, lost>>

Unlock_KeepsMu == listMu' = Nobody /\ UNCHANGED mu

\* The deferred unlocks of SyncTools.
Unlock == mu' = Nobody /\ listMu' = Nobody

\* SyncTools returns nil.
EndApply(t) ==
    /\ pc[t] = "apply"
    /\ todo[t] = {}
    /\ Vanished(t) = {}
    /\ Unlock
    /\ Goto(t, "idle")
    /\ lost' = IF lost <= reads[t][1] THEN 0 ELSE lost
    /\ UNCHANGED <<upstreamVars, sessionVars, localVars, mirrorVars, call>>

-----------------------------------------------------------------------------
(* forward: the handler of a mirrored tool. *)

Call(c) ==
    /\ call[c].at = "idle"
    /\ \E n \in Tools : tools[n] \in Defs
    /\ call' = [call EXCEPT ![c].at = "lookup"]
    /\ UNCHANGED <<upstreamVars, sessionVars, pc, localVars, mirrorVars, locks, lost>>

\* The session is looked up at call time; without one the call fails.
Lookup(c) ==
    /\ call[c].at = "lookup"
    /\ mu = Nobody
    /\ call' = [call EXCEPT ![c] = [at |-> IF session = NoSession THEN "idle" ELSE "sent",
                                    sess |-> session]]
    /\ UNCHANGED <<upstreamVars, sessionVars, pc, localVars, mirrorVars, locks, lost>>

\* session.CallTool returns, with a result or an error.  It has no timeout.
Return(c) ==
    /\ call[c].at = "sent"
    /\ call' = [call EXCEPT ![c] = [at |-> "idle", sess |-> NoSession]]
    /\ UNCHANGED <<upstreamVars, sessionVars, pc, localVars, mirrorVars, locks, lost>>

-----------------------------------------------------------------------------
Sync(t) ==
    \/ AcquireList(t) \/ NotConnected(t) \/ ReadSession(t) \/ ReadPage(t)
    \/ ListFails(t) \/ BeginApply(t) \/ EndApply(t)
    \/ \E n \in Tools : Register(t, n) \/ Remove(t, n)

Connect == Dial \/ Publish \/ CloseFailed \/ Reset
Close == TakeSession \/ CloseSession
Forward(c) == Call(c) \/ Lookup(c) \/ Return(c)

Next ==
    \/ UpstreamChange \/ NotificationLost
    \/ Connect \/ Close
    \/ \E h \in Handlers : Notified(h) \/ Resync(h)
    \/ \E t \in Threads : Sync(t)
    \/ \E c \in Callers : Forward(c)

Spec == Init /\ [][Next]_vars

(***************************************************************************)
(* Go's mutexes do not starve a waiter, so what waits for mu or listMu is  *)
(* strongly fair; local steps are weakly fair.  A listing is cut off by    *)
(* syncTimeout, so ListFails is weakly fair: an upstream that never        *)
(* answers is allowed, which is why ReadPage and Return are not fair.      *)
(* Nothing makes Main call Connect or Close, or a client call a tool.      *)
(***************************************************************************)
ThreadFairness(t) ==
    /\ SF_vars(AcquireList(t))
    /\ SF_vars(NotConnected(t) \/ ReadSession(t))
    /\ WF_vars(ListFails(t))
    /\ SF_vars(BeginApply(t))
    /\ WF_vars(EndApply(t) \/ \E n \in Tools : Register(t, n) \/ Remove(t, n))

Fairness ==
    /\ \A t \in Threads : ThreadFairness(t)
    /\ SF_vars(Publish) /\ WF_vars(CloseFailed) /\ SF_vars(Reset)
    /\ WF_vars(CloseSession)
    /\ \A h \in Handlers : WF_vars(Notified(h)) /\ SF_vars(Resync(h))
    /\ \A c \in Callers : SF_vars(Lookup(c))

FairSpec == Spec /\ Fairness

-----------------------------------------------------------------------------
(* Properties. *)

TypeOK ==
    /\ history \in Seq(Catalogs) /\ Now >= 1
    /\ notif \in Nat
    /\ dialled \in 0..MaxSessions
    /\ open \subseteq 1..dialled
    /\ session \in 0..dialled
    /\ hasServer \in BOOLEAN
    /\ mirrored \subseteq Tools
    /\ tools \in [Tools -> Defs \cup {NoTool, Own}]
    /\ mu \in Threads \cup {Nobody}
    /\ listMu \in Threads \cup {Nobody}
    /\ pc \in [Threads -> Locations]
    /\ \A h \in Handlers : pc[h] \notin {"publish", "close", "reset", "closing"}
    /\ pc[Main] # "resync"
    /\ sess \in [Threads -> 0..dialled]
    /\ page \in [Threads -> Pages]
    /\ reads \in [Threads -> [Pages -> 1..Now]]
    /\ todo \in [Threads -> SUBSET Tools]
    /\ call \in [Callers -> [at : CallLocations, sess : 0..dialled]]
    /\ asOf \in [Tools -> 1..Now]
    /\ lost \in 0..Now

\* "mu ... is only ever held for fast in-memory sections - never across network round
\* trips, so mirrored tool handlers are not blocked by a slow or hung tools/list"
\* (upstream.go, Upstream): whoever owns mu is in the registration loop, and owns
\* listMu as well, which a thread owns exactly inside SyncTools.
LockDiscipline ==
    /\ \A t \in Threads : mu = t <=> pc[t] = "apply"
    /\ \A t \in Threads :
          listMu = t <=> pc[t] \in {"session", "list", "commit", "apply"}

\* The proxy's own tools are never replaced nor removed, and u.mirrored is exactly
\* the rest of the registry, also while it is being updated: a tool missing in
\* u.mirrored would never be removed again.
RegistryKnown ==
    \A n \in Tools :
        /\ n \in Reserved => tools[n] = Own
        /\ n \notin Reserved => tools[n] # Own
        /\ n \in mirrored <=> tools[n] \in Defs

\* No session outlives its use: the only session open is u.session, or the one Main
\* is still about to publish or to close.
NoSessionLeak ==
    \A s \in open :
        \/ s = session
        \/ s = sess[Main] /\ pc[Main] \in {"publish", "close", "closing"}

\* What the current catalog has under n.
Offer(n) ==
    IF \E k \in Pages : history[Now][k][n] # NoTool
    THEN First([k \in Pages |-> history[Now][k][n]])
    ELSE NoTool

Quiescent == notif = 0 /\ \A t \in Threads : pc[t] = "idle"

\* No change of the upstream is overlooked: connected, with every notification handled
\* and unless the last change fell to a failed sync or a lost notification, the
\* registry is the upstream's current list.  It is so although notifications that
\* precede the publication of the server are dropped, listings are read page by page
\* while the upstream changes, and startup and notification syncs race.  A tool whose
\* current definition cannot be mirrored is only required not to be reserved.
Converged ==
    Quiescent /\ session # NoSession /\ lost # Now =>
        \A n \in Tools \ Reserved :
            /\ Offer(n) = NoTool => tools[n] = NoTool
            /\ Offer(n) \in Mirrorable => tools[n] = Offer(n)

\* What downstream clients see is an implementation of ToolView: only what the upstream
\* offered, and never an older state of it after a newer one (syncs do not overtake
\* each other between listing and registration).
ImplementsView == View!Spec

\* Every SyncTools returns, also with an upstream that never answers (syncTimeout), so
\* that no later sync waits for listMu forever.
SyncReturns == \A t \in Threads : pc[t] = "lock" ~> pc[t] \in {"idle", "close"}

\* A mirrored tool's handler gets past the session lookup whatever the syncs do.
LookupProceeds == \A c \in Callers : call[c].at = "lookup" ~> call[c].at # "lookup"

=============================================================================
