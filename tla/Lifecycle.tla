----------------------------- MODULE Lifecycle -----------------------------
(***************************************************************************)
(* run() of media-sidecar and of mcp-media-proxy: one goroutine per HTTP   *)
(* server, a channel for their errors, a signal, and the shutdown that     *)
(* both have in common.  A program is the set of its servers and whether   *)
(* it keeps an upstream session (the proxy in full mode).  The http.Server *)
(* is net/http's: Shutdown marks it, closes its listeners and waits for    *)
(* its requests; a server that is marked before it listens never serves.   *)
(***************************************************************************)
EXTENDS Naturals, FiniteSets

CONSTANTS
    Programs,       \* records [servers, upstream]
    MaxRequests     \* bound: requests underway at a server

VARIABLES
    prog,           \* the program this process runs
    pc,             \* where run() is
    stop,           \* ctx is done: SIGINT or SIGTERM came
    srv,            \* where each server's goroutine is
    reqs,           \* requests underway at each server
    errCh,          \* the servers whose errors are in the channel
    shut,           \* the servers Shutdown was called on
    current,        \* the server whose Shutdown call is underway
    expired,        \* shutdownCtx has run out of its shutdownTimeout
    session,        \* the upstream session
    failed          \* runErr or shutdownErr is an error

vars == <<prog, pc, stop, srv, reqs, errCh, shut, current, expired, session, failed>>

Servers == UNION {p.servers : p \in Programs}

LifecycleAssumption ==
    /\ \A p \in Programs : p.servers # {} /\ IsFiniteSet(p.servers) /\ p.upstream \in BOOLEAN
    /\ MaxRequests \in Nat

ASSUME LifecycleAssumption

Stages == {"start", "connected", "wait", "drain", "shutting", "done"}
Goroutine == {"none", "starting", "checked", "bound", "serving", "closed", "failing",
              "reported"}

\* The types, and what depends on the stage run() is at: its session is open until it
\* returns, and nothing is shut down while it waits.
TypeOK ==
    /\ prog \in Programs /\ pc \in Stages
    /\ stop \in BOOLEAN /\ expired \in BOOLEAN /\ failed \in BOOLEAN
    /\ srv \in [Servers -> Goroutine]
    /\ reqs \in [Servers -> 0..MaxRequests]
    /\ errCh \subseteq prog.servers /\ shut \subseteq prog.servers
    /\ current \in prog.servers
    /\ session \in {"none", "open", "closed"}
    /\ session = "closed" => pc = "done"
    /\ pc \in {"start", "connected", "wait"} => shut = {} /\ ~expired

Init ==
    /\ prog \in Programs /\ pc = "start"
    /\ stop = FALSE /\ expired = FALSE /\ failed = FALSE
    /\ srv = [s \in Servers |-> "none"]
    /\ reqs = [s \in Servers |-> 0]
    /\ errCh = {} /\ shut = {} /\ current \in prog.servers
    /\ session = "none"

-----------------------------------------------------------------------------
(* The goroutines: srv.ListenAndServe, then the error to errCh. *)

Accepting(s) == srv[s] = "serving" /\ s \notin shut

Capacity_One == 1

\* make(chan error, len(servers)), and 1 for the proxy's one server.
Capacity == Cardinality(prog.servers)

Becomes(s, state) == srv' = [srv EXCEPT ![s] = state]

ServerUnchanged == UNCHANGED <<prog, pc, stop, reqs, errCh, shut, current, expired, session,
                               failed>>

\* ListenAndServe: is the server shutting down already?
Check(s) ==
    /\ srv[s] = "starting"
    /\ Becomes(s, IF s \in shut THEN "closed" ELSE "checked")
    /\ ServerUnchanged

Listen(s) ==
    /\ srv[s] = "checked"
    /\ Becomes(s, "bound") \/ Becomes(s, "failing")
    /\ ServerUnchanged

\* Serve asks once more, under the lock that Shutdown takes.
Serve(s) ==
    /\ srv[s] = "bound"
    /\ Becomes(s, IF s \in shut THEN "closed" ELSE "serving")
    /\ ServerUnchanged

AcceptFails(s) ==
    /\ Accepting(s)
    /\ Becomes(s, "failing")
    /\ ServerUnchanged

\* ErrServerClosed, which is not an error to report.
ServerClosed(s) ==
    /\ srv[s] = "serving" /\ s \in shut
    /\ Becomes(s, "closed")
    /\ ServerUnchanged

Send(s) ==
    /\ srv[s] = "failing"
    /\ Cardinality(errCh) < Capacity
    /\ errCh' = errCh \cup {s}
    /\ Becomes(s, "reported")
    /\ UNCHANGED <<prog, pc, stop, reqs, shut, current, expired, session, failed>>

Request(s) ==
    /\ Accepting(s) /\ reqs[s] < MaxRequests
    /\ reqs' = [reqs EXCEPT ![s] = @ + 1]
    /\ UNCHANGED <<prog, pc, stop, srv, errCh, shut, current, expired, session, failed>>

Finish(s) ==
    /\ reqs[s] > 0
    /\ reqs' = [reqs EXCEPT ![s] = @ - 1]
    /\ UNCHANGED <<prog, pc, stop, srv, errCh, shut, current, expired, session, failed>>

-----------------------------------------------------------------------------
(* run. *)

Signal ==
    /\ ~stop /\ pc # "done"
    /\ stop' = TRUE
    /\ UNCHANGED <<prog, pc, srv, reqs, errCh, shut, current, expired, session, failed>>

\* A root that is no directory, a handler that is refused, an upstream out of reach.
Refuse ==
    /\ pc = "start"
    /\ pc' = "done" /\ failed' = TRUE
    /\ UNCHANGED <<prog, stop, srv, reqs, errCh, shut, current, expired, session>>

\* up.Connect(ctx, server), which a signal makes fail.
ConnectUpstream ==
    /\ pc = "start" /\ prog.upstream /\ ~stop
    /\ pc' = "connected" /\ session' = "open"
    /\ UNCHANGED <<prog, stop, srv, reqs, errCh, shut, current, expired, failed>>

Launch ==
    /\ pc = IF prog.upstream THEN "connected" ELSE "start"
    /\ pc' = "wait"
    /\ srv' = [s \in Servers |-> IF s \in prog.servers THEN "starting" ELSE "none"]
    /\ UNCHANGED <<prog, stop, reqs, errCh, shut, current, expired, session, failed>>

SelectStop_ClosesFirst ==
    /\ pc = "wait" /\ stop
    /\ pc' = "drain"
    /\ session' = IF session = "open" THEN "closed" ELSE session
    /\ UNCHANGED <<prog, stop, srv, reqs, errCh, shut, current, expired, failed>>

\* The select takes whichever of its two channels is ready, either when both are.
SelectStop ==
    /\ pc = "wait" /\ stop
    /\ pc' = "drain"
    /\ UNCHANGED <<prog, stop, srv, reqs, errCh, shut, current, expired, session, failed>>

SelectError_Forgets ==
    /\ pc = "wait"
    /\ \E s \in errCh : errCh' = errCh \ {s}
    /\ pc' = "drain"
    /\ UNCHANGED <<prog, stop, srv, reqs, shut, current, expired, session, failed>>

SelectError ==
    /\ pc = "wait"
    /\ \E s \in errCh : errCh' = errCh \ {s}
    /\ pc' = "drain" /\ failed' = TRUE
    /\ UNCHANGED <<prog, stop, srv, reqs, shut, current, expired, session>>


\* shutdownTimeout, counted from the select on and shared by every Shutdown call.
Expire ==
    /\ pc \in {"drain", "shutting"} /\ ~expired
    /\ expired' = TRUE
    /\ UNCHANGED <<prog, pc, stop, srv, reqs, errCh, shut, current, session, failed>>

BeginShutdown_Closes(s) ==
    /\ pc = "drain" /\ s \in prog.servers \ shut
    /\ shut' = shut \cup {s}
    /\ current' = s
    /\ UNCHANGED <<prog, pc, stop, srv, reqs, errCh, expired, session, failed>>

\* srv.Shutdown, in the order the map is ranged over; it returns at once when idle.
BeginShutdown(s) ==
    /\ pc = "drain" /\ s \in prog.servers \ shut
    /\ shut' = shut \cup {s}
    /\ current' = s
    /\ pc' = IF reqs[s] = 0 THEN "drain" ELSE "shutting"
    /\ UNCHANGED <<prog, stop, srv, reqs, errCh, expired, session, failed>>

ShutdownTimesOut_GivesUp ==
    /\ pc = "shutting" /\ expired
    /\ pc' = "done" /\ failed' = TRUE
    /\ session' = IF session = "open" THEN "closed" ELSE session
    /\ UNCHANGED <<prog, stop, srv, reqs, errCh, shut, current, expired>>

ShutdownTimesOut ==
    /\ pc = "shutting" /\ expired
    /\ pc' = "drain" /\ failed' = TRUE
    /\ UNCHANGED <<prog, stop, srv, reqs, errCh, shut, current, expired, session>>

ShutdownDone ==
    /\ pc = "shutting" /\ reqs[current] = 0
    /\ pc' = "drain"
    /\ UNCHANGED <<prog, stop, srv, reqs, errCh, shut, current, expired, session, failed>>

\* Every server was shut down; the deferred up.Close runs as run returns.
Return ==
    /\ pc = "drain" /\ shut = prog.servers
    /\ pc' = "done"
    /\ session' = IF session = "open" THEN "closed" ELSE session
    /\ UNCHANGED <<prog, stop, srv, reqs, errCh, shut, current, expired, failed>>

-----------------------------------------------------------------------------

Run ==
    \/ Refuse \/ ConnectUpstream \/ Launch
    \/ SelectStop \/ SelectError
    \/ \E s \in Servers : BeginShutdown(s)
    \/ ShutdownTimesOut \/ ShutdownDone \/ Return

ServerStep(s) == Check(s) \/ Listen(s) \/ Serve(s) \/ ServerClosed(s) \/ Send(s)

Next ==
    \/ Run \/ Signal \/ Expire
    \/ \E s \in Servers : ServerStep(s) \/ AcceptFails(s) \/ Request(s) \/ Finish(s)

Spec == Init /\ [][Next]_vars

\* Goroutines are scheduled and the timer fires.  Nothing makes a signal come, a server
\* fail, or a request arrive or finish.
Fairness ==
    /\ WF_vars(Run)
    /\ WF_vars(Expire)
    /\ \A s \in Servers : WF_vars(ServerStep(s))

FairSpec == Spec /\ Fairness

-----------------------------------------------------------------------------
(* What both programs promise. *)

\* A goroutine whose server failed can always hand its error over, although run reads one
\* error at most: none of them outlives run blocked on errCh.
NoSenderBlocks == \A s \in Servers : srv[s] = "failing" => Cardinality(errCh) < Capacity

\* Once run has returned no server takes requests, not even one whose goroutine had not yet
\* come to listen when it was shut down.
QuietAfterReturn == pc = "done" => \A s \in Servers : ~Accepting(s)

\* A request that is underway is not cut off, nor left without the upstream session it may
\* need, before shutdownTimeout has passed: shutdown is graceful.
GracePeriod ==
    pc = "done" \/ session = "closed" => expired \/ \A s \in Servers : reqs[s] = 0

\* run returns no error only when a signal ended it and it left no request behind.
CleanExit == pc = "done" /\ ~failed => stop /\ \A s \in Servers : reqs[s] = 0


=============================================================================
