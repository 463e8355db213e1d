-------------------------- MODULE LifecycleProofs --------------------------
(***************************************************************************)
(* What the processes promise, for any programs and any number of requests.*)
(* The invariant Inv says which goroutines have run by when, and what each *)
(* Shutdown call leaves behind; the promises follow from it.               *)
(***************************************************************************)
EXTENDS Lifecycle, FiniteSetTheorems, TLAPS

Waiting == pc \in {"start", "connected", "wait"}

\* No goroutine runs before Launch, nor one of another program's servers; who reported an
\* error failed; what is in the channel was reported.
Goroutines ==
    /\ pc \in {"start", "connected"} => \A s \in Servers : srv[s] = "none"
    /\ \A s \in Servers \ prog.servers : srv[s] = "none"
    /\ \A s \in errCh : srv[s] = "reported"
    /\ \A s \in Servers : srv[s] = "none" => reqs[s] = 0

\* run returns before Launch or after Shutdown of every server.
Returned == pc = "done" => shut = prog.servers \/ \A s \in Servers : srv[s] = "none"

\* A server that was shut down has no request left unless the time was up or its Shutdown
\* call still waits; and a call whose time was up made run fail.
Drained ==
    \A s \in shut :
        \/ reqs[s] = 0
        \/ pc = "shutting" /\ current = s
        \/ expired /\ failed

\* What makes run leave its select.
Cause == ~Waiting /\ ~failed => stop

Inv == TypeOK /\ Goroutines /\ Returned /\ Drained /\ Cause

LEMMA ProgramServers == \A p \in Programs : p.servers \subseteq Servers
BY DEF Servers

LEMMA InvInit == Init => Inv
<1> SUFFICES ASSUME Init
             PROVE  Inv
  OBVIOUS
<1>1. TypeOK
  <2>1. 0 \in 0..MaxRequests
    BY LifecycleAssumption DEF LifecycleAssumption
  <2>2. /\ srv \in [Servers -> Goroutine]
        /\ reqs \in [Servers -> 0..MaxRequests]
    BY <2>1 DEF Init, Goroutine
  <2> QED
    BY <2>2 DEF Init, TypeOK, Stages
<1>2. Goroutines
  BY DEF Init, Goroutines
<1>3. Returned /\ Drained /\ Cause
  BY DEF Init, Returned, Drained, Cause, Waiting
<1> QED
  BY <1>1, <1>2, <1>3 DEF Inv

\* A step of a server's goroutine that leaves everything else alone.
LEMMA GoroutineStep ==
    ASSUME Inv, NEW s \in prog.servers, NEW state \in Goroutine \ {"none"},
           srv[s] \notin {"none", "reported"}, Becomes(s, state), ServerUnchanged
    PROVE  Inv'
<1>1. s \in Servers /\ srv \in [Servers -> Goroutine]
  BY ProgramServers DEF Inv, TypeOK
<1>2. srv'[s] = state /\ \A t \in Servers : t # s => srv'[t] = srv[t]
  BY <1>1 DEF Becomes
<1>3. TypeOK'
  BY <1>1 DEF Inv, TypeOK, Becomes, ServerUnchanged
<1>4. Goroutines'
  <2>1. \A t \in errCh : t \in Servers
    BY ProgramServers DEF Inv, TypeOK
  <2> QED
    BY <1>1, <1>2, <2>1 DEF Inv, Goroutines, ServerUnchanged
<1>5. Returned'
  BY <1>1 DEF Inv, Returned, ServerUnchanged
<1>6. Drained' /\ Cause'
  BY DEF Inv, Drained, Cause, Waiting, ServerUnchanged
<1> QED
  BY <1>3, <1>4, <1>5, <1>6 DEF Inv

\* A server with a goroutine is one of the program's.
LEMMA Launched ==
    ASSUME Inv, NEW s \in Servers, srv[s] # "none"
    PROVE  s \in prog.servers
BY DEF Inv, Goroutines

LEMMA ServerSteps ==
    ASSUME Inv, NEW s \in Servers, ServerStep(s) \/ AcceptFails(s)
    PROVE  Inv'
<1>1. CASE Check(s)
  BY <1>1, Launched, GoroutineStep DEF Check, Goroutine
<1>2. CASE Listen(s)
  BY <1>2, Launched, GoroutineStep DEF Listen, Goroutine
<1>3. CASE Serve(s)
  BY <1>3, Launched, GoroutineStep DEF Serve, Goroutine
<1>4. CASE ServerClosed(s)
  BY <1>4, Launched, GoroutineStep DEF ServerClosed, Goroutine
<1>5. CASE AcceptFails(s)
  BY <1>5, Launched, GoroutineStep DEF AcceptFails, Accepting, Goroutine
<1>6. CASE Send(s)
  <2>1. s \in prog.servers /\ srv' = [srv EXCEPT ![s] = "reported"] /\ errCh' = errCh \cup {s}
        /\ UNCHANGED <<prog, pc, stop, reqs, shut, current, expired, session, failed>>
    BY <1>6, Launched DEF Send, Becomes
  <2>2. srv \in [Servers -> Goroutine] /\ errCh \subseteq Servers /\ srv[s] # "none"
    BY <1>6, ProgramServers DEF Inv, TypeOK, Send
  <2>3. TypeOK'
    BY <2>1, <2>2 DEF Inv, TypeOK, Goroutine
  <2>4. Goroutines'
    BY <2>1, <2>2 DEF Inv, Goroutines
  <2>5. Returned'
    BY <2>1, <2>2 DEF Inv, Returned
  <2>6. Drained' /\ Cause'
    BY <2>1 DEF Inv, Drained, Cause, Waiting
  <2> QED
    BY <2>3, <2>4, <2>5, <2>6 DEF Inv
<1> QED
  BY <1>1, <1>2, <1>3, <1>4, <1>5, <1>6 DEF ServerStep

LEMMA RequestSteps ==
    ASSUME Inv, NEW s \in Servers, Request(s) \/ Finish(s)
    PROVE  Inv'
<1>1. /\ reqs' \in [Servers -> 0..MaxRequests]
      /\ \A t \in Servers : t # s => reqs'[t] = reqs[t]
      /\ reqs'[s] = 0 \/ srv[s] # "none"
      /\ s \in shut => reqs[s] > 0
  BY LifecycleAssumption DEF LifecycleAssumption, Inv, TypeOK, Goroutines, Request, Finish, Accepting
<1>2. UNCHANGED <<prog, pc, stop, srv, errCh, shut, current, expired, session, failed>>
  BY DEF Request, Finish
<1>3. TypeOK'
  BY <1>1, <1>2 DEF Inv, TypeOK
<1>4. Goroutines'
  BY <1>1, <1>2 DEF Inv, Goroutines
<1>5. Returned' /\ Cause'
  BY <1>2 DEF Inv, Returned, Cause, Waiting
<1>6. Drained'
  <2>1. shut \subseteq Servers
    BY ProgramServers DEF Inv, TypeOK
  <2> QED
    BY <1>1, <1>2, <2>1 DEF Inv, Drained
<1> QED
  BY <1>3, <1>4, <1>5, <1>6 DEF Inv

LEMMA RunSteps == ASSUME Inv, Run \/ Signal \/ Expire PROVE Inv'
<1> USE DEF Inv, TypeOK, Stages, Goroutines, Returned, Drained, Cause, Waiting
<1>1. CASE Refuse
  BY <1>1 DEF Refuse
<1>2. CASE ConnectUpstream
  BY <1>2 DEF ConnectUpstream
<1>3. CASE Launch
  <2>1. /\ srv' = [s \in Servers |-> IF s \in prog.servers THEN "starting" ELSE "none"]
        /\ pc \in {"start", "connected"} /\ pc' = "wait"
        /\ UNCHANGED <<prog, stop, reqs, errCh, shut, current, expired, session, failed>>
    BY <1>3 DEF Launch
  <2>2. errCh = {}
    <3>1. errCh \subseteq Servers
      BY ProgramServers
    <3> QED
      BY <2>1, <3>1
  <2> QED
    BY <2>1, <2>2 DEF Goroutine
<1>4. CASE SelectStop
  BY <1>4 DEF SelectStop
<1>5. CASE SelectError
  BY <1>5 DEF SelectError
<1>6. ASSUME NEW s \in Servers, BeginShutdown(s)
      PROVE  Inv'
  BY <1>6 DEF BeginShutdown
<1>7. CASE ShutdownTimesOut
  BY <1>7 DEF ShutdownTimesOut
<1>8. CASE ShutdownDone
  BY <1>8 DEF ShutdownDone
<1>9. CASE Return
  BY <1>9 DEF Return
<1>10. CASE Signal
  BY <1>10 DEF Signal
<1>11. CASE Expire
  BY <1>11 DEF Expire
<1> QED
  BY <1>1, <1>2, <1>3, <1>4, <1>5, <1>6, <1>7, <1>8, <1>9, <1>10, <1>11 DEF Run

LEMMA InvStep == Inv /\ [Next]_vars => Inv'
<1> SUFFICES ASSUME Inv, [Next]_vars
             PROVE  Inv'
  OBVIOUS
<1>1. CASE UNCHANGED vars
  BY <1>1 DEF vars, Inv, TypeOK, Goroutines, Returned, Drained, Cause, Waiting
<1> QED
  BY <1>1, ServerSteps, RequestSteps, RunSteps DEF Next

\* Inv holds of every reachable state.
THEOREM Invariant == Spec => []Inv
BY InvInit, InvStep, PTL DEF Spec

\* Every variable stays in its type, and the session is kept until run returns.
THEOREM TypeCorrect == Spec => []TypeOK
<1>1. Inv => TypeOK
  BY DEF Inv
<1> QED
  BY <1>1, Invariant, PTL

\* The channel has room for the error of every server of the program, so that no goroutine
\* is ever blocked on errCh, whichever errors run reads.
THEOREM SendersNeverBlock == Spec => []NoSenderBlocks
<1>1. Inv => NoSenderBlocks
  <2> SUFFICES ASSUME Inv, NEW s \in Servers, srv[s] = "failing"
               PROVE  Cardinality(errCh) < Cardinality(prog.servers)
    BY DEF NoSenderBlocks, Capacity
  <2>1. IsFiniteSet(prog.servers)
    BY LifecycleAssumption DEF LifecycleAssumption, Inv, TypeOK
  <2>2. s \in prog.servers
    BY Launched
  <2>3. errCh \subseteq prog.servers /\ s \notin errCh
    BY DEF Inv, TypeOK, Goroutines
  <2>4. errCh # prog.servers
    BY <2>2, <2>3
  <2>5. Cardinality(errCh) \in Nat /\ Cardinality(prog.servers) \in Nat
    BY <2>1, <2>3, FS_Subset, FS_CardinalityType
  <2> QED
    BY <2>1, <2>3, <2>4, <2>5, FS_Subset
<1> QED
  BY <1>1, Invariant, PTL

\* No server of a process whose run has returned takes a request.
THEOREM NothingServesAfterReturn == Spec => []QuietAfterReturn
<1>1. Inv => QuietAfterReturn
  BY Launched DEF Inv, Returned, QuietAfterReturn, Accepting
<1> QED
  BY <1>1, Invariant, PTL

\* Shutdown is graceful for each request of each server.
THEOREM ShutdownIsGraceful == Spec => []GracePeriod
<1>1. Inv => GracePeriod
  BY DEF Inv, TypeOK, Goroutines, Returned, Drained, GracePeriod
<1> QED
  BY <1>1, Invariant, PTL

\* An exit with status 0 follows a signal and leaves no request behind.
THEOREM CleanExitIsClean == Spec => []CleanExit
<1>1. Inv => CleanExit
  BY DEF Inv, TypeOK, Goroutines, Returned, Drained, Cause, Waiting, CleanExit
<1> QED
  BY <1>1, Invariant, PTL

=============================================================================
