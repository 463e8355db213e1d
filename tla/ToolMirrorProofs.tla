-------------------------- MODULE ToolMirrorProofs --------------------------
(***************************************************************************)
(* Proofs about ToolMirror: its type invariant, the lock discipline, the   *)
(* registry invariant, that it implements ToolView, and that it converges. *)
(***************************************************************************)
EXTENDS ToolMirror, FiniteSetTheorems, TLAPS

-----------------------------------------------------------------------------
(* Facts about the constants and the helpers. *)

LEMMA Constants ==
    /\ Reserved \subseteq Tools
    /\ Mirrorable \subseteq Defs
    /\ NoTool \notin Defs /\ Own \notin Defs /\ Own # NoTool
    /\ NPages \in Nat /\ NPages >= 1
    /\ Catalogs \subseteq [Pages -> [Tools -> Defs \cup {NoTool}]]
BY MirrorTools DEF View!ToolConstants, View!Pages, Pages

\* A nonempty set of pages has a least element: among the intervals 1..k that its
\* elements bound there is one that contains no smaller one.
LEMMA LeastPage ==
    ASSUME NEW S \in SUBSET Pages, S # {}
    PROVE  \E k \in S : \A m \in S : k <= m
<1> DEFINE R == StrictSubsetOrdering(Pages)
           T == {1..k : k \in S}
<1>1. IsWellFoundedOn(R, FiniteSubsetsOf(Pages))
  BY FS_StrictSubsetOrderingWellFounded
<1>2. IsFiniteSet(Pages)
  BY Constants, FS_Interval DEF Pages
<1>3. IsWellFoundedOn(R, SUBSET Pages)
  BY <1>1, <1>2, FS_FiniteSubsetsOfFinite
<1>4. T \subseteq SUBSET Pages /\ T # {}
  <2>1. ASSUME NEW k \in S
        PROVE  1..k \subseteq Pages
    BY Constants DEF Pages
  <2> QED
    BY <2>1
<1>5. \E x \in T : \A y \in T : <<y, x>> \notin R
  <2> HIDE DEF R, T
  <2> QED BY <1>3, <1>4, WFMin
<1>6. PICK k \in S : \A m \in S : <<1..m, 1..k>> \notin R
  BY <1>5
<1>7. ASSUME NEW m \in S, m < k
      PROVE  FALSE
  <2>1. 1..m \subseteq Pages /\ 1..k \subseteq Pages /\ 1..m \subseteq 1..k
    BY <1>7, Constants DEF Pages
  <2>2. k \in 1..k /\ k \notin 1..m
    BY <1>7, Constants DEF Pages
  <2> QED
    BY <1>6, <2>1, <2>2 DEF StrictSubsetOrdering
<1> QED
  BY <1>7, Constants DEF Pages

\* The first entry of a name in a paged listing is the entry of one of its pages, and
\* not an absent one, when there is any (the seen map of SyncTools).
LEMMA FirstEntry ==
    ASSUME NEW entries, \E k \in Pages : entries[k] # NoTool
    PROVE  \E k \in Pages : First(entries) = entries[k] /\ entries[k] # NoTool
<1> DEFINE S == {k \in Pages : entries[k] # NoTool}
<1>1. PICK k \in S : \A m \in S : k <= m
  BY LeastPage
<1>2. \A j \in 1..(k - 1) : entries[j] = NoTool
  BY <1>1, Constants DEF Pages
<1>3. \E i \in Pages : /\ entries[i] # NoTool
                       /\ \A j \in 1..(i - 1) : entries[j] = NoTool
  BY <1>1, <1>2
<1> QED
  BY <1>3 DEF First

-----------------------------------------------------------------------------
(* Type correctness. *)

\* What Init and every action need of the definitions of the tuples of variables.
LEMMA TypeInit == Init => TypeOK
<1> SUFFICES ASSUME Init
             PROVE  TypeOK
  OBVIOUS
<1>1. PICK c \in Catalogs : history = <<c>>
  BY DEF Init
<1>2. history \in Seq(Catalogs) /\ Now = 1
  BY <1>1 DEF Now
<1>3. 1 \in Pages
  BY Constants DEF Pages
<1>4. /\ reads \in [Threads -> [Pages -> 1..Now]]
      /\ asOf \in [Tools -> 1..Now]
      /\ page \in [Threads -> Pages]
  BY <1>2, <1>3 DEF Init
<1>5. /\ pc \in [Threads -> Locations] /\ pc[Main] = "idle"
      /\ \A h \in Handlers : pc[h] = "idle"
  BY DEF Init, Threads, Locations
<1>6. /\ tools \in [Tools -> Defs \cup {NoTool, Own}]
      /\ call \in [Callers -> [at : CallLocations, sess : 0..dialled]]
      /\ sess \in [Threads -> 0..dialled]
      /\ todo \in [Threads -> SUBSET Tools]
  BY DEF Init, NoSession, CallLocations
<1>7. /\ dialled \in 0..MaxSessions /\ session \in 0..dialled
      /\ open \subseteq 1..dialled /\ notif \in Nat /\ lost \in 0..Now
  BY <1>2, MirrorAssumption DEF Init, NoSession, MirrorAssumption
<1>8. /\ hasServer \in BOOLEAN /\ mirrored \subseteq Tools
      /\ mu = Nobody /\ listMu = Nobody
  BY DEF Init
<1> QED
  BY <1>2, <1>4, <1>5, <1>6, <1>7, <1>8 DEF TypeOK

\* The version a page is read at, and a definition mirrored from it.
LEMMA ReadType ==
    ASSUME TypeOK, NEW t \in Threads, NEW k \in Pages, NEW n \in Tools
    PROVE  PageRead(t, k)[n] \in Defs \cup {NoTool}
<1>1. reads[t][k] \in 1..Len(history)
  BY DEF TypeOK, Now
<1>2. history[reads[t][k]] \in Catalogs
  BY <1>1 DEF TypeOK
<1> QED
  BY <1>2, Constants DEF PageRead

LEMMA TypeStep == TypeOK /\ [Next]_vars => TypeOK'
<1> SUFFICES ASSUME TypeOK, [Next]_vars
             PROVE  TypeOK'
  OBVIOUS
<1> USE DEF TypeOK, Goto, Now, Locations, CallLocations, Threads, localVars,
        locks, Unlock
<1>1. CASE UpstreamChange
  <2> USE <1>1 DEF UpstreamChange
  <2>1. IsFiniteSet(open)
    <3>1. IsFiniteSet(1..dialled)
      BY FS_Interval, MirrorAssumption DEF MirrorAssumption
    <3> QED
      BY <3>1, FS_Subset
  <2>2. notif' \in Nat
    BY <2>1, FS_CardinalityType
  <2>3. history' \in Seq(Catalogs) /\ Len(history') = Len(history) + 1
    OBVIOUS
  <2>4. /\ reads \in [Threads -> [Pages -> 1..(Len(history) + 1)]]
        /\ asOf \in [Tools -> 1..(Len(history) + 1)]
        /\ lost \in 0..(Len(history) + 1)
    OBVIOUS
  <2> QED
    BY <2>2, <2>3, <2>4 DEF sessionVars, mirrorVars
<1>2. CASE NotificationLost
  BY <1>2, MirrorAssumption DEF MirrorAssumption, NotificationLost, sessionVars, mirrorVars
<1>3. CASE Dial
  BY <1>3, MirrorAssumption DEF MirrorAssumption, Dial, upstreamVars, mirrorVars, NoSession
<1>4. CASE Publish
  BY <1>4, MirrorAssumption DEF MirrorAssumption, Publish, upstreamVars, mirrorVars
<1>5. CASE CloseFailed
  BY <1>5, MirrorAssumption DEF MirrorAssumption, CloseFailed, upstreamVars, mirrorVars
<1>6. CASE Reset
  BY <1>6, MirrorAssumption DEF MirrorAssumption, Reset, upstreamVars, mirrorVars, NoSession
<1>7. CASE TakeSession
  BY <1>7, MirrorAssumption DEF MirrorAssumption, TakeSession, upstreamVars, mirrorVars, NoSession
<1>8. CASE CloseSession
  BY <1>8, MirrorAssumption DEF MirrorAssumption, CloseSession, upstreamVars, mirrorVars
<1>9. ASSUME NEW h \in Handlers, Notified(h)
      PROVE  TypeOK'
  BY <1>9, MirrorAssumption DEF MirrorAssumption, Notified, sessionVars, mirrorVars
<1>10. ASSUME NEW h \in Handlers, Resync(h)
      PROVE  TypeOK'
  BY <1>10, MirrorAssumption DEF MirrorAssumption, Resync, upstreamVars, sessionVars, mirrorVars
<1>11. ASSUME NEW t \in Threads, AcquireList(t)
      PROVE  TypeOK'
  BY <1>11, MirrorAssumption DEF MirrorAssumption, AcquireList, upstreamVars, sessionVars, mirrorVars
<1>12. ASSUME NEW t \in Threads, NotConnected(t)
      PROVE  TypeOK'
  BY <1>12, MirrorAssumption DEF MirrorAssumption, NotConnected, Fail, upstreamVars, sessionVars, mirrorVars
<1>13. ASSUME NEW t \in Threads, ReadSession(t)
      PROVE  TypeOK'
  <2>1. 1 \in Pages
    BY Constants DEF Pages
  <2> QED
    BY <1>13, <2>1 DEF ReadSession, upstreamVars, sessionVars, mirrorVars
<1>14. ASSUME NEW t \in Threads, ReadPage(t)
      PROVE  TypeOK'
  <2> USE <1>14 DEF ReadPage
  <2>1. reads' \in [Threads -> [Pages -> 1..Len(history)]]
    OBVIOUS
  <2>2. page' \in [Threads -> Pages]
    <3>1. page[t] < NPages => page[t] + 1 \in Pages
      BY Constants DEF Pages
    <3> QED
      BY <3>1
  <2>3. /\ pc' \in [Threads -> Locations]
        /\ \A h \in Handlers : pc'[h] \notin {"publish", "close", "reset", "closing"}
        /\ pc'[Main] # "resync"
    OBVIOUS
  <2> QED
    BY <2>1, <2>2, <2>3 DEF upstreamVars, sessionVars, mirrorVars
<1>15. ASSUME NEW t \in Threads, ListFails(t)
      PROVE  TypeOK'
  BY <1>15, MirrorAssumption DEF MirrorAssumption, ListFails, Fail, upstreamVars, sessionVars, mirrorVars
<1>16. ASSUME NEW t \in Threads, BeginApply(t)
      PROVE  TypeOK'
  BY <1>16, MirrorAssumption DEF MirrorAssumption, BeginApply, upstreamVars, sessionVars, mirrorVars
<1>17. ASSUME NEW t \in Threads, EndApply(t)
      PROVE  TypeOK'
  BY <1>17, MirrorAssumption DEF MirrorAssumption, EndApply, upstreamVars, sessionVars, mirrorVars
<1>18. ASSUME NEW t \in Threads, NEW n \in Tools, Register(t, n)
      PROVE  TypeOK'
  <2> USE <1>18 DEF Register
  <2>1. reads[t][1] \in 1..Len(history)
    BY Constants DEF Pages
  <2>2. MayMirror(n, Definition(t, n)) => Definition(t, n) \in Defs
    BY Constants DEF MayMirror
  <2>3. /\ tools' \in [Tools -> Defs \cup {NoTool, Own}]
        /\ mirrored' \subseteq Tools
        /\ asOf' \in [Tools -> 1..Len(history)]
    <3>1. CASE MayMirror(n, Definition(t, n))
      <4>1. /\ tools' = [tools EXCEPT ![n] = Definition(t, n)]
            /\ mirrored' = mirrored \cup {n}
            /\ asOf' = [asOf EXCEPT ![n] = reads[t][1]]
        BY <3>1
      <4>2. tools' \in [Tools -> Defs \cup {NoTool, Own}]
        BY <3>1, <4>1, <2>2
      <4>3. asOf' \in [Tools -> 1..Len(history)]
        BY <4>1, <2>1
      <4> QED
        BY <4>1, <4>2, <4>3
    <3>2. CASE ~MayMirror(n, Definition(t, n))
      BY <3>2 DEF mirrorVars
    <3> QED
      BY <3>1, <3>2
  <2> QED
    BY <2>3 DEF upstreamVars, sessionVars
<1>19. ASSUME NEW t \in Threads, NEW n \in Tools, Remove(t, n)
      PROVE  TypeOK'
  <2>1. reads[t][1] \in 1..Len(history)
    BY Constants DEF Pages
  <2> QED
    BY <1>19, <2>1 DEF Remove, upstreamVars, sessionVars
<1>20. ASSUME NEW c \in Callers, Call(c)
      PROVE  TypeOK'
  <2>1. call' \in [Callers -> [at : CallLocations, sess : 0..dialled]]
    <3>1. call' = [call EXCEPT ![c] = [call[c] EXCEPT !.at = "lookup"]]
      BY <1>20 DEF Call
    <3>2. /\ call \in [Callers -> [at : CallLocations, sess : 0..dialled]]
          /\ "lookup" \in CallLocations /\ c \in Callers
      OBVIOUS
    <3> QED
      BY ONLY <3>1, <3>2
  <2>2. UNCHANGED <<upstreamVars, sessionVars, pc, localVars, mirrorVars, locks, lost>>
    BY <1>20 DEF Call
  <2> QED
    BY <2>1, <2>2 DEF upstreamVars, sessionVars, mirrorVars
<1>21. ASSUME NEW c \in Callers, Lookup(c)
      PROVE  TypeOK'
  BY <1>21, MirrorAssumption DEF MirrorAssumption, Lookup, NoSession, upstreamVars, sessionVars, mirrorVars
<1>22. ASSUME NEW c \in Callers, Return(c)
      PROVE  TypeOK'
  BY <1>22, MirrorAssumption DEF MirrorAssumption, Return, NoSession, upstreamVars, sessionVars, mirrorVars
<1>23. CASE UNCHANGED vars
  BY <1>23 DEF vars, upstreamVars, sessionVars, mirrorVars
<1> QED
  BY <1>1, <1>2, <1>3, <1>4, <1>5, <1>6, <1>7, <1>8, <1>9, <1>10, <1>11, <1>12, <1>13, <1>14, <1>15, <1>16, <1>17, <1>18, <1>19, <1>20, <1>21, <1>22, <1>23
     DEF Next, Connect, Close, Sync, Forward

THEOREM TypeCorrect == Spec => []TypeOK
BY TypeInit, TypeStep, PTL DEF Spec

-----------------------------------------------------------------------------
(* The locks. *)

\* mu and listMu are owned exactly where the code holds them.
LEMMA LockStep == TypeOK /\ LockDiscipline /\ [Next]_vars => LockDiscipline'
<1> SUFFICES ASSUME TypeOK, LockDiscipline, [Next]_vars
             PROVE  LockDiscipline'
  OBVIOUS
<1> USE MirrorAssumption DEF MirrorAssumption, LockDiscipline, TypeOK, Goto, Threads,
        localVars, locks, Unlock
<1>1. CASE UpstreamChange
  BY <1>1 DEF UpstreamChange
<1>2. CASE NotificationLost
  BY <1>2 DEF NotificationLost
<1>3. CASE Dial
  BY <1>3 DEF Dial
<1>4. CASE Publish
  BY <1>4 DEF Publish
<1>5. CASE CloseFailed
  BY <1>5 DEF CloseFailed
<1>6. CASE Reset
  BY <1>6 DEF Reset
<1>7. CASE TakeSession
  BY <1>7 DEF TakeSession
<1>8. CASE CloseSession
  BY <1>8 DEF CloseSession
<1>9. ASSUME NEW h \in Handlers, Notified(h)
      PROVE  LockDiscipline'
  BY <1>9 DEF Notified
<1>10. ASSUME NEW h \in Handlers, Resync(h)
      PROVE  LockDiscipline'
  BY <1>10 DEF Resync
<1>11. ASSUME NEW t \in Threads, AcquireList(t)
      PROVE  LockDiscipline'
  BY <1>11 DEF AcquireList
<1>12. ASSUME NEW t \in Threads, NotConnected(t)
      PROVE  LockDiscipline'
  BY <1>12 DEF NotConnected, Fail
<1>13. ASSUME NEW t \in Threads, ReadSession(t)
      PROVE  LockDiscipline'
  BY <1>13 DEF ReadSession
<1>14. ASSUME NEW t \in Threads, ReadPage(t)
      PROVE  LockDiscipline'
  BY <1>14 DEF ReadPage
<1>15. ASSUME NEW t \in Threads, ListFails(t)
      PROVE  LockDiscipline'
  BY <1>15 DEF ListFails, Fail
<1>16. ASSUME NEW t \in Threads, BeginApply(t)
      PROVE  LockDiscipline'
  BY <1>16 DEF BeginApply
<1>17. ASSUME NEW t \in Threads, EndApply(t)
      PROVE  LockDiscipline'
  BY <1>17 DEF EndApply
<1>18. ASSUME NEW t \in Threads, NEW n \in Tools, Register(t, n)
      PROVE  LockDiscipline'
  BY <1>18 DEF Register
<1>19. ASSUME NEW t \in Threads, NEW n \in Tools, Remove(t, n)
      PROVE  LockDiscipline'
  BY <1>19 DEF Remove
<1>20. ASSUME NEW c \in Callers, Call(c)
      PROVE  LockDiscipline'
  BY <1>20 DEF Call
<1>21. ASSUME NEW c \in Callers, Lookup(c)
      PROVE  LockDiscipline'
  BY <1>21 DEF Lookup
<1>22. ASSUME NEW c \in Callers, Return(c)
      PROVE  LockDiscipline'
  BY <1>22 DEF Return
<1>23. CASE UNCHANGED vars
  BY <1>23 DEF vars, upstreamVars, sessionVars, mirrorVars
<1> QED
  BY <1>1, <1>2, <1>3, <1>4, <1>5, <1>6, <1>7, <1>8, <1>9, <1>10, <1>11, <1>12, <1>13, <1>14, <1>15, <1>16, <1>17, <1>18, <1>19, <1>20, <1>21, <1>22, <1>23
     DEF Next, Connect, Close, Sync, Forward

\* For any number of handlers and callers mu is never held across a round trip to the
\* upstream, and at most one goroutine is inside SyncTools.
THEOREM LocksDisciplined == Spec => []LockDiscipline
<1>1. Init => LockDiscipline
  BY MirrorAssumption DEF Init, LockDiscipline, MirrorAssumption, Threads
<1> QED
  BY <1>1, TypeCorrect, LockStep, PTL DEF Spec

-----------------------------------------------------------------------------
(* The registry. *)

LEMMA RegistryStep == TypeOK /\ RegistryKnown /\ [Next]_vars => RegistryKnown'
<1> SUFFICES ASSUME TypeOK, RegistryKnown, [Next]_vars
             PROVE  RegistryKnown'
  OBVIOUS
<1>1. ASSUME NEW t \in Threads, NEW n \in Tools, Register(t, n)
      PROVE  RegistryKnown'
  <2>1. CASE MayMirror(n, Definition(t, n))
    <3>1. n \notin Reserved /\ Definition(t, n) \in Defs /\ Definition(t, n) # Own
      BY <2>1, Constants DEF MayMirror
    <3>2. /\ tools' = [tools EXCEPT ![n] = Definition(t, n)]
          /\ mirrored' = mirrored \cup {n}
      BY <1>1, <2>1 DEF Register
    <3> QED
      BY <3>1, <3>2 DEF RegistryKnown, TypeOK
  <2>2. CASE ~MayMirror(n, Definition(t, n))
    BY <1>1, <2>2 DEF Register, mirrorVars, RegistryKnown
  <2> QED
    BY <2>1, <2>2
<1>2. ASSUME NEW t \in Threads, NEW n \in Tools, Remove(t, n)
      PROVE  RegistryKnown'
  BY <1>2, Constants DEF Remove, Vanished, RegistryKnown, TypeOK
<1>3. CASE UNCHANGED mirrorVars
  BY <1>3 DEF mirrorVars, RegistryKnown
<1> QED
  BY <1>1, <1>2, <1>3
     DEF Next, Connect, Close, Sync, Forward, vars, UpstreamChange, NotificationLost,
         Dial, Publish, CloseFailed, Reset, TakeSession, CloseSession, Notified, Resync,
         AcquireList, NotConnected, ReadSession, ReadPage, ListFails, BeginApply,
         EndApply, Call, Lookup, Return

\* Whatever the upstream lists, the proxy's own tools stay registered, and u.mirrored
\* names exactly the other registered tools.
THEOREM RegistryCorrect == Spec => []RegistryKnown
<1>1. Init => RegistryKnown
  BY Constants DEF Init, RegistryKnown
<1> QED
  BY <1>1, TypeCorrect, RegistryStep, PTL DEF Spec

-----------------------------------------------------------------------------
(* The sessions. *)

\* NoSessionLeak is not inductive: it needs that Connect publishes over no session, and
\* that the session it takes back after a failure is closed already.
SessionInv ==
    /\ NoSessionLeak
    /\ pc[Main] = "publish" => session = NoSession
    /\ pc[Main] = "reset" => sess[Main] \notin open

LEMMA SessionStep == TypeOK /\ SessionInv /\ [Next]_vars => SessionInv'
<1> SUFFICES ASSUME TypeOK, SessionInv, [Next]_vars
             PROVE  SessionInv'
  OBVIOUS
<1> USE MirrorAssumption
    DEF MirrorAssumption, SessionInv, NoSessionLeak, NoSession, TypeOK, Goto, Threads,
        localVars, locks, Unlock
<1>1. CASE UpstreamChange
  BY <1>1 DEF UpstreamChange, sessionVars
<1>2. CASE NotificationLost
  BY <1>2 DEF NotificationLost, sessionVars
<1>3. CASE Dial
  BY <1>3 DEF Dial
<1>4. CASE Publish
  BY <1>4 DEF Publish
<1>5. CASE CloseFailed
  BY <1>5 DEF CloseFailed
<1>6. CASE Reset
  BY <1>6 DEF Reset
<1>7. CASE TakeSession
  BY <1>7 DEF TakeSession
<1>8. CASE CloseSession
  BY <1>8 DEF CloseSession
<1>9. ASSUME NEW h \in Handlers, Notified(h)
      PROVE  SessionInv'
  BY <1>9 DEF Notified, sessionVars
<1>10. ASSUME NEW h \in Handlers, Resync(h)
      PROVE  SessionInv'
  BY <1>10 DEF Resync, sessionVars
<1>11. ASSUME NEW t \in Threads, AcquireList(t)
      PROVE  SessionInv'
  BY <1>11 DEF AcquireList, sessionVars
<1>12. ASSUME NEW t \in Threads, NotConnected(t)
      PROVE  SessionInv'
  BY <1>12 DEF NotConnected, Fail, sessionVars
<1>13. ASSUME NEW t \in Threads, ReadSession(t)
      PROVE  SessionInv'
  BY <1>13 DEF ReadSession, sessionVars
<1>14. ASSUME NEW t \in Threads, ReadPage(t)
      PROVE  SessionInv'
  BY <1>14 DEF ReadPage, sessionVars
<1>15. ASSUME NEW t \in Threads, ListFails(t)
      PROVE  SessionInv'
  BY <1>15 DEF ListFails, Fail, sessionVars
<1>16. ASSUME NEW t \in Threads, BeginApply(t)
      PROVE  SessionInv'
  BY <1>16 DEF BeginApply, sessionVars
<1>17. ASSUME NEW t \in Threads, EndApply(t)
      PROVE  SessionInv'
  BY <1>17 DEF EndApply, sessionVars
<1>18. ASSUME NEW t \in Threads, NEW n \in Tools, Register(t, n)
      PROVE  SessionInv'
  BY <1>18 DEF Register, sessionVars
<1>19. ASSUME NEW t \in Threads, NEW n \in Tools, Remove(t, n)
      PROVE  SessionInv'
  BY <1>19 DEF Remove, sessionVars
<1>20. ASSUME NEW c \in Callers, Call(c)
      PROVE  SessionInv'
  BY <1>20 DEF Call, sessionVars
<1>21. ASSUME NEW c \in Callers, Lookup(c)
      PROVE  SessionInv'
  BY <1>21 DEF Lookup, sessionVars
<1>22. ASSUME NEW c \in Callers, Return(c)
      PROVE  SessionInv'
  BY <1>22 DEF Return, sessionVars
<1>23. CASE UNCHANGED vars
  BY <1>23 DEF vars, upstreamVars, sessionVars, mirrorVars
<1> QED
  BY <1>1, <1>2, <1>3, <1>4, <1>5, <1>6, <1>7, <1>8, <1>9, <1>10, <1>11, <1>12, <1>13, <1>14, <1>15, <1>16, <1>17, <1>18, <1>19, <1>20, <1>21, <1>22, <1>23
     DEF Next, Connect, Close, Sync, Forward

\* The proxy never leaves a session open that it has no longer a use for.
THEOREM SessionsClosed == Spec => []NoSessionLeak
<1>1. Init => SessionInv
  BY DEF Init, SessionInv, NoSessionLeak, Threads
<1>2. SessionInv => NoSessionLeak
  BY DEF SessionInv
<1> QED
  BY <1>1, <1>2, TypeCorrect, SessionStep, PTL DEF Spec

-----------------------------------------------------------------------------
(* The refinement of ToolView. *)

\* A listing is no older than its first page, and its first page no older than anything
\* registered: listMu lets no other sync register in between.  What the registration
\* loop visits is on the listing.
ThreadFresh(t) ==
    /\ pc[t] = "list" /\ page[t] > 1 =>
         /\ \A k \in Pages : k < page[t] => reads[t][1] <= reads[t][k]
         /\ \A n \in Tools : asOf[n] <= reads[t][1]
    /\ pc[t] \in {"commit", "apply"} =>
         /\ \A k \in Pages : reads[t][1] <= reads[t][k]
         /\ \A n \in Tools : asOf[n] <= reads[t][1]
    /\ pc[t] = "apply" => \A n \in todo[t] : Listed(t, n)

FreshInv == \A t \in Threads : ThreadFresh(t)

\* What a listing says does not depend on what the upstream does afterwards.
LEMMA ListedStable ==
    ASSUME TypeOK, UNCHANGED reads,
           UNCHANGED history \/ \E c \in Catalogs : history' = Append(history, c),
           NEW t \in Threads, NEW n \in Tools
    PROVE  Listed(t, n)' = Listed(t, n)
<1>1. ASSUME NEW k \in Pages
      PROVE  history'[reads[t][k]] = history[reads[t][k]]
  <2>1. reads[t][k] \in 1..Len(history)
    BY DEF TypeOK, Now
  <2>2. CASE UNCHANGED history
    BY <2>2
  <2>3. ASSUME NEW c \in Catalogs, history' = Append(history, c)
        PROVE  history'[reads[t][k]] = history[reads[t][k]]
    BY <2>1, <2>3 DEF TypeOK
  <2> QED
    BY <2>2, <2>3
<1> QED
  BY <1>1 DEF Listed, PageRead

\* What leaves the listings and the mirror alone, and starts no listing, keeps them fresh.
LEMMA FreshFrame ==
    ASSUME FreshInv, UNCHANGED <<history, page, reads, todo, asOf>>,
           \A t \in Threads : pc'[t] = pc[t] \/ pc'[t] \notin {"list", "commit", "apply"}
    PROVE  FreshInv'
BY DEF FreshInv, ThreadFresh, Listed, PageRead, Now

LEMMA FreshStep ==
    TypeOK /\ LockDiscipline /\ FreshInv /\ [Next]_vars => FreshInv'
<1> SUFFICES ASSUME TypeOK, LockDiscipline, FreshInv, [Next]_vars
             PROVE  FreshInv'
  OBVIOUS
<1> USE DEF FreshInv, ThreadFresh, TypeOK, Goto, Threads, Listed,
        PageRead, localVars, locks, Unlock
<1>1. CASE UpstreamChange
  <2>1. UNCHANGED <<pc, page, reads, todo, asOf>>
    BY <1>1 DEF UpstreamChange, mirrorVars
  <2>2. \A t \in Threads, n \in Tools : Listed(t, n)' = Listed(t, n)
    BY <1>1, <2>1, ListedStable DEF UpstreamChange
  <2> QED
    BY <2>1, <2>2
<1>2. ASSUME NEW t \in Threads, ReadSession(t)
      PROVE  FreshInv'
  <2>1. ThreadFresh(t)'
    BY <1>2 DEF ReadSession
  <2>2. ASSUME NEW u \in Threads, u # t
        PROVE  ThreadFresh(u)'
    BY <1>2, <2>2 DEF ReadSession, upstreamVars, mirrorVars
  <2> QED
    BY <2>1, <2>2
<1>3. ASSUME NEW t \in Threads, ReadPage(t)
      PROVE  FreshInv'
  <2>1. \A n \in Tools : asOf[n] <= Now
    BY DEF Now
  <2>2. \A k \in Pages : reads[t][k] <= Now
    BY DEF Now
  <2>3. ThreadFresh(t)'
    <3>1. /\ pc[t] = "list" /\ page[t] \in 1..NPages
          /\ reads' = [reads EXCEPT ![t][page[t]] = Now]
          /\ UNCHANGED asOf
      BY <1>3 DEF ReadPage, mirrorVars, Pages
    <3>2. /\ \A k \in Pages : k <= page[t] => reads'[t][1] <= reads'[t][k]
          /\ \A n \in Tools : asOf'[n] <= reads'[t][1]
      <4>1. 1 \in Pages /\ Pages \subseteq Nat /\ Now \in Nat
        BY Constants DEF Pages, Now
      <4>2. CASE page[t] = 1
        <5>1. reads'[t][1] = Now
          BY <3>1, <4>1, <4>2
        <5>2. \A k \in Pages : k <= page[t] => k = 1
          BY <4>1, <4>2 DEF Pages
        <5> QED
          BY <3>1, <4>1, <5>1, <5>2, <2>1
      <4>3. CASE page[t] > 1
        <5>1. /\ reads'[t][1] = reads[t][1]
              /\ reads'[t][page[t]] = Now
              /\ \A k \in Pages : k # page[t] => reads'[t][k] = reads[t][k]
          <6>1. page[t] # 1 /\ page[t] \in Pages
            BY <3>1, <4>3 DEF Pages
          <6>2. reads'[t] = [reads[t] EXCEPT ![page[t]] = Now]
            BY <3>1
          <6>3. reads[t] \in [Pages -> 1..Now]
            OBVIOUS
          <6> QED
            BY <4>1, <6>1, <6>2, <6>3
        <5>2. reads[t][1] <= Now /\ \A k \in Pages : k < page[t] => reads[t][1] <= reads[t][k]
          BY <2>2, <3>1, <4>1, <4>3
        <5>3. \A n \in Tools : asOf'[n] <= reads[t][1]
          BY <3>1, <4>3
        <5>4. \A k \in Pages : k <= page[t] => k = page[t] \/ k < page[t]
          BY <3>1, <4>1
        <5> QED
          BY <5>1, <5>2, <5>3, <5>4
      <4> QED
        BY <3>1, <4>2, <4>3
    <3>4. CASE page[t] < NPages
      BY <1>3, <3>1, <3>2, <3>4 DEF ReadPage, Pages
    <3>5. CASE page[t] = NPages
      BY <1>3, <3>1, <3>2, <3>5, Constants DEF ReadPage, Pages
    <3> QED
      BY <3>1, <3>4, <3>5, Constants
  <2>4. ASSUME NEW u \in Threads, u # t
        PROVE  ThreadFresh(u)'
    BY <1>3, <2>4 DEF ReadPage, upstreamVars, mirrorVars
  <2> QED
    BY <2>3, <2>4
<1>4. ASSUME NEW t \in Threads, BeginApply(t)
      PROVE  FreshInv'
  <2>1. UNCHANGED <<history, page, reads, asOf>>
    BY <1>4 DEF BeginApply, upstreamVars, mirrorVars
  <2>2. /\ pc[t] = "commit" /\ pc' = [pc EXCEPT ![t] = "apply"]
        /\ todo' = [todo EXCEPT ![t] = {n \in Tools : Listed(t, n)}]
    BY <1>4 DEF BeginApply
  <2>3. ThreadFresh(t)'
    BY <2>1, <2>2
  <2>4. ASSUME NEW u \in Threads, u # t
        PROVE  ThreadFresh(u)'
    BY <2>1, <2>2, <2>4
  <2> QED
    BY <2>3, <2>4
<1>5. ASSUME NEW t \in Threads, NEW n \in Tools, Register(t, n) \/ Remove(t, n)
      PROVE  FreshInv'
  <2>1. pc[t] = "apply" /\ \A u \in Threads \ {t} : pc[u] \notin {"list", "commit", "apply"}
    BY <1>5, MirrorAssumption DEF Register, Remove, LockDiscipline, MirrorAssumption
  <2>2. UNCHANGED <<history, pc, page, reads>> /\ todo'[t] \subseteq todo[t]
    BY <1>5 DEF Register, Remove, upstreamVars
  <2>3. \A m \in Tools : asOf'[m] \in {asOf[m], reads[t][1]}
    BY <1>5 DEF Register, Remove, mirrorVars
  <2>4. 1 \in Pages /\ reads[t][1] <= reads[t][1]
    BY Constants DEF Pages
  <2>5. ThreadFresh(t)'
    BY <2>1, <2>2, <2>3, <2>4
  <2>6. ASSUME NEW u \in Threads, u # t
        PROVE  ThreadFresh(u)'
    BY <2>1, <2>2, <2>6
  <2> QED
    BY <2>5, <2>6
<1>6. CASE NotificationLost
  BY <1>6, FreshFrame DEF NotificationLost, mirrorVars
<1>7. CASE Dial
  BY <1>7, FreshFrame DEF Dial, upstreamVars, mirrorVars
<1>8. CASE Publish
  BY <1>8, FreshFrame DEF Publish, upstreamVars, mirrorVars
<1>9. CASE CloseFailed
  BY <1>9, FreshFrame DEF CloseFailed, upstreamVars, mirrorVars
<1>10. CASE Reset
  BY <1>10, FreshFrame DEF Reset, upstreamVars, mirrorVars
<1>11. CASE TakeSession
  BY <1>11, FreshFrame DEF TakeSession, upstreamVars, mirrorVars
<1>12. CASE CloseSession
  BY <1>12, FreshFrame DEF CloseSession, upstreamVars, mirrorVars
<1>13. ASSUME NEW h \in Handlers, Notified(h)
      PROVE  FreshInv'
  BY <1>13, FreshFrame DEF Notified, mirrorVars
<1>14. ASSUME NEW h \in Handlers, Resync(h)
      PROVE  FreshInv'
  BY <1>14, FreshFrame DEF Resync, upstreamVars, mirrorVars
<1>15. ASSUME NEW t \in Threads, AcquireList(t)
      PROVE  FreshInv'
  BY <1>15, FreshFrame DEF AcquireList, upstreamVars, mirrorVars
<1>16. ASSUME NEW t \in Threads, NotConnected(t)
      PROVE  FreshInv'
  BY <1>16, FreshFrame DEF NotConnected, Fail, upstreamVars, mirrorVars
<1>17. ASSUME NEW t \in Threads, ListFails(t)
      PROVE  FreshInv'
  BY <1>17, FreshFrame DEF ListFails, Fail, upstreamVars, mirrorVars
<1>18. ASSUME NEW t \in Threads, EndApply(t)
      PROVE  FreshInv'
  BY <1>18, FreshFrame DEF EndApply, upstreamVars, mirrorVars
<1>19. ASSUME NEW c \in Callers, Call(c)
      PROVE  FreshInv'
  BY <1>19, FreshFrame DEF Call, upstreamVars, mirrorVars
<1>20. ASSUME NEW c \in Callers, Lookup(c)
      PROVE  FreshInv'
  BY <1>20, FreshFrame DEF Lookup, upstreamVars, mirrorVars
<1>21. ASSUME NEW c \in Callers, Return(c)
      PROVE  FreshInv'
  BY <1>21, FreshFrame DEF Return, upstreamVars, mirrorVars
<1>22. CASE UNCHANGED vars
  BY <1>22, FreshFrame DEF vars, upstreamVars, mirrorVars
<1> QED
  BY <1>1, <1>2, <1>3, <1>4, <1>5, <1>6, <1>7, <1>8, <1>9, <1>10, <1>11, <1>12, <1>13, <1>14, <1>15, <1>16, <1>17, <1>18, <1>19, <1>20, <1>21, <1>22
     DEF Next, Connect, Close, Sync, Forward

LEMMA RegisterRefreshes ==
    ASSUME TypeOK, FreshInv, NEW t \in Threads, NEW n \in Tools, Register(t, n)
    PROVE  View!Refresh(n) \/ UNCHANGED View!vars
<1>1. CASE ~MayMirror(n, Definition(t, n))
  BY <1>1 DEF Register, mirrorVars, upstreamVars, View!vars
<1>2. CASE MayMirror(n, Definition(t, n))
  <2> DEFINE d == Definition(t, n)
             v == reads[t][1]
  <2>1. PICK k \in Pages : d = PageRead(t, k)[n]
    <3>1. Listed(t, n)
      BY DEF Register, FreshInv, ThreadFresh
    <3> QED
      BY <3>1, FirstEntry DEF Listed, Definition
  <2>2. /\ v \in asOf[n]..Len(history)
        /\ reads[t][k] \in v..Len(history)
    <3>1. 1 \in Pages
      BY Constants DEF Pages
    <3>2. asOf[n] <= v /\ v <= reads[t][k]
      BY <3>1 DEF Register, FreshInv, ThreadFresh
    <3> QED
      BY <3>1, <3>2 DEF TypeOK, Now
  <2>3. View!OfferedSince(n, d, v)
    BY <2>1, <2>2 DEF View!OfferedSince, View!Now, View!Pages, PageRead, Pages
  <2>4. n \notin Reserved /\ d \in Mirrorable
    BY <1>2 DEF MayMirror
  <2>5. /\ tools' = [tools EXCEPT ![n] = d]
        /\ asOf' = [asOf EXCEPT ![n] = v]
        /\ UNCHANGED history
    BY <1>2 DEF Register, upstreamVars
  <2> QED
    BY <2>2, <2>3, <2>4, <2>5 DEF View!Refresh, View!Now
<1> QED
  BY <1>1, <1>2

LEMMA RemoveRefreshes ==
    ASSUME TypeOK, FreshInv, RegistryKnown,
           NEW t \in Threads, NEW n \in Tools, Remove(t, n)
    PROVE  View!Refresh(n)
<1> DEFINE v == reads[t][1]
<1>1. n \in mirrored /\ ~Listed(t, n)
  BY DEF Remove, Vanished
<1>2. n \notin Reserved
  BY <1>1, Constants DEF RegistryKnown
<1>3. /\ v \in asOf[n]..Len(history)
      /\ \A k \in Pages : reads[t][k] \in v..Len(history)
  <2>1. 1 \in Pages
    BY Constants DEF Pages
  <2>2. asOf[n] <= v /\ \A k \in Pages : v <= reads[t][k]
    BY <2>1 DEF Remove, FreshInv, ThreadFresh
  <2> QED
    BY <2>1, <2>2 DEF TypeOK, Now
<1>4. View!MissedSince(n, v)
  BY <1>1, <1>3 DEF Listed, PageRead, View!MissedSince, View!Now, View!Pages, Pages
<1>5. /\ tools' = [tools EXCEPT ![n] = NoTool]
      /\ asOf' = [asOf EXCEPT ![n] = v]
      /\ UNCHANGED history
  BY DEF Remove, upstreamVars
<1> QED
  BY <1>2, <1>3, <1>4, <1>5 DEF View!Refresh, View!Now

LEMMA StepRefines ==
    TypeOK /\ FreshInv /\ RegistryKnown /\ [Next]_vars => [View!Next]_View!vars
<1> SUFFICES ASSUME TypeOK, FreshInv, RegistryKnown, [Next]_vars
             PROVE  View!Next \/ UNCHANGED View!vars
  OBVIOUS
<1>1. CASE UpstreamChange
  BY <1>1 DEF UpstreamChange, mirrorVars, View!Next, View!Change
<1>2. ASSUME NEW t \in Threads, NEW n \in Tools, Register(t, n)
      PROVE  View!Next \/ UNCHANGED View!vars
  BY <1>2, RegisterRefreshes DEF View!Next
<1>3. ASSUME NEW t \in Threads, NEW n \in Tools, Remove(t, n)
      PROVE  View!Next
  BY <1>3, RemoveRefreshes DEF View!Next
<1>4. CASE UNCHANGED <<history, tools, asOf>>
  BY <1>4 DEF View!vars
<1> QED
  BY <1>1, <1>2, <1>3, <1>4
     DEF Next, Connect, Close, Sync, Forward, vars, NotificationLost, Dial, Publish,
         CloseFailed, Reset, TakeSession, CloseSession, Notified, Resync, AcquireList,
         NotConnected, ReadSession, ReadPage, ListFails, BeginApply, EndApply, Call,
         Lookup, Return, upstreamVars, mirrorVars

\* What downstream clients see is an implementation of ToolView, for every number of
\* goroutines, pages and changes: syncs never show an older list after a newer one,
\* and never touch the proxy's own tools.
THEOREM MirrorImplementsView == Spec => ImplementsView
<1>1. Init => View!Init
  BY DEF Init, View!Init, View!InitialShown
<1>2. Init => FreshInv
  BY DEF Init, FreshInv, ThreadFresh
<1> QED
  BY <1>1, <1>2, TypeCorrect, LocksDisciplined, RegistryCorrect, FreshStep, StepRefines,
     PTL DEF Spec, ImplementsView, View!Spec

-----------------------------------------------------------------------------
(* Convergence. *)

\* Where Main stands with the session it made: published by it alone, with the server, and
\* open until it closes it.
MainSession ==
    /\ session # NoSession => hasServer = TRUE
    /\ session # NoSession /\ pc[Main] # "reset" => session \in open
    /\ pc[Main] = "publish" => sess[Main] \in open /\ sess[Main] # NoSession
    /\ pc[Main] = "closing" => session = NoSession
    /\ pc[Main] \in {"lock", "session", "list", "commit", "apply", "close", "reset"} =>
           session = sess[Main]

\* What the registration loop has visited is registered.
ThreadApplied(t) ==
    pc[t] = "apply" =>
        \A n \in Tools \ todo[t] :
            Listed(t, n) /\ MayMirror(n, Definition(t, n)) => tools[n] = Definition(t, n)

AppliedInv == \A t \in Threads : ThreadApplied(t)

Current ==
    \A n \in Tools \ Reserved :
        /\ Offer(n) = NoTool => tools[n] = NoTool
        /\ Offer(n) \in Mirrorable => tools[n] = Offer(n)

Listing == {"list", "commit", "apply"}

\* The sync of t has not yet seen anything but the current catalog.
Ahead(t) ==
    \/ pc[t] \in {"resync", "lock", "session"}
    \/ pc[t] = "list" /\ \A k \in Pages : k < page[t] => reads[t][k] = Now
    \/ pc[t] \in {"commit", "apply"} /\ \A k \in Pages : reads[t][k] = Now

\* A connected mirror is current, with nobody at work who could change that, or a sync is
\* ahead, or a notification is, or the last change was missed.
Covered ==
    \/ lost = Now
    \/ notif > 0
    \/ \E t \in Threads : Ahead(t)
    \/ Current /\ \A t \in Threads : pc[t] \notin Listing

Connected == session # NoSession /\ pc[Main] \notin {"close", "reset"}

ConvergeInv == Connected => Covered

LEMMA MainSessionStep == TypeOK /\ SessionInv /\ MainSession /\ [Next]_vars => MainSession'
<1> SUFFICES ASSUME TypeOK, SessionInv, MainSession, [Next]_vars
             PROVE  MainSession'
  OBVIOUS
<1> USE MirrorAssumption
    DEF MirrorAssumption, MainSession, NoSession, TypeOK, Goto, Threads, localVars, locks
<1>1. CASE Dial
  BY <1>1 DEF Dial
<1>2. CASE Publish
  BY <1>2 DEF Publish
<1>3. CASE CloseFailed
  BY <1>3 DEF CloseFailed
<1>4. CASE Reset
  BY <1>4 DEF Reset
<1>5. CASE TakeSession
  BY <1>5 DEF TakeSession
<1>6. CASE CloseSession
  BY <1>6 DEF CloseSession
<1>7. ASSUME NEW t \in Threads, ReadSession(t)
      PROVE  MainSession'
  BY <1>7 DEF ReadSession, sessionVars
<1>8. ASSUME UNCHANGED <<sessionVars, sess>>,
             \/ UNCHANGED pc
             \/ \E t \in Threads : \E at \in {"lock", "session", "commit", "apply"} :
                  pc[t] \in {"resync", "lock", "list", "commit"} /\ pc' = [pc EXCEPT ![t] = at]
             \/ \E t \in Threads : \E at \in {"close", "idle", "resync"} :
                  /\ at = "close" => pc[t] \in {"session", "list"}
                  /\ pc[t] \in {"idle", "resync", "session", "list", "apply"}
                  /\ pc' = [pc EXCEPT ![t] = at]
      PROVE  MainSession'
  <2>1. UNCHANGED <<session, hasServer, open>> /\ sess'[Main] = sess[Main]
    BY <1>8 DEF sessionVars
  <2>2. CASE UNCHANGED pc
    BY <2>1, <2>2
  <2>3. ASSUME NEW t \in Threads, NEW at \in {"lock", "session", "commit", "apply"},
               pc[t] \in {"resync", "lock", "list", "commit"}, pc' = [pc EXCEPT ![t] = at]
        PROVE  MainSession'
    <3>1. pc[Main] \in {"lock", "list", "commit"} \/ pc'[Main] = pc[Main]
      BY <2>3
    <3>2. pc'[Main] \in {"lock", "session", "commit", "apply"} \/ pc'[Main] = pc[Main]
      BY <2>3
    <3> QED
      BY <2>1, <3>1, <3>2
  <2>4. ASSUME NEW t \in Threads, NEW at \in {"close", "idle", "resync"},
               at = "close" => pc[t] \in {"session", "list"}, pc' = [pc EXCEPT ![t] = at],
               t = Main => pc[Main] # "reset"
        PROVE  MainSession'
    <3>1. pc'[Main] = "close" => pc[Main] \in {"session", "list", "close"}
      BY <2>4
    <3>2. pc'[Main] \in {"close", "idle", "resync"} \/ pc'[Main] = pc[Main]
      BY <2>4
    <3> QED
      BY <2>1, <2>4, <3>1, <3>2
  <2> QED
    BY <1>8, <2>2, <2>3, <2>4
<1> QED
  BY <1>1, <1>2, <1>3, <1>4, <1>5, <1>6, <1>7, <1>8
     DEF Next, Connect, Close, Sync, Forward, vars, UpstreamChange, NotificationLost,
         Notified, Resync, AcquireList, NotConnected, Fail, ReadPage, ListFails, BeginApply,
         EndApply, Register, Remove, Call, Lookup, Return

\* A listing once read stays what it is.
LEMMA DefinitionStable ==
    ASSUME TypeOK,
           UNCHANGED history \/ \E c \in Catalogs : history' = Append(history, c),
           NEW t \in Threads, reads'[t] = reads[t], NEW n \in Tools
    PROVE  Listed(t, n)' = Listed(t, n) /\ Definition(t, n)' = Definition(t, n)
<1>1. ASSUME NEW k \in Pages
      PROVE  history'[reads'[t][k]] = history[reads[t][k]]
  <2>1. reads[t][k] \in 1..Len(history)
    BY DEF TypeOK, Now
  <2>2. CASE UNCHANGED history
    BY <2>2
  <2>3. ASSUME NEW c \in Catalogs, history' = Append(history, c)
        PROVE  history'[reads'[t][k]] = history[reads[t][k]]
    BY <2>1, <2>3 DEF TypeOK
  <2> QED
    BY <2>2, <2>3
<1>2. Listed(t, n)' = Listed(t, n)
  BY <1>1 DEF Listed, PageRead
<1> DEFINE old == [k \in Pages |-> history[reads[t][k]][k][n]]
           new == [k \in Pages |-> history'[reads'[t][k]][k][n]]
<1>3. old = new
  BY <1>1
<1>4. Definition(t, n)' = Definition(t, n)
  <2>1. Definition(t, n) = First(old)
    BY DEF Definition, PageRead
  <2>2. Definition(t, n)' = First(new)
    BY DEF Definition, PageRead, First
  <2> HIDE DEF old, new
  <2> QED
    BY <1>3, <2>1, <2>2
<1> QED
  BY <1>2, <1>4

\* Another thread's steps leave alone what a thread has registered.
LEMMA AppliedFrame ==
    ASSUME TypeOK,
           UNCHANGED history \/ \E c \in Catalogs : history' = Append(history, c),
           NEW t \in Threads, ThreadApplied(t), UNCHANGED tools,
           pc'[t] = "apply" => pc[t] = "apply" /\ reads'[t] = reads[t] /\ todo'[t] = todo[t]
    PROVE  ThreadApplied(t)'
BY DefinitionStable DEF ThreadApplied, MayMirror

LEMMA AppliedStep == TypeOK /\ LockDiscipline /\ AppliedInv /\ [Next]_vars => AppliedInv'
<1> SUFFICES ASSUME TypeOK, LockDiscipline, AppliedInv, [Next]_vars, NEW u \in Threads
             PROVE  ThreadApplied(u)'
  BY DEF AppliedInv
<1>1. ThreadApplied(u)
  BY DEF AppliedInv
<1>2. ASSUME NEW t \in Threads, BeginApply(t)
      PROVE  ThreadApplied(u)'
  <2>1. UNCHANGED <<history, reads, tools>>
        /\ pc' = [pc EXCEPT ![t] = "apply"]
        /\ todo' = [todo EXCEPT ![t] = {n \in Tools : Listed(t, n)}]
    BY <1>2 DEF BeginApply, upstreamVars, mirrorVars, Goto
  <2>2. CASE u = t
    <3>1. \A n \in Tools \ todo'[u] : ~Listed(u, n)
      BY <2>1, <2>2 DEF TypeOK
    <3>2. \A n \in Tools : Listed(u, n)' = Listed(u, n)
      BY <2>1, DefinitionStable
    <3> QED
      BY <3>1, <3>2 DEF ThreadApplied
  <2>3. CASE u # t
    BY <1>1, <2>1, <2>3, AppliedFrame DEF TypeOK
  <2> QED
    BY <2>2, <2>3
<1>3. ASSUME NEW t \in Threads, NEW n \in Tools, Register(t, n)
      PROVE  ThreadApplied(u)'
  <2>1. UNCHANGED <<history, reads, pc>> /\ todo' = [todo EXCEPT ![t] = @ \ {n}]
    BY <1>3 DEF Register, upstreamVars
  <2>2. /\ MayMirror(n, Definition(t, n)) => tools' = [tools EXCEPT ![n] = Definition(t, n)]
        /\ ~MayMirror(n, Definition(t, n)) => tools' = tools
    BY <1>3 DEF Register, mirrorVars
  <2>3. \A m \in Tools : Listed(u, m)' = Listed(u, m) /\ Definition(u, m)' = Definition(u, m)
    BY <2>1, DefinitionStable
  <2>4. pc[u] = "apply" => u = t
    BY <1>3, MirrorAssumption DEF Register, LockDiscipline, MirrorAssumption
  <2>5. todo'[t] = todo[t] \ {n} /\ n \in todo[t]
    BY <1>3, <2>1 DEF TypeOK, Register
  <2>6. ASSUME pc'[u] = "apply", NEW m \in Tools \ todo'[u], Listed(u, m),
               MayMirror(m, Definition(u, m))
        PROVE  tools'[m] = Definition(u, m)
    <3>1. u = t
      BY <2>1, <2>4, <2>6
    <3>2. CASE m = n
      BY <2>2, <2>6, <3>1, <3>2 DEF TypeOK
    <3>3. CASE m # n
      <4>1. m \in Tools \ todo[t] /\ tools'[m] = tools[m]
        BY <2>2, <2>5, <2>6, <3>1, <3>3 DEF TypeOK
      <4> QED
        BY <1>1, <2>1, <2>6, <3>1, <4>1 DEF ThreadApplied
    <3> QED
      BY <3>2, <3>3
  <2> QED
    BY <2>3, <2>6 DEF ThreadApplied, MayMirror
<1>4. ASSUME NEW t \in Threads, NEW n \in Tools, Remove(t, n)
      PROVE  ThreadApplied(u)'
  <2>1. UNCHANGED <<history, reads, pc, todo>> /\ ~Listed(t, n)
        /\ tools' = [tools EXCEPT ![n] = NoTool]
    BY <1>4 DEF Remove, upstreamVars, localVars, Vanished
  <2>2. \A m \in Tools : Listed(u, m)' = Listed(u, m) /\ Definition(u, m)' = Definition(u, m)
    BY <2>1, DefinitionStable
  <2>3. pc[u] = "apply" => u = t
    BY <1>4, MirrorAssumption DEF Remove, LockDiscipline, MirrorAssumption
  <2>4. \A m \in Tools : m # n => tools'[m] = tools[m]
    BY <2>1 DEF TypeOK
  <2> QED
    BY <1>1, <2>1, <2>2, <2>3, <2>4 DEF ThreadApplied, MayMirror
<1>5. ASSUME NEW t \in Threads, ReadPage(t)
      PROVE  ThreadApplied(u)'
  BY <1>1, <1>5, AppliedFrame DEF ReadPage, upstreamVars, mirrorVars, TypeOK, Goto
<1>6. CASE UpstreamChange
  BY <1>1, <1>6, AppliedFrame DEF UpstreamChange, mirrorVars, localVars
<1>7. ASSUME UNCHANGED <<history, reads, todo, tools>>,
             \/ UNCHANGED pc
             \/ \E t \in Threads : \E at \in Locations \ {"apply"} : pc' = [pc EXCEPT ![t] = at]
      PROVE  ThreadApplied(u)'
  <2>1. pc'[u] = "apply" => pc[u] = "apply"
    BY <1>7 DEF TypeOK
  <2> QED
    BY <1>1, <1>7, <2>1, AppliedFrame
<1> QED
  BY <1>2, <1>3, <1>4, <1>5, <1>6, <1>7
     DEF Next, Connect, Close, Sync, Forward, vars, NotificationLost, Dial, Publish,
         CloseFailed, Reset, TakeSession, CloseSession, Notified, Resync, AcquireList,
         NotConnected, Fail, ReadSession, ListFails, EndApply, Call, Lookup, Return,
         upstreamVars, mirrorVars, localVars, Goto, Locations, Threads

\* A sync that saw nothing but the current catalog leaves the registry current.
LEMMA SyncCurrent ==
    ASSUME TypeOK, RegistryKnown, AppliedInv, NEW t \in Threads, EndApply(t),
           \A k \in Pages : reads[t][k] = Now
    PROVE  Current'
<1>1. \A k \in Pages : PageRead(t, k) = history[Now][k]
  BY DEF PageRead
<1>2. ASSUME NEW n \in Tools
      PROVE  /\ Listed(t, n) <=> \E k \in Pages : history[Now][k][n] # NoTool
             /\ Definition(t, n) = First([k \in Pages |-> history[Now][k][n]])
  <2>1. [k \in Pages |-> PageRead(t, k)[n]] = [k \in Pages |-> history[Now][k][n]]
    BY <1>1
  <2> QED
    BY <1>1, <2>1 DEF Listed, Definition
<1>3. pc[t] = "apply" /\ todo[t] = {} /\ Vanished(t) = {} /\ UNCHANGED <<history, tools>>
  BY DEF EndApply, upstreamVars, mirrorVars
<1>4. ASSUME NEW n \in Tools \ Reserved
      PROVE  /\ Offer(n) = NoTool => tools[n] = NoTool
             /\ Offer(n) \in Mirrorable => tools[n] = Offer(n)
  <2>1. CASE ~Listed(t, n)
    <3>1. Offer(n) = NoTool
      BY <1>2, <2>1 DEF Offer
    <3>2. n \notin mirrored
      BY <1>3, <2>1 DEF Vanished
    <3>3. tools[n] = NoTool
      BY <3>2 DEF RegistryKnown, TypeOK
    <3> QED
      BY <3>1, <3>3, Constants
  <2>2. CASE Listed(t, n)
    <3>1. Offer(n) = Definition(t, n)
      BY <1>2, <2>2 DEF Offer
    <3>2. Definition(t, n) # NoTool
      BY <2>2, FirstEntry DEF Listed, Definition
    <3>3. Offer(n) \in Mirrorable => tools[n] = Offer(n)
      BY <1>3, <2>2, <3>1 DEF AppliedInv, ThreadApplied, MayMirror
    <3> QED
      BY <3>1, <3>2, <3>3
  <2> QED
    BY <2>1, <2>2
<1> QED
  BY <1>3, <1>4 DEF Current, Offer, Now

\* A sync that is ahead stays so, whatever the others do but a change of the upstream.
LEMMA AheadStays ==
    ASSUME NEW t \in Threads, Ahead(t), UNCHANGED history,
           pc'[t] = pc[t] /\ page'[t] = page[t] /\ reads'[t] = reads[t]
    PROVE  Ahead(t)'
BY DEF Ahead, Now

\* Steps that leave open what is missed, notified, ahead and registered.
LEMMA CoveredFrame ==
    ASSUME Covered, UNCHANGED <<history, lost, notif, tools, pc, page, reads>>
    PROVE  Covered'
BY DEF Covered, Ahead, Current, Offer, Now

LEMMA ConvergeStep ==
    TypeOK /\ LockDiscipline /\ RegistryKnown /\ FreshInv /\ AppliedInv /\ MainSession
    /\ ConvergeInv /\ [Next]_vars => ConvergeInv'
<1> SUFFICES ASSUME TypeOK, LockDiscipline, RegistryKnown, FreshInv, AppliedInv, MainSession,
                    ConvergeInv, [Next]_vars, Connected'
             PROVE  Covered'
  BY DEF ConvergeInv
<1>1. CASE UpstreamChange
  <2>1. session \in open
    BY <1>1 DEF UpstreamChange, sessionVars, Connected, MainSession
  <2>2. IsFiniteSet(open)
    <3>1. IsFiniteSet(1..dialled)
      BY FS_Interval, MirrorAssumption DEF MirrorAssumption, TypeOK
    <3> QED
      BY <3>1, FS_Subset DEF TypeOK
  <2>3. Cardinality(open) \in Nat /\ Cardinality(open) # 0
    BY <2>1, <2>2, FS_CardinalityType, FS_EmptySet
  <2> QED
    BY <1>1, <2>3 DEF UpstreamChange, Covered, TypeOK
<1>2. CASE NotificationLost
  BY <1>2 DEF NotificationLost, Covered, Now
<1>3. CASE Publish
  BY <1>3 DEF Publish, Goto, Covered, Ahead, Threads, TypeOK
<1>4. CASE Dial \/ Reset \/ TakeSession \/ CloseSession \/ CloseFailed
  BY <1>4 DEF Dial, Reset, TakeSession, CloseSession, CloseFailed, MainSession, Connected,
              NoSession, Goto, TypeOK, Threads
<1>5. ASSUME NEW h \in Handlers, Notified(h)
      PROVE  Covered'
  BY <1>5 DEF Notified, Goto, Covered, Ahead, Threads, TypeOK
<1>6. ASSUME NEW h \in Handlers, Resync(h)
      PROVE  Covered'
  BY <1>6 DEF Resync, Goto, Covered, Ahead, Threads, TypeOK, Connected, MainSession, sessionVars
<1>7. ASSUME NEW t \in Threads, AcquireList(t)
      PROVE  Covered'
  BY <1>7 DEF AcquireList, Goto, Covered, Ahead, TypeOK
<1>8. ASSUME NEW t \in Threads, NotConnected(t) \/ ListFails(t)
      PROVE  Covered'
  BY <1>8 DEF NotConnected, ListFails, Fail, Covered, Now, upstreamVars
<1>9. ASSUME NEW t \in Threads, ReadSession(t)
      PROVE  Covered'
  <2>1. pc'[t] = "list" /\ page'[t] = 1
    BY <1>9 DEF ReadSession, Goto, TypeOK
  <2>2. Ahead(t)'
    BY <2>1 DEF Ahead, Pages
  <2> QED
    BY <2>2 DEF Covered
<1>10. ASSUME NEW t \in Threads, ReadPage(t) \/ BeginApply(t), Covered
       PROVE  Covered'
  <2>1. pc[t] \in Listing /\ UNCHANGED <<history, notif, lost>>
    BY <1>10 DEF ReadPage, BeginApply, Listing, upstreamVars
  <2>2. ASSUME NEW u \in Threads, u # t, Ahead(u)
        PROVE  Ahead(u)'
    <3>1. pc'[u] = pc[u] /\ page'[u] = page[u] /\ reads'[u] = reads[u]
      BY <1>10, <2>2 DEF ReadPage, BeginApply, Goto, TypeOK
    <3> QED
      BY <2>1, <2>2, <3>1, AheadStays
  <2>3. CASE BeginApply(t) /\ Ahead(t)
    BY <2>1, <2>3 DEF BeginApply, Ahead, Goto, TypeOK, Covered, Now
  <2>4. CASE ReadPage(t) /\ Ahead(t)
    <3>1. /\ pc[t] = "list" /\ page[t] \in Pages
          /\ reads'[t] = [reads[t] EXCEPT ![page[t]] = Now]
      BY <2>4 DEF ReadPage, TypeOK
    <3>2. \A k \in Pages : k <= page[t] => reads'[t][k] = Now
      <4>1. \A k \in Pages : k < page[t] => reads[t][k] = Now
        BY <2>4, <3>1 DEF Ahead
      <4>2. \A k \in Pages : k <= page[t] => k < page[t] \/ k = page[t]
        BY <3>1, Constants DEF Pages
      <4> QED
        BY <3>1, <4>1, <4>2 DEF TypeOK
    <3>3. CASE page[t] < NPages
      <4>1. pc'[t] = "list" /\ page'[t] = page[t] + 1
        BY <2>4, <3>1, <3>3 DEF ReadPage, TypeOK
      <4>2. \A k \in Pages : k < page[t] + 1 => k <= page[t]
        BY <3>1, Constants DEF Pages
      <4> QED
        BY <2>1, <3>2, <4>1, <4>2 DEF Ahead, Covered, Now
    <3>4. CASE ~(page[t] < NPages)
      <4>1. pc'[t] = "commit"
        BY <2>4, <3>4 DEF ReadPage, Goto, TypeOK
      <4>2. \A k \in Pages : k <= page[t]
        BY <3>1, <3>4, Constants DEF Pages
      <4> QED
        BY <2>1, <3>2, <4>1, <4>2 DEF Ahead, Covered, Now
    <3> QED
      BY <3>3, <3>4
  <2>5. CASE \E u \in Threads : Ahead(u)
    BY <1>10, <2>2, <2>3, <2>4, <2>5 DEF Covered
  <2>6. CASE lost = Now \/ notif > 0
    BY <2>1, <2>6 DEF Covered, Now
  <2> QED
    BY <1>10, <2>1, <2>5, <2>6 DEF Covered
<1>11. ASSUME NEW t \in Threads, NEW n \in Tools, Register(t, n) \/ Remove(t, n), Covered
       PROVE  Covered'
  <2>1. /\ pc[t] = "apply"
        /\ UNCHANGED <<history, notif, lost, pc, page, reads>>
    BY <1>11 DEF Register, Remove, upstreamVars, localVars
  <2> QED
    BY <1>11, <2>1 DEF Covered, Ahead, Now, Listing
<1>12. ASSUME NEW t \in Threads, EndApply(t), Covered
       PROVE  Covered'
  <2>1. /\ pc[t] = "apply" /\ pc' = [pc EXCEPT ![t] = "idle"]
        /\ UNCHANGED <<history, notif, page, reads>>
        /\ lost' = IF lost <= reads[t][1] THEN 0 ELSE lost
    BY <1>12 DEF EndApply, Goto, upstreamVars, localVars
  <2>2. ASSUME NEW u \in Threads, u # t, Ahead(u)
        PROVE  Covered'
    <3>1. Ahead(u)'
      BY <2>1, <2>2, AheadStays DEF TypeOK
    <3> QED
      BY <3>1 DEF Covered
  <2>3. ASSUME \A k \in Pages : reads[t][k] = Now
        PROVE  Covered'
    <3>1. Current'
      BY <1>12, <2>3, SyncCurrent
    <3>2. \A u \in Threads : pc'[u] \notin Listing
      BY <2>1, MirrorAssumption DEF LockDiscipline, MirrorAssumption, Listing, TypeOK
    <3> QED
      BY <3>1, <3>2 DEF Covered
  <2>4. CASE Ahead(t)
    BY <2>1, <2>3, <2>4 DEF Ahead
  <2>5. CASE lost = Now
    <3>1. CASE lost <= reads[t][1]
      <4>1. 1 \in Pages /\ Now \in Nat /\ \A k \in Pages : reads[t][k] \in 1..Now
        <5>1. 1 \in Pages
          BY Constants DEF Pages
        <5>2. history \in Seq(Catalogs)
          BY DEF TypeOK
        <5>3. Now \in Nat
          BY <5>2 DEF Now
        <5>4. reads[t] \in [Pages -> 1..Now]
          BY DEF TypeOK
        <5> QED
          BY <5>1, <5>3, <5>4
      <4>2. \A k \in Pages : reads[t][1] <= reads[t][k]
        BY <2>1 DEF FreshInv, ThreadFresh
      <4>3. \A k \in Pages : reads[t][k] = Now
        BY <2>5, <3>1, <4>1, <4>2
      <4> QED
        BY <2>3, <4>3
    <3>2. CASE ~(lost <= reads[t][1])
      BY <2>1, <2>5, <3>2 DEF Covered, Now
    <3> QED
      BY <3>1, <3>2
  <2>6. CASE notif > 0
    BY <2>1, <2>6 DEF Covered
  <2> QED
    BY <1>12, <2>1, <2>2, <2>4, <2>5, <2>6 DEF Covered, Listing
<1>13. ASSUME NEW c \in Callers, Forward(c), Covered
       PROVE  Covered'
  BY <1>13, CoveredFrame
     DEF Forward, Call, Lookup, Return, upstreamVars, mirrorVars, localVars
<1>14. CASE UNCHANGED vars
  BY <1>14, CoveredFrame
     DEF vars, upstreamVars, mirrorVars, localVars, sessionVars, ConvergeInv, Connected
<1>15. ASSUME UNCHANGED session,
              UNCHANGED pc \/ \E t \in Threads, at \in Locations :
                 pc[t] \in Listing /\ pc' = [pc EXCEPT ![t] = at]
       PROVE  Covered
  BY <1>15 DEF ConvergeInv, Connected, Listing, TypeOK, Threads
<1> QED
  <2>1. ASSUME NEW t \in Threads, ReadPage(t) \/ BeginApply(t) \/ EndApply(t)
        PROVE  Covered
    BY <1>15, <2>1
       DEF ReadPage, BeginApply, EndApply, Goto, Listing, Locations, sessionVars
  <2>2. ASSUME NEW t \in Threads, NEW n \in Tools, Register(t, n) \/ Remove(t, n)
        PROVE  Covered
    BY <1>15, <2>2 DEF Register, Remove, sessionVars
  <2>3. ASSUME NEW c \in Callers, Forward(c)
        PROVE  Covered
    BY <1>15, <2>3 DEF Forward, Call, Lookup, Return, sessionVars
  <2> QED
    BY <1>1, <1>2, <1>3, <1>4, <1>5, <1>6, <1>7, <1>8, <1>9, <1>10, <1>11, <1>12, <1>13,
       <1>14, <2>1, <2>2, <2>3 DEF Next, Connect, Close, Sync

\* Once connected, with every notification handled and nothing missed, the registry is what
\* the upstream offers now, for any number of handlers, pages and changes: no race of
\* listings, notifications and Connect loses a change.
THEOREM MirrorConverges == Spec => []Converged
<1>1. Init => MainSession /\ AppliedInv /\ ConvergeInv /\ FreshInv /\ SessionInv
  BY DEF Init, MainSession, AppliedInv, ThreadApplied, ConvergeInv, Connected, NoSession,
         FreshInv, ThreadFresh, SessionInv, NoSessionLeak, Threads
<1>2. TypeOK /\ ConvergeInv => Converged
  <2> SUFFICES ASSUME ConvergeInv, Quiescent, session # NoSession, lost # Now
               PROVE  Current
    BY DEF Converged, Current
  <2>1. Connected
    BY DEF Quiescent, Connected, Threads
  <2> QED
    BY <2>1 DEF ConvergeInv, Covered, Ahead, Quiescent
<1> QED
  BY <1>1, <1>2, TypeCorrect, LocksDisciplined, RegistryCorrect, FreshStep, SessionStep,
     MainSessionStep, AppliedStep, ConvergeStep, PTL DEF Spec
=============================================================================
