------------------------- MODULE MediaSidecarProofs -------------------------
(***************************************************************************)
(* Proofs about MediaSidecar: its type invariant, that only what was       *)
(* signed is accepted, and for how long, that only fenced paths are        *)
(* signed, that what is served from outside is due to a race, that URLs    *)
(* work, and that the handlers implement Grants.                           *)
(***************************************************************************)
EXTENDS MediaSidecar, FenceProofs

\* The workload does not move the mounts the roots are.
RootsFixed ==
    \A F, G \in FileSystems, i \in DOMAIN Roots :
        EvalSymlinks(F, Roots[i]) = EvalSymlinks(G, Roots[i])

WholeSeconds == MaxTTL % TicksPerSecond = 0
SecondOrMore == DefaultTTL >= TicksPerSecond

-----------------------------------------------------------------------------
(* Arithmetic. *)

LEMMA MultiplyMonotone ==
    ASSUME NEW a \in Nat, NEW b \in Nat, NEW c \in Nat, a <= b
    PROVE  a * c <= b * c
OBVIOUS

\* A duration that fits is not changed by int64 arithmetic.
LEMMA NotWrapped ==
    ASSUME NEW d \in Nat, d < DurationLimit
    PROVE  Wrapped(d) = d
<1>1. DurationLimit \in Nat /\ DurationLimit > 0
  BY SidecarAssumption DEF SidecarAssumption
<1>2. /\ d + DurationLimit \in Nat
      /\ d + DurationLimit < 2 * DurationLimit
  BY <1>1
<1>3. (d + DurationLimit) % (2 * DurationLimit) = d + DurationLimit
  BY <1>1, <1>2
<1> QED
  BY <1>1, <1>3 DEF Wrapped

\* Whole seconds lose less than a second.
LEMMA UnixBounds ==
    ASSUME NEW t \in Nat
    PROVE  /\ Unix(t) \in Nat
           /\ Unix(t) * TicksPerSecond <= t
           /\ t < Unix(t) * TicksPerSecond + TicksPerSecond
<1>1. TicksPerSecond \in Nat \ {0}
  BY SidecarAssumption DEF SidecarAssumption
<1> QED
  BY <1>1 DEF Unix

\* The clamp keeps every lifetime positive and at most MaxTTL, and never multiplies into
\* an overflow; with a MaxTTL of whole seconds it does not lengthen a request.
LEMMA LifetimeBounds ==
    ASSUME NEW ttl \in Nat
    PROVE  /\ Lifetime(ttl) \in Nat /\ Lifetime(ttl) <= MaxTTL
           /\ WholeSeconds /\ ttl > 0 => Lifetime(ttl) <= ttl * TicksPerSecond
           /\ SecondOrMore => Lifetime(ttl) >= TicksPerSecond
<1> DEFINE q == MaxTTL \div TicksPerSecond
<1>1. /\ TicksPerSecond \in Nat /\ TicksPerSecond > 0
      /\ MaxTTL \in Nat /\ MaxTTL < DurationLimit
      /\ DefaultTTL \in Nat /\ DefaultTTL <= MaxTTL
  BY SidecarAssumption DEF SidecarAssumption
<1>2. q \in Nat /\ q * TicksPerSecond <= MaxTTL
  BY <1>1
<1>3. WholeSeconds => q * TicksPerSecond = MaxTTL
  BY <1>1 DEF WholeSeconds
<1> HIDE DEF q
<1>4. CASE ttl = 0
  BY <1>1, <1>4 DEF Lifetime, SecondOrMore
<1>5. CASE ttl > 0 /\ ttl >= q
  <2>1. Lifetime(ttl) = MaxTTL
    BY <1>5 DEF Lifetime, q
  <2>2. q * TicksPerSecond <= ttl * TicksPerSecond
    BY <1>1, <1>2, <1>5, MultiplyMonotone
  <2> QED
    BY <1>1, <1>2, <1>3, <1>5, <2>1, <2>2 DEF SecondOrMore
<1>6. CASE ttl > 0 /\ ttl < q
  <2>1. ttl * TicksPerSecond \in Nat /\ ttl * TicksPerSecond <= q * TicksPerSecond
    BY <1>1, <1>2, <1>6, MultiplyMonotone
  <2>2. 1 * TicksPerSecond <= ttl * TicksPerSecond
    BY <1>1, <1>6, MultiplyMonotone
  <2>3. Lifetime(ttl) = ttl * TicksPerSecond
    <3>1. Lifetime(ttl) = Wrapped(ttl * TicksPerSecond)
      BY <1>2, <1>6 DEF Lifetime, q
    <3>2. q * TicksPerSecond \in Nat /\ DurationLimit \in Nat
      BY <1>1, <1>2, SidecarAssumption DEF SidecarAssumption
    <3>3. ttl * TicksPerSecond < DurationLimit
      <4> DEFINE x == ttl * TicksPerSecond
                 y == q * TicksPerSecond
      <4>1. x \in Nat /\ y \in Nat /\ x <= y /\ y <= MaxTTL
        BY <1>2, <2>1, <3>2
      <4> HIDE DEF x, y
      <4>2. x < DurationLimit
        BY <1>1, <3>2, <4>1
      <4> QED
        BY <4>2 DEF x
    <3> QED
      BY <2>1, <3>1, <3>3, NotWrapped
  <2> QED
    BY <1>1, <1>2, <2>1, <2>2, <2>3
<1> QED
  BY <1>2, <1>4, <1>5, <1>6

-----------------------------------------------------------------------------
(* Type correctness. *)

\* The records of the handlers, for any set P that holds the paths and bodies they have.
\* (Which paths a walk can end at is left open: the proofs do not depend on it.)
MintSet(P) ==
    [at : {"idle", "resolve", "stat", "sign", "done"}, status : Status \cup {0},
     request : Requests \cup {<<>>}, disp : Dispositions \cup {""},
     ttl : (Ttls \cap Nat) \cup {0}, path : P, seen : SUBSET FileSystems]

FetchSet(P) ==
    [at : {"idle", "resolve", "open", "done"}, status : Status \cup {0},
     url : issued \cup {NoUrl}, path : P, exp : Int, disp : Dispositions \cup {""},
     when : 0..now, seen : SUBSET FileSystems, body : P]

Shaped(P) == mint \in [Callers -> MintSet(P)] /\ fetch \in [Fetchers -> FetchSet(P)]

MintUnderway ==
    \A c \in Callers : mint[c].at \in {"resolve", "stat", "sign"} =>
        mint[c].disp \in Dispositions

TypeInv ==
    /\ fs \in FileSystems /\ now \in Nat /\ key \in Keys
    /\ \E P : Shaped(P)
    /\ MintUnderway
    /\ \A u \in issued : UrlTyped(u)

LEMMA TypeInvSuffices == TypeInv => TypeOK
BY DEF TypeInv, TypeOK, Shaped, MintSet, FetchSet, MintTyped, FetchTyped, MintUnderway

LEMMA StatusOfType == \A r : StatusOf(r) \in Status
BY DEF StatusOf, Status

LEMMA NoMintType == \A P : <<>> \in P => NoMint \in MintSet(P)
BY DEF MintSet, NoMint

LEMMA NoFetchType == ASSUME now \in Nat PROVE \A P : <<>> \in P => NoFetch \in FetchSet(P)
BY DEF FetchSet, NoFetch, NoUrl

LEMMA TypeInit == Init => TypeInv
<1> SUFFICES ASSUME Init
             PROVE  TypeInv
  OBVIOUS
<1>1. now \in Nat
  BY SidecarAssumption DEF Init, SidecarAssumption
<1>2. Shaped({<<>>})
  BY <1>1, NoMintType, NoFetchType DEF Init, Shaped
<1>3. MintUnderway
  BY DEF Init, MintUnderway, NoMint
<1> QED
  BY <1>1, <1>2, <1>3 DEF Init, TypeInv

\* Shapes survive more paths, more URLs and a later clock.
LEMMA MintSetGrows == \A P, Q : P \subseteq Q => MintSet(P) \subseteq MintSet(Q)
BY DEF MintSet

LEMMA FetchSetGrows ==
    ASSUME now \in Nat, now' \in Nat, now <= now', issued \subseteq issued',
           NEW P, NEW Q, P \subseteq Q
    PROVE  FetchSet(P) \subseteq FetchSet(Q)'
<1>1. 0..now \subseteq 0..now' /\ issued \cup {NoUrl} \subseteq issued' \cup {NoUrl}
  OBVIOUS
<1> QED
  BY <1>1 DEF FetchSet

\* A step of a POST /mint handler that leaves everything else alone.
LEMMA MintBecomes ==
    ASSUME TypeInv, NEW c \in Callers, NEW P, NEW m \in MintSet(P),
           mint' = [mint EXCEPT ![c] = m],
           m.at \in {"resolve", "stat", "sign"} => m.disp \in Dispositions,
           issued \subseteq issued', \A u \in issued' : UrlTyped(u),
           UNCHANGED <<fs, now, key, fetch>>
    PROVE  TypeInv'
<1>1. PICK Q : Shaped(Q)
  BY DEF TypeInv
<1>2. now \in Nat
  BY DEF TypeInv
<1> DEFINE R == P \cup Q
<1>3. /\ m \in MintSet(R)
      /\ mint \in [Callers -> MintSet(R)]
      /\ fetch \in [Fetchers -> FetchSet(R)']
  BY <1>1, <1>2, MintSetGrows, FetchSetGrows DEF Shaped
<1>4. Shaped(R)'
  BY <1>3 DEF Shaped, MintSet
<1>5. MintUnderway'
  BY <1>1 DEF TypeInv, MintUnderway, Shaped
<1>6. \A u \in issued' : UrlTyped(u)'
  BY DEF UrlTyped
<1> QED
  BY <1>4, <1>5, <1>6 DEF TypeInv

LEMMA AnswerType ==
    ASSUME NEW status \in Status, NEW P, <<>> \in P
    PROVE  [NoMint EXCEPT !.at = "done", !.status = status] \in MintSet(P)
BY DEF MintSet, NoMint

LEMMA AnswerStep ==
    ASSUME TypeInv, NEW c \in Callers, NEW status \in Status, Answer(c, status),
           issued \subseteq issued', \A u \in issued' : UrlTyped(u),
           UNCHANGED <<fs, now, key, fetch>>
    PROVE  TypeInv'
<1>1. [NoMint EXCEPT !.at = "done", !.status = status] \in MintSet({<<>>})
  BY AnswerType
<1>2. [NoMint EXCEPT !.at = "done", !.status = status].at = "done"
  BY DEF NoMint
<1> QED
  BY <1>1, <1>2, MintBecomes DEF Answer

LEMMA MintTypeStep ==
    ASSUME TypeInv, NEW c \in Callers, Mint(c)
    PROVE  TypeInv'
<1>1. PICK P : Shaped(P)
  BY DEF TypeInv
<1>2. mint[c] \in MintSet(P)
  BY <1>1 DEF Shaped
<1>3. /\ fs \in FileSystems /\ now \in Nat /\ key \in Keys
      /\ \A u \in issued : UrlTyped(u)
      /\ mint[c].at \in {"resolve", "stat", "sign"} => mint[c].disp \in Dispositions
  BY DEF TypeInv, MintUnderway
<1>4. CASE MintRequest(c)
  <2>1. PICK authorized \in BOOLEAN, p \in Requests, sent \in SentDispositions, ttl \in Ttls :
          IF Refusal(authorized, sent, ttl) # 200
          THEN Answer(c, Refusal(authorized, sent, ttl))
          ELSE mint' = [mint EXCEPT ![c] =
                 [NoMint EXCEPT !.at = "resolve", !.request = p,
                                !.disp = Disposition(sent), !.ttl = ttl]]
    BY <1>4 DEF MintRequest
  <2>2. CASE Refusal(authorized, sent, ttl) # 200
    <3>1. Refusal(authorized, sent, ttl) \in Status
      BY DEF Refusal, Status
    <3> QED
      BY <1>3, <1>4, <2>1, <2>2, <3>1, AnswerStep DEF MintRequest
  <2>3. CASE Refusal(authorized, sent, ttl) = 200
    <3> DEFINE m == [NoMint EXCEPT !.at = "resolve", !.request = p,
                                   !.disp = Disposition(sent), !.ttl = ttl]
    <3>1. Disposition(sent) \in Dispositions /\ ~(ttl < 0)
      BY <2>3 DEF Refusal
    <3>2. ttl \in (Ttls \cap Nat) \cup {0}
      BY <3>1, SidecarAssumption DEF SidecarAssumption
    <3>3. m \in MintSet({<<>>})
      BY <3>1, <3>2 DEF NoMint, MintSet
    <3>4. m.at = "resolve" /\ m.disp = Disposition(sent)
      BY DEF NoMint
    <3>5. mint' = [mint EXCEPT ![c] = m]
      BY <2>1, <2>3
    <3> HIDE DEF m
    <3> QED
      <4>1. UNCHANGED <<fs, now, key, fetch, issued>>
        BY <1>4 DEF MintRequest
      <4>2. \A v \in issued' : UrlTyped(v)
        BY <1>3, <4>1
      <4> QED
        BY <3>1, <3>3, <3>4, <3>5, <4>1, <4>2, MintBecomes
  <2> QED
    BY <2>2, <2>3
<1>5. CASE MintResolve(c)
  <2> DEFINE r == Resolve(fs, Roots, mint[c].request)
  <2>1. CASE r.status # "ok"
    BY <1>3, <1>5, <2>1, StatusOfType, AnswerStep DEF MintResolve
  <2>2. CASE r.status = "ok"
    <3> DEFINE m == [mint[c] EXCEPT !.at = "stat", !.path = r.path, !.seen = {fs}]
    <3>1. mint' = [mint EXCEPT ![c].at = "stat", ![c].path = r.path, ![c].seen = {fs}]
      BY <1>5, <2>2 DEF MintResolve
    <3> HIDE DEF r
    <3>2. mint' = [mint EXCEPT ![c] = m]
      BY <1>1, <1>2, <3>1 DEF Shaped, MintSet
    <3>3. m \in MintSet(P \cup {r.path})
      BY <1>2, <1>3 DEF MintSet
    <3>4. m.disp \in Dispositions
      BY <1>2, <1>3, <1>5 DEF MintSet, MintResolve
    <3> HIDE DEF m
    <3> QED
      BY <1>3, <1>5, <3>2, <3>3, <3>4, MintBecomes DEF MintResolve
  <2> QED
    BY <2>1, <2>2
<1>6. CASE MintStat(c)
  <2> DEFINE found == EvalSymlinks(fs, mint[c].path)
  <2>1. CASE found.status # "ok"
    BY <1>3, <1>6, <2>1, StatusOfType, AnswerStep DEF MintStat
  <2>2. CASE found.status = "ok" /\ ~Mintable(fs[found.path])
    BY <1>3, <1>6, <2>2, AnswerStep DEF MintStat, Status
  <2>3. CASE found.status = "ok" /\ Mintable(fs[found.path])
    <3> DEFINE m == [mint[c] EXCEPT !.at = "sign", !.seen = mint[c].seen \cup {fs}]
    <3>1. mint' = [mint EXCEPT ![c].at = "sign", ![c].seen = @ \cup {fs}]
      BY <1>6, <2>3 DEF MintStat
    <3> HIDE DEF found
    <3>2. mint' = [mint EXCEPT ![c] = m]
      BY <1>1, <1>2, <3>1 DEF Shaped, MintSet
    <3>3. m \in MintSet(P)
      BY <1>2, <1>3 DEF MintSet
    <3>4. m.disp \in Dispositions
      BY <1>2, <1>3, <1>6 DEF MintSet, MintStat
    <3> HIDE DEF m
    <3> QED
      BY <1>3, <1>6, <3>2, <3>3, <3>4, MintBecomes DEF MintStat
  <2> QED
    BY <2>1, <2>2, <2>3
<1>7. CASE MintSign(c)
  <2> DEFINE m == mint[c]
             exp == Unix(now + Lifetime(m.ttl))
             u == [path |-> m.path, exp |-> exp, disp |-> m.disp,
                   sig |-> Signature(key, m.path, exp, m.disp),
                   key |-> key, mintedAt |-> now, asked |-> m.ttl, seen |-> m.seen]
  <2>1. issued' = issued \cup {u}
    BY <1>7 DEF MintSign
  <2>2. exp \in Int
    <3>1. mint[c].ttl \in Nat
      <4>1. mint[c].ttl \in (Ttls \cap Nat) \cup {0}
        BY <1>2 DEF MintSet
      <4> QED
        BY <4>1
    <3>2. Lifetime(m.ttl) \in Nat
      BY <3>1, LifetimeBounds
    <3>3. now + Lifetime(m.ttl) \in Nat
      BY <1>3, <3>2
    <3> QED
      BY <3>3, UnixBounds
  <2>3. m.disp \in Dispositions /\ m.ttl \in (Ttls \cap Nat) \cup {0} /\ m.seen \subseteq FileSystems
    BY <1>2, <1>3, <1>7 DEF MintSet, MintSign
  <2> HIDE DEF exp
  <2>4. now \in 0..now
    BY <1>3
  <2>5. UrlTyped(u)
    BY <1>3, <2>2, <2>3, <2>4 DEF UrlTyped
  <2> HIDE DEF u
  <2> QED
    BY <1>3, <1>7, <2>1, <2>5, AnswerStep DEF MintSign, Status
<1>8. CASE MintDone(c)
  <2>1. NoMint \in MintSet({<<>>}) /\ NoMint.at = "idle"
    BY NoMintType DEF NoMint
  <2> QED
    BY <1>3, <1>8, <2>1, MintBecomes DEF MintDone
<1> QED
  BY <1>4, <1>5, <1>6, <1>7, <1>8 DEF Mint

\* A step of a GET /media handler that leaves everything else alone.
LEMMA FetchBecomes ==
    ASSUME TypeInv, NEW f \in Fetchers, NEW P, NEW g \in FetchSet(P),
           fetch' = [fetch EXCEPT ![f] = g],
           UNCHANGED <<fs, now, key, mint, issued>>
    PROVE  TypeInv'
<1>1. PICK Q : Shaped(Q)
  BY DEF TypeInv
<1>2. now \in Nat
  BY DEF TypeInv
<1> DEFINE R == P \cup Q
<1>3. /\ g \in FetchSet(R)'
      /\ mint \in [Callers -> MintSet(R)]
      /\ fetch \in [Fetchers -> FetchSet(R)']
  BY <1>1, <1>2, MintSetGrows, FetchSetGrows DEF Shaped
<1>4. Shaped(R)'
  BY <1>3 DEF Shaped, MintSet
<1>5. MintUnderway'
  BY DEF TypeInv, MintUnderway
<1>6. \A u \in issued' : UrlTyped(u)'
  BY DEF TypeInv, UrlTyped
<1> QED
  BY <1>4, <1>5, <1>6 DEF TypeInv

\* What the changes of a record rest on: the fields, whatever the sets they range over.
LEMMA FetchShape ==
    \A P : \E A, S, U, D, W, Q :
        /\ FetchSet(P) = [at : A, status : S, url : U, path : P, exp : Int, disp : D,
                          when : W, seen : Q, body : P]
        /\ {"open", "done"} \subseteq A /\ Status \subseteq S /\ SUBSET FileSystems = Q
<1> TAKE P
<1>1. WITNESS {"idle", "resolve", "open", "done"}, Status \cup {0}, issued \cup {NoUrl},
              Dispositions \cup {""}, 0..now, SUBSET FileSystems
<1> QED
  BY DEF FetchSet

\* The records that an answer and an opened file leave behind.
Answered(g, status) == [g EXCEPT !.at = "done", !.status = status]

OpenedAs(g, status, path, body, seen) ==
    [g EXCEPT !.at = "done", !.status = status, !.path = path, !.body = body, !.seen = seen]

LEMMA FetchAnswered ==
    ASSUME NEW P, NEW g \in FetchSet(P), NEW status \in Status
    PROVE  Answered(g, status) \in FetchSet(P)
<1>1. PICK A, S, U, D, W, Q :
        /\ FetchSet(P) = [at : A, status : S, url : U, path : P, exp : Int, disp : D,
                          when : W, seen : Q, body : P]
        /\ "done" \in A /\ Status \subseteq S
  BY FetchShape
<1>2. /\ g \in [at : A, status : S, url : U, path : P, exp : Int, disp : D, when : W,
                seen : Q, body : P]
      /\ "done" \in A /\ status \in S
  BY <1>1
<1>3. Answered(g, status) \in
        [at : A, status : S, url : U, path : P, exp : Int, disp : D, when : W,
         seen : Q, body : P]
  BY ONLY <1>2 DEF Answered
<1> QED
  BY <1>1, <1>3

LEMMA RecordOpened ==
    ASSUME NEW A, NEW S, NEW U, NEW P, NEW D, NEW W, NEW Q,
           NEW g \in [at : A, status : S, url : U, path : P, exp : Int, disp : D,
                      when : W, seen : Q, body : P],
           NEW status \in S, NEW path \in P, NEW body \in P, NEW seen \in Q, "done" \in A
    PROVE  OpenedAs(g, status, path, body, seen) \in
             [at : A, status : S, url : U, path : P, exp : Int, disp : D, when : W,
              seen : Q, body : P]
BY DEF OpenedAs

LEMMA FetchOpened ==
    ASSUME NEW P, NEW g \in FetchSet(P), NEW path \in P, NEW body \in P,
           NEW seen \in SUBSET FileSystems
    PROVE  OpenedAs(g, 200, path, body, seen) \in FetchSet(P)
<1>1. PICK A, S, U, D, W, Q :
        /\ FetchSet(P) = [at : A, status : S, url : U, path : P, exp : Int, disp : D,
                          when : W, seen : Q, body : P]
        /\ "done" \in A /\ Status \subseteq S /\ SUBSET FileSystems = Q
  BY FetchShape
<1>2. /\ g \in [at : A, status : S, url : U, path : P, exp : Int, disp : D, when : W,
                seen : Q, body : P]
      /\ "done" \in A /\ 200 \in S /\ path \in P /\ body \in P /\ seen \in Q
  BY <1>1 DEF Status
<1>3. OpenedAs(g, 200, path, body, seen) \in
        [at : A, status : S, url : U, path : P, exp : Int, disp : D, when : W,
         seen : Q, body : P]
  BY ONLY <1>2, RecordOpened
<1> QED
  BY <1>1, <1>3

LEMMA ReplyStep ==
    ASSUME TypeInv, NEW f \in Fetchers, NEW status \in Status, Reply(f, status),
           UNCHANGED <<fs, now, key, mint, issued>>
    PROVE  TypeInv'
<1>1. PICK P : Shaped(P)
  BY DEF TypeInv
<1>2. fetch[f] \in FetchSet(P) /\ fs \in FileSystems
  BY <1>1 DEF Shaped, TypeInv
<1> DEFINE g == [fetch[f] EXCEPT !.at = "done", !.status = status,
                                 !.seen = fetch[f].seen \cup {fs}]
<1>3. fetch' = [fetch EXCEPT ![f] = g]
  BY <1>1, <1>2 DEF Reply, Shaped, FetchSet
<1>4. g \in FetchSet(P)
  BY <1>2 DEF FetchSet
<1> HIDE DEF g
<1> QED
  BY <1>3, <1>4, FetchBecomes

LEMMA FetchTypeStep ==
    ASSUME TypeInv, NEW f \in Fetchers, Fetch(f)
    PROVE  TypeInv'
<1>1. PICK P : Shaped(P)
  BY DEF TypeInv
<1>2. fetch[f] \in FetchSet(P)
  BY <1>1 DEF Shaped
<1>3. fs \in FileSystems /\ now \in Nat /\ \A u \in issued : UrlTyped(u)
  BY DEF TypeInv
<1>4. CASE FetchRequest(f)
  <2>1. PICK u \in issued, path \in {v.path : v \in issued}, exp \in {v.exp : v \in issued},
             sent \in SentDispositions :
          fetch' = [fetch EXCEPT ![f] =
            IF Disposition(sent) \notin Dispositions
            THEN [NoFetch EXCEPT !.at = "done", !.status = 400]
            ELSE IF ~Verified(path, exp, Disposition(sent), u.sig)
            THEN [NoFetch EXCEPT !.at = "done", !.status = 403]
            ELSE [NoFetch EXCEPT !.at = "resolve", !.url = u, !.path = path,
                                 !.exp = exp, !.disp = Disposition(sent), !.when = now]]
    BY <1>4 DEF FetchRequest
  <2>2. UNCHANGED <<fs, now, key, mint, issued>>
    BY <1>4 DEF FetchRequest
  <2> DEFINE Refuse(status) == [NoFetch EXCEPT !.at = "done", !.status = status]
             accept == [NoFetch EXCEPT !.at = "resolve", !.url = u, !.path = path,
                          !.exp = exp, !.disp = Disposition(sent), !.when = now]
             g == IF Disposition(sent) \notin Dispositions THEN Refuse(400)
                  ELSE IF ~Verified(path, exp, Disposition(sent), u.sig) THEN Refuse(403)
                  ELSE accept
  <2>3. Refuse(400) \in FetchSet({<<>>}) /\ Refuse(403) \in FetchSet({<<>>})
    <3>1. NoFetch \in FetchSet({<<>>})
      BY <1>3, NoFetchType
    <3> HIDE DEF NoFetch
    <3>2. 400 \in Status /\ 403 \in Status
      BY DEF Status
    <3>3. Answered(NoFetch, 400) \in FetchSet({<<>>}) /\ Answered(NoFetch, 403) \in FetchSet({<<>>})
      BY <3>1, <3>2, FetchAnswered
    <3> QED
      BY ONLY <3>3 DEF Answered
  <2>4. Disposition(sent) \in Dispositions => accept \in FetchSet({<<>>, path})
    <3>1. exp \in Int
      BY <1>3 DEF UrlTyped
    <3>2. NoFetch \in FetchSet({<<>>, path})
      BY <1>3, NoFetchType
    <3>3. ASSUME Disposition(sent) \in Dispositions
          PROVE  [NoFetch EXCEPT !.at = "resolve", !.url = u, !.path = path]
                   \in FetchSet({<<>>, path})
      BY <3>2 DEF FetchSet
    <3>4. now \in 0..now
      BY <1>3
    <3> QED
      BY <3>1, <3>3, <3>4 DEF FetchSet
  <2>5. \E Q : g \in FetchSet(Q)
    <3> HIDE DEF Refuse, accept
    <3> QED
      BY <2>3, <2>4
  <2>6. fetch' = [fetch EXCEPT ![f] = g]
    BY <2>1
  <2> HIDE DEF g
  <2> QED
    BY <2>2, <2>5, <2>6, FetchBecomes
<1>5. CASE FetchResolve(f)
  <2> DEFINE r == Resolve(fs, Roots, [absolute |-> TRUE, names |-> fetch[f].path])
  <2>1. CASE r.status # "ok"
    BY <1>5, <2>1, StatusOfType, ReplyStep DEF FetchResolve
  <2>2. CASE r.status = "ok"
    <3> DEFINE g == [fetch[f] EXCEPT !.at = "open", !.path = r.path, !.seen = {fs}]
    <3>1. fetch' = [fetch EXCEPT ![f].at = "open", ![f].path = r.path, ![f].seen = {fs}]
      BY <1>5, <2>2 DEF FetchResolve
    <3> HIDE DEF r
    <3>2. fetch' = [fetch EXCEPT ![f] = g]
      BY <1>1, <1>2, <3>1 DEF Shaped, FetchSet
    <3>3. g \in FetchSet(P \cup {r.path})
      BY <1>2, <1>3 DEF FetchSet
    <3> HIDE DEF g
    <3> QED
      BY <1>5, <3>2, <3>3, FetchBecomes DEF FetchResolve
  <2> QED
    BY <2>1, <2>2
<1>6. CASE FetchOpen(f)
  <2> DEFINE found == EvalSymlinks(fs, fetch[f].path)
  <2>1. CASE found.status # "ok"
    BY <1>6, <2>1, StatusOfType, ReplyStep DEF FetchOpen
  <2>2. CASE found.status = "ok" /\ ~Servable(fs[found.path])
    BY <1>6, <2>2, ReplyStep DEF FetchOpen, Status
  <2>3. CASE found.status = "ok" /\ Servable(fs[found.path])
    <3> DEFINE body == fs[found.path].body
               g == [fetch[f] EXCEPT !.at = "done", !.status = 200, !.path = found.path,
                                     !.body = body, !.seen = fetch[f].seen \cup {fs}]
    <3>1. fetch' = [fetch EXCEPT ![f] = g]
      BY <1>6, <2>3 DEF FetchOpen
    <3> HIDE DEF found, body
    <3> DEFINE Q == P \cup {found.path, body}
    <3>2. fetch[f] \in FetchSet(Q)
      BY <1>2 DEF FetchSet
    <3> HIDE DEF Q
    <3>4. g \in FetchSet(Q)
      <4>1. found.path \in Q /\ body \in Q
        BY DEF Q
      <4>2. fetch[f].seen \cup {fs} \subseteq FileSystems
        BY <1>2, <1>3 DEF FetchSet
      <4>3. OpenedAs(fetch[f], 200, found.path, body, fetch[f].seen \cup {fs}) \in FetchSet(Q)
        BY <3>2, <4>1, <4>2, FetchOpened
      <4> QED
        BY ONLY <4>3 DEF OpenedAs, g
    <3> HIDE DEF g
    <3> QED
      BY <1>6, <3>1, <3>4, FetchBecomes DEF FetchOpen
  <2> QED
    BY <2>1, <2>2, <2>3
<1>7. CASE FetchDone(f)
  <2>1. NoFetch \in FetchSet({<<>>})
    BY <1>3, NoFetchType
  <2> QED
    BY <1>7, <2>1, FetchBecomes DEF FetchDone
<1> QED
  BY <1>4, <1>5, <1>6, <1>7 DEF Fetch

LEMMA TypeStep == TypeInv /\ [Next]_vars => TypeInv'
<1> SUFFICES ASSUME TypeInv, [Next]_vars
             PROVE  TypeInv'
  OBVIOUS
<1>1. PICK P : Shaped(P)
  BY DEF TypeInv
<1>2. fs \in FileSystems /\ now \in Nat /\ key \in Keys /\ MintUnderway
      /\ \A u \in issued : UrlTyped(u)
  BY DEF TypeInv
<1>3. CASE Tick
  <2>1. now' \in Nat /\ now <= now' /\ 0..now \subseteq 0..now'
    BY <1>2, <1>3 DEF Tick
  <2>2. issued \subseteq issued' /\ P \subseteq P
    BY <1>3 DEF Tick
  <2>3. Shaped(P)'
    <3>1. FetchSet(P) \subseteq FetchSet(P)'
      BY <1>2, <2>1, <2>2, FetchSetGrows
    <3> QED
      BY <1>1, <1>3, <3>1 DEF Shaped, Tick, MintSet
  <2>4. MintUnderway'
    BY <1>2, <1>3 DEF MintUnderway, Tick
  <2>5. \A u \in issued' : UrlTyped(u)'
    BY <1>2, <1>3, <2>1 DEF UrlTyped, Tick
  <2> QED
    BY <1>2, <1>3, <2>1, <2>3, <2>4, <2>5 DEF TypeInv, Tick
<1>4. CASE Mutate
  <2>1. Shaped(P)' /\ MintUnderway'
    BY <1>1, <1>2, <1>4 DEF Shaped, MintSet, FetchSet, MintUnderway, Mutate
  <2>2. \A u \in issued' : UrlTyped(u)'
    BY <1>2, <1>4 DEF UrlTyped, Mutate
  <2> QED
    BY <1>2, <1>4, <2>1, <2>2 DEF TypeInv, Mutate
<1>5. CASE Restart
  <2>1. mint' \in [Callers -> MintSet({<<>>})] /\ fetch' \in [Fetchers -> FetchSet({<<>>})]
    BY <1>2, <1>5, NoMintType, NoFetchType DEF Restart
  <2>2. Shaped({<<>>})'
    BY <1>5, <2>1 DEF Shaped, MintSet, FetchSet, Restart
  <2>3. MintUnderway'
    BY <1>5 DEF MintUnderway, Restart, NoMint
  <2>4. \A u \in issued' : UrlTyped(u)'
    BY <1>2, <1>5 DEF UrlTyped, Restart
  <2> QED
    BY <1>2, <1>5, <2>2, <2>3, <2>4 DEF TypeInv, Restart
<1>6. CASE UNCHANGED vars
  <2>1. Shaped(P)' /\ MintUnderway'
    BY <1>1, <1>2, <1>6 DEF Shaped, MintSet, FetchSet, MintUnderway, vars
  <2>2. \A u \in issued' : UrlTyped(u)'
    BY <1>2, <1>6 DEF UrlTyped, vars
  <2> QED
    BY <1>2, <1>6, <2>1, <2>2 DEF TypeInv, vars
<1> QED
  BY <1>3, <1>4, <1>5, <1>6, MintTypeStep, FetchTypeStep DEF Next

\* Every handler, URL and clock value the sidecar ever holds is of the declared shape.
THEOREM TypeCorrect == Spec => []TypeOK
<1>1. Spec => []TypeInv
  BY TypeInit, TypeStep, PTL DEF Spec
<1> QED
  BY <1>1, TypeInvSuffices, PTL

THEOREM TypeInvariant == Spec => []TypeInv
BY TypeInit, TypeStep, PTL DEF Spec

-----------------------------------------------------------------------------
(* Only what was signed is accepted. *)

Signed == \A u \in issued : u.sig = Signature(u.key, u.path, u.exp, u.disp)

SignedInv == Signed /\ AcceptedWasIssued

\* Only MintSign adds a URL.
LEMMA OnlyMintSignIssues ==
    ASSUME [Next]_vars, ~\E c \in Callers : MintSign(c)
    PROVE  issued' = issued
BY DEF Next, vars, Tick, Mutate, Restart, Mint, MintRequest, MintResolve, MintStat, MintDone,
       Fetch, FetchRequest, FetchResolve, FetchOpen, FetchDone

\* ... and only the fetch handlers, and a restart, change what has been accepted.
LEMMA OnlyFetchesAccept ==
    ASSUME [Next]_vars, ~Restart, ~\E f \in Fetchers : Fetch(f)
    PROVE  fetch' = fetch /\ key' = key
BY DEF Next, vars, Tick, Mutate, Mint, MintRequest, MintResolve, MintStat, MintSign, MintDone

LEMMA SignedInit == Init => SignedInv
<1>1. Init => \A f \in Fetchers : ~Accepted(f)
  <2>1. NoFetch.url = NoUrl
    BY DEF NoFetch
  <2> QED
    BY <2>1 DEF Init, Accepted
<1>2. Init => Signed
  BY DEF Init, Signed
<1> QED
  BY <1>1, <1>2 DEF SignedInv, AcceptedWasIssued

\* The fields that resolving and opening leave as they are.
Keeps(f) ==
    /\ \A g \in Fetchers : g # f => fetch'[g] = fetch[g]
    /\ fetch'[f].url = fetch[f].url /\ fetch'[f].exp = fetch[f].exp
    /\ fetch'[f].disp = fetch[f].disp /\ fetch'[f].when = fetch[f].when

\* A refusal keeps the URL that was presented.
LEMMA ReplyKeeps ==
    ASSUME NEW P, fetch \in [Fetchers -> FetchSet(P)], NEW f \in Fetchers,
           NEW status, Reply(f, status)
    PROVE  /\ Keeps(f)
           /\ fetch'[f].at = "done" /\ fetch'[f].status = status
           /\ fetch'[f].seen = fetch[f].seen \cup {fs}
<1>1. PICK A, S, U, D, W, Q :
        FetchSet(P) = [at : A, status : S, url : U, path : P, exp : Int, disp : D,
                       when : W, seen : Q, body : P]
  BY FetchShape
<1>2. fetch' = [fetch EXCEPT ![f] =
        [@ EXCEPT !.at = "done", !.status = status, !.seen = fetch[f].seen \cup {fs}]]
  BY <1>1 DEF Reply
<1> QED
  BY <1>1, <1>2 DEF Keeps

LEMMA StatusOfRefuses == \A r : StatusOf(r) # 200
BY DEF StatusOf

LEMMA ResolveKeeps ==
    ASSUME NEW P, fetch \in [Fetchers -> FetchSet(P)], NEW f \in Fetchers, FetchResolve(f)
    PROVE  LET r == Resolve(fs, Roots, [absolute |-> TRUE, names |-> fetch[f].path])
           IN  /\ Keeps(f)
               /\ \/ /\ r.status # "ok"
                     /\ fetch'[f].at = "done" /\ fetch'[f].status # 200
                     /\ fetch'[f].seen = fetch[f].seen \cup {fs}
                  \/ /\ r.status = "ok"
                     /\ fetch'[f].at = "open" /\ fetch'[f].path = r.path
                     /\ fetch'[f].seen = {fs}
<1> DEFINE r == Resolve(fs, Roots, [absolute |-> TRUE, names |-> fetch[f].path])
<1>1. CASE r.status # "ok"
  <2>1. Reply(f, StatusOf(r.status))
    BY <1>1 DEF FetchResolve
  <2> QED
    BY <1>1, <2>1, ReplyKeeps, StatusOfRefuses
<1>2. CASE r.status = "ok"
  <2>1. fetch' = [fetch EXCEPT ![f].at = "open", ![f].path = r.path, ![f].seen = {fs}]
    BY <1>2 DEF FetchResolve
  <2> HIDE DEF r
  <2>2. fetch[f] \in FetchSet(P)
    OBVIOUS
  <2>3. PICK A, S, U, D, W, Q :
          FetchSet(P) = [at : A, status : S, url : U, path : P, exp : Int, disp : D,
                         when : W, seen : Q, body : P]
    BY FetchShape
  <2>4. /\ Keeps(f)
        /\ fetch'[f].at = "open" /\ fetch'[f].path = r.path /\ fetch'[f].seen = {fs}
    BY <2>1, <2>2, <2>3 DEF Keeps
  <2> QED
    BY <1>2, <2>4 DEF r
<1> QED
  BY <1>1, <1>2

LEMMA OpenKeeps ==
    ASSUME NEW P, fetch \in [Fetchers -> FetchSet(P)], NEW f \in Fetchers, FetchOpen(f)
    PROVE  LET found == EvalSymlinks(fs, fetch[f].path)
           IN  /\ Keeps(f)
               /\ fetch'[f].at = "done" /\ fetch'[f].seen = fetch[f].seen \cup {fs}
               /\ \/ /\ found.status # "ok" \/ ~Servable(fs[found.path])
                     /\ fetch'[f].status # 200
                  \/ /\ found.status = "ok" /\ Servable(fs[found.path])
                     /\ fetch'[f].status = 200 /\ fetch'[f].path = found.path
<1> DEFINE found == EvalSymlinks(fs, fetch[f].path)
<1>1. CASE found.status # "ok"
  <2>1. Reply(f, StatusOf(found.status))
    BY <1>1 DEF FetchOpen
  <2> QED
    BY <1>1, <2>1, ReplyKeeps, StatusOfRefuses
<1>2. CASE found.status = "ok" /\ ~Servable(fs[found.path])
  <2>1. Reply(f, 404)
    BY <1>2 DEF FetchOpen
  <2> QED
    BY <1>2, <2>1, ReplyKeeps
<1>3. CASE found.status = "ok" /\ Servable(fs[found.path])
  <2> DEFINE body == fs[found.path].body
             seen == fetch[f].seen \cup {fs}
             g == OpenedAs(fetch[f], 200, found.path, body, seen)
  <2>1. fetch' = [fetch EXCEPT ![f] = g]
    BY <1>3 DEF FetchOpen, OpenedAs
  <2> HIDE DEF found, body, seen
  <2>2. fetch[f] \in FetchSet(P)
    OBVIOUS
  <2>3. /\ g.at = "done" /\ g.status = 200 /\ g.path = found.path /\ g.seen = seen
        /\ g.url = fetch[f].url /\ g.exp = fetch[f].exp
        /\ g.disp = fetch[f].disp /\ g.when = fetch[f].when
    BY <2>2 DEF FetchSet, OpenedAs
  <2> HIDE DEF g
  <2>4. /\ Keeps(f)
        /\ fetch'[f].at = "done" /\ fetch'[f].status = 200
        /\ fetch'[f].path = found.path /\ fetch'[f].seen = seen
    BY <2>1, <2>3 DEF Keeps
  <2> QED
    BY <1>3, <2>4 DEF found, seen
<1> QED
  BY <1>1, <1>2, <1>3

\* Resolving and opening keep the URL that was presented.
LEMMA FetchKeeps ==
    ASSUME NEW P, fetch \in [Fetchers -> FetchSet(P)], NEW f \in Fetchers,
           FetchResolve(f) \/ FetchOpen(f)
    PROVE  Keeps(f) /\ fetch'[f].at \in {"open", "done"}
BY ResolveKeeps, OpenKeeps

LEMMA SignedStep == TypeInv /\ SignedInv /\ [Next]_vars => SignedInv'
<1> SUFFICES ASSUME TypeInv, SignedInv, [Next]_vars
             PROVE  SignedInv'
  OBVIOUS
<1>1. PICK P : Shaped(P)
  BY DEF TypeInv
<1>2. Signed'
  <2>1. CASE \E c \in Callers : MintSign(c)
    BY <2>1 DEF SignedInv, Signed, MintSign
  <2>2. CASE ~\E c \in Callers : MintSign(c)
    BY <2>2, OnlyMintSignIssues DEF SignedInv, Signed
  <2> QED
    BY <2>1, <2>2
<1>3. AcceptedWasIssued'
  <2>1. CASE Restart
    BY <2>1 DEF Restart, AcceptedWasIssued, Accepted, NoFetch
  <2>2. CASE ~Restart /\ ~\E f \in Fetchers : Fetch(f)
    BY <2>2, OnlyFetchesAccept DEF SignedInv, AcceptedWasIssued, Accepted
  <2>3. ASSUME NEW f \in Fetchers, Fetch(f)
        PROVE  AcceptedWasIssued'
    <3>1. fetch \in [Fetchers -> FetchSet(P)]
      BY <1>1 DEF Shaped
    <3>2. CASE FetchRequest(f)
      <4>1. PICK u \in issued, path \in {v.path : v \in issued},
                 exp \in {v.exp : v \in issued}, sent \in SentDispositions :
              fetch' = [fetch EXCEPT ![f] =
                IF Disposition(sent) \notin Dispositions
                THEN [NoFetch EXCEPT !.at = "done", !.status = 400]
                ELSE IF ~Verified(path, exp, Disposition(sent), u.sig)
                THEN [NoFetch EXCEPT !.at = "done", !.status = 403]
                ELSE [NoFetch EXCEPT !.at = "resolve", !.url = u, !.path = path,
                                     !.exp = exp, !.disp = Disposition(sent), !.when = now]]
        BY <3>2 DEF FetchRequest
      <4>2. u.sig = Signature(u.key, u.path, u.exp, u.disp)
        BY DEF SignedInv, Signed
      <4>3. Accepted(f)' => /\ Verified(path, exp, Disposition(sent), u.sig)
                            /\ fetch'[f].url = u /\ fetch'[f].path = path
                            /\ fetch'[f].exp = exp /\ fetch'[f].disp = Disposition(sent)
        BY <3>1, <4>1 DEF Accepted, NoFetch
      <4>4. Accepted(f)' => /\ u.key = key /\ u.exp = fetch'[f].exp
                            /\ u.disp = fetch'[f].disp /\ u.path = fetch'[f].path
        BY <4>2, <4>3 DEF Verified, Signature
      <4>5. \A g \in Fetchers : g # f => fetch'[g] = fetch[g]
        BY <3>1, <4>1
      <4>6. key' = key
        BY <3>2 DEF FetchRequest
      <4> QED
        BY <4>3, <4>4, <4>5, <4>6 DEF SignedInv, AcceptedWasIssued, Accepted
    <3>3. CASE FetchResolve(f) \/ FetchOpen(f)
      <4>1. key' = key
        BY <3>3 DEF FetchResolve, FetchOpen
      <4> QED
        BY <3>1, <3>3, <4>1, FetchKeeps DEF Keeps, SignedInv, AcceptedWasIssued, Accepted
    <3>5. CASE FetchDone(f)
      BY <3>1, <3>5 DEF FetchDone, NoFetch, SignedInv, AcceptedWasIssued, Accepted
    <3> QED
      BY <2>3, <3>2, <3>3, <3>5 DEF Fetch
  <2> QED
    BY <2>1, <2>2, <2>3
<1> QED
  BY <1>2, <1>3 DEF SignedInv

\* No request passes serve/handler.go's Verify that is not, in every signed part, a URL
\* minted under the key the sidecar runs with.
THEOREM AcceptedOnlyIfIssued == Spec => []AcceptedWasIssued
<1>1. Init => SignedInv
  BY SignedInit
<1>2. TypeInv /\ SignedInv /\ [Next]_vars => SignedInv'
  BY SignedStep
<1>3. SignedInv => AcceptedWasIssued
  BY DEF SignedInv
<1> QED
  BY <1>1, <1>2, <1>3, TypeInvariant, PTL DEF Spec

-----------------------------------------------------------------------------
(* For how long. *)

Dated == \A u \in issued : u.exp = Unix(u.mintedAt + Lifetime(u.asked))

InTime ==
    \A f \in Fetchers : Accepted(f) =>
        fetch[f].when <= fetch[f].url.exp * TicksPerSecond

LifetimeInv == Dated /\ InTime

LEMMA LifetimeInit == Init => LifetimeInv
<1>1. Init => \A f \in Fetchers : ~Accepted(f)
  <2>1. NoFetch.url = NoUrl
    BY DEF NoFetch
  <2> QED
    BY <2>1 DEF Init, Accepted
<1>2. Init => Dated
  BY DEF Init, Dated
<1> QED
  BY <1>1, <1>2 DEF LifetimeInv, InTime

LEMMA LifetimeStep == TypeInv /\ SignedInv /\ LifetimeInv /\ [Next]_vars => LifetimeInv'
<1> SUFFICES ASSUME TypeInv, SignedInv, LifetimeInv, [Next]_vars
             PROVE  LifetimeInv'
  OBVIOUS
<1>1. PICK P : Shaped(P)
  BY DEF TypeInv
<1>2. Dated'
  <2>1. CASE \E c \in Callers : MintSign(c)
    BY <2>1 DEF LifetimeInv, Dated, MintSign
  <2>2. CASE ~\E c \in Callers : MintSign(c)
    BY <2>2, OnlyMintSignIssues DEF LifetimeInv, Dated
  <2> QED
    BY <2>1, <2>2
<1>3. InTime'
  <2>1. CASE Restart
    <3>1. NoFetch.url = NoUrl
      BY DEF NoFetch
    <3> QED
      BY <2>1, <3>1 DEF Restart, InTime, Accepted
  <2>2. CASE ~Restart /\ ~\E f \in Fetchers : Fetch(f)
    BY <2>2, OnlyFetchesAccept DEF LifetimeInv, InTime, Accepted
  <2>3. ASSUME NEW f \in Fetchers, Fetch(f)
        PROVE  InTime'
    <3>1. fetch \in [Fetchers -> FetchSet(P)]
      BY <1>1 DEF Shaped
    <3>2. CASE FetchRequest(f)
      <4>1. PICK u \in issued, path \in {v.path : v \in issued},
                 exp \in {v.exp : v \in issued}, sent \in SentDispositions :
              fetch' = [fetch EXCEPT ![f] =
                IF Disposition(sent) \notin Dispositions
                THEN [NoFetch EXCEPT !.at = "done", !.status = 400]
                ELSE IF ~Verified(path, exp, Disposition(sent), u.sig)
                THEN [NoFetch EXCEPT !.at = "done", !.status = 403]
                ELSE [NoFetch EXCEPT !.at = "resolve", !.url = u, !.path = path,
                                     !.exp = exp, !.disp = Disposition(sent), !.when = now]]
        BY <3>2 DEF FetchRequest
      <4>2. u.sig = Signature(u.key, u.path, u.exp, u.disp)
        BY DEF SignedInv, Signed
      <4>3. Accepted(f)' => /\ Verified(path, exp, Disposition(sent), u.sig)
                            /\ fetch'[f].url = u /\ fetch'[f].when = now
        BY <3>1, <4>1 DEF Accepted, NoFetch
      <4>4. Accepted(f)' => now <= u.exp * TicksPerSecond
        <5>1. Accepted(f)' => exp = u.exp
          BY <4>2, <4>3 DEF Verified, Signature
        <5>2. now \in Nat /\ u.exp \in Int /\ TicksPerSecond \in Nat
          BY SidecarAssumption DEF TypeInv, UrlTyped, SidecarAssumption
        <5>3. u.exp * TicksPerSecond \in Int
          BY <5>2
        <5> QED
          BY <4>3, <5>1, <5>2, <5>3 DEF Verified, Expired
      <4>5. \A g \in Fetchers : g # f => fetch'[g] = fetch[g]
        BY <3>1, <4>1
      <4> QED
        BY <4>3, <4>4, <4>5 DEF LifetimeInv, InTime, Accepted
    <3>3. CASE FetchResolve(f) \/ FetchOpen(f)
      BY <3>1, <3>3, FetchKeeps DEF Keeps, LifetimeInv, InTime, Accepted
    <3>4. CASE FetchDone(f)
      <4>1. NoFetch.url = NoUrl
        BY DEF NoFetch
      <4> QED
        BY <3>1, <3>4, <4>1 DEF FetchDone, LifetimeInv, InTime, Accepted
    <3> QED
      BY <2>3, <3>2, <3>3, <3>4 DEF Fetch
  <2> QED
    BY <2>1, <2>2, <2>3
<1> QED
  BY <1>2, <1>3 DEF LifetimeInv

\* What the invariant says of one URL.
LEMMA ExpiryBounds ==
    ASSUME TypeInv, LifetimeInv, NEW u \in issued
    PROVE  /\ u.mintedAt \in Nat /\ u.asked \in Nat
           /\ u.exp * TicksPerSecond \in Int
           /\ u.exp * TicksPerSecond <= u.mintedAt + Lifetime(u.asked)
           /\ u.mintedAt + Lifetime(u.asked) < u.exp * TicksPerSecond + TicksPerSecond
<1>1. now \in Nat /\ UrlTyped(u)
  BY DEF TypeInv
<1>2. u.mintedAt \in Nat /\ u.asked \in Nat
  BY <1>1 DEF UrlTyped
<1>3. u.mintedAt + Lifetime(u.asked) \in Nat
  BY <1>2, LifetimeBounds
<1>4. u.exp = Unix(u.mintedAt + Lifetime(u.asked))
  BY DEF LifetimeInv, Dated
<1>5. TicksPerSecond \in Nat
  BY SidecarAssumption DEF SidecarAssumption
<1>6. u.exp \in Nat /\ u.exp * TicksPerSecond <= u.mintedAt + Lifetime(u.asked)
      /\ u.mintedAt + Lifetime(u.asked) < u.exp * TicksPerSecond + TicksPerSecond
  BY <1>3, <1>4, UnixBounds
<1>7. u.exp * TicksPerSecond \in Int
  BY <1>5, <1>6
<1> QED
  BY <1>2, <1>6, <1>7

LEMMA LifetimeInvariant == Spec => []LifetimeInv
<1>1. Init => SignedInv /\ LifetimeInv
  BY SignedInit, LifetimeInit
<1>2. TypeInv /\ SignedInv /\ LifetimeInv /\ [Next]_vars => SignedInv' /\ LifetimeInv'
  BY SignedStep, LifetimeStep
<1> QED
  BY <1>1, <1>2, TypeInvariant, PTL DEF Spec

\* With a MaxTTL of whole seconds, no request passes Verify later than MaxTTL, or than the
\* seconds its client asked for, after the URL was minted.
THEOREM AcceptedOnlyInTime ==
    ASSUME WholeSeconds
    PROVE  Spec => []NeverOutlives
<1>1. TypeInv /\ LifetimeInv => NeverOutlives
  <2> SUFFICES ASSUME TypeInv, LifetimeInv, NEW f \in Fetchers, Accepted(f)
               PROVE  LET u == fetch[f].url
                          age == fetch[f].when - u.mintedAt
                      IN  age <= MaxTTL /\ (u.asked > 0 => age <= u.asked * TicksPerSecond)
    BY DEF NeverOutlives
  <2> DEFINE u == fetch[f].url
             when == fetch[f].when
  <2>1. PICK P : Shaped(P)
    BY DEF TypeInv
  <2>2. fetch[f] \in FetchSet(P) /\ now \in Nat
    BY <2>1 DEF Shaped, TypeInv
  <2>3. u \in issued /\ when \in Nat
    <3>1. u \in issued \cup {NoUrl} /\ when \in 0..now
      BY <2>2 DEF FetchSet
    <3> QED
      BY <2>2, <3>1 DEF Accepted
  <2>4. when <= u.exp * TicksPerSecond
    BY DEF LifetimeInv, InTime
  <2> HIDE DEF u, when
  <2>5. /\ u.mintedAt \in Nat /\ u.asked \in Nat
        /\ u.exp * TicksPerSecond \in Int
        /\ u.exp * TicksPerSecond <= u.mintedAt + Lifetime(u.asked)
    BY <2>3, ExpiryBounds
  <2>6. /\ Lifetime(u.asked) \in Nat /\ Lifetime(u.asked) <= MaxTTL
        /\ u.asked > 0 => Lifetime(u.asked) <= u.asked * TicksPerSecond
    BY <2>5, LifetimeBounds
  <2>7. MaxTTL \in Nat /\ TicksPerSecond \in Nat
    BY SidecarAssumption DEF SidecarAssumption
  <2>8. when - u.mintedAt <= Lifetime(u.asked)
    <3> DEFINE limit == u.exp * TicksPerSecond
    <3>1. limit \in Int /\ when <= limit /\ limit <= u.mintedAt + Lifetime(u.asked)
      BY <2>4, <2>5
    <3> HIDE DEF limit
    <3> QED
      BY <2>3, <2>5, <2>6, <3>1
  <2>9. when - u.mintedAt <= MaxTTL
    BY <2>3, <2>5, <2>6, <2>7, <2>8
  <2>10. ASSUME u.asked > 0
         PROVE  when - u.mintedAt <= u.asked * TicksPerSecond
    <3> DEFINE asked == u.asked * TicksPerSecond
    <3>1. asked \in Nat /\ Lifetime(u.asked) <= asked
      BY <2>5, <2>6, <2>7, <2>10
    <3> HIDE DEF asked
    <3>2. when - u.mintedAt <= asked
      BY <2>3, <2>5, <2>6, <2>8, <3>1
    <3> QED
      BY <3>2 DEF asked
  <2> QED
    BY <2>9, <2>10 DEF u, when
<1> QED
  BY <1>1, TypeInvariant, LifetimeInvariant, PTL

\* With a DefaultTTL of at least a second, rounding the expiry down to whole seconds never
\* yields a URL that is expired when it is handed out.
THEOREM NeverExpiredWhenMinted ==
    ASSUME SecondOrMore
    PROVE  Spec => []UsableWhenMinted
<1>1. TypeInv /\ LifetimeInv => UsableWhenMinted
  <2> SUFFICES ASSUME TypeInv, LifetimeInv, NEW u \in issued
               PROVE  u.mintedAt <= u.exp * TicksPerSecond
    BY DEF UsableWhenMinted
  <2> DEFINE limit == u.exp * TicksPerSecond
  <2>1. /\ u.mintedAt \in Nat /\ u.asked \in Nat /\ limit \in Int
        /\ u.mintedAt + Lifetime(u.asked) < limit + TicksPerSecond
    BY ExpiryBounds
  <2>2. Lifetime(u.asked) \in Nat /\ Lifetime(u.asked) >= TicksPerSecond
    BY <2>1, LifetimeBounds
  <2>3. TicksPerSecond \in Nat
    BY SidecarAssumption DEF SidecarAssumption
  <2> HIDE DEF limit
  <2>4. u.mintedAt <= limit
    BY <2>1, <2>2, <2>3
  <2> QED
    BY <2>4 DEF limit
<1> QED
  BY <1>1, TypeInvariant, LifetimeInvariant, PTL

-----------------------------------------------------------------------------
(* Only fenced paths are signed. *)

\* The steps of a POST /mint handler: it starts or ends, resolves, or finds a file.
LEMMA MintDoes ==
    ASSUME NEW P, mint \in [Callers -> MintSet(P)], NEW c \in Callers, Mint(c)
    PROVE  /\ fs' = fs /\ \A d \in Callers : d # c => mint'[d] = mint[d]
           /\ \/ /\ mint'[c].at \in {"idle", "resolve", "done"} /\ mint'[c].seen = {}
                 /\ mint'[c].at = "resolve" => mint'[c].request \in Requests
              \/ LET r == Resolve(fs, Roots, mint[c].request)
                 IN  /\ mint[c].at = "resolve" /\ r.status = "ok"
                     /\ mint'[c].at = "stat" /\ mint'[c].path = r.path
                     /\ mint'[c].seen = {fs}
              \/ LET found == EvalSymlinks(fs, mint[c].path)
                 IN  /\ mint[c].at = "stat"
                     /\ found.status = "ok" /\ Mintable(fs[found.path])
                     /\ mint'[c].at = "sign" /\ mint'[c].path = mint[c].path
                     /\ mint'[c].seen = mint[c].seen \cup {fs}
<1>1. fs' = fs
  BY DEF Mint, MintRequest, MintResolve, MintStat, MintSign, MintDone
<1>2. ASSUME NEW status, Answer(c, status)
      PROVE  /\ mint'[c].at = "done" /\ mint'[c].seen = {}
             /\ \A d \in Callers : d # c => mint'[d] = mint[d]
  <2> DEFINE m == [NoMint EXCEPT !.at = "done", !.status = status]
  <2>1. m.at = "done" /\ m.seen = {}
    BY DEF NoMint
  <2>2. mint' = [mint EXCEPT ![c] = m]
    BY <1>2 DEF Answer
  <2> HIDE DEF m
  <2> QED
    BY <2>1, <2>2
<1>3. CASE MintRequest(c)
  <2>1. PICK authorized \in BOOLEAN, p \in Requests, sent \in SentDispositions, ttl \in Ttls :
          IF Refusal(authorized, sent, ttl) # 200
          THEN Answer(c, Refusal(authorized, sent, ttl))
          ELSE mint' = [mint EXCEPT ![c] =
                 [NoMint EXCEPT !.at = "resolve", !.request = p,
                                !.disp = Disposition(sent), !.ttl = ttl]]
    BY <1>3 DEF MintRequest
  <2> DEFINE m == [NoMint EXCEPT !.at = "resolve", !.request = p,
                                 !.disp = Disposition(sent), !.ttl = ttl]
  <2>2. m.at = "resolve" /\ m.request \in Requests /\ m.seen = {}
    BY DEF NoMint
  <2>3. CASE Refusal(authorized, sent, ttl) # 200
    BY <1>1, <1>2, <2>1, <2>3
  <2>4. CASE Refusal(authorized, sent, ttl) = 200
    <3>1. mint' = [mint EXCEPT ![c] = m]
      BY <2>1, <2>4
    <3> HIDE DEF m
    <3> QED
      BY <1>1, <2>2, <3>1
  <2> QED
    BY <2>3, <2>4
<1>4. CASE MintResolve(c)
  <2> DEFINE r == Resolve(fs, Roots, mint[c].request)
  <2>1. CASE r.status # "ok"
    BY <1>1, <1>2, <1>4, <2>1 DEF MintResolve
  <2>2. CASE r.status = "ok"
    <3>1. /\ mint' = [mint EXCEPT ![c].at = "stat", ![c].path = r.path, ![c].seen = {fs}]
          /\ mint[c].at = "resolve"
      BY <1>4, <2>2 DEF MintResolve
    <3> HIDE DEF r
    <3>2. /\ mint'[c].at = "stat" /\ mint'[c].path = r.path /\ mint'[c].seen = {fs}
          /\ \A d \in Callers : d # c => mint'[d] = mint[d]
      BY <3>1 DEF MintSet
    <3> QED
      BY <1>1, <2>2, <3>1, <3>2 DEF r
  <2> QED
    BY <2>1, <2>2
<1>5. CASE MintStat(c)
  <2> DEFINE found == EvalSymlinks(fs, mint[c].path)
  <2>1. CASE found.status # "ok"
    BY <1>1, <1>2, <1>5, <2>1 DEF MintStat
  <2>2. CASE found.status = "ok" /\ ~Mintable(fs[found.path])
    BY <1>1, <1>2, <1>5, <2>2 DEF MintStat
  <2>3. CASE found.status = "ok" /\ Mintable(fs[found.path])
    <3>1. /\ mint' = [mint EXCEPT ![c].at = "sign", ![c].seen = @ \cup {fs}]
          /\ mint[c].at = "stat"
      BY <1>5, <2>3 DEF MintStat
    <3> HIDE DEF found
    <3>2. /\ mint'[c].at = "sign" /\ mint'[c].path = mint[c].path
          /\ mint'[c].seen = mint[c].seen \cup {fs}
          /\ \A d \in Callers : d # c => mint'[d] = mint[d]
      BY <3>1 DEF MintSet
    <3> QED
      BY <1>1, <2>3, <3>1, <3>2 DEF found
  <2> QED
    BY <2>1, <2>2, <2>3
<1>6. CASE MintSign(c)
  BY <1>1, <1>2, <1>6 DEF MintSign
<1>7. CASE MintDone(c)
  BY <1>1, <1>7 DEF MintDone, NoMint
<1> QED
  BY <1>3, <1>4, <1>5, <1>6, <1>7 DEF Mint

FencedInv ==
    /\ IssuedFenced
    /\ \A c \in Callers : mint[c].at \in {"stat", "sign"} => InSomeRoot(fs, Roots, mint[c].path)

LEMMA FencedInit == Init => FencedInv
<1>1. NoMint.at = "idle"
  BY DEF NoMint
<1> QED
  BY <1>1 DEF Init, FencedInv, IssuedFenced

LEMMA FencedStep ==
    ASSUME RootsFixed
    PROVE  TypeInv /\ FencedInv /\ [Next]_vars => FencedInv'
<1> SUFFICES ASSUME TypeInv, FencedInv, [Next]_vars
             PROVE  FencedInv'
  OBVIOUS
<1>1. PICK P : Shaped(P)
  BY DEF TypeInv
<1>2. mint \in [Callers -> MintSet(P)]
  BY <1>1 DEF Shaped
<1>3. \A path : InSomeRoot(fs, Roots, path) => InSomeRoot(fs', Roots, path)
  <2>1. fs \in FileSystems /\ fs' \in FileSystems
    BY TypeStep DEF TypeInv
  <2> QED
    BY <2>1 DEF RootsFixed, InSomeRoot
<1>4. CASE UNCHANGED mint /\ UNCHANGED issued
  BY <1>3, <1>4 DEF FencedInv, IssuedFenced
<1>5. CASE Restart
  <2>1. NoMint.at = "idle"
    BY DEF NoMint
  <2> QED
    BY <1>3, <1>5, <2>1 DEF FencedInv, IssuedFenced, Restart
<1>6. ASSUME NEW c \in Callers, Mint(c)
      PROVE  FencedInv'
  <2>1. fs' = fs
    BY <1>2, <1>6, MintDoes
  <2>2. Resolve(fs, Roots, mint[c].request).status = "ok"
          => InSomeRoot(fs, Roots, Resolve(fs, Roots, mint[c].request).path)
    BY SidecarAssumption, ResolveFenced DEF SidecarAssumption
  <2>3. /\ \/ mint'[c].at \in {"idle", "resolve", "done"}
           \/ mint'[c].at \in {"stat", "sign"} /\ InSomeRoot(fs, Roots, mint'[c].path)
        /\ \A d \in Callers : d # c => mint'[d] = mint[d]
    BY <1>2, <1>6, <2>2, MintDoes DEF FencedInv
  <2>4. \A u \in issued' : InSomeRoot(fs, Roots, u.path)
    <3>1. CASE MintSign(c)
      BY <3>1 DEF MintSign, FencedInv, IssuedFenced
    <3>2. CASE ~MintSign(c)
      BY <1>6, <3>2
      DEF Mint, MintRequest, MintResolve, MintStat, MintDone, FencedInv, IssuedFenced
    <3> QED
      BY <3>1, <3>2
  <2> QED
    BY <2>1, <2>3, <2>4 DEF FencedInv, IssuedFenced
<1> QED
  BY <1>4, <1>5, <1>6
  DEF Next, vars, Tick, Mutate, Fetch, FetchRequest, FetchResolve, FetchOpen, FetchDone

\* As long as the workload leaves the mounts themselves alone, every URL ever signed names a
\* place inside a resolved root, whatever it does to the files between Resolve and Sign.
THEOREM OnlyFencedIssued ==
    ASSUME RootsFixed
    PROVE  Spec => []IssuedFenced
<1>1. Init => FencedInv
  BY FencedInit
<1>2. TypeInv /\ FencedInv /\ [Next]_vars => FencedInv'
  BY FencedStep
<1>3. FencedInv => IssuedFenced
  BY DEF FencedInv
<1> QED
  BY <1>1, <1>2, <1>3, TypeInvariant, PTL DEF Spec

-----------------------------------------------------------------------------
(* What a handler found, when the files did not change under it. *)

\* A path that was resolved is typed; and if only one state F of the file system was seen on
\* the way, it is in F a place the fence lets through, and no directory where that was
\* checked.
MintSaw(m) ==
    /\ IsFiniteSet(m.seen)
    /\ m.at = "resolve" => m.request \in Requests
    /\ m.at \in {"stat", "sign"} =>
         /\ m.path \in Seq(STRING) /\ m.seen # {}
         /\ \A F \in FileSystems : m.seen = {F} =>
              Settled(F, Roots, m.path) /\ (m.at = "sign" => Mintable(F[m.path]))

UrlSaw(u) ==
    /\ IsFiniteSet(u.seen)
    /\ u.path \in Seq(STRING) /\ u.seen # {}
    /\ \A F \in FileSystems : u.seen = {F} => Settled(F, Roots, u.path) /\ Mintable(F[u.path])

FetchSaw(g) ==
    /\ IsFiniteSet(g.seen)
    /\ g.at = "resolve" => g.path \in Seq(STRING)
    /\ g.at = "open" \/ (g.at = "done" /\ g.status = 200) =>
         /\ g.path \in Seq(STRING) /\ g.seen # {}
         /\ \A F \in FileSystems : g.seen = {F} => Settled(F, Roots, g.path)

SeenInv ==
    /\ \A c \in Callers : MintSaw(mint[c])
    /\ \A u \in issued : UrlSaw(u)
    /\ \A f \in Fetchers : FetchSaw(fetch[f])

LEMMA Files ==
    /\ \A F \in FileSystems : IsFileSystem(F)
    /\ Roots \in Seq(Seq(STRING))
    /\ \A p \in Requests : p.names \in Seq(STRING)
BY SidecarAssumption DEF SidecarAssumption

LEMMA FiniteSeen == IsFiniteSet({}) /\ \A x : IsFiniteSet({x})
BY FS_EmptySet, FS_Singleton

LEMMA SeenMore ==
    ASSUME NEW S, IsFiniteSet(S), NEW x, NEW T, T = S \cup {x}
    PROVE  IsFiniteSet(T) /\ T # {}
<1>1. IsFiniteSet(S \cup {x})
  BY FS_AddElement
<1> QED
  BY <1>1

LEMMA SettledStays ==
    ASSUME NEW F \in FileSystems, NEW path, Settled(F, Roots, path)
    PROVE  EvalSymlinks(F, path) = [path |-> path, status |-> "ok"]
BY Files, EvalSymlinksStays DEF Settled

LEMMA EvalSymlinksType ==
    ASSUME NEW F \in FileSystems, NEW path \in Seq(STRING)
    PROVE  EvalSymlinks(F, path).path \in Seq(STRING)
BY Files, EvalSymlinksReal

LEMMA NothingSaw == MintSaw(NoMint) /\ FetchSaw(NoFetch)
BY FiniteSeen DEF MintSaw, FetchSaw, NoMint, NoFetch

LEMMA SeenInit == Init => SeenInv
BY NothingSaw DEF Init, SeenInv

LEMMA MintSawStep ==
    ASSUME TypeInv, SeenInv, NEW c \in Callers, Mint(c)
    PROVE  \A d \in Callers : MintSaw(mint'[d])
<1>1. PICK P : Shaped(P)
  BY DEF TypeInv
<1>2. mint \in [Callers -> MintSet(P)] /\ fs \in FileSystems
  BY <1>1 DEF Shaped, TypeInv
<1> DEFINE m == mint[c]
           n == mint'[c]
<1>3. MintSaw(m) /\ \A d \in Callers : MintSaw(mint[d])
  BY DEF SeenInv
<1>4. \A d \in Callers : d # c => mint'[d] = mint[d]
  BY <1>2, MintDoes
<1>5. MintSaw(n)
  <2>1. CASE /\ n.at \in {"idle", "resolve", "done"} /\ n.seen = {}
             /\ n.at = "resolve" => n.request \in Requests
    BY <2>1, FiniteSeen DEF MintSaw
  <2>2. CASE LET r == Resolve(fs, Roots, m.request)
             IN  /\ m.at = "resolve" /\ r.status = "ok"
                 /\ n.at = "stat" /\ n.path = r.path /\ n.seen = {fs}
    <3>1. m.request.names \in Seq(STRING)
      BY <1>3, <2>2, Files DEF MintSaw
    <3>2. Settled(fs, Roots, n.path)
      BY <1>2, <2>2, <3>1, Files, ResolveSettled
    <3>3. n.path \in Seq(STRING)
      BY <3>2 DEF Settled
    <3>4. n.seen # {} /\ IsFiniteSet(n.seen) /\ n.at = "stat"
      BY <2>2, FS_Singleton
    <3>5. \A F \in FileSystems : n.seen = {F} => Settled(F, Roots, n.path)
      BY <2>2, <3>2
    <3> QED BY <3>3, <3>4, <3>5 DEF MintSaw
  <2>3. CASE LET found == EvalSymlinks(fs, m.path)
             IN  /\ m.at = "stat"
                 /\ found.status = "ok" /\ Mintable(fs[found.path])
                 /\ n.at = "sign" /\ n.path = m.path
                 /\ n.seen = m.seen \cup {fs}
    <3>1. /\ m.path \in Seq(STRING) /\ m.seen # {} /\ IsFiniteSet(m.seen)
          /\ \A F \in FileSystems : m.seen = {F} => Settled(F, Roots, m.path)
      BY <1>3, <2>3 DEF MintSaw
    <3>2. IsFiniteSet(n.seen) /\ n.seen # {} /\ n.at = "sign" /\ n.path \in Seq(STRING)
      <4>1. n.seen = m.seen \cup {fs} /\ n.at = "sign" /\ n.path \in Seq(STRING)
        BY <2>3, <3>1
      <4> HIDE DEF m, n
      <4>2. IsFiniteSet(n.seen) /\ n.seen # {}
        BY <3>1, <4>1, SeenMore, Zenon
      <4> QED BY <4>1, <4>2
    <3>3. ASSUME NEW F \in FileSystems, n.seen = {F}
          PROVE  Settled(F, Roots, n.path) /\ Mintable(F[n.path])
      <4>1. m.seen = {F} /\ fs = F
        BY <2>3, <3>1, <3>3
      <4>2. Settled(F, Roots, m.path)
        BY <3>1, <4>1
      <4>3. EvalSymlinks(F, m.path) = [path |-> m.path, status |-> "ok"]
        BY <4>2, SettledStays
      <4> QED BY <2>3, <4>1, <4>2, <4>3
    <3> QED BY <3>2, <3>3 DEF MintSaw
  <2> QED BY <1>2, <2>1, <2>2, <2>3, MintDoes
<1> QED
  BY <1>3, <1>4, <1>5

\* A URL is signed with what its handler saw.
LEMMA UrlSawStep ==
    ASSUME TypeInv, SeenInv, NEW c \in Callers, MintSign(c)
    PROVE  \A u \in issued' : UrlSaw(u)
<1> DEFINE m == mint[c]
           exp == Unix(now + Lifetime(m.ttl))
           url == [path |-> m.path, exp |-> exp, disp |-> m.disp,
                   sig |-> Signature(key, m.path, exp, m.disp),
                   key |-> key, mintedAt |-> now, asked |-> m.ttl, seen |-> m.seen]
<1>1. issued' = issued \cup {url} /\ m.at = "sign"
  BY DEF MintSign
<1>2. MintSaw(m)
  BY DEF SeenInv
<1>3. url.path = m.path /\ url.seen = m.seen
  OBVIOUS
<1> HIDE DEF url
<1>4. UrlSaw(url)
  BY <1>1, <1>2, <1>3 DEF MintSaw, UrlSaw
<1> QED
  BY <1>1, <1>4 DEF SeenInv

\* A request is refused, or accepted with a path that was signed.
LEMMA FetchRequestDoes ==
    ASSUME NEW P, fetch \in [Fetchers -> FetchSet(P)], NEW f \in Fetchers, FetchRequest(f)
    PROVE  /\ \A g \in Fetchers : g # f => fetch'[g] = fetch[g]
           /\ fetch'[f].seen = {}
           /\ \/ fetch'[f].at = "done" /\ fetch'[f].status # 200 /\ fetch'[f].url = NoUrl
              \/ fetch'[f].at = "resolve" /\ \E v \in issued : fetch'[f].path = v.path
<1>1. PICK u \in issued, path \in {v.path : v \in issued}, exp \in {v.exp : v \in issued},
           sent \in SentDispositions :
        fetch' = [fetch EXCEPT ![f] =
          IF Disposition(sent) \notin Dispositions
          THEN [NoFetch EXCEPT !.at = "done", !.status = 400]
          ELSE IF ~Verified(path, exp, Disposition(sent), u.sig)
          THEN [NoFetch EXCEPT !.at = "done", !.status = 403]
          ELSE [NoFetch EXCEPT !.at = "resolve", !.url = u, !.path = path,
                               !.exp = exp, !.disp = Disposition(sent), !.when = now]]
  BY DEF FetchRequest
<1> DEFINE refused(status) == [NoFetch EXCEPT !.at = "done", !.status = status]
           accepted == [NoFetch EXCEPT !.at = "resolve", !.url = u, !.path = path,
                          !.exp = exp, !.disp = Disposition(sent), !.when = now]
<1>2. /\ refused(400).at = "done" /\ refused(400).status = 400
      /\ refused(400).url = NoUrl /\ refused(400).seen = {}
      /\ refused(403).at = "done" /\ refused(403).status = 403
      /\ refused(403).url = NoUrl /\ refused(403).seen = {}
  BY DEF NoFetch
<1>3. accepted.at = "resolve" /\ accepted.path = path /\ accepted.seen = {}
  BY DEF NoFetch
<1>4. \/ fetch' = [fetch EXCEPT ![f] = refused(400)]
      \/ fetch' = [fetch EXCEPT ![f] = refused(403)]
      \/ fetch' = [fetch EXCEPT ![f] = accepted]
  BY <1>1
<1> HIDE DEF refused, accepted
<1> QED
  BY <1>2, <1>3, <1>4

LEMMA FetchSawStep ==
    ASSUME TypeInv, SeenInv, NEW f \in Fetchers, Fetch(f)
    PROVE  \A g \in Fetchers : FetchSaw(fetch'[g])
<1>1. PICK P : Shaped(P)
  BY DEF TypeInv
<1>2. fetch \in [Fetchers -> FetchSet(P)] /\ fs \in FileSystems
  BY <1>1 DEF Shaped, TypeInv
<1> DEFINE g == fetch[f]
           h == fetch'[f]
<1>3. FetchSaw(g) /\ \A e \in Fetchers : FetchSaw(fetch[e])
  BY DEF SeenInv
<1>4. CASE FetchRequest(f)
  <2>1. \A u \in issued : u.path \in Seq(STRING)
    BY DEF SeenInv, UrlSaw
  <2>2. \A e \in Fetchers : e # f => fetch'[e] = fetch[e]
    BY <1>2, <1>4, FetchRequestDoes
  <2>3. /\ h.seen = {}
        /\ \/ h.at = "done" /\ h.status # 200
           \/ h.at = "resolve" /\ \E v \in issued : h.path = v.path
    BY <1>2, <1>4, FetchRequestDoes
  <2>4. FetchSaw(h)
    BY <2>1, <2>3, FiniteSeen DEF FetchSaw
  <2> QED BY <1>3, <2>2, <2>4
<1>5. CASE FetchResolve(f)
  <2> DEFINE r == Resolve(fs, Roots, [absolute |-> TRUE, names |-> g.path])
  <2>1. \A e \in Fetchers : e # f => fetch'[e] = fetch[e]
    BY <1>2, <1>5, ResolveKeeps DEF Keeps
  <2>2. \/ h.at = "done" /\ h.status # 200 /\ h.seen = g.seen \cup {fs}
        \/ r.status = "ok" /\ h.at = "open" /\ h.path = r.path /\ h.seen = {fs}
    BY <1>2, <1>5, ResolveKeeps
  <2>3. g.path \in Seq(STRING) /\ IsFiniteSet(g.seen)
    BY <1>3, <1>5 DEF FetchSaw, FetchResolve
  <2>4. r.status = "ok" => Settled(fs, Roots, r.path)
    BY <1>2, <2>3, Files, ResolveSettled
  <2> HIDE DEF r
  <2>5. r.status = "ok" => r.path \in Seq(STRING)
    BY <2>4 DEF Settled
  <2>6. IsFiniteSet(h.seen)
    <3>1. h.seen = g.seen \cup {fs} \/ h.seen = {fs}
      BY <2>2
    <3> HIDE DEF g, h
    <3> QED BY <2>3, <3>1, FiniteSeen, SeenMore, Zenon
  <2>7. FetchSaw(h)
    BY <2>2, <2>4, <2>5, <2>6 DEF FetchSaw
  <2> QED BY <1>3, <2>1, <2>7
<1>6. CASE FetchOpen(f)
  <2> DEFINE found == EvalSymlinks(fs, g.path)
  <2>1. \A e \in Fetchers : e # f => fetch'[e] = fetch[e]
    BY <1>2, <1>6, OpenKeeps DEF Keeps
  <2>2. /\ h.at = "done" /\ h.seen = g.seen \cup {fs}
        /\ h.status # 200 \/ h.path = found.path
    BY <1>2, <1>6, OpenKeeps
  <2>3. /\ IsFiniteSet(g.seen) /\ g.path \in Seq(STRING) /\ g.seen # {}
        /\ \A F \in FileSystems : g.seen = {F} => Settled(F, Roots, g.path)
    BY <1>3, <1>6 DEF FetchSaw, FetchOpen
  <2>4. found.path \in Seq(STRING)
    BY <1>2, <2>3, EvalSymlinksType
  <2>5. IsFiniteSet(h.seen) /\ h.seen # {}
    <3> HIDE DEF g, h
    <3> QED BY <2>2, <2>3, SeenMore, Zenon
  <2>6. ASSUME NEW F \in FileSystems, h.seen = {F}
        PROVE  Settled(F, Roots, found.path)
    <3>1. g.seen = {F} /\ fs = F
      BY <2>2, <2>3, <2>6
    <3>2. Settled(F, Roots, g.path)
      BY <2>3, <3>1
    <3>3. found.path = g.path
      BY <3>1, <3>2, SettledStays
    <3> QED BY <3>2, <3>3
  <2> HIDE DEF found
  <2>7. FetchSaw(h)
    BY <2>2, <2>4, <2>5, <2>6 DEF FetchSaw
  <2> QED BY <1>3, <2>1, <2>7
<1>7. CASE FetchDone(f)
  <2>1. h = NoFetch /\ \A e \in Fetchers : e # f => fetch'[e] = fetch[e]
    BY <1>2, <1>7 DEF FetchDone
  <2> QED BY <1>3, <2>1, NothingSaw
<1> QED
  BY <1>4, <1>5, <1>6, <1>7 DEF Fetch

LEMMA SeenStep == TypeInv /\ SeenInv /\ [Next]_vars => SeenInv'
<1> SUFFICES ASSUME TypeInv, SeenInv, [Next]_vars
             PROVE  SeenInv'
  OBVIOUS
<1>1. (\A u \in issued' : UrlSaw(u)) => (\A u \in issued' : UrlSaw(u)')
  BY DEF UrlSaw
<1>2. CASE UNCHANGED <<mint, fetch, issued>>
  BY <1>2 DEF SeenInv
<1>3. CASE Restart
  BY <1>3, NothingSaw DEF SeenInv, Restart
<1>4. ASSUME NEW c \in Callers, Mint(c)
      PROVE  SeenInv'
  <2>1. \A d \in Callers : MintSaw(mint'[d])
    BY <1>4, MintSawStep
  <2>2. \A u \in issued' : UrlSaw(u)
    <3>1. CASE MintSign(c)
      BY <3>1, UrlSawStep
    <3>2. CASE ~MintSign(c)
      BY <1>4, <3>2 DEF Mint, MintRequest, MintResolve, MintStat, MintDone, SeenInv
    <3> QED BY <3>1, <3>2
  <2>3. fetch' = fetch
    BY <1>4 DEF Mint, MintRequest, MintResolve, MintStat, MintSign, MintDone
  <2> QED BY <2>1, <2>2, <2>3 DEF SeenInv
<1>5. ASSUME NEW f \in Fetchers, Fetch(f)
      PROVE  SeenInv'
  <2>1. \A g \in Fetchers : FetchSaw(fetch'[g])
    BY <1>5, FetchSawStep
  <2>2. UNCHANGED <<mint, issued>>
    BY <1>5 DEF Fetch, FetchRequest, FetchResolve, FetchOpen, FetchDone
  <2> QED BY <2>1, <2>2 DEF SeenInv
<1> QED
  BY <1>2, <1>3, <1>4, <1>5 DEF Next, vars, Tick, Mutate

LEMMA SeenInvariant == Spec => []SeenInv
BY SeenInit, SeenStep, TypeInvariant, PTL DEF Spec

\* A set of states that were seen has one element, or it has more.
LEMMA SeenOne ==
    ASSUME NEW S \in SUBSET FileSystems, IsFiniteSet(S)
    PROVE  /\ Cardinality(S) = 1 => \E F \in FileSystems : S = {F}
           /\ S # {} /\ ~(Cardinality(S) > 1) => \E F \in FileSystems : S = {F}
<1>1. Cardinality(S) \in Nat /\ (Cardinality(S) = 0 <=> S = {})
  BY FS_CardinalityType, FS_EmptySet
<1>2. Cardinality(S) = 1 <=> \E x : S = {x}
  BY FS_Singleton
<1>3. S # {} /\ ~(Cardinality(S) > 1) => Cardinality(S) = 1
  BY <1>1
<1> QED
  BY <1>2, <1>3

\* A file served from outside the roots means that the files changed between Resolve and
\* Open: with the mounts themselves left alone, there is no other way.
THEOREM EscapesOnlyByRace ==
    ASSUME RootsFixed
    PROVE  Spec => []EscapeOnlyByRace
<1>1. TypeInv /\ SeenInv => EscapeOnlyByRace
  <2> SUFFICES ASSUME TypeInv, SeenInv, NEW f \in Fetchers,
                      fetch[f].at = "done", fetch[f].status = 200,
                      ~(Cardinality(fetch[f].seen) > 1)
               PROVE  InSomeRoot(fs, Roots, fetch[f].path)
    BY DEF EscapeOnlyByRace
  <2> DEFINE g == fetch[f]
  <2>1. PICK P : Shaped(P)
    BY DEF TypeInv
  <2>2. g.seen \subseteq FileSystems /\ fs \in FileSystems
    BY <2>1 DEF Shaped, FetchSet, TypeInv
  <2>3. /\ IsFiniteSet(g.seen) /\ g.seen # {}
        /\ \A F \in FileSystems : g.seen = {F} => Settled(F, Roots, g.path)
    BY DEF SeenInv, FetchSaw
  <2>4. PICK F \in FileSystems : g.seen = {F}
    BY <2>2, <2>3, SeenOne
  <2>5. InSomeRoot(F, Roots, g.path)
    BY <2>3, <2>4 DEF Settled
  <2> QED BY <2>2, <2>5 DEF RootsFixed, InSomeRoot
<1> QED
  BY <1>1, TypeInvariant, SeenInvariant, PTL

-----------------------------------------------------------------------------
(* A URL works. *)

\* No root is a link that leads out of the names of the roots.
RootsNamed == \A F \in FileSystems : RootsCover(F, Roots)

\* A fetch that, with the mint before it, saw only one state of the file system, is at the
\* very path that was signed, and was not refused.
Trip(g) ==
    \A F \in FileSystems : g.url.seen \cup g.seen = {F} =>
        /\ g.at \in {"open", "done"} => g.path = g.url.path
        /\ g.at = "done" => g.status = 200

TripInv == \A f \in Fetchers : Accepted(f) => Trip(fetch[f])

LEMMA TripInit == Init => TripInv
<1>1. NoFetch.url = NoUrl
  BY DEF NoFetch
<1> QED
  BY <1>1 DEF Init, TripInv, Accepted

\* The URL of an accepted fetch, and what is known of it.
LEMMA AcceptedUrl ==
    ASSUME TypeInv, SeenInv, NEW f \in Fetchers, Accepted(f)
    PROVE  fetch[f].url \in issued /\ UrlSaw(fetch[f].url)
<1>1. PICK P : Shaped(P)
  BY DEF TypeInv
<1>2. fetch[f].url \in issued \cup {NoUrl}
  BY <1>1 DEF Shaped, FetchSet
<1> QED
  BY <1>2 DEF Accepted, SeenInv

LEMMA ResolveTrip ==
    ASSUME RootsNamed, TypeInv, SignedInv, SeenInv, NEW f \in Fetchers, FetchResolve(f),
           Accepted(f)
    PROVE  Trip(fetch'[f])
<1>1. PICK P : Shaped(P)
  BY DEF TypeInv
<1>2. fetch \in [Fetchers -> FetchSet(P)] /\ fs \in FileSystems
  BY <1>1 DEF Shaped, TypeInv
<1> DEFINE g == fetch[f]
           h == fetch'[f]
           u == fetch[f].url
           r == Resolve(fs, Roots, [absolute |-> TRUE, names |-> g.path])
<1>3. g.path = u.path
  BY DEF SignedInv, AcceptedWasIssued, FetchResolve
<1>4. h.url = u
  BY <1>2, ResolveKeeps DEF Keeps
<1>5. \/ r.status # "ok" /\ h.seen = g.seen \cup {fs}
      \/ h.at = "open" /\ h.path = r.path /\ h.seen = {fs}
  BY <1>2, ResolveKeeps
<1>6. /\ u.seen # {}
      /\ \A F \in FileSystems : u.seen = {F} => Settled(F, Roots, u.path)
  BY AcceptedUrl DEF UrlSaw
<1>7. ASSUME NEW F \in FileSystems, u.seen \cup h.seen = {F}
      PROVE  h.at = "open" /\ h.path = u.path
  <2> HIDE DEF g, h, u, r
  <2>1. u.seen = {F} /\ fs = F
    BY <1>5, <1>6, <1>7
  <2>2. Settled(F, Roots, u.path)
    BY <1>6, <2>1
  <2>3. RootsCover(F, Roots)
    BY DEF RootsNamed
  <2>4. Resolve(F, Roots, [absolute |-> TRUE, names |-> u.path])
          = [path |-> u.path, status |-> "ok"]
    BY <2>2, <2>3, Files, FencedAgain
  <2>5. r = [path |-> u.path, status |-> "ok"]
    BY <1>3, <2>1, <2>4 DEF r
  <2>6. r.status = "ok" /\ r.path = u.path
    BY <2>5
  <2> QED BY <1>5, <2>6
<1> HIDE DEF h, u
<1>8. Trip(h)
  BY <1>4, <1>7 DEF Trip
<1> QED
  BY <1>8 DEF h

LEMMA OpenTrip ==
    ASSUME TypeInv, SeenInv, TripInv, NEW f \in Fetchers, FetchOpen(f), Accepted(f)
    PROVE  Trip(fetch'[f])
<1>1. PICK P : Shaped(P)
  BY DEF TypeInv
<1>2. fetch \in [Fetchers -> FetchSet(P)] /\ fs \in FileSystems
  BY <1>1 DEF Shaped, TypeInv
<1> DEFINE g == fetch[f]
           h == fetch'[f]
           u == fetch[f].url
           found == EvalSymlinks(fs, g.path)
<1>3. \A F \in FileSystems : u.seen \cup g.seen = {F} => g.path = u.path
  BY DEF TripInv, Trip, FetchOpen
<1>4. h.url = u
  BY <1>2, OpenKeeps DEF Keeps
<1>5. /\ h.at = "done" /\ h.seen = g.seen \cup {fs}
      /\ \/ found.status # "ok" \/ ~Servable(fs[found.path])
         \/ h.status = 200 /\ h.path = found.path
  BY <1>2, OpenKeeps
<1>6. /\ u.seen # {}
      /\ \A F \in FileSystems : u.seen = {F} => Settled(F, Roots, u.path) /\ Mintable(F[u.path])
  BY AcceptedUrl DEF UrlSaw
<1>7. ASSUME NEW F \in FileSystems, u.seen \cup h.seen = {F}
      PROVE  h.at = "done" /\ h.status = 200 /\ h.path = u.path
  <2> HIDE DEF g, h, u, found
  <2>1. u.seen = {F} /\ fs = F /\ u.seen \cup g.seen = {F}
    BY <1>5, <1>6, <1>7
  <2>2. Settled(F, Roots, u.path) /\ Mintable(F[u.path]) /\ g.path = u.path
    BY <1>3, <1>6, <2>1
  <2>3. EvalSymlinks(F, u.path) = [path |-> u.path, status |-> "ok"]
    BY <2>2, SettledStays
  <2>4. found = [path |-> u.path, status |-> "ok"]
    BY <2>1, <2>2, <2>3 DEF found
  <2>5. found.status = "ok" /\ found.path = u.path
    BY <2>4
  <2>6. Servable(fs[found.path])
    BY <2>1, <2>2, <2>5 DEF Servable, Mintable
  <2> QED BY <1>5, <2>5, <2>6
<1> HIDE DEF h, u
<1>8. Trip(h)
  BY <1>4, <1>7 DEF Trip
<1> QED
  BY <1>8 DEF h

LEMMA TripStep ==
    ASSUME RootsNamed
    PROVE  TypeInv /\ SignedInv /\ SeenInv /\ TripInv /\ [Next]_vars => TripInv'
<1> SUFFICES ASSUME TypeInv, SignedInv, SeenInv, TripInv, [Next]_vars
             PROVE  TripInv'
  OBVIOUS
<1>1. PICK P : Shaped(P)
  BY DEF TypeInv
<1>2. fetch \in [Fetchers -> FetchSet(P)]
  BY <1>1 DEF Shaped
<1>3. NoFetch.url = NoUrl
  BY DEF NoFetch
<1>4. CASE Restart
  BY <1>3, <1>4 DEF Restart, TripInv, Accepted
<1>5. CASE ~Restart /\ ~\E f \in Fetchers : Fetch(f)
  BY <1>5, OnlyFetchesAccept DEF TripInv, Accepted
<1>6. ASSUME NEW f \in Fetchers, Fetch(f)
      PROVE  TripInv'
  <2>1. CASE FetchRequest(f)
    <3>1. \A g \in Fetchers : g # f => fetch'[g] = fetch[g]
      BY <1>2, <2>1, FetchRequestDoes
    <3>2. Accepted(f)' => fetch'[f].at = "resolve"
      BY <1>2, <2>1, FetchRequestDoes DEF Accepted
    <3>3. Accepted(f)' => Trip(fetch'[f])
      BY <3>2 DEF Trip
    <3> QED BY <3>1, <3>3 DEF TripInv, Accepted
  <2>2. CASE FetchResolve(f)
    <3>1. Keeps(f)
      BY <1>2, <2>2, FetchKeeps
    <3>2. Accepted(f) => Trip(fetch'[f])
      BY <2>2, ResolveTrip
    <3> QED BY <3>1, <3>2 DEF TripInv, Accepted, Keeps
  <2>3. CASE FetchOpen(f)
    <3>1. Keeps(f)
      BY <1>2, <2>3, FetchKeeps
    <3>2. Accepted(f) => Trip(fetch'[f])
      BY <2>3, OpenTrip
    <3> QED BY <3>1, <3>2 DEF TripInv, Accepted, Keeps
  <2>4. CASE FetchDone(f)
    BY <1>2, <1>3, <2>4 DEF FetchDone, TripInv, Accepted
  <2> QED BY <1>6, <2>1, <2>2, <2>3, <2>4 DEF Fetch
<1> QED
  BY <1>4, <1>5, <1>6

\* A URL works: unless a root is a link that leads out of the roots' names, whoever presents
\* it in time gets the very file it was minted for, while the files stay as they are.
THEOREM UrlsWork ==
    ASSUME RootsNamed
    PROVE  Spec => []RoundTrip
<1>1. Init => SignedInv /\ SeenInv /\ TripInv
  BY SignedInit, SeenInit, TripInit
<1>2. TypeInv /\ SignedInv /\ SeenInv /\ TripInv /\ [Next]_vars
        => SignedInv' /\ SeenInv' /\ TripInv'
  BY SignedStep, SeenStep, TripStep
<1>3. TypeInv /\ SeenInv /\ TripInv => RoundTrip
  <2> SUFFICES ASSUME TypeInv, SeenInv, TripInv, NEW f \in Fetchers, Accepted(f),
                      fetch[f].at = "done",
                      Cardinality(fetch[f].url.seen \cup fetch[f].seen) = 1
               PROVE  fetch[f].status = 200 /\ fetch[f].path = fetch[f].url.path
    BY DEF RoundTrip
  <2> DEFINE g == fetch[f]
             S == g.url.seen \cup g.seen
  <2>1. PICK P : Shaped(P)
    BY DEF TypeInv
  <2>2. g.seen \subseteq FileSystems
    BY <2>1 DEF Shaped, FetchSet
  <2>3. g.url.seen \subseteq FileSystems /\ IsFiniteSet(g.url.seen)
    BY AcceptedUrl DEF TypeInv, UrlTyped, UrlSaw
  <2>4. IsFiniteSet(g.seen)
    BY DEF SeenInv, FetchSaw
  <2>5. IsFiniteSet(S)
    <3> HIDE DEF g
    <3> QED BY <2>3, <2>4, FS_Union
  <2>6. PICK F \in FileSystems : S = {F}
    <3>1. S \in SUBSET FileSystems /\ Cardinality(S) = 1
      BY <2>2, <2>3
    <3> HIDE DEF S
    <3> QED BY <2>5, <3>1, SeenOne
  <2> QED BY <2>6 DEF TripInv, Trip
<1> QED
  BY <1>1, <1>2, <1>3, TypeInvariant, PTL DEF Spec

-----------------------------------------------------------------------------
(* The handlers implement Grants. *)

Quiet == \A f \in Fetchers : fetch[f].at = "idle" => ~Accepted(f)

GrantInv == TypeInv /\ SignedInv /\ Quiet

\* What an accepted fetch presents is what was issued.
Held(f) == IF Accepted(f) THEN GrantOf(fetch[f].url) ELSE NoUrl

LEMMA VisitsAreHeld ==
    SignedInv => Visits = [f \in Fetchers |-> Held(f)]
BY DEF SignedInv, AcceptedWasIssued, Visits, Held, Presented, GrantOf, Accepted

LEMMA QuietInit == Init => Quiet
<1>1. NoFetch.url = NoUrl
  BY DEF NoFetch
<1> QED
  BY <1>1 DEF Init, Quiet, Accepted

\* A request comes to a fetcher that holds nothing, and may leave it with a URL that is valid.
LEMMA RequestEnters ==
    ASSUME GrantInv, NEW f \in Fetchers, FetchRequest(f)
    PROVE  /\ fetch'[f].at \in {"resolve", "done"}
           /\ \A g \in Fetchers : g # f => fetch'[g] = fetch[g]
           /\ \/ fetch'[f].url = NoUrl
              \/ fetch'[f].url \in issued /\ Promise!Valid(GrantOf(fetch'[f].url))
<1>1. PICK P : fetch \in [Fetchers -> FetchSet(P)]
  BY DEF GrantInv, TypeInv, Shaped
<1>2. /\ \A g \in Fetchers : g # f => fetch'[g] = fetch[g]
      /\ fetch'[f].at \in {"resolve", "done"}
  BY <1>1, FetchRequestDoes
<1>3. PICK u \in issued, path \in {v.path : v \in issued}, exp \in {v.exp : v \in issued},
           sent \in SentDispositions :
        fetch' = [fetch EXCEPT ![f] =
          IF Disposition(sent) \notin Dispositions
          THEN [NoFetch EXCEPT !.at = "done", !.status = 400]
          ELSE IF ~Verified(path, exp, Disposition(sent), u.sig)
          THEN [NoFetch EXCEPT !.at = "done", !.status = 403]
          ELSE [NoFetch EXCEPT !.at = "resolve", !.url = u, !.path = path,
                               !.exp = exp, !.disp = Disposition(sent), !.when = now]]
  BY DEF FetchRequest
<1>4. \/ fetch'[f].url = NoUrl
      \/ fetch'[f].url = u /\ Verified(path, exp, Disposition(sent), u.sig)
  BY <1>1, <1>3 DEF NoFetch
<1>5. Verified(path, exp, Disposition(sent), u.sig) => u.key = key /\ ~Expired(u.exp)
  BY DEF GrantInv, SignedInv, Signed, Verified, Signature
<1>6. ~Expired(u.exp) => now <= u.exp * TicksPerSecond
  <2>1. now \in Nat /\ u.exp \in Int /\ TicksPerSecond \in Nat
    BY SidecarAssumption DEF GrantInv, TypeInv, UrlTyped, SidecarAssumption
  <2>2. u.exp * TicksPerSecond \in Int
    BY <2>1
  <2> QED
    BY <2>1, <2>2 DEF Expired
<1> QED
  BY <1>2, <1>4, <1>5, <1>6 DEF Promise!Valid, GrantOf

LEMMA QuietStep == ASSUME GrantInv, [Next]_vars PROVE Quiet'
<1>1. PICK P : fetch \in [Fetchers -> FetchSet(P)]
  BY DEF GrantInv, TypeInv, Shaped
<1>2. NoFetch.url = NoUrl
  BY DEF NoFetch
<1>3. CASE Restart
  BY <1>2, <1>3 DEF Restart, Quiet, Accepted
<1>4. CASE ~Restart /\ ~\E f \in Fetchers : Fetch(f)
  BY <1>4, OnlyFetchesAccept DEF GrantInv, Quiet, Accepted
<1>5. ASSUME NEW f \in Fetchers, FetchRequest(f) PROVE Quiet'
  BY <1>5, RequestEnters DEF GrantInv, Quiet, Accepted
<1>6. ASSUME NEW f \in Fetchers, FetchResolve(f) \/ FetchOpen(f) PROVE Quiet'
  BY <1>1, <1>6, FetchKeeps DEF Keeps, GrantInv, Quiet, Accepted
<1>7. ASSUME NEW f \in Fetchers, FetchDone(f) PROVE Quiet'
  BY <1>1, <1>2, <1>7 DEF FetchDone, GrantInv, Quiet, Accepted
<1> QED
  BY <1>3, <1>4, <1>5, <1>6, <1>7 DEF Fetch

LEMMA GrantStep == GrantInv /\ [Next]_vars => GrantInv'
BY TypeStep, SignedStep, QuietStep DEF GrantInv

\* Signing makes one grant, of the current secret and for no longer than MaxTTL.
LEMMA SignGrants ==
    ASSUME GrantInv, NEW c \in Callers, MintSign(c), Visits' = Visits
    PROVE  Promise!Grant
<1> DEFINE m == mint[c]
           exp == Unix(now + Lifetime(m.ttl))
           u == [path |-> m.path, exp |-> exp, disp |-> m.disp,
                 sig |-> Signature(key, m.path, exp, m.disp),
                 key |-> key, mintedAt |-> now, asked |-> m.ttl, seen |-> m.seen]
<1>1. issued' = issued \cup {u}
  BY DEF MintSign
<1>2. Granted' = Granted \cup {GrantOf(u)}
  BY <1>1 DEF Granted, GrantOf
<1>3. GrantOf(u).secret = key /\ GrantOf(u).until = exp
  BY DEF GrantOf
<1>4. exp * TicksPerSecond <= now + MaxTTL
  <2>1. now \in Nat /\ m.ttl \in Nat
    <3>1. PICK P : Shaped(P)
      BY DEF GrantInv, TypeInv
    <3>2. m.ttl \in (Ttls \cap Nat) \cup {0}
      BY <3>1 DEF Shaped, MintSet
    <3> QED
      BY <3>2 DEF GrantInv, TypeInv
  <2>2. Lifetime(m.ttl) \in Nat /\ Lifetime(m.ttl) <= MaxTTL /\ MaxTTL \in Nat
    BY <2>1, LifetimeBounds, SidecarAssumption DEF SidecarAssumption
  <2>3. now + Lifetime(m.ttl) \in Nat
    BY <2>1, <2>2
  <2>4. exp \in Nat /\ exp * TicksPerSecond <= now + Lifetime(m.ttl)
    BY <2>3, UnixBounds
  <2>5. exp * TicksPerSecond \in Nat
    BY <2>4, SidecarAssumption DEF SidecarAssumption
  <2> QED
    BY <2>1, <2>2, <2>4, <2>5
<1>5. UNCHANGED <<now, key>>
  BY DEF MintSign
<1> HIDE DEF u, exp
<1> QED
  BY <1>2, <1>3, <1>4, <1>5 DEF Promise!Grant

LEMMA StepImplements ==
    ASSUME GrantInv, GrantInv', [Next]_vars,
           Visits = [f \in Fetchers |-> Held(f)], Visits' = [f \in Fetchers |-> Held(f)']
    PROVE  [Promise!Next]_(Promise!vars)
<1>1. PICK P : fetch \in [Fetchers -> FetchSet(P)]
  BY DEF GrantInv, TypeInv, Shaped
<1>2. NoFetch.url = NoUrl
  BY DEF NoFetch
<1>3. ASSUME NEW f \in Fetchers, \A g \in Fetchers : g # f => fetch'[g] = fetch[g]
      PROVE  Visits' = [Visits EXCEPT ![f] = Held(f)']
  BY <1>3 DEF Held, Accepted
<1>4. (\A f \in Fetchers : fetch'[f].url = fetch[f].url) => Visits' = Visits
  BY DEF Held, Accepted
<1>5. ASSUME NEW f \in Fetchers, FetchRequest(f) PROVE Promise!Enter(f) \/ UNCHANGED Promise!vars
  <2>1. UNCHANGED <<now, key, issued>> /\ fetch[f].at = "idle"
    BY <1>5 DEF FetchRequest
  <2>2. Visits[f] = NoUrl /\ Granted' = Granted
    BY <2>1 DEF GrantInv, Quiet, Held, Granted
  <2>3. /\ \A g \in Fetchers : g # f => fetch'[g] = fetch[g]
        /\ \/ fetch'[f].url = NoUrl
           \/ fetch'[f].url \in issued /\ Promise!Valid(GrantOf(fetch'[f].url))
    BY <1>5, RequestEnters
  <2>4. Visits' = [Visits EXCEPT ![f] = Held(f)']
    BY <1>3, <2>3
  <2>5. CASE fetch'[f].url = NoUrl
    <3>1. Held(f)' = NoUrl
      BY <2>5 DEF Held, Accepted
    <3>2. Visits' = Visits
      BY <2>2, <2>4, <3>1
    <3> QED
      BY <2>1, <2>2, <3>2 DEF Promise!vars
  <2>6. CASE fetch'[f].url # NoUrl
    <3>1. Held(f)' = GrantOf(fetch'[f].url)
      BY <2>6 DEF Held, Accepted, GrantOf
    <3>2. Held(f)' \in Granted /\ Promise!Valid(Held(f)')
      BY <2>3, <2>6, <3>1 DEF Granted
    <3> QED
      BY <2>1, <2>2, <2>4, <3>2 DEF Promise!Enter
  <2> QED
    BY <2>5, <2>6
<1>6. ASSUME NEW f \in Fetchers, FetchResolve(f) \/ FetchOpen(f) PROVE UNCHANGED Promise!vars
  <2>1. \A g \in Fetchers : fetch'[g].url = fetch[g].url
    BY <1>1, <1>6, FetchKeeps DEF Keeps
  <2> QED
    BY <1>4, <1>6, <2>1 DEF FetchResolve, FetchOpen, Granted, Promise!vars
<1>7. ASSUME NEW f \in Fetchers, FetchDone(f) PROVE Promise!Leave(f)
  <2>1. /\ \A g \in Fetchers : g # f => fetch'[g] = fetch[g]
        /\ fetch'[f].url = NoUrl
    BY <1>1, <1>2, <1>7 DEF FetchDone
  <2>2. Held(f)' = NoUrl
    BY <2>1 DEF Held, Accepted
  <2> QED
    BY <1>3, <1>7, <2>1, <2>2 DEF FetchDone, Granted, Promise!Leave
<1>8. CASE Restart
  <2>1. \A f \in Fetchers : Held(f)' = NoUrl
    BY <1>2, <1>8 DEF Restart, Held, Accepted
  <2>2. Visits' = Promise!Nobody
    BY <2>1 DEF Promise!Nobody
  <2> QED
    BY <1>8, <2>2 DEF Restart, Granted, Promise!Next, Promise!Rekey
<1>9. CASE fetch' = fetch
  <2>1. Visits' = Visits
    BY <1>4, <1>9
  <2>2. CASE \E c \in Callers : MintSign(c)
    BY <2>1, <2>2, SignGrants DEF Promise!Next
  <2>3. CASE Tick
    BY <2>1, <2>3 DEF Tick, Granted, Promise!Next, Promise!TimePasses
  <2>4. CASE ~Tick /\ ~Restart /\ ~\E c \in Callers : MintSign(c)
    <3>1. issued' = issued
      BY <2>4, OnlyMintSignIssues
    <3>2. UNCHANGED <<now, key>>
      BY <2>4 DEF Next, vars, Mutate, Mint, MintRequest, MintResolve, MintStat, MintSign, MintDone,
                  Fetch, FetchRequest, FetchResolve, FetchOpen, FetchDone
    <3> QED
      BY <2>1, <3>1, <3>2 DEF Granted, Promise!vars
  <2> QED
    BY <1>8, <2>2, <2>3, <2>4
<1>10. CASE ~Restart /\ ~\E f \in Fetchers : Fetch(f)
  BY <1>9, <1>10, OnlyFetchesAccept
<1>11. ASSUME NEW f \in Fetchers, Fetch(f) PROVE [Promise!Next]_(Promise!vars)
  BY <1>5, <1>6, <1>7, <1>11 DEF Fetch, Promise!Next
<1> QED
  BY <1>8, <1>10, <1>11

\* The handlers, the clock and the restarts of the sidecar implement Grants: for any keys,
\* lifetimes, files and numbers of requests, whatever the workload does meanwhile.
THEOREM SidecarImplementsGrants == Spec => ImplementsGrants
<1>1. Init => GrantInv
  BY TypeInit, SignedInit, QuietInit DEF GrantInv
<1>2. Init => Promise!Init
  <2>1. NoFetch.url = NoUrl
    BY DEF NoFetch
  <2> QED
    BY <2>1 DEF Init, Promise!Init, Promise!Nobody, Granted, Visits, Accepted
<1>3. GrantInv /\ [Next]_vars => GrantInv'
  BY GrantStep
<1>4. GrantInv => Visits = [f \in Fetchers |-> Held(f)]
  BY VisitsAreHeld DEF GrantInv
<1>5. (GrantInv => Visits = [f \in Fetchers |-> Held(f)])'
  BY <1>4, PTL
<1>6. GrantInv /\ GrantInv' /\ [Next]_vars => [Promise!Next]_(Promise!vars)
  BY <1>4, <1>5, StepImplements
<1> QED
  BY <1>1, <1>2, <1>3, <1>6, PTL DEF Spec, ImplementsGrants, Promise!Spec

=============================================================================
