---------------------------- MODULE FenceProofs ----------------------------
(***************************************************************************)
(* What the library functions under the path fence compute, for every file *)
(* system and path: Clean cleans, and EvalSymlinks ends at a path that it  *)
(* resolves to itself.                                                     *)
(*                                                                         *)
(* Both are recursive, on a counter 0..n.  Induction on it is stated with  *)
(* a set of counter values in place of a predicate, so that the provers    *)
(* can instantiate it.                                                     *)
(***************************************************************************)
EXTENDS Fence, FiniteSetTheorems, SequenceTheorems, TLAPS

-----------------------------------------------------------------------------
(* Induction and recursion up to a bound. *)

\* Among the intervals 0..k that the elements of S bound, one contains no smaller one.
LEMMA LeastElement ==
    ASSUME NEW n \in Nat, NEW S \in SUBSET (0..n), S # {}
    PROVE  \E k \in S : \A m \in S : k <= m
<1> DEFINE R == StrictSubsetOrdering(0..n)
           T == {0..k : k \in S}
<1>1. IsWellFoundedOn(R, FiniteSubsetsOf(0..n))
  BY FS_StrictSubsetOrderingWellFounded
<1>2. IsFiniteSet(0..n)
  BY FS_Interval
<1>3. IsWellFoundedOn(R, SUBSET (0..n))
  BY <1>1, <1>2, FS_FiniteSubsetsOfFinite
<1>4. T \subseteq SUBSET (0..n) /\ T # {}
  <2>1. ASSUME NEW k \in S
        PROVE  0..k \subseteq 0..n
    OBVIOUS
  <2> QED
    BY <2>1
<1>5. \E x \in T : \A y \in T : <<y, x>> \notin R
  <2> HIDE DEF R, T
  <2> QED BY <1>3, <1>4, WFMin
<1>6. PICK k \in S : \A m \in S : <<0..m, 0..k>> \notin R
  BY <1>5
<1>7. ASSUME NEW m \in S, m < k
      PROVE  FALSE
  <2>1. 0..m \subseteq 0..n /\ 0..k \subseteq 0..n /\ 0..m \subseteq 0..k
    BY <1>7
  <2>2. k \in 0..k /\ k \notin 0..m
    BY <1>7
  <2> QED
    BY <1>6, <2>1, <2>2 DEF StrictSubsetOrdering
<1> QED
  BY <1>7

LEMMA BoundedInduction ==
    ASSUME NEW n \in Nat, NEW S \in SUBSET (0..n), 0 \in S,
           \A i \in 1..n : i - 1 \in S => i \in S
    PROVE  S = 0..n
<1> SUFFICES ASSUME (0..n) \ S # {}
             PROVE  FALSE
  OBVIOUS
<1>1. PICK k \in (0..n) \ S : \A m \in (0..n) \ S : k <= m
  BY LeastElement
<1>2. k \in 1..n /\ k - 1 \in 0..n
  BY <1>1
<1>3. k - 1 \in S
  BY <1>1, <1>2
<1> QED
  BY <1>1, <1>2, <1>3

\* A sequence of values of V, each made from the one before, exists.
Recursive(n, V, base, step, g) ==
    /\ g \in [0..n -> V]
    /\ g[0] = base
    /\ \A i \in 1..n : g[i] = step[i][g[i - 1]]

LEMMA Recursion ==
    ASSUME NEW n \in Nat, NEW V, NEW base \in V, NEW step \in [1..n -> [V -> V]]
    PROVE  \E g : Recursive(n, V, base, step, g)
<1> DEFINE Upto(k) == \E g \in [0..k -> V] :
                          g[0] = base /\ \A i \in 1..k : g[i] = step[i][g[i - 1]]
           S == {k \in 0..n : Upto(k)}
<1>1. 0 \in S
  <2>1. [i \in 0..0 |-> base] \in [0..0 -> V] /\ [i \in 0..0 |-> base][0] = base
    OBVIOUS
  <2>2. 1..0 = {}
    OBVIOUS
  <2>3. Upto(0)
    BY <2>1, <2>2
  <2> HIDE DEF Upto
  <2> QED
    BY <2>3
<1>2. ASSUME NEW k \in 1..n, k - 1 \in S
      PROVE  k \in S
  <2>1. PICK g \in [0..(k - 1) -> V] :
          g[0] = base /\ \A i \in 1..(k - 1) : g[i] = step[i][g[i - 1]]
    BY <1>2
  <2> DEFINE h == [i \in 0..k |-> IF i = k THEN step[k][g[k - 1]] ELSE g[i]]
  <2>2. g[k - 1] \in V
    OBVIOUS
  <2>3. step[k] \in [V -> V]
    OBVIOUS
  <2>4. step[k][g[k - 1]] \in V
    BY <2>2, <2>3
  <2>5. h \in [0..k -> V]
    BY <2>4
  <2>6. h[0] = base
    BY <2>1
  <2>7. ASSUME NEW i \in 1..k
        PROVE  h[i] = step[i][h[i - 1]]
    BY <2>1
  <2> HIDE DEF h
  <2>8. Upto(k)
    BY <2>5, <2>6, <2>7
  <2> HIDE DEF Upto
  <2> QED
    BY <2>8
<1> HIDE DEF Upto
<1>3. S = 0..n
  <2> HIDE DEF S
  <2>1. S \in SUBSET (0..n)
    BY DEF S
  <2> QED
    BY <1>1, <1>2, <2>1, BoundedInduction
<1>4. Upto(n)
  BY <1>3
<1> QED
  BY <1>4 DEF Upto, Recursive

-----------------------------------------------------------------------------
(* Clean. *)

LEMMA ParentType == ASSUME NEW p \in Seq(STRING) PROVE Parent(p) \in Seq(STRING)
<1>1. CASE p = <<>>
  BY <1>1 DEF Parent
<1>2. CASE p # <<>>
  <2>1. Len(p) - 1 \in Int /\ \A i \in 1..(Len(p) - 1) : p[i] \in STRING
    OBVIOUS
  <2> QED
    BY <1>2, <2>1, SubSeqProperties DEF Parent
<1> QED
  BY <1>1, <1>2

\* The sequence of paths that Clean builds.
LEMMA CleanIs ==
    ASSUME NEW names \in Seq(STRING)
    PROVE  \E c \in [0..Len(names) -> Seq(STRING)] :
             /\ c[0] = <<>>
             /\ \A i \in 1..Len(names) :
                  c[i] = IF names[i] = Up THEN Parent(c[i - 1]) ELSE Append(c[i - 1], names[i])
             /\ Clean(names) = c[Len(names)]
<1> DEFINE n == Len(names)
           V == Seq(STRING)
           next(i, p) == IF names[i] = Up THEN Parent(p) ELSE Append(p, names[i])
           step == [i \in 1..n |-> [p \in V |-> next(i, p)]]
           Equation(c) == c = [i \in 0..n |-> IF i = 0 THEN <<>>
                                              ELSE IF names[i] = Up THEN Parent(c[i - 1])
                                              ELSE Append(c[i - 1], names[i])]
           clean == CHOOSE c : Equation(c)
<1>1. n \in Nat /\ <<>> \in V
  OBVIOUS
<1>2. ASSUME NEW i \in 1..n, NEW p \in V
      PROVE  next(i, p) \in V
  <2>1. Parent(p) \in V
    BY ParentType
  <2>2. Append(p, names[i]) \in V
    OBVIOUS
  <2> QED BY <2>1, <2>2
<1>3. step \in [1..n -> [V -> V]]
  <2> HIDE DEF next
  <2> QED BY <1>2
<1>4. PICK g : Recursive(n, V, <<>>, step, g)
  <2> HIDE DEF step, V, n
  <2> QED BY <1>1, <1>3, Recursion
<1>5. Equation(g)
  <2>1. ASSUME NEW i \in 1..n
        PROVE  g[i] = next(i, g[i - 1])
    <3>1. i - 1 \in 0..n
      OBVIOUS
    <3>2. g[i - 1] \in V
      BY <1>4, <3>1 DEF Recursive
    <3> HIDE DEF next, V, n
    <3> QED BY <1>4, <3>2 DEF Recursive
  <2>2. g = [i \in 0..n |-> g[i]]
    BY <1>4 DEF Recursive
  <2>3. ASSUME NEW i \in 0..n
        PROVE  g[i] = IF i = 0 THEN <<>>
                      ELSE IF names[i] = Up THEN Parent(g[i - 1])
                      ELSE Append(g[i - 1], names[i])
    <3>1. CASE i = 0
      BY <1>4, <3>1 DEF Recursive
    <3>2. CASE i # 0
      <4>1. i \in 1..n
        BY <1>1, <3>2
      <4> QED BY <2>1, <3>2, <4>1
    <3> QED BY <3>1, <3>2
  <2> QED BY <2>2, <2>3
<1>6. Equation(clean)
  <2> HIDE DEF Equation
  <2> QED BY <1>5
<1>7. Clean(names) = clean[n]
  BY DEF Clean
<1> HIDE DEF clean
<1>8. /\ clean[0] = <<>>
      /\ \A i \in 1..n : clean[i] = next(i, clean[i - 1])
  <2>1. \A i \in 0..n : clean[i] = IF i = 0 THEN <<>>
                                   ELSE IF names[i] = Up THEN Parent(clean[i - 1])
                                   ELSE Append(clean[i - 1], names[i])
    BY <1>6
  <2>2. 0 \in 0..n /\ \A i \in 1..n : i \in 0..n /\ i # 0
    BY <1>1
  <2> QED BY <2>1, <2>2
<1>9. {i \in 0..n : clean[i] \in V} = 0..n
  <2> DEFINE S == {i \in 0..n : clean[i] \in V}
  <2>1. S \in SUBSET (0..n) /\ 0 \in S
    <3>1. 0 \in 0..n /\ clean[0] \in V
      BY <1>1, <1>8
    <3> QED BY <3>1
  <2>2. ASSUME NEW i \in 1..n, i - 1 \in S
        PROVE  i \in S
    <3>1. clean[i - 1] \in V
      BY <2>2
    <3>2. clean[i] \in V
      <4> HIDE DEF next
      <4> QED BY <1>2, <1>8, <3>1
    <3> QED BY <3>2
  <2> HIDE DEF S
  <2>3. S = 0..n
    BY <1>1, <2>1, <2>2, BoundedInduction
  <2> QED BY <2>3 DEF S
<1>10. clean \in [0..n -> V]
  BY <1>6, <1>9
<1> HIDE DEF Equation
<1> QED
  BY <1>7, <1>8, <1>10

LEMMA CleanType == ASSUME NEW names \in Seq(STRING) PROVE Clean(names) \in Seq(STRING)
BY CleanIs

\* A path without ".." is clean.
LEMMA CleanStays ==
    ASSUME NEW p \in Seq(STRING), \A i \in DOMAIN p : p[i] # Up
    PROVE  Clean(p) = p
<1> DEFINE n == Len(p)
<1>1. PICK c \in [0..n -> Seq(STRING)] :
        /\ c[0] = <<>>
        /\ \A i \in 1..n : c[i] = IF p[i] = Up THEN Parent(c[i - 1]) ELSE Append(c[i - 1], p[i])
        /\ Clean(p) = c[n]
  BY CleanIs
<1> DEFINE S == {i \in 0..n : Len(c[i]) = i /\ \A j \in 1..i : c[i][j] = p[j]}
<1>2. S \in SUBSET (0..n) /\ 0 \in S
  <2>1. 0 \in 0..n /\ Len(c[0]) = 0 /\ 1..0 = {}
    BY <1>1
  <2> QED BY <2>1
<1>3. ASSUME NEW i \in 1..n, i - 1 \in S
      PROVE  i \in S
  <2>1. c[i] = Append(c[i - 1], p[i])
    <3>1. p[i] # Up
      OBVIOUS
    <3> QED BY <1>1, <3>1
  <2>2. /\ c[i - 1] \in Seq(STRING) /\ p[i] \in STRING
        /\ Len(c[i - 1]) = i - 1 /\ \A j \in 1..(i - 1) : c[i - 1][j] = p[j]
    BY <1>3
  <2>3. Len(c[i]) = i /\ \A j \in 1..i : c[i][j] = p[j]
    BY <2>1, <2>2
  <2> QED BY <2>3
<1>4. S = 0..n
  <2>1. n \in Nat
    OBVIOUS
  <2> HIDE DEF S, n
  <2> QED BY <1>2, <1>3, <2>1, BoundedInduction
<1>5. n \in S
  <2>1. n \in 0..n
    OBVIOUS
  <2> QED BY <1>4, <2>1
<1>6. c[n] \in Seq(STRING) /\ Len(c[n]) = n /\ \A j \in 1..n : c[n][j] = p[j]
  BY <1>5
<1>7. c[n] = p
  <2> DEFINE q == c[n]
  <2>1. q \in Seq(STRING) /\ Len(q) = Len(p) /\ \A j \in 1..Len(q) : q[j] = p[j]
    BY <1>6
  <2> HIDE DEF q
  <2>2. q = p
    BY <2>1, SeqEqual
  <2> QED BY <2>2 DEF q
<1> QED
  BY <1>1, <1>7

-----------------------------------------------------------------------------
(* EvalSymlinks. *)

Walks == [at : Seq(STRING), rest : Seq(STRING), status : {"ok", "missing", "failed"}]

IsWalk(fs, path, walk) ==
    /\ walk \in [0..MaxSteps -> Walks]
    /\ walk[0] = [at |-> <<>>, rest |-> path, status |-> "ok"]
    /\ \A i \in 1..MaxSteps : walk[i] = Follow(fs, walk[i - 1])

\* The ways a step of a walk can go.
LEMMA FollowIs ==
    ASSUME NEW fs, IsFileSystem(fs), NEW w \in Walks, w.status = "ok", w.rest # <<>>
    PROVE  LET next == Append(w.at, Head(w.rest))
               more == Tail(w.rest)
           IN  /\ next \in Seq(STRING) /\ more \in Seq(STRING)
               /\ \/ /\ next \notin DOMAIN fs
                     /\ Follow(fs, w) = [at |-> w.at, rest |-> w.rest, status |-> "missing"]
                  \/ /\ next \in DOMAIN fs /\ fs[next].kind = "link"
                     /\ fs[next].to \in Seq(STRING)
                     /\ Follow(fs, w) =
                          [at |-> <<>>, rest |-> fs[next].to \o more, status |-> "ok"]
                  \/ /\ next \in DOMAIN fs /\ fs[next].kind = "file" /\ more # <<>>
                     /\ Follow(fs, w) = [at |-> w.at, rest |-> w.rest, status |-> "failed"]
                  \/ /\ next \in DOMAIN fs /\ fs[next].kind # "link"
                     /\ fs[next].kind # "file" \/ more = <<>>
                     /\ Follow(fs, w) = [at |-> next, rest |-> more, status |-> "ok"]
<1> DEFINE next == Append(w.at, Head(w.rest))
           more == Tail(w.rest)
<1>1. w = [at |-> w.at, rest |-> w.rest, status |-> "ok"]
      /\ w.at \in Seq(STRING) /\ w.rest \in Seq(STRING)
  BY DEF Walks
<1>2. next \in Seq(STRING) /\ more \in Seq(STRING)
  <2>1. Head(w.rest) \in STRING /\ more \in Seq(STRING)
    BY <1>1, HeadTailProperties
  <2> QED
    BY <1>1, <2>1, AppendProperties
<1> HIDE DEF next, more
<1>3. CASE next \notin DOMAIN fs
  <2>1. Follow(fs, w) = [w EXCEPT !.status = "missing"]
    BY <1>3 DEF Follow, next
  <2>2. [w EXCEPT !.status = "missing"] = [at |-> w.at, rest |-> w.rest, status |-> "missing"]
    BY <1>1
  <2> QED BY <1>2, <1>3, <2>1, <2>2 DEF next, more
<1>4. CASE next \in DOMAIN fs /\ fs[next].kind = "link"
  <2>1. Follow(fs, w) = [at |-> <<>>, rest |-> fs[next].to \o more, status |-> "ok"]
    BY <1>4 DEF Follow, next, more
  <2>3. fs[next].to \in Seq(STRING)
    BY <1>4 DEF IsFileSystem
  <2> QED BY <1>2, <1>4, <2>1, <2>3 DEF next, more
<1>5. CASE next \in DOMAIN fs /\ fs[next].kind = "file" /\ more # <<>>
  <2>1. Follow(fs, w) = [w EXCEPT !.status = "failed"]
    BY <1>5 DEF Follow, next, more
  <2>2. [w EXCEPT !.status = "failed"] = [at |-> w.at, rest |-> w.rest, status |-> "failed"]
    BY <1>1
  <2> QED BY <1>2, <1>5, <2>1, <2>2 DEF next, more
<1>6. CASE /\ next \in DOMAIN fs /\ fs[next].kind # "link"
           /\ fs[next].kind # "file" \/ more = <<>>
  <2>1. Follow(fs, w) = [at |-> next, rest |-> more, status |-> "ok"]
    BY <1>6 DEF Follow, next, more
  <2> QED BY <1>2, <1>6, <2>1 DEF next, more
<1> QED
  BY <1>3, <1>4, <1>5, <1>6

LEMMA FollowStops ==
    ASSUME NEW fs, NEW w, w.status # "ok" \/ w.rest = <<>>
    PROVE  Follow(fs, w) = w
BY DEF Follow

LEMMA FollowType ==
    ASSUME NEW fs, IsFileSystem(fs), NEW w \in Walks
    PROVE  Follow(fs, w) \in Walks
<1>1. CASE w.status # "ok" \/ w.rest = <<>>
  BY <1>1, FollowStops
<1>2. CASE w.status = "ok" /\ w.rest # <<>>
  <2>1. \A s, t \in Seq(STRING) : s \o t \in Seq(STRING)
    BY ConcatProperties
  <2>2. w.at \in Seq(STRING) /\ w.rest \in Seq(STRING) /\ <<>> \in Seq(STRING)
    BY DEF Walks
  <2>3. \A at, rest \in Seq(STRING), status \in {"ok", "missing", "failed"} :
          [at |-> at, rest |-> rest, status |-> status] \in Walks
    BY DEF Walks
  <2> DEFINE next == Append(w.at, Head(w.rest))
             more == Tail(w.rest)
  <2>4. /\ next \in Seq(STRING) /\ more \in Seq(STRING)
        /\ \/ Follow(fs, w) = [at |-> w.at, rest |-> w.rest, status |-> "missing"]
           \/ /\ fs[next].to \in Seq(STRING)
              /\ Follow(fs, w) = [at |-> <<>>, rest |-> fs[next].to \o more, status |-> "ok"]
           \/ Follow(fs, w) = [at |-> w.at, rest |-> w.rest, status |-> "failed"]
           \/ Follow(fs, w) = [at |-> next, rest |-> more, status |-> "ok"]
    BY <1>2, FollowIs
  <2> HIDE DEF next, more
  <2> QED
    BY <2>1, <2>2, <2>3, <2>4
<1> QED
  BY <1>1, <1>2

\* The walk that EvalSymlinks makes.
LEMMA WalkIs ==
    ASSUME NEW fs, IsFileSystem(fs), NEW path \in Seq(STRING)
    PROVE  \E walk : /\ IsWalk(fs, path, walk)
                     /\ LET end == walk[MaxSteps]
                        IN  EvalSymlinks(fs, path) =
                              [path   |-> end.at,
                               status |-> IF end.status = "ok" /\ end.rest # <<>>
                                          THEN "failed" ELSE end.status]
<1> DEFINE n == MaxSteps
           start == [at |-> <<>>, rest |-> path, status |-> "ok"]
           step == [i \in 1..n |-> [w \in Walks |-> Follow(fs, w)]]
           Equation(c) == c = [i \in 0..n |->
                                 IF i = 0 THEN [at |-> <<>>, rest |-> path, status |-> "ok"]
                                 ELSE Follow(fs, c[i - 1])]
           walk == CHOOSE c : Equation(c)
           end == walk[n]
<1>1. n \in Nat
  BY StepsAssumption
<1>2. start \in Walks
  BY DEF Walks
<1>3. step \in [1..n -> [Walks -> Walks]]
  BY FollowType
<1>4. PICK g : Recursive(n, Walks, start, step, g)
  <2> HIDE DEF step, n, start
  <2> QED BY <1>1, <1>2, <1>3, Recursion
<1>5. Equation(g)
  <2> HIDE DEF start
  <2>1. ASSUME NEW i \in 1..n
        PROVE  g[i] = Follow(fs, g[i - 1])
    <3>1. i - 1 \in 0..n
      BY <1>1
    <3>2. g[i - 1] \in Walks
      BY <1>4, <3>1 DEF Recursive
    <3> QED BY <1>4, <3>2 DEF Recursive
  <2>2. g = [i \in 0..n |-> g[i]]
    BY <1>4 DEF Recursive
  <2>3. ASSUME NEW i \in 0..n
        PROVE  g[i] = IF i = 0 THEN start ELSE Follow(fs, g[i - 1])
    <3>1. CASE i = 0
      BY <1>4, <3>1 DEF Recursive
    <3>2. CASE i # 0
      <4>1. i \in 1..n
        BY <1>1, <3>2
      <4> QED BY <2>1, <3>2, <4>1
    <3> QED BY <3>1, <3>2
  <2> QED BY <2>2, <2>3 DEF start
<1>6. Equation(walk)
  <2> HIDE DEF Equation
  <2> QED BY <1>5
<1>7. EvalSymlinks(fs, path) =
        [path   |-> end.at,
         status |-> IF end.status = "ok" /\ end.rest # <<>> THEN "failed" ELSE end.status]
  BY DEF EvalSymlinks
<1> HIDE DEF walk
<1>8. /\ walk[0] = start
      /\ \A i \in 1..n : walk[i] = Follow(fs, walk[i - 1])
  <2>1. \A i \in 0..n : walk[i] = IF i = 0 THEN start ELSE Follow(fs, walk[i - 1])
    BY <1>6
  <2>2. 0 \in 0..n /\ \A i \in 1..n : i \in 0..n /\ i # 0
    BY <1>1
  <2> QED BY <2>1, <2>2
<1>9. {i \in 0..n : walk[i] \in Walks} = 0..n
  <2> DEFINE S == {i \in 0..n : walk[i] \in Walks}
  <2>1. S \in SUBSET (0..n) /\ 0 \in S
    <3>1. 0 \in 0..n /\ walk[0] \in Walks
      BY <1>1, <1>2, <1>8
    <3> QED BY <3>1
  <2>2. ASSUME NEW i \in 1..n, i - 1 \in S
        PROVE  i \in S
    <3>1. walk[i - 1] \in Walks
      BY <2>2
    <3>2. walk[i] \in Walks
      BY <1>8, <3>1, FollowType
    <3>3. i \in 0..n
      BY <1>1
    <3> QED BY <3>2, <3>3
  <2> HIDE DEF S
  <2>3. S = 0..n
    BY <1>1, <2>1, <2>2, BoundedInduction
  <2> QED BY <2>3 DEF S
<1>10. IsWalk(fs, path, walk)
  <2>1. walk \in [0..n -> Walks]
    BY <1>6, <1>9
  <2> QED BY <1>8, <2>1 DEF IsWalk
<1> QED
  BY <1>7, <1>10

-----------------------------------------------------------------------------
(* A real path: it exists, no component of it is a link, and only the last may be a file. *)

Before(path, i) == SubSeq(path, 1, i)

Real(fs, path) ==
    \A i \in 1..Len(path) :
        /\ Before(path, i) \in DOMAIN fs
        /\ fs[Before(path, i)].kind # "link"
        /\ i < Len(path) => fs[Before(path, i)].kind # "file"

LEMMA BeforeType ==
    ASSUME NEW p \in Seq(STRING), NEW i \in 0..Len(p)
    PROVE  /\ Before(p, i) \in Seq(STRING) /\ Len(Before(p, i)) = i
           /\ \A j \in 1..i : Before(p, i)[j] = p[j]
<1>1. i \in Int /\ \A j \in 1..i : p[j] \in STRING
  OBVIOUS
<1>2. /\ SubSeq(p, 1, i) \in Seq(STRING)
      /\ Len(SubSeq(p, 1, i)) = IF 1 <= i THEN i - 1 + 1 ELSE 0
      /\ \A j \in 1..(i - 1 + 1) : SubSeq(p, 1, i)[j] = p[1 + j - 1]
  BY <1>1, SubSeqProperties
<1> QED
  BY <1>2 DEF Before

LEMMA BeforeAll == ASSUME NEW p \in Seq(STRING) PROVE Before(p, Len(p)) = p
BY SubSeqFull DEF Before

\* The prefixes of a path are those of any path that continues it.
LEMMA BeforeAppended ==
    ASSUME NEW p \in Seq(STRING), NEW name \in STRING
    PROVE  \A i \in 1..Len(p) : Before(Append(p, name), i) = Before(p, i)
<1> TAKE i \in 1..Len(p)
<1> DEFINE q == Append(p, name)
<1>1. q \in Seq(STRING) /\ Len(q) = Len(p) + 1 /\ \A j \in 1..Len(p) : q[j] = p[j]
  <2>1. q \in Seq(STRING) /\ Len(q) = Len(p) + 1
    BY AppendProperties
  <2>2. ASSUME NEW j \in 1..Len(p)
        PROVE  q[j] = p[j]
    OBVIOUS
  <2> QED BY <2>1, <2>2
<1> HIDE DEF q
<1>2. i \in 0..Len(p) /\ i \in 0..Len(q)
  BY <1>1
<1> DEFINE a == Before(q, i)
           b == Before(p, i)
<1>3. a \in Seq(STRING) /\ Len(a) = i /\ \A j \in 1..i : a[j] = q[j]
  BY <1>1, <1>2, BeforeType
<1>4. b \in Seq(STRING) /\ Len(b) = i /\ \A j \in 1..i : b[j] = p[j]
  BY <1>2, BeforeType
<1> HIDE DEF a, b
<1>5. \A j \in 1..Len(a) : a[j] = b[j]
  BY <1>1, <1>3, <1>4
<1>6. a = b
  BY <1>3, <1>4, <1>5, SeqEqual
<1> QED
  BY <1>6 DEF a, b, q

\* A component that exists and is no link continues a real path that is no file.
LEMMA RealContinued ==
    ASSUME NEW fs, NEW p \in Seq(STRING), Real(fs, p), NEW name \in STRING,
           p = <<>> \/ fs[p].kind # "file",
           Append(p, name) \in DOMAIN fs, fs[Append(p, name)].kind # "link"
    PROVE  Real(fs, Append(p, name))
<1> DEFINE q == Append(p, name)
<1>1. q \in Seq(STRING) /\ Len(q) = Len(p) + 1
      /\ q \in DOMAIN fs /\ fs[q].kind # "link"
  BY AppendProperties
<1>2. \A i \in 1..Len(p) : Before(q, i) = Before(p, i)
  BY BeforeAppended
<1>3. Before(q, Len(q)) = q
  BY <1>1, BeforeAll
<1> HIDE DEF q
<1>4. ASSUME NEW i \in 1..Len(q)
      PROVE  /\ Before(q, i) \in DOMAIN fs
             /\ fs[Before(q, i)].kind # "link"
             /\ i < Len(q) => fs[Before(q, i)].kind # "file"
  <2>1. CASE i = Len(q)
    BY <1>1, <1>3, <2>1
  <2>2. CASE i < Len(p)
    <3>1. i \in 1..Len(p)
      BY <2>2
    <3> QED BY <1>2, <2>2, <3>1 DEF Real
  <2>3. CASE i = Len(p)
    <3>1. i \in 1..Len(p) /\ p # <<>>
      BY <2>3
    <3>2. Before(q, i) = p
      BY <1>2, <2>3, <3>1, BeforeAll
    <3> QED BY <1>2, <3>1, <3>2 DEF Real
  <2> QED BY <1>1, <2>1, <2>2, <2>3
<1> QED
  BY <1>4 DEF Real, q

\* Where a walk is, at any step, is a real path; it goes on only from a directory.
OnTrack(fs, i, w) ==
    /\ Real(fs, w.at) /\ Len(w.at) <= i
    /\ w.status = "ok" /\ w.rest # <<>> => w.at = <<>> \/ fs[w.at].kind # "file"

LEMMA FollowOnTrack ==
    ASSUME NEW fs, IsFileSystem(fs), NEW w \in Walks, NEW i \in Nat, OnTrack(fs, i, w)
    PROVE  OnTrack(fs, i + 1, Follow(fs, w))
<1>1. w.at \in Seq(STRING) /\ w.rest \in Seq(STRING) /\ Len(w.at) \in Nat
  BY DEF Walks
<1>2. CASE w.status # "ok" \/ w.rest = <<>>
  BY <1>1, <1>2, FollowStops DEF OnTrack
<1>3. CASE w.status = "ok" /\ w.rest # <<>>
  <2> DEFINE name == Head(w.rest)
             next == Append(w.at, name)
             more == Tail(w.rest)
  <2>1. name \in STRING
    BY <1>1, <1>3, HeadTailProperties
  <2>2. \/ Follow(fs, w) = [at |-> w.at, rest |-> w.rest, status |-> "missing"]
        \/ Follow(fs, w) = [at |-> w.at, rest |-> w.rest, status |-> "failed"]
        \/ Follow(fs, w) = [at |-> <<>>, rest |-> fs[next].to \o more, status |-> "ok"]
        \/ /\ next \in DOMAIN fs /\ fs[next].kind # "link"
           /\ fs[next].kind # "file" \/ more = <<>>
           /\ Follow(fs, w) = [at |-> next, rest |-> more, status |-> "ok"]
    BY <1>3, FollowIs
  <2>3. CASE \/ Follow(fs, w) = [at |-> w.at, rest |-> w.rest, status |-> "missing"]
             \/ Follow(fs, w) = [at |-> w.at, rest |-> w.rest, status |-> "failed"]
    BY <1>1, <2>3 DEF OnTrack
  <2>4. CASE Follow(fs, w) = [at |-> <<>>, rest |-> fs[next].to \o more, status |-> "ok"]
    <3>1. Real(fs, <<>>)
      BY DEF Real
    <3> HIDE DEF next, more
    <3> QED BY <2>4, <3>1 DEF OnTrack
  <2>5. CASE /\ next \in DOMAIN fs /\ fs[next].kind # "link"
             /\ fs[next].kind # "file" \/ more = <<>>
             /\ Follow(fs, w) = [at |-> next, rest |-> more, status |-> "ok"]
    <3>1. Real(fs, next)
      <4>1. Real(fs, w.at) /\ (w.at = <<>> \/ fs[w.at].kind # "file")
        BY <1>3 DEF OnTrack
      <4> QED BY <1>1, <2>1, <2>5, <4>1, RealContinued
    <3>2. Len(next) = Len(w.at) + 1
      BY <1>1, <2>1, AppendProperties
    <3>3. Len(w.at) <= i
      BY DEF OnTrack
    <3> HIDE DEF next, more
    <3> QED BY <1>1, <2>5, <3>1, <3>2, <3>3 DEF OnTrack
  <2> QED BY <2>2, <2>3, <2>4, <2>5
<1> QED
  BY <1>2, <1>3

\* What EvalSymlinks ends at is real, and no longer than a walk can be.
LEMMA EvalSymlinksReal ==
    ASSUME NEW fs, IsFileSystem(fs), NEW path \in Seq(STRING)
    PROVE  LET real == EvalSymlinks(fs, path).path
           IN  real \in Seq(STRING) /\ Real(fs, real) /\ Len(real) <= MaxSteps
<1>1. PICK walk : IsWalk(fs, path, walk) /\ EvalSymlinks(fs, path).path = walk[MaxSteps].at
  BY WalkIs
<1> DEFINE S == {i \in 0..MaxSteps : OnTrack(fs, i, walk[i])}
<1>2. MaxSteps \in Nat
  BY StepsAssumption
<1>3. S \in SUBSET (0..MaxSteps) /\ 0 \in S
  <2>1. Real(fs, <<>>) /\ 0 \in 0..MaxSteps
    BY <1>2 DEF Real
  <2>2. walk[0].at = <<>>
    BY <1>1 DEF IsWalk
  <2>3. OnTrack(fs, 0, walk[0])
    BY <2>1, <2>2 DEF OnTrack
  <2> QED BY <2>1, <2>3
<1>4. ASSUME NEW i \in 1..MaxSteps, i - 1 \in S
      PROVE  i \in S
  <2>1. /\ walk[i - 1] \in Walks /\ walk[i] = Follow(fs, walk[i - 1])
        /\ i - 1 \in Nat /\ (i - 1) + 1 = i /\ i \in 0..MaxSteps
    BY <1>1, <1>2 DEF IsWalk
  <2>2. OnTrack(fs, i - 1, walk[i - 1])
    BY <1>4
  <2>3. OnTrack(fs, (i - 1) + 1, Follow(fs, walk[i - 1]))
    BY <2>1, <2>2, FollowOnTrack
  <2> QED BY <2>1, <2>3
<1>5. S = 0..MaxSteps
  <2> HIDE DEF S
  <2> QED BY <1>2, <1>3, <1>4, BoundedInduction
<1>6. OnTrack(fs, MaxSteps, walk[MaxSteps]) /\ walk[MaxSteps] \in Walks
  <2>1. MaxSteps \in 0..MaxSteps
    BY <1>2
  <2> QED BY <1>1, <1>5, <2>1 DEF IsWalk
<1> QED
  BY <1>1, <1>6 DEF OnTrack, Walks

After(path, i) == SubSeq(path, i + 1, Len(path))

\* One component on, in a path cut in two.
LEMMA CutMoves ==
    ASSUME NEW p \in Seq(STRING), NEW i \in 0..(Len(p) - 1)
    PROVE  /\ After(p, i) \in Seq(STRING) /\ After(p, i) # <<>>
           /\ Append(Before(p, i), Head(After(p, i))) = Before(p, i + 1)
           /\ Tail(After(p, i)) = After(p, i + 1)
           /\ After(p, i + 1) = <<>> => i + 1 = Len(p)
<1>1. /\ i + 1 \in 1..Len(p) /\ Len(p) \in (i + 1)..Len(p) /\ i \in 0..Len(p)
      /\ i + 1 \in 0..Len(p) /\ p[i + 1] \in STRING
  OBVIOUS
<1>2. After(p, i) \in Seq(STRING) /\ Len(After(p, i)) = Len(p) - i
  <2>1. \A j \in (i + 1)..Len(p) : p[j] \in STRING
    OBVIOUS
  <2>2. i + 1 \in Int /\ Len(p) \in Int
    OBVIOUS
  <2> QED BY <1>1, <2>1, <2>2, SubSeqProperties DEF After
<1>3. Head(After(p, i)) = p[i + 1] /\ Tail(After(p, i)) = After(p, i + 1)
  BY <1>1, HeadTailOfSubSeq DEF After
<1>4. Append(Before(p, i), p[i + 1]) = Before(p, i + 1)
  <2> DEFINE a == Append(Before(p, i), p[i + 1])
             b == Before(p, i + 1)
  <2>1. /\ Before(p, i) \in Seq(STRING) /\ Len(Before(p, i)) = i
        /\ \A j \in 1..i : Before(p, i)[j] = p[j]
    BY <1>1, BeforeType
  <2>2. b \in Seq(STRING) /\ Len(b) = i + 1 /\ \A j \in 1..(i + 1) : b[j] = p[j]
    BY <1>1, BeforeType
  <2>3. a \in Seq(STRING) /\ Len(a) = i + 1
    BY <1>1, <2>1, AppendProperties
  <2>4. ASSUME NEW j \in 1..(i + 1)
        PROVE  a[j] = p[j]
    BY <2>1
  <2> HIDE DEF a, b
  <2>5. \A j \in 1..Len(a) : a[j] = b[j]
    BY <2>2, <2>3, <2>4
  <2>6. a = b
    BY <2>2, <2>3, <2>5, SeqEqual
  <2> QED BY <2>6 DEF a, b
<1>5. Len(After(p, i + 1)) = Len(p) - (i + 1)
  <2>1. After(p, i) # <<>>
    BY <1>1, <1>2
  <2> QED BY <1>2, <1>3, <2>1, HeadTailProperties
<1> QED
  BY <1>1, <1>2, <1>3, <1>4, <1>5

\* A real path, if no longer than a walk can be, is resolved to itself.
LEMMA EvalSymlinksStays ==
    ASSUME NEW fs, IsFileSystem(fs),
           NEW path \in Seq(STRING), Real(fs, path), Len(path) <= MaxSteps
    PROVE  EvalSymlinks(fs, path) = [path |-> path, status |-> "ok"]
<1> DEFINE n == Len(path)
           cut(i) == [at |-> Before(path, i), rest |-> After(path, i), status |-> "ok"]
           end == cut(n)
<1>1. MaxSteps \in Nat /\ n \in Nat /\ n <= MaxSteps
  BY StepsAssumption
<1>2. PICK walk : /\ IsWalk(fs, path, walk)
                  /\ EvalSymlinks(fs, path) =
                       [path   |-> walk[MaxSteps].at,
                        status |-> IF walk[MaxSteps].status = "ok" /\ walk[MaxSteps].rest # <<>>
                                   THEN "failed" ELSE walk[MaxSteps].status]
  BY WalkIs
<1>3. Before(path, n) = path /\ After(path, n) = <<>>
  BY BeforeAll, SubSeqEmpty DEF After
<1>4. cut(0) = [at |-> <<>>, rest |-> path, status |-> "ok"]
  BY SubSeqEmpty, SubSeqFull DEF Before, After
<1>5. ASSUME NEW i \in 0..(n - 1)
      PROVE  Follow(fs, cut(i)) = cut(i + 1)
  <2> DEFINE w == cut(i)
             next == Append(w.at, Head(w.rest))
             more == Tail(w.rest)
  <2>1. /\ After(path, i) \in Seq(STRING) /\ After(path, i) # <<>>
        /\ next = Before(path, i + 1) /\ more = After(path, i + 1)
        /\ more = <<>> => i + 1 = n
    BY CutMoves
  <2>2. Before(path, i) \in Seq(STRING)
    <3>1. i \in 0..Len(path)
      BY <1>1
    <3> QED BY <3>1, BeforeType
  <2>3. w \in Walks /\ w.status = "ok" /\ w.rest # <<>>
    BY <2>1, <2>2 DEF Walks
  <2>4. /\ next \in DOMAIN fs /\ fs[next].kind # "link"
        /\ fs[next].kind # "file" \/ more = <<>>
    <3>1. i + 1 \in 1..Len(path)
      BY <1>1
    <3>2. more # <<>> => i + 1 < Len(path)
      <4>1. CASE i + 1 = n
        <5>1. more = <<>>
          BY <1>3, <2>1, <4>1
        <5> QED BY <5>1
      <4>2. CASE i + 1 # n
        BY <1>1, <4>2
      <4> QED BY <4>1, <4>2
    <3> QED BY <2>1, <3>1, <3>2 DEF Real
  <2> HIDE DEF w
  <2>5. Follow(fs, w) = [at |-> next, rest |-> more, status |-> "ok"]
    BY <2>3, <2>4, FollowIs
  <2> HIDE DEF next, more
  <2>6. Follow(fs, w) = cut(i + 1)
    BY <2>1, <2>5
  <2> QED BY <2>6 DEF w
<1>6. Follow(fs, end) = end
  BY <1>3, FollowStops
<1> DEFINE S == {i \in 0..MaxSteps : walk[i] = IF i <= n THEN cut(i) ELSE end}
<1>7. S \in SUBSET (0..MaxSteps) /\ 0 \in S
  <2>1. walk[0] = cut(0)
    BY <1>2, <1>4 DEF IsWalk
  <2> HIDE DEF cut
  <2>2. 0 \in 0..MaxSteps /\ 0 <= n
    BY <1>1
  <2> QED BY <2>1, <2>2
<1>8. ASSUME NEW i \in 1..MaxSteps, i - 1 \in S
      PROVE  i \in S
  <2>1. walk[i] = Follow(fs, walk[i - 1]) /\ i \in 0..MaxSteps
    BY <1>1, <1>2 DEF IsWalk
  <2>2. walk[i - 1] = IF i - 1 <= n THEN cut(i - 1) ELSE end
    BY <1>8
  <2> HIDE DEF cut, end
  <2>3. CASE i <= n
    <3>1. i - 1 \in 0..(n - 1) /\ (i - 1) + 1 = i /\ i - 1 <= n
      BY <1>1, <2>3
    <3>2. Follow(fs, cut(i - 1)) = cut((i - 1) + 1)
      BY <1>5, <3>1
    <3> QED BY <2>1, <2>2, <2>3, <3>1, <3>2
  <2>4. CASE i > n
    <3>1. walk[i - 1] = end
      <4>1. CASE i - 1 = n
        BY <2>2, <4>1 DEF end
      <4>2. CASE i - 1 # n
        <5>1. ~(i - 1 <= n)
          BY <1>1, <2>4, <4>2
        <5> QED BY <2>2, <5>1
      <4> QED BY <4>1, <4>2
    <3>2. ~(i <= n)
      BY <1>1, <2>4
    <3> QED BY <1>6, <2>1, <3>1, <3>2
  <2> QED BY <1>1, <2>3, <2>4
<1>9. S = 0..MaxSteps
  <2> HIDE DEF S
  <2> QED BY <1>1, <1>7, <1>8, BoundedInduction
<1>10. walk[MaxSteps] = end
  <2>1. MaxSteps \in 0..MaxSteps
    BY <1>1
  <2>2. walk[MaxSteps] = IF MaxSteps <= n THEN cut(MaxSteps) ELSE end
    BY <1>9, <2>1
  <2>3. MaxSteps <= n => MaxSteps = n
    BY <1>1
  <2> HIDE DEF cut
  <2> QED BY <2>2, <2>3
<1>11. end.at = path /\ end.rest = <<>> /\ end.status = "ok"
  BY <1>3
<1> HIDE DEF end
<1> QED
  BY <1>2, <1>10, <1>11

\* What EvalSymlinks returns, it returns unchanged: the path in a signed URL is one.
THEOREM EvalSymlinksIdempotent ==
    ASSUME NEW fs, IsFileSystem(fs), NEW path \in Seq(STRING),
           EvalSymlinks(fs, path).status = "ok"
    PROVE  EvalSymlinks(fs, EvalSymlinks(fs, path).path) = EvalSymlinks(fs, path)
<1> DEFINE real == EvalSymlinks(fs, path)
<1>1. real.path \in Seq(STRING) /\ Real(fs, real.path) /\ Len(real.path) <= MaxSteps
  BY EvalSymlinksReal
<1>2. \E at, status : real = [path |-> at, status |-> status]
  BY WalkIs
<1>3. real.status = "ok"
  OBVIOUS
<1> HIDE DEF real
<1>4. real = [path |-> real.path, status |-> "ok"]
  BY <1>2, <1>3
<1>5. EvalSymlinks(fs, real.path) = real
  BY <1>1, <1>4, EvalSymlinksStays
<1> QED
  BY <1>5 DEF real

-----------------------------------------------------------------------------
(* The fence. *)

\* A place the fence may let a handler have.
Settled(fs, roots, path) ==
    /\ path \in Seq(STRING) /\ Len(path) <= MaxSteps
    /\ Real(fs, path)
    /\ InSomeRoot(fs, roots, path)

\* The roots lead nowhere that the names of the roots do not cover.
RootsCover(fs, roots) ==
    \A i \in DOMAIN roots :
        LET root == EvalSymlinks(fs, roots[i])
        IN  root.status = "ok" => Lexical(roots, root.path)

\* Whatever is asked for, the fence lets nothing through that is not in a root of the
\* file system it looked at.
LEMMA ResolveFenced ==
    ASSUME NEW fs, NEW roots \in Seq(Seq(STRING)), NEW p, Resolve(fs, roots, p).status = "ok"
    PROVE  InSomeRoot(fs, roots, Resolve(fs, roots, p).path)
<1>1. \A R, clean : Fenced(fs, R, clean).status = "ok"
        => InSomeRoot(fs, R, Fenced(fs, R, clean).path)
  BY DEF Fenced
<1>2. CASE p.absolute
  BY <1>1, <1>2 DEF Resolve
<1>3. CASE ~p.absolute
  <2>1. roots # <<>>
    BY <1>3 DEF Resolve
  <2>2. 1 \in DOMAIN roots
    BY <2>1
  <2> DEFINE r == Fenced(fs, <<roots[1]>>, Clean(roots[1] \o p.names))
  <2>3. Resolve(fs, roots, p) = r
    BY <1>3, <2>1 DEF Resolve
  <2>4. InSomeRoot(fs, <<roots[1]>>, r.path)
    BY <1>1, <2>3
  <2>5. InSomeRoot(fs, roots, r.path)
    BY <2>2, <2>4 DEF InSomeRoot
  <2> QED
    BY <2>3, <2>5
<1> QED
  BY <1>2, <1>3

LEMMA FencedReal ==
    ASSUME NEW fs, IsFileSystem(fs), NEW roots, NEW clean \in Seq(STRING),
           Fenced(fs, roots, clean).status = "ok"
    PROVE  LET real == Fenced(fs, roots, clean).path
           IN  real \in Seq(STRING) /\ Real(fs, real) /\ Len(real) <= MaxSteps
<1>1. Fenced(fs, roots, clean) = EvalSymlinks(fs, clean)
  BY DEF Fenced
<1> QED
  BY <1>1, EvalSymlinksReal

LEMMA ResolveSettled ==
    ASSUME NEW fs, IsFileSystem(fs), NEW roots \in Seq(Seq(STRING)),
           NEW p, p.names \in Seq(STRING), Resolve(fs, roots, p).status = "ok"
    PROVE  Settled(fs, roots, Resolve(fs, roots, p).path)
<1> DEFINE r == Resolve(fs, roots, p)
<1>1. r.path \in Seq(STRING) /\ Real(fs, r.path) /\ Len(r.path) <= MaxSteps
  <2>1. CASE p.absolute
    <3>1. r = Fenced(fs, roots, Clean(p.names))
      BY <2>1 DEF Resolve
    <3> QED BY <3>1, CleanType, FencedReal
  <2>2. CASE ~p.absolute
    <3>1. roots # <<>>
      BY <2>2 DEF Resolve
    <3>2. r = Fenced(fs, <<roots[1]>>, Clean(roots[1] \o p.names))
      BY <2>2, <3>1 DEF Resolve
    <3>3. roots[1] \in Seq(STRING)
      BY <3>1
    <3>4. roots[1] \o p.names \in Seq(STRING)
      BY <3>3, ConcatProperties
    <3> QED BY <3>2, <3>4, CleanType, FencedReal
  <2> QED BY <2>1, <2>2
<1>2. InSomeRoot(fs, roots, r.path)
  BY ResolveFenced
<1> QED
  BY <1>1, <1>2 DEF Settled

\* A real path is clean.
LEMMA RealClean ==
    ASSUME NEW fs, IsFileSystem(fs), NEW path \in Seq(STRING), Real(fs, path)
    PROVE  Clean(path) = path
<1>1. CASE path = <<>>
  <2>1. \A i \in DOMAIN path : path[i] # Up
    BY <1>1
  <2> QED BY <2>1, CleanStays
<1>2. CASE path # <<>>
  <2>1. Len(path) \in 1..Len(path)
    BY <1>2
  <2>2. path \in DOMAIN fs
    BY <2>1, BeforeAll DEF Real
  <2> QED BY <2>2, CleanStays DEF IsFileSystem
<1> QED
  BY <1>1, <1>2

\* What lies under a root that leads under the name of a root lies under that name.
LEMMA UnderRootTransitive ==
    ASSUME NEW path \in Seq(STRING), NEW root \in Seq(STRING), NEW name \in Seq(STRING),
           UnderRoot(path, root), UnderRoot(root, name)
    PROVE  UnderRoot(path, name)
<1> SUFFICES ASSUME path # root, root # name PROVE UnderRoot(path, name)
  OBVIOUS
<1>1. /\ Len(name) <= Len(root) /\ Len(root) <= Len(path) /\ name # <<>>
      /\ Before(path, Len(root)) = root /\ Before(root, Len(name)) = name
  BY DEF UnderRoot, Before
<1>2. Len(name) \in 0..Len(path) /\ Len(root) \in 0..Len(path) /\ Len(name) \in 0..Len(root)
  BY <1>1
<1> DEFINE a == Before(path, Len(name))
<1>3. a \in Seq(STRING) /\ Len(a) = Len(name) /\ \A j \in 1..Len(name) : a[j] = path[j]
  BY <1>2, BeforeType
<1>4. /\ \A j \in 1..Len(root) : root[j] = path[j]
      /\ \A j \in 1..Len(name) : name[j] = root[j]
  <2>1. \A j \in 1..Len(root) : Before(path, Len(root))[j] = path[j]
    BY <1>2, BeforeType
  <2>2. \A j \in 1..Len(name) : Before(root, Len(name))[j] = root[j]
    BY <1>2, BeforeType
  <2> QED BY <1>1, <2>1, <2>2
<1> HIDE DEF a
<1>5. \A j \in 1..Len(a) : a[j] = name[j]
  BY <1>1, <1>3, <1>4
<1>6. a = name
  BY <1>3, <1>5, SeqEqual
<1> QED
  BY <1>1, <1>6 DEF UnderRoot, Before, a

LEMMA SettledLexically ==
    ASSUME NEW fs, IsFileSystem(fs), NEW roots \in Seq(Seq(STRING)), RootsCover(fs, roots),
           NEW path, Settled(fs, roots, path)
    PROVE  Lexical(roots, path)
<1>1. PICK i \in DOMAIN roots : /\ EvalSymlinks(fs, roots[i]).status = "ok"
                                /\ UnderRoot(path, EvalSymlinks(fs, roots[i]).path)
  BY DEF Settled, InSomeRoot
<1> DEFINE root == EvalSymlinks(fs, roots[i]).path
<1>2. \A j \in DOMAIN roots : roots[j] \in Seq(STRING)
  OBVIOUS
<1>3. root \in Seq(STRING)
  BY <1>2, EvalSymlinksReal
<1>4. Lexical(roots, root)
  BY <1>1 DEF RootsCover
<1> HIDE DEF root
<1>5. PICK j \in DOMAIN roots : UnderRoot(root, roots[j])
  BY <1>4 DEF Lexical
<1>6. UnderRoot(path, root) /\ path \in Seq(STRING)
  BY <1>1 DEF Settled, root
<1>7. UnderRoot(path, roots[j])
  BY <1>2, <1>3, <1>5, <1>6, UnderRootTransitive
<1> QED
  BY <1>7 DEF Lexical

\* The fence lets through, unchanged, what it has let through: the URL that POST /mint
\* signs holds a resolved path, which GET /media fences and resolves again.
THEOREM FencedAgain ==
    ASSUME NEW fs, IsFileSystem(fs), NEW roots \in Seq(Seq(STRING)), RootsCover(fs, roots),
           NEW path, Settled(fs, roots, path)
    PROVE  Resolve(fs, roots, [absolute |-> TRUE, names |-> path])
             = [path |-> path, status |-> "ok"]
<1>1. path \in Seq(STRING) /\ Real(fs, path) /\ Len(path) <= MaxSteps
      /\ InSomeRoot(fs, roots, path)
  BY DEF Settled
<1>2. Clean(path) = path
  BY <1>1, RealClean
<1>3. EvalSymlinks(fs, path) = [path |-> path, status |-> "ok"]
  BY <1>1, EvalSymlinksStays
<1>4. Lexical(roots, path)
  BY SettledLexically
<1>5. Fenced(fs, roots, path) = [path |-> path, status |-> "ok"]
  BY <1>1, <1>3, <1>4 DEF Fenced
<1> QED
  BY <1>2, <1>5 DEF Resolve
=============================================================================
