-------------------------- MODULE InjectionProofs --------------------------
(***************************************************************************)
(* Injection is idempotent, and what the webhook writes the programs       *)
(* accept: for any pods, any annotations and any number of submissions.    *)
(***************************************************************************)
EXTENDS Injection, TLAPS

\* Containers and pods, whatever their fields are made of.
IsContainer(c) ==
    c = [name |-> c.name, ports |-> c.ports, env |-> c.env, mounts |-> c.mounts]

IsList(s) == \E S : s \in Seq(S) /\ \A c \in S : IsContainer(c)

IsPod(p) ==
    /\ p = [target |-> p.target, containers |-> p.containers, inits |-> p.inits,
            volumes |-> p.volumes, ann |-> p.ann, injected |-> p.injected]
    /\ IsList(p.containers) /\ p.injected \in BOOLEAN

Named(s, name) == \E i \in DOMAIN s : s[i].name = name

-----------------------------------------------------------------------------
(* Lists of containers. *)

LEMMA ListAppended ==
    ASSUME NEW s, IsList(s), NEW c, IsContainer(c)
    PROVE  /\ IsList(s \o <<c>>) /\ IsList(Append(s, c))
           /\ \A name : Named(s \o <<c>>, name) <=> Named(s, name) \/ c.name = name
           /\ \A name : Named(Append(s, c), name) <=> Named(s, name) \/ c.name = name
<1>1. PICK S : s \in Seq(S) /\ \A d \in S : IsContainer(d)
  BY DEF IsList
<1> DEFINE R == S \cup {c}
<1>2. s \in Seq(R) /\ c \in R /\ \A d \in R : IsContainer(d)
  BY <1>1
<1> HIDE DEF R
<1>3. s \o <<c>> = Append(s, c)
  BY <1>2
<1>4. Append(s, c) \in Seq(R)
  BY <1>2
<1>5. /\ Len(s) \in Nat /\ DOMAIN s = 1..Len(s)
      /\ DOMAIN Append(s, c) = 1..(Len(s) + 1)
      /\ Append(s, c)[Len(s) + 1] = c
      /\ \A i \in 1..Len(s) : Append(s, c)[i] = s[i]
  BY <1>2
<1>6. ASSUME NEW name
      PROVE  Named(Append(s, c), name) <=> Named(s, name) \/ c.name = name
  BY <1>5 DEF Named
<1> QED
  BY <1>2, <1>3, <1>4, <1>6 DEF IsList

LEMMA MountingKeeps ==
    ASSUME NEW c, IsContainer(c), NEW path
    PROVE  IsContainer(Mounting(c, path)) /\ Mounting(c, path).name = c.name
           /\ Mounting(c, path).env = c.env
<1> DEFINE added == c.mounts \cup {[volume |-> MediaVolume, path |-> path, readOnly |-> FALSE]}
<1>1. Mounting(c, path) = c \/ Mounting(c, path) = [c EXCEPT !.mounts = added]
  BY DEF Mounting
<1> HIDE DEF added
<1>2. /\ IsContainer([c EXCEPT !.mounts = added]) /\ [c EXCEPT !.mounts = added].name = c.name
      /\ [c EXCEPT !.mounts = added].env = c.env
  BY DEF IsContainer
<1> QED
  BY <1>1, <1>2

LEMMA ListMounted ==
    ASSUME NEW s, IsList(s), NEW path
    PROVE  /\ IsList(EachMounting(s, path))
           /\ \A name : Named(EachMounting(s, path), name) <=> Named(s, name)
<1>1. PICK S : s \in Seq(S) /\ \A c \in S : IsContainer(c)
  BY DEF IsList
<1> DEFINE t == EachMounting(s, path)
           R == {Mounting(c, path) : c \in S}
<1>2. DOMAIN s = 1..Len(s) /\ Len(s) \in Nat /\ \A i \in DOMAIN s : s[i] \in S
  BY <1>1
<1>3. DOMAIN t = DOMAIN s /\ \A i \in DOMAIN s : t[i] = Mounting(s[i], path)
  BY DEF EachMounting
<1>4. t \in [1..Len(s) -> R]
  BY <1>2 DEF EachMounting
<1>5. t \in Seq(R)
  BY <1>2, <1>4
<1>6. \A c \in R : IsContainer(c)
  BY <1>1, MountingKeeps
<1>7. \A i \in DOMAIN s : t[i].name = s[i].name
  BY <1>1, <1>2, <1>3, MountingKeeps
<1> QED
  BY <1>3, <1>5, <1>6, <1>7 DEF IsList, Named

-----------------------------------------------------------------------------
(* Idempotence. *)

\* A pod with other containers and volumes.
PodWith(p, list, inits, volumes) ==
    [p EXCEPT !.containers = list, !.inits = inits, !.volumes = volumes]

LEMMA PodChanged ==
    ASSUME NEW p, IsPod(p), NEW list, NEW inits, NEW volumes, IsList(list)
    PROVE  /\ IsPod(PodWith(p, list, inits, volumes))
           /\ PodWith(p, list, inits, volumes).containers = list
           /\ PodWith(p, list, inits, volumes).injected = p.injected
           /\ PodWith(p, list, inits, volumes).ann = p.ann
           /\ PodWith(p, list, inits, volumes).volumes = volumes
<1> DEFINE q1 == [p EXCEPT !.containers = list]
           q2 == [q1 EXCEPT !.inits = inits]
           q3 == [q2 EXCEPT !.volumes = volumes]
<1>1. /\ q1 = [target |-> q1.target, containers |-> q1.containers, inits |-> q1.inits,
                volumes |-> q1.volumes, ann |-> q1.ann, injected |-> q1.injected]
      /\ q1.containers = list /\ q1.injected = p.injected /\ q1.ann = p.ann
  BY DEF IsPod
<1> HIDE DEF q1
<1>2. /\ q2 = [target |-> q2.target, containers |-> q2.containers, inits |-> q2.inits,
                volumes |-> q2.volumes, ann |-> q2.ann, injected |-> q2.injected]
      /\ q2.containers = list /\ q2.injected = p.injected /\ q2.ann = p.ann
  BY <1>1
<1> HIDE DEF q2
<1>3. /\ q3 = [target |-> q3.target, containers |-> q3.containers, inits |-> q3.inits,
                volumes |-> q3.volumes, ann |-> q3.ann, injected |-> q3.injected]
      /\ q3.containers = list /\ q3.injected = p.injected /\ q3.ann = p.ann
      /\ q3.volumes = volumes
  BY <1>2
<1>4. PodWith(p, list, inits, volumes) = q3
  BY DEF PodWith, q1, q2
<1> HIDE DEF q3
<1>5. p.injected \in BOOLEAN
  BY DEF IsPod
<1>6. IsPod(q3)
  BY <1>3, <1>5 DEF IsPod
<1> QED
  BY <1>3, <1>4, <1>6

LEMMA SidecarAdded ==
    ASSUME NEW p, IsPod(p), NEW a
    PROVE  LET q == AddSidecar(p, a)
           IN  /\ IsPod(q) /\ q.injected = p.injected /\ q.ann = p.ann
               /\ a.sidecar => HasContainer(q, Sidecar)
               /\ HasContainer(p, Sidecar) => HasContainer(q, Sidecar)
               /\ HasContainer(q, Proxy) <=> HasContainer(p, Proxy)
<1> DEFINE c == SidecarContainer(p, a)
           list == EachMounting(p.containers \o <<c>>, Path(a))
           inits == EachMounting(p.inits, Path(a))
           volumes == WithMediaVolume(p.volumes, a)
           q == PodWith(p, list, inits, volumes)
<1>1. CASE ~a.sidecar \/ HasContainer(p, Sidecar)
  BY <1>1 DEF AddSidecar
<1>2. CASE a.sidecar /\ ~HasContainer(p, Sidecar)
  <2>1. AddSidecar(p, a) = q
    BY <1>2 DEF AddSidecar, PodWith
  <2>2. IsContainer(c) /\ c.name = Sidecar
    BY DEF SidecarContainer, IsContainer
  <2>3. IsList(p.containers)
    BY ONLY IsPod(p) DEF IsPod
  <2>4. /\ IsList(p.containers \o <<c>>)
        /\ \A name : Named(p.containers \o <<c>>, name) <=>
                        Named(p.containers, name) \/ c.name = name
    BY <2>2, <2>3, ListAppended
  <2> HIDE DEF c
  <2>5. IsList(list) /\ \A name : Named(list, name) <=>
                                    Named(p.containers, name) \/ name = Sidecar
    BY <2>2, <2>4, ListMounted
  <2> HIDE DEF list, inits, volumes
  <2>6. IsPod(q) /\ q.containers = list /\ q.injected = p.injected /\ q.ann = p.ann
    BY <2>5, PodChanged
  <2> HIDE DEF q
  <2>7. \A name : HasContainer(q, name) <=> HasContainer(p, name) \/ name = Sidecar
    BY <2>5, <2>6 DEF HasContainer, Named
  <2>8. Sidecar # Proxy
    BY DEF Sidecar, Proxy
  <2> QED
    BY <2>1, <2>6, <2>7, <2>8
<1> QED
  BY <1>1, <1>2

LEMMA ProxyAdded ==
    ASSUME NEW p, IsPod(p), NEW a
    PROVE  LET q == AddProxy(p, a)
           IN  /\ IsPod(q) /\ q.injected = p.injected /\ q.ann = p.ann
               /\ a.proxy => HasContainer(q, Proxy)
               /\ HasContainer(p, Proxy) => HasContainer(q, Proxy)
               /\ HasContainer(q, Sidecar) <=> HasContainer(p, Sidecar)
<1> DEFINE c == ProxyContainer(a)
           list == Append(p.containers, c)
           q == [p EXCEPT !.containers = list]
<1>1. CASE ~a.proxy \/ HasContainer(p, Proxy)
  BY <1>1 DEF AddProxy
<1>2. CASE a.proxy /\ ~HasContainer(p, Proxy)
  <2>1. AddProxy(p, a) = q
    BY <1>2 DEF AddProxy
  <2>2. IsContainer(c) /\ c.name = Proxy
    BY DEF ProxyContainer, IsContainer
  <2>3. IsList(p.containers)
    BY ONLY IsPod(p) DEF IsPod
  <2> HIDE DEF c
  <2>4. IsList(list) /\ \A name : Named(list, name) <=>
                                    Named(p.containers, name) \/ name = Proxy
    BY <2>2, <2>3, ListAppended
  <2> HIDE DEF list
  <2>5. /\ q = [target |-> q.target, containers |-> q.containers, inits |-> q.inits,
                volumes |-> q.volumes, ann |-> q.ann, injected |-> q.injected]
        /\ q.containers = list /\ q.injected = p.injected /\ q.ann = p.ann
    BY DEF IsPod
  <2> HIDE DEF q
  <2>6. IsPod(q)
    BY <2>4, <2>5 DEF IsPod
  <2>7. \A name : HasContainer(q, name) <=> HasContainer(p, name) \/ name = Proxy
    BY <2>4, <2>5 DEF HasContainer, Named
  <2>8. Sidecar # Proxy
    BY DEF Sidecar, Proxy
  <2> QED
    BY <2>1, <2>5, <2>6, <2>7, <2>8
<1> QED
  BY <1>1, <1>2

\* A pod that has what is asked for, and the label, is left as it is.
LEMMA NothingToInject ==
    ASSUME NEW p, IsPod(p), NEW a,
           a.sidecar => HasContainer(p, Sidecar), a.proxy => HasContainer(p, Proxy),
           a.sidecar \/ a.proxy => p.injected
    PROVE  InjectPod(p, a) = p
<1>1. AddProxy(AddSidecar(p, a), a) = p
  BY DEF AddProxy, AddSidecar
<1>2. (p.injected \/ a.sidecar \/ a.proxy) = p.injected
  BY DEF IsPod
<1>3. [p EXCEPT !.injected = p.injected] = p
  BY DEF IsPod
<1> QED
  BY <1>1, <1>2, <1>3 DEF InjectPod

\* What InjectPod makes of a pod.
LEMMA Injected ==
    ASSUME NEW p, IsPod(p), NEW a, a.sidecar \in BOOLEAN, a.proxy \in BOOLEAN
    PROVE  LET q == InjectPod(p, a)
           IN  /\ IsPod(q) /\ q.ann = p.ann
               /\ a.sidecar => HasContainer(q, Sidecar)
               /\ a.proxy => HasContainer(q, Proxy)
               /\ a.sidecar \/ a.proxy => q.injected
               /\ HasContainer(p, Sidecar) => HasContainer(q, Sidecar)
<1> DEFINE r == AddProxy(AddSidecar(p, a), a)
           q == [r EXCEPT !.injected = @ \/ a.sidecar \/ a.proxy]
<1>1. /\ IsPod(r) /\ r.ann = p.ann
      /\ a.sidecar => HasContainer(r, Sidecar)
      /\ a.proxy => HasContainer(r, Proxy)
      /\ HasContainer(p, Sidecar) => HasContainer(r, Sidecar)
  <2> DEFINE s == AddSidecar(p, a)
  <2>1. /\ IsPod(s) /\ s.ann = p.ann
        /\ a.sidecar => HasContainer(s, Sidecar)
        /\ HasContainer(p, Sidecar) => HasContainer(s, Sidecar)
    BY SidecarAdded
  <2> HIDE DEF s
  <2>2. /\ IsPod(AddProxy(s, a)) /\ AddProxy(s, a).ann = s.ann
        /\ a.proxy => HasContainer(AddProxy(s, a), Proxy)
        /\ HasContainer(AddProxy(s, a), Sidecar) <=> HasContainer(s, Sidecar)
    BY <2>1, ProxyAdded
  <2> QED
    BY <2>1, <2>2 DEF s
<1>2. InjectPod(p, a) = q
  BY DEF InjectPod
<1> HIDE DEF r
<1>3. /\ q = [target |-> q.target, containers |-> q.containers, inits |-> q.inits,
              volumes |-> q.volumes, ann |-> q.ann, injected |-> q.injected]
      /\ q.containers = r.containers /\ q.ann = r.ann
      /\ q.injected = (r.injected \/ a.sidecar \/ a.proxy)
  BY <1>1 DEF IsPod
<1> HIDE DEF q
<1>4. IsPod(q)
  BY <1>1, <1>3 DEF IsPod
<1>5. \A name : HasContainer(q, name) <=> HasContainer(r, name)
  BY <1>3 DEF HasContainer
<1> QED
  BY <1>1, <1>2, <1>3, <1>4, <1>5

-----------------------------------------------------------------------------
(* The inductive invariant: a pod that was admitted has what it asks for, so that the  *)
(* same admission finds nothing to do.                                                  *)

IsAnnotation(a) ==
    /\ a = [x \in DOMAIN a |-> a[x]] /\ {"sidecar", "proxy"} \subseteq DOMAIN a
    /\ a.sidecar \in BOOLEAN /\ a.proxy \in BOOLEAN

Served(p) ==
    /\ p.ann.sidecar => HasContainer(p, Sidecar)
    /\ p.ann.proxy => HasContainer(p, Proxy)
    /\ p.ann.sidecar \/ p.ann.proxy => p.injected

IInv ==
    /\ IsPod(pod) /\ IsAnnotation(pod.ann)
    /\ stage # "created" /\ gate = "enabled" /\ ~Malformed(pod.ann) => Served(pod)

LEMMA AnnotationsAre == \A a \in Annotations : IsAnnotation(a)
BY InjectionAssumption DEF InjectionAssumption, AnnotationSets, IsAnnotation

LEMMA WorkloadsAre == \A w \in Workloads : IsList(w.containers)
<1>1. \A c \in Containers : IsContainer(c)
  BY DEF Containers, IsContainer
<1>2. \A w \in Workloads : w.containers \in Seq(Containers)
  BY InjectionAssumption DEF InjectionAssumption
<1> QED
  BY <1>1, <1>2 DEF IsList

LEMMA InitIInv == Init => IInv
<1> SUFFICES ASSUME Init PROVE IInv
  OBVIOUS
<1>1. PICK w \in Workloads, a \in Annotations :
        pod = [target |-> w.target, containers |-> w.containers, inits |-> w.inits,
               volumes |-> w.volumes, ann |-> a, injected |-> FALSE]
  BY DEF Init
<1>2. IsList(w.containers) /\ IsAnnotation(a)
  BY AnnotationsAre, WorkloadsAre
<1>3. stage = "created"
  BY DEF Init
<1> QED
  BY <1>1, <1>2, <1>3 DEF IInv, IsPod

LEMMA Inductive == IInv /\ [Next]_vars => IInv'
<1> SUFFICES ASSUME IInv, [Next]_vars PROVE IInv'
  OBVIOUS
<1>1. CASE Admit
  <2> DEFINE a == pod.ann
  <2>1. /\ IsPod(pod) /\ IsAnnotation(a) /\ gate' = gate
        /\ a.sidecar \in BOOLEAN /\ a.proxy \in BOOLEAN
    BY <1>1 DEF IInv, Admit, IsAnnotation
  <2>2. CASE gate = "enabled" /\ ~Malformed(a) /\ (a.sidecar \/ a.proxy)
    <3>1. pod' = InjectPod(pod, a)
      BY <1>1, <2>2 DEF Admit
    <3>2. IsPod(pod') /\ pod'.ann = a /\ Served(pod')
      BY <2>1, <3>1, Injected DEF Served
    <3> QED
      BY <2>1, <3>2 DEF IInv
  <2>3. CASE ~(gate = "enabled" /\ ~Malformed(a) /\ (a.sidecar \/ a.proxy))
    <3>1. pod' = pod
      BY <1>1, <2>3 DEF Admit
    <3>2. gate = "enabled" /\ ~Malformed(a) => Served(pod)
      BY <2>3 DEF Served
    <3> QED
      BY <2>1, <3>1, <3>2 DEF IInv
  <2> QED
    BY <2>2, <2>3
<1>2. CASE Start
  BY <1>2 DEF IInv, Start
<1>3. CASE Resubmit
  <2>1. PICK s, p \in BOOLEAN :
          pod' = [pod EXCEPT !.ann = [@ EXCEPT !.sidecar = s, !.proxy = p]]
    BY <1>3 DEF Resubmit
  <2> DEFINE b == [pod.ann EXCEPT !.sidecar = s, !.proxy = p]
  <2>2. IsAnnotation(b)
    BY DEF IInv, IsAnnotation
  <2> HIDE DEF b
  <2>3. pod' = [pod EXCEPT !.ann = b]
    BY <2>1 DEF b
  <2>4. IsPod(pod') /\ pod'.ann = b
    BY <2>3 DEF IInv, IsPod
  <2>5. stage' = "created"
    BY <1>3 DEF Resubmit
  <2> QED
    BY <2>2, <2>4, <2>5 DEF IInv
<1>4. CASE UNCHANGED vars
  BY <1>4 DEF IInv, vars
<1> QED
  BY <1>1, <1>2, <1>3, <1>4 DEF Next

\* In every state the pod is a pod, and an admitted one has what it asks for.
THEOREM Invariant == Spec => []IInv
BY InitIInv, Inductive, PTL DEF Spec

\* Admitting an admitted pod again changes nothing (injectPod's idempotence): whatever it
\* carried and however often it was edited and submitted before.
THEOREM InjectionIsIdempotent == Spec => []Idempotent
<1>1. IInv => Idempotent
  BY NothingToInject DEF IInv, Idempotent, Served
<1> QED
  BY <1>1, Invariant, PTL

-----------------------------------------------------------------------------
(* What the programs owe to the annotations. *)

\* A container of the list has this name and this environment.
Entry(s, name, env) == \E i \in DOMAIN s : s[i].name = name /\ s[i].env = env

\* What the environment of an injected container owes to the annotations it was made from.
SidecarFits(a, env) ==
    (a.url = Unset \/ HttpUrl(a.url)) /\ (a.path = Unset \/ Absolute(a.path)) =>
        SidecarAccepts(env)

ProxyFits(a, env) ==
    /\ Sound(a) /\ (Mode(a) = <<"full">> => a.port \in Digits) => ProxyAccepts(env)
    /\ env.MINT_URL = ResolveMintURL(a)

-----------------------------------------------------------------------------
(* The environments. *)

LEMMA PortsAre ==
    /\ <<"8090">> \in Digits /\ <<"8091">> \in Digits
    /\ \A d \in Digits : d = <<d[1]>>
BY InjectionAssumption DEF InjectionAssumption

LEMMA UrlIs ==
    ASSUME NEW v, NEW n \in Nat, n > 2, Len(v) = n, v[1] = "http", <<v[2]>> \in Digits, v[n] # ""
    PROVE  HttpUrl(v)
<1>1. n \in 2..n
  BY ONLY n \in Nat, n > 2
<1>2. \E i \in 2..Len(v) : v[i] # ""
  BY ONLY <1>1, v[n] # "", Len(v) = n
<1>3. Len(v) > 2
  BY ONLY Len(v) = n, n > 2
<1> QED
  BY ONLY <1>2, <1>3, v[1] = "http", <<v[2]>> \in Digits DEF HttpUrl

\* A URL that the webhook makes up is one.
LEMMA MadeUpUrl ==
    ASSUME NEW port, <<port>> \in Digits, NEW host
    PROVE  /\ HttpUrl(<<"http", port, "localhost">>)
           /\ HttpUrl(<<"http", port, host, "-media">>)
           /\ HttpUrl(<<"http", port, host, "-sidecar-service">>)
<1>1. HttpUrl(<<"http", port, "localhost">>)
  <2> DEFINE v == <<"http", port, "localhost">>
  <2>1. Len(v) = 3 /\ v[1] = "http" /\ <<v[2]>> = <<port>> /\ v[3] # ""
    OBVIOUS
  <2> HIDE DEF v
  <2>2. <<v[2]>> \in Digits
    BY <2>1, Zenon
  <2>3. 3 \in Nat /\ 3 > 2
    OBVIOUS
  <2>4. HttpUrl(v)
    BY ONLY <2>1, <2>2, <2>3, UrlIs
  <2> QED
    BY <2>4 DEF v
<1>2. ASSUME NEW last, last # "" PROVE HttpUrl(<<"http", port, host, last>>)
  <2> DEFINE v == <<"http", port, host, last>>
  <2>1. Len(v) = 4 /\ v[1] = "http" /\ <<v[2]>> = <<port>> /\ v[4] # ""
    BY <1>2
  <2> HIDE DEF v
  <2>2. <<v[2]>> \in Digits
    BY <2>1, Zenon
  <2>3. 4 \in Nat /\ 4 > 2
    OBVIOUS
  <2>4. HttpUrl(v)
    BY ONLY <2>1, <2>2, <2>3, UrlIs
  <2> QED
    BY <2>4 DEF v
<1>3. "-media" # "" /\ "-sidecar-service" # ""
  OBVIOUS
<1> QED
  BY <1>1, <1>2, <1>3

LEMMA SidecarEnvFits ==
    ASSUME NEW p, NEW a
    PROVE  SidecarFits(a, SidecarContainer(p, a).env)
<1> SUFFICES ASSUME a.url = Unset \/ HttpUrl(a.url), a.path = Unset \/ Absolute(a.path)
             PROVE  SidecarAccepts(SidecarContainer(p, a).env)
  BY DEF SidecarFits
<1> DEFINE env == SidecarContainer(p, a).env
<1>1. /\ env.MEDIA_PUBLIC_BASE_URL = PublicUrl(p, a)
      /\ env.MEDIA_INTERNAL_TOKEN = <<"media-internal-token">>
      /\ env.MEDIA_SIGNING_SECRET = <<"media-signing">>
      /\ env.MEDIA_ROOTS = Path(a)
  BY DEF SidecarContainer
<1>2. HttpUrl(PublicUrl(p, a))
  <2>1. HttpUrl(<<"http", "8090", p.target, "-media">>)
    BY PortsAre, MadeUpUrl
  <2> QED
    BY <2>1 DEF PublicUrl, Or
<1>3. Absolute(Or(Path(a), <<"/", "data">>))
  <2>1. Absolute(<<"/", "data">>)
    BY DEF Absolute
  <2> QED
    BY <2>1 DEF Path, Or
<1>4. <<"media-signing">> \in LongSecrets /\ <<"media-internal-token">> # Unset
  BY InjectionAssumption DEF InjectionAssumption, Unset
<1> HIDE DEF env
<1>5. SidecarAccepts(env)
  BY <1>1, <1>2, <1>3, <1>4 DEF SidecarAccepts
<1> QED
  BY <1>5 DEF env

LEMMA ProxyEnvFits == ASSUME NEW a PROVE ProxyFits(a, ProxyContainer(a).env)
<1> DEFINE env == ProxyContainer(a).env
<1>1. /\ env.PROXY_MODE = Mode(a)
      /\ env.MEDIA_INTERNAL_TOKEN = <<"media-internal-token">>
      /\ env.UPSTREAM_MCP_URL = IF Mode(a) # <<"standalone">> /\ a.port # Unset
                                THEN <<"http", a.port[1], "localhost">> ELSE Unset
      /\ env.TOOL_MATCH = IF Mode(a) = <<"full">> THEN a.match ELSE Unset
      /\ env.INLINE_MAX_BYTES = a.inline
      /\ env.MINT_URL = ResolveMintURL(a)
      /\ env.MEDIA_AUTH_TOKEN = a.auth
  BY DEF ProxyContainer
<1> HIDE DEF env
<1>2. ASSUME Sound(a), Mode(a) = <<"full">> => a.port \in Digits
      PROVE  ProxyAccepts(env)
  <2>1. Mode(a) = <<"full">> \/ Mode(a) = <<"standalone">>
    BY <1>2 DEF Sound, Mode, Or
  <2>2. /\ <<"full">> # <<"standalone">> /\ <<"full">> # Unset /\ <<"standalone">> # Unset
        /\ <<"media-internal-token">> # Unset
    BY DEF Unset
  <2>3. ConfigMode(env) = Mode(a)
    BY <1>1, <2>1, <2>2 DEF ConfigMode
  <2>4. HttpUrl(env.MINT_URL)
    <3>1. CASE a.mint # Unset
      BY <1>1, <1>2, <3>1 DEF Sound, ResolveMintURL
    <3>2. CASE a.mint = Unset /\ a.group # Unset
      <4>1. HttpUrl(<<"http", "8091", a.group[1], "-sidecar-service">>)
        BY PortsAre, MadeUpUrl
      <4> QED
        BY <1>1, <3>2, <4>1 DEF ResolveMintURL
    <3>3. CASE a.mint = Unset /\ a.group = Unset
      <4>1. HttpUrl(<<"http", "8091", "localhost">>) /\ a.sidecar
        BY <1>2, <3>3, PortsAre, MadeUpUrl DEF Sound
      <4> QED
        BY <1>1, <3>3, <4>1 DEF ResolveMintURL
    <3> QED
      BY <3>1, <3>2, <3>3
  <2>5. CASE Mode(a) = <<"full">>
    <3>1. a.port \in Digits /\ a.port = <<a.port[1]>> /\ a.port # Unset
      BY <1>2, <2>5, PortsAre DEF Unset
    <3>2. HttpUrl(env.UPSTREAM_MCP_URL)
      BY <1>1, <2>2, <2>5, <3>1, MadeUpUrl
    <3> QED
      BY <1>1, <1>2, <2>2, <2>3, <2>4, <2>5, <3>2 DEF ProxyAccepts, Sound
  <2>6. CASE Mode(a) = <<"standalone">>
    BY <1>1, <1>2, <2>2, <2>3, <2>4, <2>6 DEF ProxyAccepts, Sound
  <2> QED
    BY <2>1, <2>5, <2>6
<1> QED
  BY <1>1, <1>2 DEF ProxyFits, env

-----------------------------------------------------------------------------
(* Where the containers of an injected pod come from. *)

LEMMA EntryAppended ==
    ASSUME NEW s, IsList(s), NEW c
    PROVE  \A name, env :
              /\ Entry(Append(s, c), name, env) => Entry(s, name, env) \/ (c.name = name /\ c.env = env)
              /\ Entry(s \o <<c>>, name, env) => Entry(s, name, env) \/ (c.name = name /\ c.env = env)
<1>1. PICK S : s \in Seq(S) /\ \A d \in S : IsContainer(d)
  BY DEF IsList
<1>2. /\ Len(s) \in Nat /\ DOMAIN s = 1..Len(s)
      /\ DOMAIN Append(s, c) = 1..(Len(s) + 1)
      /\ Append(s, c)[Len(s) + 1] = c
      /\ \A i \in 1..Len(s) : Append(s, c)[i] = s[i]
  <2> DEFINE R == S \cup {c}
  <2>1. s \in Seq(R) /\ c \in R
    BY <1>1
  <2> HIDE DEF R
  <2> QED
    BY <2>1
<1>3. s \o <<c>> = Append(s, c)
  BY <1>1
<1> QED
  BY <1>2, <1>3 DEF Entry

LEMMA EntryMounted ==
    ASSUME NEW s, IsList(s), NEW path, NEW name, NEW env, Entry(EachMounting(s, path), name, env)
    PROVE  Entry(s, name, env)
<1>1. PICK S : s \in Seq(S) /\ \A c \in S : IsContainer(c)
  BY DEF IsList
<1>2. DOMAIN EachMounting(s, path) = DOMAIN s
      /\ \A i \in DOMAIN s : EachMounting(s, path)[i] = Mounting(s[i], path)
  BY DEF EachMounting
<1>3. \A i \in DOMAIN s : IsContainer(s[i])
  BY <1>1
<1> QED
  BY <1>2, <1>3, MountingKeeps DEF Entry

LEMMA SidecarEntry ==
    ASSUME NEW p, IsPod(p), NEW a, NEW name, NEW env,
           Entry(AddSidecar(p, a).containers, name, env)
    PROVE  \/ Entry(p.containers, name, env)
           \/ /\ ~HasContainer(p, Sidecar) /\ a.sidecar
              /\ name = Sidecar /\ env = SidecarContainer(p, a).env
<1> DEFINE c == SidecarContainer(p, a)
           list == EachMounting(p.containers \o <<c>>, Path(a))
           inits == EachMounting(p.inits, Path(a))
           volumes == WithMediaVolume(p.volumes, a)
<1>1. CASE ~a.sidecar \/ HasContainer(p, Sidecar)
  BY <1>1 DEF AddSidecar
<1>2. CASE a.sidecar /\ ~HasContainer(p, Sidecar)
  <2>1. IsList(p.containers) /\ IsContainer(c) /\ c.name = Sidecar
    BY DEF IsPod, SidecarContainer, IsContainer
  <2>2. AddSidecar(p, a) = PodWith(p, list, inits, volumes)
    BY <1>2 DEF AddSidecar, PodWith
  <2> HIDE DEF c
  <2>3. IsList(p.containers \o <<c>>)
    BY <2>1, ListAppended
  <2>4. IsList(list)
    BY <2>3, ListMounted
  <2>5. Entry(list, name, env) => Entry(p.containers \o <<c>>, name, env)
    BY <2>3, EntryMounted
  <2> HIDE DEF list, inits, volumes
  <2>6. AddSidecar(p, a).containers = list
    BY <2>2, <2>4, PodChanged
  <2> QED
    BY <1>2, <2>1, <2>5, <2>6, EntryAppended DEF c
<1> QED
  BY <1>1, <1>2

LEMMA ProxyEntry ==
    ASSUME NEW p, IsPod(p), NEW a, NEW name, NEW env,
           Entry(AddProxy(p, a).containers, name, env)
    PROVE  \/ Entry(p.containers, name, env)
           \/ /\ ~HasContainer(p, Proxy) /\ a.proxy
              /\ name = Proxy /\ env = ProxyContainer(a).env
<1> DEFINE c == ProxyContainer(a)
           list == Append(p.containers, c)
<1>1. CASE ~a.proxy \/ HasContainer(p, Proxy)
  BY <1>1 DEF AddProxy
<1>2. CASE a.proxy /\ ~HasContainer(p, Proxy)
  <2>1. AddProxy(p, a) = [p EXCEPT !.containers = list]
    BY <1>2 DEF AddProxy
  <2>2. c.name = Proxy /\ IsList(p.containers)
    BY DEF ProxyContainer, IsPod
  <2> HIDE DEF c
  <2>3. Entry(list, name, env) =>
           Entry(p.containers, name, env) \/ (c.name = name /\ c.env = env)
    BY <2>2, EntryAppended
  <2> HIDE DEF list
  <2>4. AddProxy(p, a).containers = list
    BY <2>1 DEF IsPod
  <2> QED
    BY <1>2, <2>2, <2>3, <2>4 DEF c
<1> QED
  BY <1>1, <1>2

\* A container of an injected pod was there, or was made for these annotations.
LEMMA InjectedEntry ==
    ASSUME NEW p, IsPod(p), NEW a, NEW name, NEW env,
           Entry(InjectPod(p, a).containers, name, env)
    PROVE  \/ Entry(p.containers, name, env)
           \/ name = Sidecar /\ ~HasContainer(p, Sidecar) /\ env = SidecarContainer(p, a).env
           \/ name = Proxy /\ ~HasContainer(p, Proxy) /\ env = ProxyContainer(a).env
<1> DEFINE s == AddSidecar(p, a)
           r == AddProxy(s, a)
<1>1. IsPod(s) /\ (HasContainer(s, Proxy) <=> HasContainer(p, Proxy))
  BY SidecarAdded
<1>2. Entry(s.containers, name, env) =>
        \/ Entry(p.containers, name, env)
        \/ name = Sidecar /\ ~HasContainer(p, Sidecar) /\ env = SidecarContainer(p, a).env
  BY SidecarEntry
<1> HIDE DEF s
<1>3. IsPod(r)
  BY <1>1, ProxyAdded
<1>4. Entry(r.containers, name, env) =>
        \/ Entry(s.containers, name, env)
        \/ name = Proxy /\ ~HasContainer(s, Proxy) /\ env = ProxyContainer(a).env
  BY <1>1, ProxyEntry
<1>5. InjectPod(p, a) = [r EXCEPT !.injected = @ \/ a.sidecar \/ a.proxy]
  BY DEF InjectPod, s
<1> HIDE DEF r
<1>6. InjectPod(p, a).containers = r.containers
  BY <1>3, <1>5 DEF IsPod
<1> QED
  BY <1>1, <1>2, <1>4, <1>6

-----------------------------------------------------------------------------
(* The inductive invariant: each injected container fits the annotations it was made from, *)
(* and a proxy made together with a sidecar has it.                                         *)

Remembered ==
    /\ DOMAIN asked = {n \in {Sidecar, Proxy} : HasContainer(pod, n)}
    /\ pod.injected <=> DOMAIN asked # {}

Fitting ==
    /\ \A env : Entry(pod.containers, Sidecar, env) => SidecarFits(asked[Sidecar], env)
    /\ \A env : Entry(pod.containers, Proxy, env) => ProxyFits(asked[Proxy], env)
    /\ Proxy \in DOMAIN asked /\ asked[Proxy].sidecar => HasContainer(pod, Sidecar)

Accepting ==
    {pod.containers[i].name : i \in {j \in DOMAIN pod.containers : Accepts(pod.containers[j])}}

Running == running = IF stage = "running" THEN Accepting ELSE {}

SInv ==
    /\ IInv
    /\ stage \in {"created", "admitted", "running"} /\ gate \in Gates /\ copies \in 0..MaxCopies
    /\ Remembered /\ Fitting /\ Running

LEMMA InitSInv == Init => SInv
<1> SUFFICES ASSUME Init PROVE SInv
  OBVIOUS
<1>1. PICK w \in Workloads, a \in Annotations :
        pod = [target |-> w.target, containers |-> w.containers, inits |-> w.inits,
               volumes |-> w.volumes, ann |-> a, injected |-> FALSE]
  BY DEF Init
<1>2. \A i \in DOMAIN pod.containers : pod.containers[i].name \notin {Sidecar, Proxy}
  BY <1>1, InjectionAssumption DEF InjectionAssumption
<1>3. ~HasContainer(pod, Sidecar) /\ ~HasContainer(pod, Proxy) /\ pod.injected = FALSE
      /\ \A env : ~Entry(pod.containers, Sidecar, env) /\ ~Entry(pod.containers, Proxy, env)
  BY <1>1, <1>2 DEF HasContainer, Entry
<1>4. DOMAIN asked = {}
  BY DEF Init
<1>5. copies \in 0..MaxCopies /\ stage = "created" /\ gate \in Gates /\ running = {}
  BY InjectionAssumption DEF InjectionAssumption, Init
<1> QED
  BY <1>3, <1>4, <1>5, InitIInv DEF SInv, Remembered, Fitting, Running

\* Admission makes what is missing, and leaves what is there.
LEMMA AdmitFits ==
    ASSUME SInv, Admit, pod' = InjectPod(pod, pod.ann), asked' = Asked(pod', pod.ann),
           pod.ann.sidecar \/ pod.ann.proxy
    PROVE  Remembered' /\ Fitting'
<1> DEFINE a == pod.ann
<1>1. IsPod(pod) /\ a.sidecar \in BOOLEAN /\ a.proxy \in BOOLEAN
  BY DEF SInv, IInv, IsAnnotation
<1>2. /\ a.sidecar => HasContainer(pod', Sidecar)
      /\ a.proxy => HasContainer(pod', Proxy)
      /\ a.sidecar \/ a.proxy => pod'.injected
      /\ HasContainer(pod, Sidecar) => HasContainer(pod', Sidecar)
      /\ pod'.injected \in BOOLEAN
  BY <1>1, Injected DEF IsPod
<1>3. /\ DOMAIN asked' = {n \in {Sidecar, Proxy} : HasContainer(pod', n)}
      /\ \A n \in DOMAIN asked' : asked'[n] = IF n \in DOMAIN asked THEN asked[n] ELSE a
  BY DEF Asked
<1>4. Remembered'
  BY <1>2, <1>3 DEF Remembered
<1>5. \A name, env : Entry(pod'.containers, name, env) => HasContainer(pod', name)
  BY DEF Entry, HasContainer
<1>6. \A name, env : Entry(pod.containers, name, env) => HasContainer(pod, name)
  BY DEF Entry, HasContainer
<1>7. DOMAIN asked = {n \in {Sidecar, Proxy} : HasContainer(pod, n)}
  BY DEF SInv, Remembered
<1>8. Sidecar # Proxy
  BY DEF Sidecar, Proxy
<1>9. ASSUME NEW env, Entry(pod'.containers, Sidecar, env)
      PROVE  SidecarFits(asked'[Sidecar], env)
  <2>1. \/ Entry(pod.containers, Sidecar, env)
        \/ ~HasContainer(pod, Sidecar) /\ env = SidecarContainer(pod, a).env
    BY <1>1, <1>8, <1>9, InjectedEntry
  <2>2. asked'[Sidecar] = IF HasContainer(pod, Sidecar) THEN asked[Sidecar] ELSE a
    BY <1>3, <1>5, <1>7, <1>9
  <2>3. CASE Entry(pod.containers, Sidecar, env)
    BY <1>6, <2>2, <2>3 DEF SInv, Fitting
  <2>4. CASE ~HasContainer(pod, Sidecar) /\ env = SidecarContainer(pod, a).env
    BY <2>2, <2>4, SidecarEnvFits
  <2> QED
    BY <2>1, <2>3, <2>4
<1>10. ASSUME NEW env, Entry(pod'.containers, Proxy, env)
       PROVE  ProxyFits(asked'[Proxy], env)
  <2>1. \/ Entry(pod.containers, Proxy, env)
        \/ ~HasContainer(pod, Proxy) /\ env = ProxyContainer(a).env
    BY <1>1, <1>8, <1>10, InjectedEntry
  <2>2. asked'[Proxy] = IF HasContainer(pod, Proxy) THEN asked[Proxy] ELSE a
    BY <1>3, <1>5, <1>7, <1>10
  <2>3. CASE Entry(pod.containers, Proxy, env)
    BY <1>6, <2>2, <2>3 DEF SInv, Fitting
  <2>4. CASE ~HasContainer(pod, Proxy) /\ env = ProxyContainer(a).env
    BY <2>2, <2>4, ProxyEnvFits
  <2> QED
    BY <2>1, <2>3, <2>4
<1>11. Proxy \in DOMAIN asked' /\ asked'[Proxy].sidecar => HasContainer(pod', Sidecar)
  BY <1>2, <1>3 DEF SInv, Fitting
<1> QED
  BY <1>4, <1>9, <1>10, <1>11 DEF Fitting

LEMMA SInductive == SInv /\ [Next]_vars => SInv'
<1> SUFFICES ASSUME SInv, [Next]_vars PROVE SInv'
  OBVIOUS
<1>1. IInv'
  BY Inductive DEF SInv
<1>2. CASE Admit
  <2>1. stage' = "admitted" /\ running = {} /\ UNCHANGED <<gate, running, copies>>
    BY <1>2 DEF Admit, SInv, Running
  <2>2. Remembered' /\ Fitting'
    <3>1. CASE UNCHANGED <<pod, asked>>
      BY <3>1 DEF SInv, Remembered, Fitting
    <3>2. CASE (pod.ann.sidecar \/ pod.ann.proxy)
               /\ pod' = InjectPod(pod, pod.ann) /\ asked' = Asked(pod', pod.ann)
      BY <1>2, <3>2, AdmitFits
    <3> QED
      BY <1>2, <3>1, <3>2 DEF Admit
  <2> QED
    BY <1>1, <2>1, <2>2 DEF SInv, Running
<1>3. CASE Start
  <2>1. stage' = "running" /\ running' = Accepting /\ UNCHANGED <<pod, gate, asked, copies>>
    BY <1>3 DEF Start, Accepting
  <2> QED
    BY <1>1, <2>1 DEF SInv, Remembered, Fitting, Running, Accepting
<1>4. CASE Resubmit
  <2>1. /\ stage' = "created" /\ running' = {} /\ gate' \in Gates /\ asked' = asked
        /\ copies' = copies + 1 /\ copies < MaxCopies
    BY <1>4 DEF Resubmit
  <2>2. pod'.containers = pod.containers /\ pod'.injected = pod.injected
    BY <1>4 DEF Resubmit, SInv, IInv, IsPod
  <2>3. \A name : HasContainer(pod', name) <=> HasContainer(pod, name)
    BY <2>2 DEF HasContainer
  <2>4. copies' \in 0..MaxCopies
    BY <2>1, InjectionAssumption DEF InjectionAssumption, SInv
  <2> QED
    BY <1>1, <2>1, <2>2, <2>3, <2>4 DEF SInv, Remembered, Fitting, Running
<1>5. CASE UNCHANGED vars
  BY <1>1, <1>5 DEF SInv, vars, Remembered, Fitting, Running, Accepting
<1> QED
  BY <1>2, <1>3, <1>4, <1>5 DEF Next

\* Every injected container fits the annotations of the admission that made it.
THEOREM StartInvariant == Spec => []SInv
BY InitSInv, SInductive, PTL DEF Spec

-----------------------------------------------------------------------------
(* What follows. *)

LEMMA RunningIsAsked == ASSUME SInv PROVE running \subseteq DOMAIN asked
<1> SUFFICES ASSUME NEW n \in running PROVE n \in DOMAIN asked
  OBVIOUS
<1>1. PICK i \in DOMAIN pod.containers :
         Accepts(pod.containers[i]) /\ n = pod.containers[i].name
  BY DEF SInv, Running, Accepting
<1>2. n \in {Sidecar, Proxy} /\ HasContainer(pod, n)
  BY <1>1 DEF Accepts, HasContainer
<1> QED
  BY <1>2 DEF SInv, Remembered

\* The state is well formed: the label says whether anything was injected, and only injected
\* containers are counted as running.
THEOREM TypeCorrect == Spec => []TypeOK
<1>1. SInv => TypeOK
  BY RunningIsAsked DEF SInv, IInv, IsAnnotation, Remembered, TypeOK
<1> QED
  BY <1>1, StartInvariant, PTL

\* An injected container that fits and is accepted runs.
LEMMA AcceptedRuns ==
    ASSUME SInv, stage = "running", NEW name \in DOMAIN asked,
           \A env : Entry(pod.containers, name, env) =>
              \/ name = Sidecar /\ SidecarAccepts(env)
              \/ name = Proxy /\ ProxyAccepts(env)
    PROVE  name \in running
<1>1. PICK i \in DOMAIN pod.containers : pod.containers[i].name = name
  BY DEF SInv, Remembered, HasContainer
<1>2. Accepts(pod.containers[i])
  BY <1>1 DEF Entry, Accepts
<1> QED
  BY <1>1, <1>2 DEF SInv, Running, Accepting

\* loadConfig of the sidecar accepts whatever addSidecar makes up, for a pod without a
\* name too.
THEOREM InjectedSidecarStarts == Spec => []SidecarStarts
<1>1. SInv => SidecarStarts
  <2> SUFFICES ASSUME SInv, stage = "running", Sidecar \in DOMAIN asked,
                      asked[Sidecar].url = Unset \/ HttpUrl(asked[Sidecar].url),
                      asked[Sidecar].path = Unset \/ Absolute(asked[Sidecar].path)
               PROVE  Sidecar \in running
    BY DEF SidecarStarts
  <2>1. \A env : Entry(pod.containers, Sidecar, env) => SidecarAccepts(env)
    BY DEF SInv, Fitting, SidecarFits
  <2> QED
    BY <2>1, AcceptedRuns
<1> QED
  BY <1>1, StartInvariant, PTL

\* loadConfig of the proxy accepts whatever addProxy makes of sound annotations.
THEOREM InjectedProxyStarts == Spec => []ProxyStarts
<1>1. SInv => ProxyStarts
  <2> SUFFICES ASSUME SInv, stage = "running", Proxy \in DOMAIN asked, Sound(asked[Proxy]),
                      Mode(asked[Proxy]) = <<"full">> => asked[Proxy].port \in Digits
               PROVE  Proxy \in running
    BY DEF ProxyStarts
  <2>1. \A env : Entry(pod.containers, Proxy, env) => ProxyAccepts(env)
    BY DEF SInv, Fitting, ProxyFits
  <2> QED
    BY <2>1, AcceptedRuns
<1> QED
  BY <1>1, StartInvariant, PTL

\* A proxy mints via localhost only when told to, or next to a sidecar: the one it was made
\* with stays, and the URL of a group is another.
THEOREM LocalMintIsServed == Spec => []LocalMintHasSidecar
<1>1. SInv => LocalMintHasSidecar
  <2> SUFFICES ASSUME SInv, NEW i \in DOMAIN pod.containers, pod.containers[i].name = Proxy,
                      pod.containers[i].env.MINT_URL = <<"http", "8091", "localhost">>,
                      asked[Proxy].mint = Unset
               PROVE  HasContainer(pod, Sidecar)
    BY DEF LocalMintHasSidecar
  <2> DEFINE a == asked[Proxy]
  <2>1. ResolveMintURL(a) = <<"http", "8091", "localhost">>
    BY DEF SInv, Fitting, ProxyFits, Entry
  <2>2. a.group = Unset /\ a.sidecar
    <3>1. Len(<<"http", "8091", "localhost">>) = 3 /\ Len(Unset) = 0
          /\ Len(<<"http", "8091", a.group[1], "-sidecar-service">>) = 4
      BY DEF Unset
    <3> HIDE DEF a
    <3> QED
      BY <2>1, <3>1 DEF ResolveMintURL, a
  <2>3. Proxy \in DOMAIN asked
    BY DEF SInv, Remembered, HasContainer
  <2> QED
    BY <2>2, <2>3 DEF SInv, Fitting
<1> QED
  BY <1>1, StartInvariant, PTL

-----------------------------------------------------------------------------
(* Who can write the media volume: every container but the sidecar, as long as no annotation *)
(* names a claim and the workload's own volumes and mounts of that name are writable.        *)

IsOwn(a) == a.volume \in {Unset, <<"empty">>}

CanWrite(c) == c.name = Sidecar \/ \A m \in c.mounts : m.volume = MediaVolume => ~m.readOnly

AllWrite(s) == \A i \in DOMAIN s : CanWrite(s[i])

VolumeWrites(volumes) == \A v \in volumes : v.name = MediaVolume => ~v.readOnly

NoClaims ==
    /\ \A a \in Annotations : IsOwn(a)
    /\ \A w \in Workloads : VolumeWrites(w.volumes) /\ AllWrite(w.containers)

PodWrites(p) == AllWrite(p.containers) /\ VolumeWrites(p.volumes)

WritesInv == IInv /\ PodWrites(pod) /\ IsOwn(pod.ann)

LEMMA AllWriteAppended ==
    ASSUME NEW s, IsList(s), AllWrite(s), NEW c, CanWrite(c)
    PROVE  AllWrite(Append(s, c)) /\ AllWrite(s \o <<c>>)
<1>1. PICK S : s \in Seq(S) /\ \A d \in S : IsContainer(d)
  BY DEF IsList
<1>2. /\ DOMAIN s = 1..Len(s) /\ DOMAIN Append(s, c) = 1..(Len(s) + 1)
      /\ Append(s, c)[Len(s) + 1] = c
      /\ \A i \in 1..Len(s) : Append(s, c)[i] = s[i]
      /\ Len(s) \in Nat /\ s \o <<c>> = Append(s, c)
  <2> DEFINE R == S \cup {c}
  <2>1. s \in Seq(R) /\ c \in R
    BY <1>1
  <2> HIDE DEF R
  <2> QED
    BY <2>1
<1>3. \A i \in 1..(Len(s) + 1) : i \in 1..Len(s) \/ i = Len(s) + 1
  BY <1>2
<1>4. \A i \in DOMAIN Append(s, c) : CanWrite(Append(s, c)[i])
  BY <1>2, <1>3 DEF AllWrite
<1> QED
  BY <1>2, <1>4 DEF AllWrite

\* A mount that is added is writable.
LEMMA AllWriteMounted ==
    ASSUME NEW s, IsList(s), AllWrite(s), NEW path
    PROVE  AllWrite(EachMounting(s, path))
<1>1. PICK S : s \in Seq(S) /\ \A d \in S : IsContainer(d)
  BY DEF IsList
<1> SUFFICES ASSUME NEW i \in DOMAIN s PROVE CanWrite(Mounting(s[i], path))
  BY DEF EachMounting, AllWrite
<1> DEFINE c == s[i]
           mount == [volume |-> MediaVolume, path |-> path, readOnly |-> FALSE]
           added == c.mounts \cup {mount}
<1>2. IsContainer(c) /\ CanWrite(c)
  BY <1>1 DEF AllWrite
<1>3. mount.readOnly = FALSE
  OBVIOUS
<1> HIDE DEF c, mount
<1>4. Mounting(c, path) = c \/ Mounting(c, path) = [c EXCEPT !.mounts = added]
  BY DEF Mounting, mount
<1>5. [c EXCEPT !.mounts = added].name = c.name /\ [c EXCEPT !.mounts = added].mounts = added
  <2> HIDE DEF added
  <2> QED
    BY <1>2 DEF IsContainer
<1>6. c.name # Sidecar => \A m \in added : m.volume = MediaVolume => ~m.readOnly
  BY <1>2, <1>3 DEF CanWrite
<1> HIDE DEF added
<1>7. CanWrite([c EXCEPT !.mounts = added])
  BY <1>5, <1>6 DEF CanWrite
<1> QED
  BY <1>2, <1>4, <1>7 DEF c

LEMMA SidecarWrites ==
    ASSUME NEW p, IsPod(p), PodWrites(p), NEW a, IsOwn(a)
    PROVE  PodWrites(AddSidecar(p, a))
<1> DEFINE c == SidecarContainer(p, a)
           list == EachMounting(p.containers \o <<c>>, Path(a))
           inits == EachMounting(p.inits, Path(a))
           volumes == WithMediaVolume(p.volumes, a)
<1>1. CASE ~a.sidecar \/ HasContainer(p, Sidecar)
  BY <1>1 DEF AddSidecar
<1>2. CASE a.sidecar /\ ~HasContainer(p, Sidecar)
  <2>1. IsList(p.containers) /\ IsContainer(c) /\ CanWrite(c)
    BY DEF IsPod, SidecarContainer, IsContainer, CanWrite
  <2>2. AddSidecar(p, a) = PodWith(p, list, inits, volumes)
    BY <1>2 DEF AddSidecar, PodWith
  <2>3. VolumeWrites(volumes)
    <3>1. (a.volume \notin {Unset, <<"empty">>}) = FALSE
      BY DEF IsOwn
    <3> DEFINE claim == IF a.volume = <<"empty">> THEN Unset ELSE a.volume
               added == [name |-> MediaVolume, claim |-> claim, readOnly |-> FALSE]
    <3>2. volumes = p.volumes \/ volumes = p.volumes \cup {added}
      BY <3>1 DEF WithMediaVolume
    <3>3. added.readOnly = FALSE
      OBVIOUS
    <3> HIDE DEF added, volumes
    <3> QED
      BY <3>2, <3>3 DEF PodWrites, VolumeWrites
  <2> HIDE DEF c
  <2>4. IsList(p.containers \o <<c>>) /\ AllWrite(p.containers \o <<c>>)
    BY <2>1, ListAppended, AllWriteAppended DEF PodWrites
  <2>5. IsList(list) /\ AllWrite(list)
    BY <2>4, ListMounted, AllWriteMounted
  <2> HIDE DEF list, inits, volumes
  <2>6. /\ PodWith(p, list, inits, volumes).containers = list
        /\ PodWith(p, list, inits, volumes).volumes = volumes
    BY <2>5, PodChanged
  <2> QED
    BY <2>2, <2>3, <2>5, <2>6 DEF PodWrites
<1> QED
  BY <1>1, <1>2

LEMMA ProxyWrites ==
    ASSUME NEW p, IsPod(p), PodWrites(p), NEW a
    PROVE  PodWrites(AddProxy(p, a))
<1> DEFINE c == ProxyContainer(a)
           list == Append(p.containers, c)
<1>1. CASE ~a.proxy \/ HasContainer(p, Proxy)
  BY <1>1 DEF AddProxy
<1>2. CASE a.proxy /\ ~HasContainer(p, Proxy)
  <2>1. AddProxy(p, a) = [p EXCEPT !.containers = list]
    BY <1>2 DEF AddProxy
  <2>2. IsList(p.containers) /\ CanWrite(c)
    BY DEF IsPod, ProxyContainer, CanWrite
  <2> HIDE DEF c
  <2>3. AllWrite(list)
    BY <2>2, AllWriteAppended DEF PodWrites
  <2> HIDE DEF list
  <2>4. [p EXCEPT !.containers = list].containers = list
        /\ [p EXCEPT !.containers = list].volumes = p.volumes
    BY DEF IsPod
  <2> QED
    BY <2>1, <2>3, <2>4 DEF PodWrites
<1> QED
  BY <1>1, <1>2

LEMMA InjectedWrites ==
    ASSUME NEW p, IsPod(p), PodWrites(p), NEW a, IsOwn(a)
    PROVE  PodWrites(InjectPod(p, a))
<1> DEFINE s == AddSidecar(p, a)
           r == AddProxy(s, a)
<1>1. IsPod(s) /\ PodWrites(s)
  BY SidecarAdded, SidecarWrites
<1> HIDE DEF s
<1>2. IsPod(r) /\ PodWrites(r)
  BY <1>1, ProxyAdded, ProxyWrites
<1>3. InjectPod(p, a) = [r EXCEPT !.injected = @ \/ a.sidecar \/ a.proxy]
  BY DEF InjectPod, s
<1> HIDE DEF r
<1>4. InjectPod(p, a).containers = r.containers /\ InjectPod(p, a).volumes = r.volumes
  BY <1>2, <1>3 DEF IsPod
<1> QED
  BY <1>2, <1>4 DEF PodWrites

LEMMA WritesInit == NoClaims /\ Init => WritesInv
<1> SUFFICES ASSUME NoClaims, Init PROVE WritesInv
  OBVIOUS
<1>1. PICK w \in Workloads, a \in Annotations :
        pod = [target |-> w.target, containers |-> w.containers, inits |-> w.inits,
               volumes |-> w.volumes, ann |-> a, injected |-> FALSE]
  BY DEF Init
<1>2. pod.containers = w.containers /\ pod.volumes = w.volumes /\ pod.ann = a
  BY <1>1
<1> QED
  BY <1>2, InitIInv DEF WritesInv, PodWrites, NoClaims

LEMMA WritesStep == WritesInv /\ [Next]_vars => WritesInv'
<1> SUFFICES ASSUME WritesInv, [Next]_vars PROVE WritesInv'
  OBVIOUS
<1>1. IInv'
  BY Inductive DEF WritesInv
<1>2. CASE Admit
  <2>1. CASE pod' = InjectPod(pod, pod.ann)
    <3>1. IsPod(pod) /\ pod.ann.sidecar \in BOOLEAN /\ pod.ann.proxy \in BOOLEAN
      BY DEF WritesInv, IInv, IsAnnotation
    <3>2. pod'.ann = pod.ann /\ PodWrites(pod')
      BY <2>1, <3>1, Injected, InjectedWrites DEF WritesInv
    <3> QED
      BY <1>1, <3>2 DEF WritesInv
  <2>2. CASE pod' = pod
    BY <1>1, <2>2 DEF WritesInv
  <2> QED
    BY <1>2, <2>1, <2>2 DEF Admit
<1>3. CASE Resubmit
  <2>1. PICK s, p \in BOOLEAN :
          pod' = [pod EXCEPT !.ann = [@ EXCEPT !.sidecar = s, !.proxy = p]]
    BY <1>3 DEF Resubmit
  <2> DEFINE b == [pod.ann EXCEPT !.sidecar = s, !.proxy = p]
  <2>2. b.volume = pod.ann.volume
    BY DEF WritesInv, IInv, IsAnnotation
  <2> HIDE DEF b
  <2>3. pod' = [pod EXCEPT !.ann = b]
    BY <2>1 DEF b
  <2>4. pod'.containers = pod.containers /\ pod'.volumes = pod.volumes /\ pod'.ann = b
    BY <2>3 DEF WritesInv, IInv, IsPod
  <2> QED
    BY <1>1, <2>2, <2>4 DEF WritesInv, PodWrites, IsOwn
<1>4. CASE Start \/ UNCHANGED vars
  BY <1>1, <1>4 DEF Start, vars, WritesInv
<1> QED
  BY <1>2, <1>3, <1>4 DEF Next

\* The workload can write the media volume it was given, on however many submissions, unless
\* an annotation names a claim or the workload itself declares the volume or its mounts
\* read-only: naming a claim is the only way to what run injection_writes shows.
THEOREM WorkloadCanWrite == NoClaims => (Spec => []WorkloadWrites)
<1> SUFFICES ASSUME NoClaims PROVE Spec => []WorkloadWrites
  OBVIOUS
<1>1. Init => WritesInv
  BY WritesInit
<1>2. WritesInv => WorkloadWrites
  BY DEF WritesInv, PodWrites, AllWrite, CanWrite, VolumeWrites, WorkloadWrites, Writable
<1> QED
  BY <1>1, <1>2, WritesStep, PTL DEF Spec

=============================================================================
