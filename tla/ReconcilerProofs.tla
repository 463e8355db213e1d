-------------------------- MODULE ReconcilerProofs --------------------------
(* Theorems about Reconciler, for any names, charts, templates and numbers of edits and *)
(* faults. *)
EXTENDS Reconciler, TLAPS

USE DEF ProxyPort, ServePort, MintPort

LEMMA KindsAre ==
    /\ Workloads = {"Deployment", "StatefulSet"} /\ Owned = {"Service", "Ingress"}
    /\ Kinds = {"Deployment", "StatefulSet", "Service", "Ingress"}
BY DEF Kinds, Workloads, Owned

\* Sequences of anything.
LEMMA SequenceFacts ==
    ASSUME NEW S, NEW s \in Seq(S)
    PROVE  /\ \A e \in S : Append(s, e) \in Seq(S)
           /\ <<>> \in Seq(S)
           /\ s # <<>> => s[1] \in S /\ 1 \in DOMAIN s
           /\ DOMAIN s = 1..Len(s) /\ Len(s) \in Nat
           /\ \A i \in 1..Len(s) : s[i] \in S
OBVIOUS

LEMMA FromFunction ==
    ASSUME NEW S, NEW n \in Nat, NEW s \in [1..n -> S]
    PROVE  s \in Seq(S)
OBVIOUS

\* Names stay names.
LEMMA Labels ==
    /\ \A label \in Seq(Texts) : Media(label) \in Seq(Texts)
    /\ NoHost \in Hosts /\ "" \in Texts /\ "tailscale" \in Texts
<1>1. "-media" \in Texts /\ "" \in Texts /\ "tailscale" \in Texts
  BY ReconcilerAssumption DEF ReconcilerAssumption
<1>2. \A label \in Seq(Texts) : Append(label, "-media") \in Seq(Texts)
  BY <1>1, SequenceFacts
<1>3. <<>> \in Seq(Texts)
  OBVIOUS
<1> QED
  BY <1>1, <1>2, <1>3 DEF Media, NoHost, Hosts

\* What is in a cluster is an object of its kind.
LEMMA InCluster ==
    ASSUME NEW st, IsCluster(st), NEW kind \in Kinds, NEW name \in Names
    PROVE  st[kind][name] \in Objects(kind) \cup {Gone}
BY DEF IsCluster

\* A cluster stays one when an object of its kind is put where it may be, or removed.
LEMMA PutInCluster ==
    ASSUME NEW st, IsCluster(st), NEW kind \in Kinds, NEW name \in Names, NEW obj,
           obj = Gone \/ (obj \in Objects(kind) /\ name \in Places(kind))
    PROVE  IsCluster([st EXCEPT ![kind] = [@ EXCEPT ![name] = obj]])
<1> DEFINE Any == Deployments \cup Services \cup Ingresses \cup {Gone}
           new == [st EXCEPT ![kind] = [@ EXCEPT ![name] = obj]]
<1>1. st \in [Kinds -> [Names -> Any]]
  BY DEF IsCluster
<1>2. obj \in Any
  BY DEF Objects
<1>3. new \in [Kinds -> [Names -> Any]]
  <2> HIDE DEF Any
  <2> QED
    BY <1>1, <1>2
<1>4. ASSUME NEW k \in Kinds, NEW n \in Names
      PROVE  new[k][n] = IF k = kind /\ n = name THEN obj ELSE st[k][n]
  <2> HIDE DEF Any
  <2> QED
    BY <1>1
<1> HIDE DEF new
<1>5. \A k \in Kinds, n \in Names :
         new[k][n] # Gone => new[k][n] \in Objects(k) /\ n \in Places(k)
  BY <1>4 DEF IsCluster
<1>6. IsCluster(new)
  BY <1>3, <1>5 DEF IsCluster
<1> QED
  BY <1>6 DEF new

LEMMA PutTyped ==
    ASSUME TypeOK, NEW kind \in Kinds, NEW name \in Names, NEW obj,
           obj = Gone \/ (obj \in Objects(kind) /\ name \in Places(kind))
    PROVE  IsCluster(Put(kind, name, obj))
BY PutInCluster DEF Put, TypeOK

\* A workload's media objects have a name.
LEMMA MediaIsName == \A name \in Hosting : Media(name) \in Names /\ name \in Names
BY DEF Hosting

LEMMA OwnerIsRef == ASSUME NEW j \in Jobs PROVE Owner(j) \in Refs /\ Owner(j) # NoOwner
BY DEF Jobs, Owner, Refs, NoOwner

LEMMA MediaServiceTyped ==
    ASSUME NEW j \in Jobs, NEW old \in Services \cup {Gone}
    PROVE  MediaService(j, old) \in Services
<1>1. j.tpl.labels \in Texts /\ j.tpl.ann.group \in Texts
  BY DEF Jobs, PodTemplates, Annotations
<1>2. Or(j.tpl.ann.group, "", IF old = Gone THEN "" ELSE old.group) \in Texts
  BY <1>1, Labels DEF Or, Services
<1> DEFINE Port == [port : Nat, target : Nat]
           serve == [port |-> ServePort, target |-> ServePort]
           minting == [port |-> MintPort, target |-> MintPort]
<1>3. <<serve, minting>> \in Seq(Port)
  <2>1. serve \in Port /\ minting \in Port
    OBVIOUS
  <2> HIDE DEF Port, serve, minting
  <2> QED
    BY <2>1
<1> DEFINE list == <<serve, minting>>
           group == Or(j.tpl.ann.group, "", IF old = Gone THEN "" ELSE old.group)
<1>4. MediaService(j, old) = [ctl |-> Owner(j), selector |-> j.tpl.labels,
                              ports |-> list, group |-> group]
  BY DEF MediaService
<1>5. list \in Seq([port : Nat, target : Nat])
  BY ONLY <1>3
<1>6. group \in Texts
  BY <1>2
<1> HIDE DEF list, group
<1> QED
  BY <1>1, <1>4, <1>5, <1>6, OwnerIsRef DEF Services

\* A host that InheritedHost makes is a host.
LEMMA InheritedHostTyped ==
    ASSUME NEW host \in Hosts, NEW name \in Names
    PROVE  InheritedHost(host, name) \in Hosts
<1>1. Names \subseteq Seq(Texts)
  BY ReconcilerAssumption DEF ReconcilerAssumption
<1>3. [label |-> Media(name), domain |-> ""] \in Hosts
  BY <1>1, Labels DEF Hosts
<1>4. [host EXCEPT !.label = Media(@)] \in Hosts
  BY Labels DEF Hosts
<1> QED
  BY <1>3, <1>4 DEF InheritedHost

\* The host of a media Ingress, whatever its source is.
LEMMA HostTyped ==
    ASSUME NEW j \in Jobs, NEW src \in Ingresses \cup {Gone}
    PROVE  Host(j, src) \in Hosts
<1>1. j.name \in Names /\ j.tpl.ann.host \in Hosts
  BY MediaIsName DEF Jobs, PodTemplates, Annotations
<1>2. NoHost \in Hosts
  BY Labels
<1>3. src # Gone /\ src.rules # <<>> => src.rules[1].host \in Hosts
  <2> SUFFICES ASSUME src # Gone, src.rules # <<>> PROVE src.rules[1].host \in Hosts
    OBVIOUS
  <2> DEFINE R == [host : Hosts, backend : Names \cup {Resource}]
  <2>1. src.rules \in Seq(R)
    BY DEF Ingresses
  <2>2. src.rules[1] \in R
    <3> HIDE DEF R
    <3> QED
      BY <2>1, SequenceFacts
  <2> QED
    BY <2>2
<1>4. [label |-> Media(j.name), domain |-> ""] \in Hosts
  BY <1>1, <1>2, InheritedHostTyped DEF InheritedHost
<1> QED
  BY <1>1, <1>2, <1>3, <1>4, InheritedHostTyped DEF Host, Or

LEMMA MediaIngressTyped ==
    ASSUME NEW j \in Jobs, NEW src \in Ingresses \cup {Gone}, NEW old \in Ingresses \cup {Gone}
    PROVE  /\ MediaIngress(j, src, old) \in Ingresses
           /\ MediaIngress(j, src, old).rules[1].host = Host(j, src)
<1> DEFINE a == j.tpl.ann
           class == Class(a, src)
           host == Host(j, src)
           secret == Secret(a, src)
           issuer == Or(Issuer(a, src), "", IF old = Gone THEN "" ELSE old.issuer)
           rule == [host |-> host, backend |-> Media(j.name)]
           tls == IF secret # "" \/ class = "tailscale"
                  THEN [host |-> host, secret |-> secret] ELSE NoTls
<1>1. a \in Annotations
  BY DEF Jobs, PodTemplates
<1>2. class \in Texts /\ issuer \in Texts
  <2>1. src # Gone => src.class \in Texts /\ src.issuer \in Texts
    BY DEF Ingresses
  <2>2. old # Gone => old.issuer \in Texts
    BY DEF Ingresses
  <2>3. a.class \in Texts /\ a.issuer \in Texts
    BY <1>1 DEF Annotations
  <2> HIDE DEF a
  <2>4. class \in Texts
    BY <2>1, <2>3, Labels DEF Class, Or
  <2>5. issuer \in Texts
    BY <2>1, <2>2, <2>3, Labels DEF Issuer, Or
  <2> QED
    BY <2>4, <2>5
<1>3. secret \in Texts
  BY <1>1, Labels DEF Annotations, Secret, SecretOf, Or, Ingresses
<1>4. host \in Hosts
  BY HostTyped
<1>5. rule \in [host : Hosts, backend : Names \cup {Resource}]
  BY <1>4, MediaIsName DEF Jobs
<1>6. tls \in [host : Hosts, secret : Texts] \cup {NoTls}
  BY <1>3, <1>4
<1>7. MediaIngress(j, src, old) =
        [ctl |-> Owner(j), class |-> class, rules |-> <<rule>>, tls |-> tls, issuer |-> issuer]
  BY DEF MediaIngress
<1> HIDE DEF class, host, secret, issuer, tls
<1>8. <<rule>> \in Seq([host : Hosts, backend : Names \cup {Resource}]) /\ <<rule>>[1].host = host
  BY <1>5
<1> HIDE DEF rule
<1> QED
  BY <1>2, <1>6, <1>7, <1>8, OwnerIsRef DEF Ingresses, host

\* A source is an Ingress of the cluster that is searched, or there is none.
LEMMA SourceTyped ==
    ASSUME NEW j, NEW seen, IsCluster(seen), NEW src \in Sources(j, seen)
    PROVE  src \in Ingresses \cup {Gone}
<1>1. \A name \in Names : seen["Ingress"][name] \in Ingresses \cup {Gone}
  BY InCluster, KindsAre DEF Objects
<1> QED
  BY <1>1 DEF Sources, SourceNames

LEMMA RetargetedTyped ==
    ASSUME NEW ports \in Seq([port : Nat, target : Nat]), NEW up
    PROVE  Retargeted(ports, up) \in Seq([port : Nat, target : Nat])
<1> DEFINE Port == [port : Nat, target : Nat]
           f(i) == [ports[i] EXCEPT !.target = IF ports[i].port = up THEN ProxyPort ELSE @]
<1>1. DOMAIN ports = 1..Len(ports) /\ Len(ports) \in Nat
  BY SequenceFacts
<1>2. \A i \in 1..Len(ports) : ports[i] \in Port
  BY SequenceFacts
<1>3. \A i \in 1..Len(ports) : f(i) \in Port
  BY <1>2
<1>4. Retargeted(ports, up) = [i \in 1..Len(ports) |-> f(i)]
  BY <1>1 DEF Retargeted
<1> HIDE DEF Port, f
<1> QED
  <2>1. [i \in 1..Len(ports) |-> f(i)] \in [1..Len(ports) -> Port]
    BY <1>3
  <2>2. [i \in 1..Len(ports) |-> f(i)] \in Seq(Port)
    BY <2>1, <1>1, FromFunction
  <2> QED
    BY <2>2, <1>4 DEF Port

\* The job a workload of the cache gives the worker.
LEMMA JobTyped ==
    ASSUME NEW seen, IsCluster(seen), NEW name \in Existing(seen)
    PROVE  JobOf(seen, name) \in Jobs
<1> DEFINE kind == KindOf(seen, name)
           w == seen[kind][name]
<1>1. name \in Names /\ kind \in Workloads /\ w # Gone
  BY DEF Existing, KindOf, Workloads
<1>2. w \in Deployments /\ name \in Hosting
  BY <1>1, KindsAre DEF IsCluster, Objects, Places
<1> HIDE DEF kind
<1>3. w.tpl \in PodTemplates /\ w.uid \in Nat
  BY <1>2 DEF Deployments
<1> HIDE DEF w
<1> DEFINE at == IF w.tpl.ann.sidecar THEN "service" ELSE "port"
<1>5. at \in {"service", "ingress", "url", "port"}
  OBVIOUS
<1>4. JobOf(seen, name) =
        [at |-> at,
         kind |-> kind, name |-> name, uid |-> w.uid, tpl |-> w.tpl, host |-> NoHost]
  BY DEF JobOf, kind, w
<1>6. kind \in Workloads /\ name \in Hosting /\ NoHost \in Hosts
  BY <1>1, <1>2, Labels
<1> HIDE DEF at
<1> QED
  BY ONLY <1>3, <1>4, <1>5, <1>6 DEF Jobs

\* A job goes on as a job.
LEMMA JobGoesOn ==
    ASSUME NEW j \in Jobs
    PROVE  /\ [j EXCEPT !.at = "ingress"] \in Jobs
           /\ [j EXCEPT !.at = "port"] \in Jobs
           /\ \A h \in Hosts : [j EXCEPT !.at = "url", !.host = h] \in Jobs
BY DEF Jobs

-----------------------------------------------------------------------------
(* The types are inductive. *)

LEMMA StoresAreClusters == \A st \in Stores : IsCluster(st)
<1>1. ASSUME NEW st \in Stores PROVE IsCluster(st)
  BY ReconcilerAssumption DEF ReconcilerAssumption
<1> QED
  BY <1>1

LEMMA Bounds == MaxEdits \in Nat /\ MaxFaults \in Nat
BY ReconcilerAssumption DEF ReconcilerAssumption

LEMMA InitTyped == Init => TypeOK
<1> SUFFICES ASSUME Init PROVE TypeOK
  OBVIOUS
<1>1. IsCluster(store) /\ cache = store
  BY StoresAreClusters DEF Init
<1>2. queue \subseteq Names
  BY DEF Init, Existing
<1>3. edits \in 0..MaxEdits /\ faults \in 0..MaxFaults
  BY Bounds DEF Init
<1> QED
  BY <1>1, <1>2, <1>3 DEF Init, TypeOK

\* What a step leaves of the types when it touches only the store and the worker.
LEMMA StoreAndWorker ==
    ASSUME TypeOK, UNCHANGED <<cache, edits, faults>>, IsCluster(store'),
           job' \in Jobs \cup {Idle}, queue' \subseteq Names
    PROVE  TypeOK'
BY DEF TypeOK, IsCluster

\* An error leaves the types alone.
LEMMA RetryTyped ==
    ASSUME TypeOK, job \in Jobs, Retry
    PROVE  job' \in Jobs \cup {Idle} /\ queue' \subseteq Names
BY MediaIsName DEF TypeOK, Retry, Jobs

\* The worker has a job while it is somewhere.
LEMMA AtJob ==
    ASSUME TypeOK, job # Idle
    PROVE  job \in Jobs /\ job.name \in Hosting /\ job.name \in Names /\ Media(job.name) \in Names
BY MediaIsName DEF TypeOK, Jobs

LEMMA AtNotIdle == "service" # Idle.at /\ "ingress" # Idle.at /\ "url" # Idle.at /\ "port" # Idle.at
BY DEF Idle

LEMMA TakeTyped == ASSUME TypeOK, NEW name \in Names, Take(name) PROVE TypeOK'
<1>1. queue' \subseteq Names /\ UNCHANGED <<store, cache, edits, faults>>
  BY DEF Take, TypeOK
<1>2. job' \in Jobs \cup {Idle}
  BY JobTyped DEF Take, TypeOK
<1> QED
  BY <1>1, <1>2, StoreAndWorker DEF TypeOK

LEMMA ServiceTyped == ASSUME TypeOK, EnsureMediaService PROVE TypeOK'
<1> DEFINE name == Media(job.name)
           old == cache["Service"][name]
           new == MediaService(job, old)
           next == [job EXCEPT !.at = "ingress"]
<1>1. job \in Jobs /\ name \in Names
  BY AtJob, AtNotIdle DEF EnsureMediaService
<1>2. old \in Services \cup {Gone}
  BY <1>1, InCluster, KindsAre DEF TypeOK, Objects
<1>3. new \in Services /\ next \in Jobs
  BY <1>1, <1>2, MediaServiceTyped, JobGoesOn
<1>4. "Service" \in Kinds /\ new \in Objects("Service") /\ name \in Places("Service")
  BY <1>1, <1>3, KindsAre DEF Objects, Places
<1>5. IsCluster(Put("Service", name, new))
  BY <1>1, <1>4, PutTyped
<1>6. UNCHANGED <<cache, edits, faults>>
  BY DEF EnsureMediaService
<1>7. \/ Retry /\ UNCHANGED store
      \/ store' = Put("Service", name, new) /\ GoOn(next)
  BY DEF EnsureMediaService, Write
<1> HIDE DEF name, old, new, next
<1>8. IsCluster(store')
  BY <1>5, <1>7 DEF TypeOK
<1>9. job' \in Jobs \cup {Idle} /\ queue' \subseteq Names
  BY <1>1, <1>3, <1>7, RetryTyped DEF GoOn, TypeOK
<1> QED
  BY <1>6, <1>8, <1>9, StoreAndWorker

LEMMA ShapeTyped ==
    ASSUME TypeOK, job \in Jobs, NEW src \in Ingresses \cup {Gone}, ShapeIngress(src)
    PROVE  IsCluster(store') /\ job' \in Jobs \cup {Idle} /\ queue' \subseteq Names
<1> DEFINE name == Media(job.name)
           old == cache["Ingress"][name]
           new == MediaIngress(job, src, old)
           next == [job EXCEPT !.at = "url", !.host = new.rules[1].host]
<1>1. name \in Names
  BY MediaIsName DEF Jobs
<1>2. old \in Ingresses \cup {Gone}
  BY <1>1, InCluster, KindsAre DEF TypeOK, Objects
<1>3. new \in Ingresses /\ new.rules[1].host \in Hosts
  BY <1>2, MediaIngressTyped, HostTyped
<1>4. next \in Jobs
  BY <1>3, JobGoesOn
<1>5. "Ingress" \in Kinds /\ new \in Objects("Ingress") /\ name \in Places("Ingress")
  BY <1>1, <1>3, KindsAre DEF Objects, Places
<1>6. IsCluster(Put("Ingress", name, new))
  BY <1>1, <1>5, PutTyped
<1>7. \/ Retry /\ UNCHANGED store
      \/ GoOn(next) /\ UNCHANGED store
      \/ store' = Put("Ingress", name, new) /\ GoOn(next)
  BY DEF ShapeIngress, Write
<1> HIDE DEF name, old, new, next
<1>8. IsCluster(store')
  BY <1>6, <1>7 DEF TypeOK
<1>9. job' \in Jobs \cup {Idle} /\ queue' \subseteq Names
  BY <1>4, <1>7, RetryTyped DEF GoOn, TypeOK
<1> QED
  BY <1>8, <1>9

LEMMA IngressTyped == ASSUME TypeOK, EnsureMediaIngress \/ ListFails PROVE TypeOK'
<1>1. job \in Jobs
  BY AtJob, AtNotIdle DEF EnsureMediaIngress, ListFails
<1>2. CASE EnsureMediaIngress
  <2>1. IsCluster(store') /\ job' \in Jobs \cup {Idle} /\ queue' \subseteq Names
    <3>1. CASE \E src \in Sources(job, cache) : ShapeIngress(src)
      BY <1>1, <3>1, ShapeTyped, SourceTyped DEF TypeOK
    <3>2. CASE Retry /\ UNCHANGED store
      BY <1>1, <3>2, RetryTyped DEF TypeOK
    <3> QED
      BY <1>2, <3>1, <3>2 DEF EnsureMediaIngress
  <2> QED
    BY <1>2, <2>1, StoreAndWorker DEF EnsureMediaIngress
<1>3. CASE ListFails
  <2>1. IsCluster(store') /\ job' \in Jobs \cup {Idle} /\ queue' \subseteq Names
    BY <1>1, <1>3, ShapeTyped DEF ListFails
  <2>2. cache' = cache /\ edits' = edits /\ faults' \in 0..MaxFaults
    BY <1>3, Bounds DEF ListFails, TypeOK
  <2> QED
    BY <2>1, <2>2 DEF TypeOK, IsCluster
<1> QED
  BY <1>2, <1>3

\* A template with another public URL and another port is a template.
LEMMA PatchedTyped ==
    ASSUME NEW dep \in Deployments, NEW env \in Seq(Hosts), NEW port \in Nat
    PROVE  [dep EXCEPT !.tpl = [@ EXCEPT !.env = env, !.port = port]] \in Deployments
<1> DEFINE tpl == [dep.tpl EXCEPT !.env = env, !.port = port]
<1>1. dep.tpl \in PodTemplates
  BY DEF Deployments
<1>2. tpl \in PodTemplates
  BY <1>1 DEF PodTemplates
<1>3. [dep EXCEPT !.tpl = tpl] \in Deployments
  BY <1>2 DEF Deployments
<1> QED
  BY <1>3

LEMMA UrlTyped == ASSUME TypeOK, EnsurePublicUrl PROVE TypeOK'
<1> DEFINE dep == cache["Deployment"][job.name]
           stored == store["Deployment"][job.name]
           env == <<job.host>>
           new == [stored EXCEPT !.tpl = [@ EXCEPT !.env = env, !.port = dep.tpl.port]]
<1>1. job \in Jobs /\ job.name \in Names /\ job.host \in Hosts
  BY AtJob, AtNotIdle DEF EnsurePublicUrl, Jobs
<1>2. job' \in Jobs \cup {Idle} /\ queue' \subseteq Names /\ UNCHANGED <<cache, edits, faults>>
  BY <1>1, JobGoesOn DEF EnsurePublicUrl, GoOn, Done, TypeOK
<1>3. CASE UNCHANGED store
  BY <1>2, <1>3, StoreAndWorker DEF TypeOK
<1>4. CASE /\ dep # Gone /\ stored # Gone
           /\ store' = Put("Deployment", job.name, new)
  <2>1. "Deployment" \in Kinds /\ Objects("Deployment") = Deployments
    BY KindsAre DEF Objects
  <2>2. dep \in Deployments /\ stored \in Deployments
    BY <1>1, <1>4, <2>1, InCluster DEF TypeOK
  <2>3. dep.tpl.port \in Nat
    BY <2>2 DEF Deployments, PodTemplates
  <2>4. env \in Seq(Hosts)
    BY <1>1
  <2>5. new \in Deployments
    BY <2>2, <2>3, <2>4, PatchedTyped
  <2>6. job.name \in Places("Deployment")
    BY <1>1, <1>4, <2>1 DEF TypeOK, IsCluster
  <2> HIDE DEF new
  <2>7. IsCluster(Put("Deployment", job.name, new))
    BY <1>1, <2>1, <2>5, <2>6, PutTyped
  <2> QED
    BY <1>2, <1>4, <2>7, StoreAndWorker
<1>5. \/ UNCHANGED store
      \/ /\ dep # Gone /\ stored # Gone
         /\ store' = Put("Deployment", job.name, new)
  BY DEF EnsurePublicUrl
<1> HIDE DEF dep, stored, new
<1> QED
  BY <1>3, <1>4, <1>5

LEMMA PatchTyped == ASSUME TypeOK, PatchUpstreamService PROVE TypeOK'
<1> DEFINE up == Upstream(job.tpl)
           svc == cache["Service"][job.name]
           stored == store["Service"][job.name]
           new == [stored EXCEPT !.ports = Retargeted(svc.ports, up)]
<1>1. job \in Jobs /\ job.name \in Names
  BY AtJob, AtNotIdle DEF PatchUpstreamService
<1>2. UNCHANGED <<cache, edits, faults>> /\ (Done \/ Retry)
  BY DEF PatchUpstreamService
<1>3. job' \in Jobs \cup {Idle} /\ queue' \subseteq Names
  BY <1>1, <1>2, RetryTyped DEF Done, TypeOK
<1>4. \/ UNCHANGED store
      \/ /\ svc # Gone /\ stored # Gone
         /\ store' = Put("Service", job.name, new)
  BY DEF PatchUpstreamService
<1>5. CASE UNCHANGED store
  BY <1>2, <1>3, <1>5, StoreAndWorker DEF TypeOK
<1>6. CASE /\ svc # Gone /\ stored # Gone
           /\ store' = Put("Service", job.name, new)
  <2>1. "Service" \in Kinds /\ Objects("Service") = Services /\ Places("Service") = Names
    BY KindsAre DEF Objects, Places
  <2>2. svc \in Services /\ stored \in Services
    BY <1>1, <1>6, <2>1, InCluster DEF TypeOK
  <2>3. Retargeted(svc.ports, up) \in Seq([port : Nat, target : Nat])
    BY <2>2, RetargetedTyped DEF Services
  <2>4. new \in Services
    <3> DEFINE ports == Retargeted(svc.ports, up)
    <3>1. ports \in Seq([port : Nat, target : Nat])
      BY <2>3
    <3> HIDE DEF ports, stored
    <3>2. [stored EXCEPT !.ports = ports] \in Services
      BY <2>2, <3>1 DEF Services
    <3> QED
      BY <3>2 DEF ports
  <2> HIDE DEF new
  <2>5. IsCluster(Put("Service", job.name, new))
    BY <1>1, <2>1, <2>4, PutTyped
  <2> QED
    BY <1>2, <1>3, <1>6, <2>5, StoreAndWorker
<1> QED
  BY <1>4, <1>5, <1>6

LEMMA SyncTyped == ASSUME TypeOK, NEW kind \in Kinds, Sync(kind) PROVE TypeOK'
<1>1. IsCluster(cache')
  <2> DEFINE Any == Deployments \cup Services \cup Ingresses \cup {Gone}
  <2>1. cache \in [Kinds -> [Names -> Any]] /\ store \in [Kinds -> [Names -> Any]]
    BY DEF TypeOK, IsCluster
  <2>2. cache' = [cache EXCEPT ![kind] = store[kind]]
    BY DEF Sync
  <2> HIDE DEF Any
  <2>3. cache' \in [Kinds -> [Names -> Any]]
    BY <2>1, <2>2
  <2>4. \A k \in Kinds : cache'[k] = IF k = kind THEN store[k] ELSE cache[k]
    BY <2>1, <2>2
  <2>5. \A k \in Kinds, name \in Names :
           cache'[k][name] # Gone => cache'[k][name] \in Objects(k) /\ name \in Places(k)
    BY <2>4 DEF TypeOK, IsCluster
  <2> QED
    BY <2>3, <2>5 DEF IsCluster, Any
<1>2. queue' \subseteq Names /\ UNCHANGED <<store, job, edits, faults>>
  BY DEF Sync, TypeOK
<1> QED
  BY <1>1, <1>2 DEF TypeOK, IsCluster

LEMMA ResyncTyped == ASSUME TypeOK, Resync PROVE TypeOK'
<1>1. queue' \subseteq Names /\ UNCHANGED <<store, cache, job, edits, faults>>
  BY DEF Resync, TypeOK, Existing
<1> QED
  BY <1>1 DEF TypeOK, IsCluster

\* What charts apply.
LEMMA ChartTyped ==
    ASSUME NEW kind \in Kinds, NEW change \in Charts[kind]
    PROVE  /\ change[1] \in Places(kind)
           /\ kind \in Workloads => change[2] \in PodTemplates
           /\ kind \notin Workloads => change[2] \in Objects(kind) /\ change[2].ctl = NoOwner
<1>1. /\ change[1] \in Places(kind)
      /\ IF kind \in Workloads THEN change[2] \in Templates
         ELSE change[2] \in Objects(kind) /\ Unowned(kind, change[2])
  BY ReconcilerAssumption DEF ReconcilerAssumption
<1>2. Templates \subseteq PodTemplates
  BY ReconcilerAssumption DEF ReconcilerAssumption
<1> QED
  BY <1>1, <1>2, KindsAre DEF Unowned

LEMMA AppliedTyped ==
    ASSUME TypeOK, edits < MaxEdits, NEW kind \in Kinds, NEW change \in Charts[kind],
           NEW old \in Objects(kind) \cup {Gone}
    PROVE  /\ Applied(kind, old, change[2]) \in Objects(kind)
           /\ kind \notin Workloads =>
                 Applied(kind, old, change[2]).ctl = IF old = Gone THEN NoOwner ELSE old.ctl
<1>1. CASE kind \in Workloads
  <2>1. (IF old = Gone THEN edits + 1 ELSE old.uid) \in Nat
    BY <1>1, Bounds DEF TypeOK, Objects, Deployments
  <2> DEFINE uid == IF old = Gone THEN edits + 1 ELSE old.uid
  <2>2. Applied(kind, old, change[2]) = [uid |-> uid, tpl |-> change[2]]
    BY <1>1 DEF Applied
  <2> HIDE DEF uid
  <2> QED
    BY <1>1, <2>1, <2>2, ChartTyped DEF Objects, Deployments, uid
<1>2. CASE kind \notin Workloads
  <2> DEFINE ctl == IF old = Gone THEN NoOwner ELSE old.ctl
             new == change[2]
  <2>1. old # Gone => old.ctl \in Refs
    BY <1>2, KindsAre DEF Objects, Services, Ingresses
  <2>2. ctl \in Refs
    BY <2>1 DEF Refs
  <2>3. Applied(kind, old, change[2]) = [new EXCEPT !.ctl = ctl]
    BY <1>2 DEF Applied
  <2>4. new \in Objects(kind)
    BY <1>2, ChartTyped
  <2> HIDE DEF ctl, new
  <2>5. [new EXCEPT !.ctl = ctl] \in Objects(kind) /\ [new EXCEPT !.ctl = ctl].ctl = ctl
    <3>1. CASE kind = "Service"
      BY <1>2, <2>2, <2>4, <3>1 DEF Objects, Services
    <3>2. CASE kind = "Ingress"
      BY <1>2, <2>2, <2>4, <3>2 DEF Objects, Ingresses
    <3> QED
      BY <1>2, <3>1, <3>2, KindsAre
  <2> QED
    BY <1>2, <2>3, <2>5 DEF ctl
<1> QED
  BY <1>1, <1>2

LEMMA EditTyped == ASSUME TypeOK, Edit PROVE TypeOK'
<1>1. edits < MaxEdits /\ edits' \in 0..MaxEdits /\ UNCHANGED <<cache, queue, job, faults>>
  BY Bounds DEF Edit, TypeOK
<1>2. ASSUME NEW kind \in Kinds, NEW change \in Charts[kind], Apply(kind, change[1], change[2])
      PROVE  IsCluster(store')
  <2>1. change[1] \in Names /\ change[1] \in Places(kind)
    BY ChartTyped DEF Places, Hosting
  <2>2. store[kind][change[1]] \in Objects(kind) \cup {Gone}
    BY <2>1, InCluster DEF TypeOK
  <2>3. Applied(kind, store[kind][change[1]], change[2]) \in Objects(kind)
    BY <1>1, <2>2, AppliedTyped
  <2> QED
    BY <1>2, <2>1, <2>3, PutTyped DEF Apply
<1>3. ASSUME NEW kind \in Kinds, NEW name \in Names, Delete(kind, name) PROVE IsCluster(store')
  BY <1>3, PutTyped DEF Delete
<1>4. IsCluster(store')
  BY <1>2, <1>3 DEF Edit
<1> QED
  BY <1>1, <1>4 DEF TypeOK, IsCluster

LEMMA CollectTyped ==
    ASSUME TypeOK, NEW kind \in Owned, NEW name \in Names, Collect(kind, name) PROVE TypeOK'
<1>1. IsCluster(store')
  BY PutTyped, KindsAre DEF Collect
<1> QED
  BY <1>1 DEF Collect, TypeOK, IsCluster

LEMMA FaultTyped == ASSUME TypeOK, CallFails \/ Restart PROVE TypeOK'
<1>1. faults' \in 0..MaxFaults /\ UNCHANGED <<store, edits>> /\ IsCluster(cache')
  BY Bounds DEF CallFails, Restart, TypeOK, IsCluster
<1>2. job' \in Jobs \cup {Idle} /\ queue' \subseteq Names
  BY RetryTyped, AtJob DEF CallFails, Restart, TypeOK, Existing
<1> QED
  BY <1>1, <1>2 DEF TypeOK, IsCluster

LEMMA StepTyped == TypeOK /\ [Next]_vars => TypeOK'
<1> SUFFICES ASSUME TypeOK, [Next]_vars PROVE TypeOK'
  OBVIOUS
<1>1. CASE \E name \in Names : Take(name)
  BY <1>1, TakeTyped
<1>2. CASE Reconcile
  BY <1>2, ServiceTyped, IngressTyped, UrlTyped, PatchTyped DEF Reconcile
<1>3. CASE \E kind \in Kinds : Sync(kind)
  BY <1>3, SyncTyped
<1>4. CASE Resync
  BY <1>4, ResyncTyped
<1>5. CASE World
  BY <1>5, EditTyped, CollectTyped DEF World
<1>6. CASE CallFails \/ Restart
  BY <1>6, FaultTyped
<1>7. CASE ListFails
  BY <1>7, IngressTyped
<1>8. CASE UNCHANGED vars
  BY <1>8 DEF vars, TypeOK, IsCluster
<1> QED
  BY <1>1, <1>2, <1>3, <1>4, <1>5, <1>6, <1>7, <1>8 DEF Next

\* The types hold, whatever charts do and whatever fails: jobs, Services, Ingresses and
\* owners are well formed, and workloads' objects sit where they may.
THEOREM TypeCorrect == Spec => []TypeOK
BY InitTyped, StepTyped, PTL DEF Spec

-----------------------------------------------------------------------------
(* Nothing is taken from its owner. *)

\* What may come after old at the place of an object.
Kept(old, new) ==
    old # Gone /\ old.ctl # NoOwner /\ new # Gone => SameOwner(old.ctl, new.ctl)

NothingStolen ==
    \A kind \in Owned, name \in Names : Kept(store[kind][name], store'[kind][name])

LEMMA SameIsSame == \A a : SameOwner(a, a)
BY DEF SameOwner

LEMMA UnchangedKept == ASSUME TypeOK, UNCHANGED store PROVE NothingStolen
BY SameIsSame DEF NothingStolen, Kept

LEMMA PutKept ==
    ASSUME TypeOK, NEW kind \in Kinds, NEW name \in Names, NEW obj,
           kind \in Owned => Kept(store[kind][name], obj), store' = Put(kind, name, obj)
    PROVE  NothingStolen
<1> DEFINE Any == Deployments \cup Services \cup Ingresses \cup {Gone}
<1>1. store \in [Kinds -> [Names -> Any]]
  BY DEF TypeOK, IsCluster
<1> HIDE DEF Any
<1>2. \A k \in Kinds, n \in Names :
         store'[k][n] = IF k = kind /\ n = name THEN obj ELSE store[k][n]
  BY <1>1 DEF Put
<1>3. \A k \in Owned : k \in Kinds
  BY KindsAre
<1> QED
  BY <1>2, <1>3, SameIsSame DEF NothingStolen, Kept

\* An object that j may own, and one that it owns.
LEMMA OwnKept ==
    ASSUME NEW j, NEW old, MayOwn(j, old), NEW new, new.ctl = Owner(j) PROVE Kept(old, new)
BY DEF MayOwn, Kept

LEMMA ServiceKept == ASSUME TypeOK, EnsureMediaService PROVE NothingStolen
<1> DEFINE name == Media(job.name)
           old == cache["Service"][name]
           new == MediaService(job, old)
<1>1. name \in Names /\ "Service" \in Kinds
  BY AtJob, AtNotIdle, KindsAre DEF EnsureMediaService
<1>2. \/ UNCHANGED store
      \/ /\ MayOwn(job, old) /\ store["Service"][name] = old
         /\ store' = Put("Service", name, new)
  BY DEF EnsureMediaService, Write
<1>3. new.ctl = Owner(job)
  BY DEF MediaService
<1> HIDE DEF name, old, new
<1> QED
  BY <1>1, <1>2, <1>3, UnchangedKept, OwnKept, PutKept

LEMMA ShapeKept == ASSUME TypeOK, job \in Jobs, NEW src, ShapeIngress(src) PROVE NothingStolen
<1> DEFINE name == Media(job.name)
           old == cache["Ingress"][name]
           new == MediaIngress(job, src, old)
<1>1. name \in Names /\ "Ingress" \in Kinds
  BY MediaIsName, KindsAre DEF Jobs
<1>2. \/ UNCHANGED store
      \/ /\ MayOwn(job, old) /\ store["Ingress"][name] = old
         /\ store' = Put("Ingress", name, new)
  BY DEF ShapeIngress, Write
<1>3. new.ctl = Owner(job)
  BY DEF MediaIngress
<1> HIDE DEF name, old, new
<1> QED
  BY <1>1, <1>2, <1>3, UnchangedKept, OwnKept, PutKept

LEMMA IngressKept == ASSUME TypeOK, EnsureMediaIngress \/ ListFails PROVE NothingStolen
<1>1. job \in Jobs
  BY AtJob, AtNotIdle DEF EnsureMediaIngress, ListFails
<1>2. UNCHANGED store \/ \E src : ShapeIngress(src)
  BY DEF EnsureMediaIngress, ListFails
<1> QED
  BY <1>1, <1>2, UnchangedKept, ShapeKept

LEMMA UrlKept == ASSUME TypeOK, EnsurePublicUrl PROVE NothingStolen
<1>1. job.name \in Names /\ "Deployment" \in Kinds /\ "Deployment" \notin Owned
  BY AtJob, AtNotIdle, KindsAre DEF EnsurePublicUrl
<1>2. UNCHANGED store \/ \E obj : store' = Put("Deployment", job.name, obj)
  BY DEF EnsurePublicUrl
<1> QED
  BY <1>1, <1>2, UnchangedKept, PutKept

LEMMA PatchKept == ASSUME TypeOK, PatchUpstreamService PROVE NothingStolen
<1> DEFINE stored == store["Service"][job.name]
<1>1. job.name \in Names /\ "Service" \in Kinds /\ Objects("Service") = Services
  BY AtJob, AtNotIdle, KindsAre DEF PatchUpstreamService, Objects
<1>2. UNCHANGED store
      \/ \E ports : /\ stored # Gone
                    /\ store' = Put("Service", job.name, [stored EXCEPT !.ports = ports])
  BY DEF PatchUpstreamService
<1>3. stored # Gone => \A ports : [stored EXCEPT !.ports = ports].ctl = stored.ctl
  BY <1>1, InCluster DEF TypeOK, Services
<1> HIDE DEF stored
<1>4. stored # Gone => \A ports : Kept(stored, [stored EXCEPT !.ports = ports])
  BY <1>3, SameIsSame DEF Kept
<1> QED
  BY <1>1, <1>2, <1>4, UnchangedKept, PutKept DEF stored

LEMMA EditKept == ASSUME TypeOK, Edit PROVE NothingStolen
<1>1. ASSUME NEW kind \in Kinds, NEW change \in Charts[kind], Apply(kind, change[1], change[2])
      PROVE  NothingStolen
  <2> DEFINE name == change[1]
             old == store[kind][name]
             new == Applied(kind, old, change[2])
  <2>1. name \in Names
    BY ChartTyped DEF Places, Hosting
  <2>2. old \in Objects(kind) \cup {Gone}
    BY <2>1, InCluster DEF TypeOK
  <2>3. kind \in Owned => new.ctl = IF old = Gone THEN NoOwner ELSE old.ctl
    BY <2>2, AppliedTyped, KindsAre DEF Edit
  <2>4. store' = Put(kind, name, new)
    BY <1>1 DEF Apply
  <2> HIDE DEF new
  <2>5. kind \in Owned => Kept(old, new)
    BY <2>3, SameIsSame DEF Kept
  <2> QED
    BY <2>1, <2>4, <2>5, PutKept
<1>2. ASSUME NEW kind \in Kinds, NEW name \in Names, Delete(kind, name) PROVE NothingStolen
  BY <1>2, PutKept DEF Delete, Kept
<1> QED
  BY <1>1, <1>2 DEF Edit

LEMMA CollectKept ==
    ASSUME TypeOK, NEW kind \in Owned, NEW name \in Names, Collect(kind, name)
    PROVE  NothingStolen
BY PutKept, KindsAre DEF Collect, Kept

LEMMA StepKept == TypeOK /\ [Next]_vars => NothingStolen
<1> SUFFICES ASSUME TypeOK, [Next]_vars PROVE NothingStolen
  OBVIOUS
<1>1. CASE UNCHANGED store
  BY <1>1, UnchangedKept
<1>2. CASE Reconcile
  BY <1>2, ServiceKept, IngressKept, UrlKept, PatchKept DEF Reconcile
<1>3. CASE World
  BY <1>3, EditKept, CollectKept DEF World
<1>4. CASE ListFails
  BY <1>4, IngressKept
<1> QED
  BY <1>1, <1>2, <1>3, <1>4
     DEF Next, Take, Sync, Resync, CallFails, Restart, vars

\* Nothing the controller, charts or the garbage collector do hands a media object of one
\* owner straight to another, however stale the cache the ownership is checked on.
THEOREM NothingIsStolen == Spec => NeverStolen
<1>1. TypeOK /\ [Next]_vars =>
        [\A kind \in Owned, name \in Names :
            LET old == store[kind][name]
                new == store'[kind][name]
            IN  old # Gone /\ old.ctl # NoOwner /\ new # Gone => SameOwner(old.ctl, new.ctl)]_vars
  BY StepKept DEF NothingStolen, Kept
<1> QED
  BY <1>1, TypeCorrect, PTL DEF Spec, NeverStolen

-----------------------------------------------------------------------------
(* A step that goes on has left its object as it should be. *)

LEMMA ServiceAgain ==
    ASSUME NEW j \in Jobs, NEW old \in Services \cup {Gone}
    PROVE  MediaService(j, MediaService(j, old)) = MediaService(j, old)
<1> DEFINE made == MediaService(j, old)
           ports == << [port |-> ServePort, target |-> ServePort],
                       [port |-> MintPort, target |-> MintPort] >>
           group(o) == Or(j.tpl.ann.group, "", IF o = Gone THEN "" ELSE o.group)
<1>1. \A o : MediaService(j, o) = [ctl |-> Owner(j), selector |-> j.tpl.labels,
                                  ports |-> ports, group |-> group(o)]
  BY DEF MediaService
<1> HIDE DEF ports, group
<1>2. made.group = group(old) /\ made # Gone
  BY <1>1 DEF Gone
<1> USE DEF group
<1> HIDE DEF made
<1>3. group(made) = group(old)
  BY <1>2 DEF Or
<1> HIDE DEF group
<1> QED
  BY <1>1, <1>3 DEF made

LEMMA IngressAgain ==
    ASSUME NEW j \in Jobs, NEW src, NEW old
    PROVE  MediaIngress(j, src, MediaIngress(j, src, old)) = MediaIngress(j, src, old)
<1> DEFINE made == MediaIngress(j, src, old)
           issuer == Or(Issuer(j.tpl.ann, src), "", IF old = Gone THEN "" ELSE old.issuer)
<1>1. made.issuer = issuer /\ made # Gone
  BY DEF MediaIngress, Gone
<1> HIDE DEF made
<1>2. Or(Issuer(j.tpl.ann, src), "", IF made = Gone THEN "" ELSE made.issuer) = issuer
  BY <1>1 DEF Or
<1> QED
  BY <1>2 DEF MediaIngress, made

LEMMA RetargetedAgain ==
    ASSUME NEW ports \in Seq([port : Nat, target : Nat]), NEW up
    PROVE  Retargeted(Retargeted(ports, up), up) = Retargeted(ports, up)
<1> DEFINE once == Retargeted(ports, up)
           f(p) == [p EXCEPT !.target = IF p.port = up THEN ProxyPort ELSE @]
<1>1. ASSUME NEW p \in [port : Nat, target : Nat] PROVE f(f(p)) = f(p)
  <2> DEFINE target == IF p.port = up THEN ProxyPort ELSE p.target
  <2>1. \A q \in [port : Nat, target : Nat] :
           f(q) = [port |-> q.port, target |-> IF q.port = up THEN ProxyPort ELSE q.target]
    OBVIOUS
  <2>2. f(p) = [port |-> p.port, target |-> target]
    BY <2>1
  <2>3. f(p) \in [port : Nat, target : Nat] /\ f(p).port = p.port /\ f(p).target = target
    BY <2>2
  <2> HIDE DEF f
  <2>4. f(f(p)) = [port |-> p.port, target |-> IF p.port = up THEN ProxyPort ELSE target]
    BY <2>1, <2>3
  <2> QED
    BY <2>2, <2>4
<1>2. \A i \in DOMAIN ports : ports[i] \in [port : Nat, target : Nat]
  BY SequenceFacts
<1>3. once = [i \in DOMAIN ports |-> f(ports[i])]
  BY DEF Retargeted
<1>4. Retargeted(once, up) = [i \in DOMAIN once |-> f(once[i])]
  BY DEF Retargeted
<1> HIDE DEF once, f
<1>5. DOMAIN once = DOMAIN ports /\ \A i \in DOMAIN ports : once[i] = f(ports[i])
  BY <1>3
<1>6. \A i \in DOMAIN ports : f(once[i]) = f(ports[i])
  BY <1>1, <1>2, <1>5
<1>7. Retargeted(once, up) = once
  BY <1>3, <1>4, <1>5, <1>6
<1> QED
  BY <1>7 DEF once

\* What StepsDone says of one step.
StepDone ==
    /\ job.at = "service" /\ job'.at = "ingress" => ServiceMade(job, store')
    /\ job.at = "ingress" /\ job'.at = "url" /\ Reliable("Ingress") =>
          IngressMade(job, Sources(job, cache) \cup {Gone}, store')
    /\ /\ job.at = "port" /\ job' = Idle /\ Reliable("Service")
       /\ job.name \in Existing(store) \ queue'
       => PortsMade(job, store')

\* What is put is there, and the rest is left.
LEMMA PutLeaves ==
    ASSUME TypeOK, NEW kind \in Kinds, NEW name \in Names, NEW obj, store' = Put(kind, name, obj)
    PROVE  \A k \in Kinds, n \in Names :
              store'[k][n] = IF k = kind /\ n = name THEN obj ELSE store[k][n]
<1> DEFINE Any == Deployments \cup Services \cup Ingresses \cup {Gone}
<1>1. store \in [Kinds -> [Names -> Any]]
  BY DEF TypeOK, IsCluster
<1> HIDE DEF Any
<1> QED
  BY <1>1 DEF Put

LEMMA ServiceDone == ASSUME TypeOK, EnsureMediaService PROVE StepDone
<1> DEFINE name == Media(job.name)
           old == cache["Service"][name]
           new == MediaService(job, old)
<1>1. job \in Jobs /\ name \in Names /\ "Service" \in Kinds
  BY AtJob, AtNotIdle, KindsAre DEF EnsureMediaService
<1>2. old \in Services \cup {Gone}
  BY <1>1, InCluster, KindsAre DEF TypeOK, Objects
<1>3. job.at = "service"
  BY DEF EnsureMediaService
<1>4. job' = Idle \/ store' = Put("Service", name, new)
  BY DEF EnsureMediaService, Write, Retry
<1>5. MediaService(job, new) = new
  BY <1>1, <1>2, ServiceAgain
<1> HIDE DEF old, new
<1>6. CASE job' = Idle
  BY <1>3, <1>6, AtNotIdle DEF StepDone
<1>7. CASE store' = Put("Service", name, new)
  <2>1. store'["Service"][name] = new
    BY <1>1, <1>7, PutLeaves
  <2> QED
    BY <1>3, <1>5, <2>1 DEF StepDone, ServiceMade
<1> QED
  BY <1>4, <1>6, <1>7

LEMMA ShapeDone ==
    ASSUME TypeOK, job \in Jobs, job.at = "ingress",
           NEW src \in Sources(job, cache) \cup {Gone}, ShapeIngress(src)
    PROVE  StepDone
<1> DEFINE name == Media(job.name)
           old == cache["Ingress"][name]
           new == MediaIngress(job, src, old)
<1>1. name \in Names /\ "Ingress" \in Kinds
  BY MediaIsName, KindsAre DEF Jobs
<1>2. \/ job' = Idle
      \/ new = old /\ UNCHANGED store
      \/ store' = Put("Ingress", name, new)
  BY DEF ShapeIngress, Write, Retry
<1>3. MediaIngress(job, src, new) = new
  BY IngressAgain
<1> HIDE DEF new
<1>4. CASE job' = Idle
  BY <1>4, AtNotIdle DEF StepDone
<1>5. ASSUME Reliable("Ingress"), new = old, UNCHANGED store PROVE store'["Ingress"][name] = new
  BY <1>5 DEF Reliable
<1>6. ASSUME store' = Put("Ingress", name, new) PROVE store'["Ingress"][name] = new
  BY <1>1, <1>6, PutLeaves
<1>7. ASSUME store'["Ingress"][name] = new
      PROVE  IngressMade(job, Sources(job, cache) \cup {Gone}, store')
  BY <1>3, <1>7 DEF IngressMade
<1> HIDE DEF name, old
<1> QED
  BY <1>2, <1>4, <1>5, <1>6, <1>7 DEF StepDone

LEMMA IngressDone == ASSUME TypeOK, EnsureMediaIngress \/ ListFails PROVE StepDone
<1>1. job \in Jobs /\ job.at = "ingress"
  BY AtJob, AtNotIdle DEF EnsureMediaIngress, ListFails
<1>2. job' = Idle \/ \E src \in Sources(job, cache) \cup {Gone} : ShapeIngress(src)
  BY DEF EnsureMediaIngress, ListFails, Retry
<1>3. CASE job' = Idle
  BY <1>1, <1>3, AtNotIdle DEF StepDone
<1> QED
  BY <1>1, <1>2, <1>3, ShapeDone

LEMMA PatchDone == ASSUME TypeOK, PatchUpstreamService PROVE StepDone
<1> DEFINE up == Upstream(job.tpl)
           svc == cache["Service"][job.name]
           stored == store["Service"][job.name]
           ports == Retargeted(svc.ports, up)
           new == [stored EXCEPT !.ports = ports]
<1>1. job \in Jobs /\ job.name \in Names /\ job.at = "port"
  BY AtJob, AtNotIdle DEF PatchUpstreamService
<1>2. "Service" \in Kinds /\ svc \in Services \cup {Gone} /\ stored \in Services \cup {Gone}
  BY <1>1, InCluster, KindsAre DEF TypeOK, Objects
<1>3. \/ job.name \in queue'
      \/ svc # Gone /\ ports = svc.ports /\ UNCHANGED store
      \/ svc # Gone /\ stored # Gone /\ store' = Put("Service", job.name, new)
  BY DEF PatchUpstreamService, Retry
<1>4. CASE job.name \in queue'
  BY <1>1, <1>4 DEF StepDone
<1>5. ASSUME Reliable("Service"), ports = svc.ports, UNCHANGED store PROVE PortsMade(job, store')
  BY <1>5 DEF Reliable, PortsMade
<1>6. ASSUME svc # Gone, stored # Gone, store' = Put("Service", job.name, new)
      PROVE  PortsMade(job, store')
  <2>1. svc.ports \in Seq([port : Nat, target : Nat])
    BY <1>2, <1>6 DEF Services
  <2>2. Retargeted(ports, up) = ports
    BY <2>1, RetargetedAgain
  <2>3. store'["Service"][job.name] = new
    <3> HIDE DEF new
    <3> QED
      BY <1>1, <1>2, <1>6, PutLeaves
  <2> HIDE DEF ports, stored
  <2>4. new.ports = ports
    BY <1>2, <1>6 DEF Services
  <2> QED
    BY <2>2, <2>3, <2>4 DEF PortsMade
<1> HIDE DEF svc, stored, ports, new
<1> QED
  BY <1>1, <1>3, <1>4, <1>5, <1>6 DEF StepDone

LEMMA StepIsDone == TypeOK /\ [Next]_vars => StepDone
<1> SUFFICES ASSUME TypeOK, [Next]_vars PROVE StepDone
  OBVIOUS
<1>1. CASE job = Idle
  BY <1>1, AtNotIdle DEF StepDone
<1>2. CASE job' = job
  BY <1>2, AtNotIdle DEF StepDone
<1>3. CASE Reconcile
  <2>1. CASE EnsurePublicUrl
    BY <2>1 DEF EnsurePublicUrl, StepDone
  <2> QED
    BY <1>3, <2>1, ServiceDone, IngressDone, PatchDone DEF Reconcile
<1>4. CASE CallFails
  BY <1>4, AtNotIdle DEF CallFails, Retry, StepDone
<1>5. CASE ListFails
  BY <1>5, IngressDone
<1>6. CASE Restart
  BY <1>6, AtNotIdle DEF Restart, StepDone
<1> QED
  BY <1>1, <1>2, <1>3, <1>4, <1>5, <1>6
     DEF Next, Take, Sync, Resync, World, Edit, Collect, vars

\* Whatever was cached, whoever writes meanwhile and whichever calls fail: a reconcile goes on
\* only from an object that making it again would leave as it is, unless the cache was stale
\* and showed nothing to do.
THEOREM EveryStepDone == Spec => StepsDone
<1>1. TypeOK /\ [Next]_vars =>
        [/\ job.at = "service" /\ job'.at = "ingress" => ServiceMade(job, store')
         /\ job.at = "ingress" /\ job'.at = "url" /\ Reliable("Ingress") =>
               IngressMade(job, Sources(job, cache) \cup {Gone}, store')
         /\ /\ job.at = "port" /\ job' = Idle /\ Reliable("Service")
            /\ job.name \in Existing(store) \ queue'
            => PortsMade(job, store')]_vars
  BY StepIsDone DEF StepDone
<1> QED
  BY <1>1, TypeCorrect, PTL DEF Spec, StepsDone

-----------------------------------------------------------------------------
(* What is right stays right. *)

\* Two jobs that a reconcile cannot tell apart, but for the public URL.
Alike(j, k) ==
    /\ j.kind = k.kind /\ j.name = k.name /\ j.uid = k.uid
    /\ j.tpl.ann = k.tpl.ann /\ j.tpl.labels = k.tpl.labels /\ j.tpl.port = k.tpl.port

LEMMA AlikeServed ==
    ASSUME NEW j, NEW k, Alike(j, k), NEW st
    PROVE  Served(j, st) = Served(k, st)
<1>1. j.name = k.name /\ Owner(j) = Owner(k) /\ j.tpl.ann = k.tpl.ann
  BY DEF Alike, Owner
<1>2. \A o : MayOwn(j, o) = MayOwn(k, o)
  BY <1>1 DEF MayOwn
<1>3. \A o : MediaService(j, o) = MediaService(k, o)
  BY <1>1 DEF MediaService, Alike
<1>4. \A src : Host(j, src) = Host(k, src)
  BY <1>1 DEF Host
<1>5. \A src, o : MediaIngress(j, src, o) = MediaIngress(k, src, o)
  BY <1>1, <1>4 DEF MediaIngress
<1>6. \A backend : Routes(j, st, backend) = Routes(k, st, backend)
  BY <1>1 DEF Routes, Alike
<1>7. \A name : Ends(j, st, name) = Ends(k, st, name)
  BY <1>1, <1>6 DEF Ends
<1>8. \A name : Panics(j, st, name) = Panics(k, st, name)
  BY <1>7 DEF Panics, FirstEnd
<1>9. MayPanic(j, st) = MayPanic(k, st) /\ Sources(j, st) = Sources(k, st)
  <2>1. MayPanic(j, st) = MayPanic(k, st)
    BY <1>1, <1>8 DEF MayPanic
  <2>2. SourceNames(j, st) = SourceNames(k, st)
    BY <1>7, <1>8 DEF SourceNames
  <2> QED
    BY <1>1, <2>1, <2>2 DEF Sources
<1>10. Stuck(j, st) = Stuck(k, st)
  BY <1>1, <1>2, <1>9 DEF Stuck
<1>11. SidecarRight(j, st) = SidecarRight(k, st)
  BY <1>1, <1>3, <1>5, <1>9 DEF SidecarRight, ServiceMade, IngressMade
<1>12. ProxyRight(j, st) = ProxyRight(k, st)
  BY <1>1 DEF ProxyRight, PortsMade, Upstream, Alike
<1> QED
  BY <1>1, <1>10, <1>11, <1>12 DEF Served

\* Two clusters in which a search for a source of j finds the same: they differ in the
\* media objects of j, and in what of other Services is not their selector.
Similar(j, st, other) ==
    \A name \in Names : name # Media(j.name) =>
        /\ other["Ingress"][name] = st["Ingress"][name]
        /\ other["Service"][name] = Gone <=> st["Service"][name] = Gone
        /\ st["Service"][name] # Gone => other["Service"][name].selector = st["Service"][name].selector

LEMMA SimilarSources ==
    ASSUME NEW j, NEW st, NEW other, IsCluster(st), Similar(j, st, other)
    PROVE  MayPanic(j, st) = MayPanic(j, other) /\ Sources(j, st) = Sources(j, other)
<1>1. ASSUME NEW name \in Names, name # Media(j.name)
      PROVE  other["Ingress"][name] = st["Ingress"][name]
  BY <1>1 DEF Similar
<1>2. ASSUME NEW backend \in Names, backend # Media(j.name)
      PROVE  Routes(j, st, backend) = Routes(j, other, backend)
  BY <1>2 DEF Similar, Routes
<1>3. ASSUME NEW name \in Names
      PROVE  Ends(j, st, name) = Ends(j, other, name)
  <2> DEFINE ing == st["Ingress"][name]
  <2>1. CASE name = Media(j.name) \/ ing = Gone
    BY <1>1, <2>1 DEF Ends
  <2>2. CASE name # Media(j.name) /\ ing # Gone
    <3>1. ing \in Ingresses
      BY <2>2, InCluster, KindsAre DEF Objects
    <3>2. \A r \in DOMAIN ing.rules : ing.rules[r].backend \in Names \cup {Resource}
      <4> DEFINE R == [host : Hosts, backend : Names \cup {Resource}]
                 rules == ing.rules
      <4>1. rules \in Seq(R)
        BY <3>1 DEF Ingresses
      <4>2. \A r \in DOMAIN rules : rules[r] \in R
        <5> HIDE DEF R, rules
        <5> QED
          BY <4>1, SequenceFacts
      <4> QED
        BY <4>2
    <3>3. other["Ingress"][name] = ing
      BY <1>1, <2>2
    <3> HIDE DEF ing
    <3>4. \A r \in DOMAIN ing.rules :
             LET backend == ing.rules[r].backend
             IN  (backend # Media(j.name) /\ (backend = Resource \/ Routes(j, st, backend)))
                 <=> (backend # Media(j.name) /\ (backend = Resource \/ Routes(j, other, backend)))
      BY <1>2, <3>2
    <3> QED
      BY <2>2, <3>3, <3>4 DEF Ends, ing
  <2> QED
    BY <2>1, <2>2
<1>4. ASSUME NEW name \in Names, Ends(j, st, name) # {}
      PROVE  other["Ingress"][name] = st["Ingress"][name]
  BY <1>1, <1>4 DEF Ends
<1>5. ASSUME NEW name \in Names
      PROVE  Panics(j, st, name) = Panics(j, other, name)
  BY <1>3, <1>4 DEF Panics, FirstEnd
<1>6. MayPanic(j, st) = MayPanic(j, other)
  BY <1>5 DEF MayPanic
<1>7. SourceNames(j, st) = SourceNames(j, other)
  BY <1>3, <1>5 DEF SourceNames
<1>8. {st["Ingress"][name] : name \in SourceNames(j, st)}
        = {other["Ingress"][name] : name \in SourceNames(j, other)}
  BY <1>4, <1>7 DEF SourceNames
<1> QED
  BY <1>6, <1>8 DEF Sources

LEMMA MediaIsAnother == \A name \in Names : name # Media(name)
<1>1. Names \subseteq Seq(Texts)
  BY ReconcilerAssumption DEF ReconcilerAssumption
<1>2. ASSUME NEW name \in Seq(Texts), NEW part PROVE Len(Append(name, part)) = Len(name) + 1
  OBVIOUS
<1>3. \A name \in Seq(Texts) : Len(name) # Len(name) + 1
  OBVIOUS
<1>4. \A name \in Seq(Texts) : name # Append(name, "-media")
  BY <1>2, <1>3
<1> QED
  BY <1>1, <1>4 DEF Media

\* Where j's own three objects are the same, and the sources.
LEMMA ServedAlso ==
    ASSUME NEW j, NEW st, NEW other, IsCluster(st), Similar(j, st, other),
           other["Service"][Media(j.name)] = st["Service"][Media(j.name)],
           other["Ingress"][Media(j.name)] = st["Ingress"][Media(j.name)],
           ProxyRight(j, st) => ProxyRight(j, other),
           Served(j, st)
    PROVE  Served(j, other)
<1>1. Stuck(j, st) = Stuck(j, other)
  BY SimilarSources DEF Stuck
<1>2. SidecarRight(j, st) = SidecarRight(j, other)
  BY SimilarSources DEF SidecarRight, ServiceMade, IngressMade
<1> QED
  BY <1>1, <1>2 DEF Served

LEMMA ServiceStaysServed ==
    ASSUME TypeOK, cache = store, EnsureMediaService, Served(job, store)
    PROVE  Served(job, store')
<1> DEFINE name == Media(job.name)
           old == store["Service"][name]
           new == MediaService(job, old)
<1>1. job \in Jobs /\ name \in Names /\ job.name \in Names /\ job.name # name
  BY AtJob, AtNotIdle, MediaIsAnother DEF EnsureMediaService
<1>2. old \in Services \cup {Gone} /\ "Service" \in Kinds /\ "Ingress" \in Kinds
  BY <1>1, InCluster, KindsAre DEF TypeOK, Objects
<1>3. UNCHANGED store \/ (MayOwn(job, old) /\ store' = Put("Service", name, new))
  BY DEF EnsureMediaService, Write
<1>4. CASE UNCHANGED store
  BY <1>4
<1>5. CASE MayOwn(job, old) /\ store' = Put("Service", name, new)
  <2>1. new = MediaService(job, new)
    BY <1>1, <1>2, ServiceAgain
  <2>2. new.ctl = Owner(job)
    BY DEF MediaService
  <2> HIDE DEF new
  <2>3. /\ store'["Service"][name] = new
        /\ \A n \in Names : n # name => store'["Service"][n] = store["Service"][n]
        /\ \A n \in Names : store'["Ingress"][n] = store["Ingress"][n]
    BY <1>1, <1>2, <1>5, PutLeaves
  <2>4. Similar(job, store, store')
    BY <2>3 DEF Similar
  <2>5. MayPanic(job, store) = MayPanic(job, store') /\ Sources(job, store) = Sources(job, store')
    BY <2>4, SimilarSources DEF TypeOK
  <2>6. Stuck(job, store) => Stuck(job, store')
    BY <1>1, <1>5, <2>3, <2>5 DEF Stuck
  <2>7. SidecarRight(job, store) => SidecarRight(job, store')
    BY <1>1, <2>1, <2>3, <2>5 DEF SidecarRight, ServiceMade, IngressMade
  <2>8. ProxyRight(job, store) => ProxyRight(job, store')
    BY <1>1, <2>3 DEF ProxyRight, PortsMade
  <2> QED
    BY <2>6, <2>7, <2>8 DEF Served
<1> QED
  BY <1>3, <1>4, <1>5

LEMMA IngressStaysServed ==
    ASSUME TypeOK, cache = store, EnsureMediaIngress, Served(job, store)
    PROVE  Served(job, store')
<1> DEFINE name == Media(job.name)
           old == store["Ingress"][name]
           new(src) == MediaIngress(job, src, old)
<1>1. job \in Jobs /\ name \in Names /\ job.name \in Names
  BY AtJob, AtNotIdle DEF EnsureMediaIngress
<1>2. "Service" \in Kinds /\ "Ingress" \in Kinds
  BY KindsAre
<1>3. \/ UNCHANGED store
      \/ \E src \in Sources(job, store) : MayOwn(job, old) /\ store' = Put("Ingress", name, new(src))
  BY DEF EnsureMediaIngress, ShapeIngress, Write
<1>4. CASE UNCHANGED store
  BY <1>4
<1>5. ASSUME NEW src \in Sources(job, store), MayOwn(job, old),
             store' = Put("Ingress", name, new(src))
      PROVE  Served(job, store')
  <2> DEFINE made == new(src)
  <2>1. made = MediaIngress(job, src, made)
    BY <1>1, IngressAgain
  <2> HIDE DEF new, made
  <2>2. /\ store'["Ingress"][name] = made
        /\ \A n \in Names : n # name => store'["Ingress"][n] = store["Ingress"][n]
        /\ \A n \in Names : store'["Service"][n] = store["Service"][n]
    BY <1>1, <1>2, <1>5, PutLeaves DEF made
  <2>3. Similar(job, store, store')
    BY <2>2 DEF Similar
  <2>4. MayPanic(job, store) = MayPanic(job, store') /\ Sources(job, store) = Sources(job, store')
    BY <2>3, SimilarSources DEF TypeOK
  <2>5. Stuck(job, store) => Stuck(job, store')
    BY <1>1, <1>5, <2>2, <2>4 DEF Stuck
  <2>6. SidecarRight(job, store) => SidecarRight(job, store')
    BY <1>1, <2>1, <2>2, <2>4 DEF SidecarRight, ServiceMade, IngressMade
  <2>7. ProxyRight(job, store) => ProxyRight(job, store')
    BY <1>1, <2>2 DEF ProxyRight, PortsMade
  <2> QED
    BY <2>5, <2>6, <2>7 DEF Served
<1> QED
  BY <1>3, <1>4, <1>5

LEMMA UrlStaysServed ==
    ASSUME TypeOK, EnsurePublicUrl, Served(job, store)
    PROVE  Served(job, store')
<1>1. job.name \in Names /\ Media(job.name) \in Names
  BY AtJob, AtNotIdle DEF EnsurePublicUrl
<1>2. UNCHANGED store \/ \E obj : store' = Put("Deployment", job.name, obj)
  BY DEF EnsurePublicUrl
<1>3. \A n \in Names : /\ store'["Service"][n] = store["Service"][n]
                       /\ store'["Ingress"][n] = store["Ingress"][n]
  BY <1>1, <1>2, PutLeaves, KindsAre
<1>4. Similar(job, store, store')
  BY <1>3 DEF Similar
<1>5. ProxyRight(job, store) => ProxyRight(job, store')
  BY <1>1, <1>3 DEF ProxyRight, PortsMade
<1> QED
  BY <1>1, <1>3, <1>4, <1>5, ServedAlso DEF TypeOK

LEMMA PatchStaysServed ==
    ASSUME TypeOK, cache = store, PatchUpstreamService, Served(job, store)
    PROVE  Served(job, store')
<1> DEFINE up == Upstream(job.tpl)
           stored == store["Service"][job.name]
           ports == Retargeted(stored.ports, up)
           new == [stored EXCEPT !.ports = ports]
<1>1. job.name \in Names /\ Media(job.name) \in Names /\ job.name # Media(job.name)
  BY AtJob, AtNotIdle, MediaIsAnother DEF PatchUpstreamService
<1>2. "Service" \in Kinds /\ "Ingress" \in Kinds /\ stored \in Services \cup {Gone}
  BY <1>1, InCluster, KindsAre DEF TypeOK, Objects
<1>3. \/ UNCHANGED store
      \/ /\ up \notin {NoPort, NotANumber} /\ stored # Gone /\ ports # stored.ports
         /\ store' = Put("Service", job.name, new)
  BY DEF PatchUpstreamService
<1>4. CASE UNCHANGED store
  BY <1>4
<1>5. CASE /\ up \notin {NoPort, NotANumber} /\ stored # Gone /\ ports # stored.ports
           /\ store' = Put("Service", job.name, new)
  <2>1. ~ProxyRight(job, store)
    BY <1>5 DEF ProxyRight, PortsMade
  <2>2. new.selector = stored.selector /\ new # Gone
    <3> HIDE DEF ports, stored
    <3>1. stored \in Services
      BY <1>2, <1>5
    <3> QED
      BY <3>1 DEF Services, Gone
  <2> HIDE DEF new
  <2>3. \A n \in Names : /\ store'["Service"][n] = IF n = job.name THEN new ELSE store["Service"][n]
                         /\ store'["Ingress"][n] = store["Ingress"][n]
    BY <1>1, <1>2, <1>5, PutLeaves
  <2>4. Similar(job, store, store')
    BY <1>1, <1>5, <2>2, <2>3 DEF Similar
  <2> HIDE DEF stored
  <2> QED
    BY <1>1, <2>1, <2>3, <2>4, ServedAlso DEF TypeOK
<1> QED
  BY <1>3, <1>4, <1>5

\* The job under way is like the one that the workload gives.
LEMMA UpToDateAlike ==
    ASSUME TypeOK, NEW name \in Names, UpToDate(name)
    PROVE  Alike(job, JobOf(store, name))
<1> DEFINE now == JobOf(store, name)
<1>1. now \in Jobs
  BY JobTyped DEF UpToDate, TypeOK
<1>2. job.name = name /\ job.kind = now.kind /\ job.uid = now.uid
      /\ job.tpl = [now.tpl EXCEPT !.env = job.tpl.env]
  BY DEF UpToDate
<1>3. now.name = name
  BY DEF JobOf
<1>4. now.tpl \in PodTemplates
  BY <1>1 DEF Jobs
<1> HIDE DEF now
<1>5. job.tpl.ann = now.tpl.ann /\ job.tpl.labels = now.tpl.labels /\ job.tpl.port = now.tpl.port
  BY <1>2, <1>4 DEF PodTemplates
<1>6. Alike(job, now)
  BY <1>2, <1>3, <1>5 DEF Alike
<1> QED
  BY <1>6 DEF now

\* After a step, the workload is still there, and gives a job that is like the one under way.
LEMMA StaysAlike ==
    ASSUME TypeOK, cache = store, Reconcile, NEW name \in Names, UpToDate(name)
    PROVE  name \in Existing(store') /\ Alike(job, JobOf(store', name))
<1>1. job \in Jobs /\ job.name = name
  BY AtJob DEF UpToDate
<1>2. /\ "Deployment" \in Kinds /\ "StatefulSet" \in Kinds /\ "Service" \in Kinds
      /\ "Ingress" \in Kinds /\ Workloads = {"Deployment", "StatefulSet"}
      /\ \A n \in Names : store["Deployment"][n] \in Deployments \cup {Gone}
  BY KindsAre, InCluster DEF TypeOK, Objects
<1>3. name \in Existing(store) /\ Alike(job, JobOf(store, name))
  BY UpToDateAlike DEF UpToDate
<1>4. ASSUME \A kind \in Workloads : store'[kind][name] = store[kind][name]
      PROVE  name \in Existing(store') /\ Alike(job, JobOf(store', name))
  <2>1. name \in Existing(store') /\ JobOf(store', name) = JobOf(store, name)
    BY <1>2, <1>3, <1>4 DEF Existing, JobOf, KindOf
  <2> QED
    BY <1>3, <2>1
<1>5. CASE ~EnsurePublicUrl
  <2>1. \/ UNCHANGED store
        \/ \E kind \in Owned, n \in Names : \E obj : store' = Put(kind, n, obj)
    <3>1. \/ UNCHANGED store
          \/ \E obj : store' = Put("Service", Media(job.name), obj)
          \/ \E obj : store' = Put("Ingress", Media(job.name), obj)
          \/ \E obj : store' = Put("Service", job.name, obj)
      BY <1>5 DEF Reconcile, EnsureMediaService, EnsureMediaIngress, ShapeIngress,
                  PatchUpstreamService, Write
    <3> QED
      BY <1>1, <3>1, MediaIsName, KindsAre DEF Jobs
  <2>2. \A kind \in Workloads : store'[kind][name] = store[kind][name]
    BY <2>1, PutLeaves, KindsAre
  <2> QED
    BY <1>4, <2>2
<1>6. CASE EnsurePublicUrl
  <2> DEFINE stored == store["Deployment"][name]
             tpl == [stored.tpl EXCEPT !.env = <<job.host>>, !.port = stored.tpl.port]
             new == [stored EXCEPT !.tpl = tpl]
  <2>1. \/ UNCHANGED store
        \/ stored # Gone /\ store' = Put("Deployment", name, new)
    BY <1>1, <1>6 DEF EnsurePublicUrl
  <2>2. CASE UNCHANGED store
    BY <1>4, <2>2
  <2>3. CASE stored # Gone /\ store' = Put("Deployment", name, new)
    <3>1. stored \in Deployments /\ stored.tpl \in PodTemplates
      BY <1>2, <2>3 DEF Deployments
    <3>2. tpl.ann = stored.tpl.ann /\ tpl.labels = stored.tpl.labels /\ tpl.port = stored.tpl.port
      <4> DEFINE t == stored.tpl
      <4>1. t \in PodTemplates
        BY <3>1
      <4> HIDE DEF t
      <4>2. \A env : LET u == [t EXCEPT !.env = env, !.port = t.port]
                     IN  u.ann = t.ann /\ u.labels = t.labels /\ u.port = t.port
        BY <4>1 DEF PodTemplates
      <4> QED
        BY <4>2 DEF t
    <3> HIDE DEF tpl
    <3>3. new.tpl = tpl /\ new.uid = stored.uid /\ new # Gone
      <4> HIDE DEF stored
      <4> QED
        BY <3>1 DEF Deployments, Gone
    <3> HIDE DEF new
    <3>4. store'["Deployment"][name] = new
      BY <1>2, <2>3, PutLeaves
    <3>5. name \in Existing(store')
      BY <1>2, <3>3, <3>4 DEF Existing
    <3>6. JobOf(store, name).kind = "Deployment" /\ JobOf(store, name).uid = stored.uid
          /\ JobOf(store, name).tpl = stored.tpl
      BY <2>3 DEF JobOf, KindOf
    <3>7. JobOf(store', name).kind = "Deployment" /\ JobOf(store', name).uid = new.uid
          /\ JobOf(store', name).tpl = new.tpl /\ JobOf(store', name).name = name
      BY <3>3, <3>4 DEF JobOf, KindOf
    <3> HIDE DEF stored
    <3> QED
      BY <1>1, <1>3, <3>2, <3>3, <3>5, <3>6, <3>7 DEF Alike
  <2> QED
    BY <2>1, <2>2, <2>3
<1> QED
  BY <1>5, <1>6

LEMMA RightAgain ==
    ASSUME TypeOK, [Next]_vars, NEW name \in Names,
           cache = store, UpToDate(name), Right(name), Reconcile
    PROVE  Right(name)'
<1>1. name \in Existing(store') /\ Alike(job, JobOf(store', name))
  BY StaysAlike
<1>2. Served(job, store)
  <2>1. Alike(job, JobOf(store, name))
    BY UpToDateAlike
  <2>2. Served(JobOf(store, name), store)
    BY DEF Right, UpToDate
  <2> QED
    BY <2>1, <2>2, AlikeServed
<1>3. Served(job, store')
  BY <1>2, ServiceStaysServed, IngressStaysServed, UrlStaysServed, PatchStaysServed DEF Reconcile
<1>4. Served(JobOf(store', name), store')
  BY <1>1, <1>3, AlikeServed
<1> QED
  BY <1>1, <1>4 DEF Right

\* A reconcile that sees the cluster as it is takes nothing from a workload that has what
\* follows from it, whichever source it finds this time.
THEOREM RightStaysRight == Spec => StaysRight
<1>1. TypeOK /\ [Next]_vars =>
        [\A name \in Names :
            cache = store /\ UpToDate(name) /\ Right(name) /\ Reconcile => Right(name)']_vars
  BY RightAgain
<1> QED
  BY <1>1, TypeCorrect, PTL DEF Spec, StaysRight

=============================================================================
