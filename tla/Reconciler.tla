----------------------------- MODULE Reconciler -----------------------------
(***************************************************************************)
(* The workload reconciler (internal/controller): for an annotated         *)
(* Deployment or StatefulSet it keeps a media Service and a media Ingress, *)
(* writes the Ingress' host into the sidecar of the pod template, and      *)
(* retargets the workload's own Service at the proxy.                      *)
(*                                                                         *)
(* store is what the API server holds, kind by kind and name by name;      *)
(* cache is what the controller's informers have seen of it.  Every read   *)
(* of the reconciler is a read of the cache.  One worker reconciles one    *)
(* name at a time.  Charts, users and the garbage collector change the     *)
(* store at any time.                                                      *)
(*                                                                         *)
(* A name is a sequence of its parts, so that Media(n) = n \o "-media".  A *)
(* host is its first label, a name, and the domain after the dot.          *)
(***************************************************************************)
EXTENDS Naturals, Sequences

CONSTANTS
    Texts,       \* strings: parts of names, classes, issuers, labels
    Names,       \* of the objects of the namespace
    Templates,   \* of pods, as Deployments and StatefulSets may have them
    Charts,      \* [Kinds -> sets of <<name, object>>]: what charts and users apply
    Stores,      \* what the namespace may hold when the controller starts
    MaxEdits,    \* bound: changes by charts and users
    MaxFaults    \* bound: failed calls and restarts

VARIABLES store, cache, queue, job, edits, faults

vars == <<store, cache, queue, job, edits, faults>>

Workloads == {"Deployment", "StatefulSet"}
Owned == {"Service", "Ingress"}
Kinds == Workloads \cup Owned
Gone == [gone |-> TRUE]
Idle == [at |-> "idle"]
NoOwner == <<>>
NoTls == <<>>
NoHost == [label |-> <<>>, domain |-> ""]
NoPort == 0
NotANumber == 1000000     \* an upstream port that strconv.Atoi refuses
Resource == <<>>          \* an Ingress backend that is not a Service
ProxyPort == 5780
ServePort == 8090
MintPort == 8091

Media(name) == Append(name, "-media")

Or(v, unset, default) == IF v = unset THEN default ELSE v

-----------------------------------------------------------------------------
(* The objects. *)

\* Names that leave room for a media Service and Ingress: those of workloads.
Hosting == {name \in Names : Media(name) \in Names}

Hosts == [label : Seq(Texts), domain : Texts]

\* The media.media/ annotations of a pod template; upstream as int32 takes it.
Annotations ==
    [sidecar : BOOLEAN, proxy : BOOLEAN, upstream : Nat, group : Texts, url : Texts,
     class : Texts, host : Hosts, issuer : Texts, secret : Texts]

\* port is the first container port; env is <<>> without a container named media-sidecar,
\* else its MEDIA_PUBLIC_BASE_URL.
PodTemplates == [ann : Annotations, port : Nat, env : Seq(Hosts), labels : Texts]

Refs == [kind : Workloads, name : Hosting, uid : Nat] \cup {NoOwner}

Deployments == [uid : Nat, tpl : PodTemplates]     \* and StatefulSets

Services ==
    [ctl : Refs, selector : Texts, group : Texts, ports : Seq([port : Nat, target : Nat])]

Ingresses ==
    [ctl : Refs, class : Texts, issuer : Texts,
     rules : Seq([host : Hosts, backend : Names \cup {Resource}]),
     tls : [host : Hosts, secret : Texts] \cup {NoTls}]

Objects(kind) ==
    IF kind \in Workloads THEN Deployments ELSE IF kind = "Service" THEN Services ELSE Ingresses

Places(kind) == IF kind \in Workloads THEN Hosting ELSE Names

IsCluster(st) ==
    /\ st \in [Kinds -> [Names -> Deployments \cup Services \cup Ingresses \cup {Gone}]]
    /\ \A kind \in Kinds, name \in Names :
          st[kind][name] # Gone => st[kind][name] \in Objects(kind) /\ name \in Places(kind)

Unowned(kind, obj) == kind \in Owned => obj.ctl = NoOwner

ReconcilerAssumption ==
    /\ MaxEdits \in Nat /\ MaxFaults \in Nat
    /\ {"", "-media", "tailscale"} \subseteq Texts
    /\ Names \subseteq Seq(Texts) /\ Resource \notin Names
    /\ Templates \subseteq PodTemplates
    /\ \A kind \in Kinds : \A change \in Charts[kind] :
          /\ change[1] \in Places(kind)
          /\ IF kind \in Workloads THEN change[2] \in Templates
             ELSE change[2] \in Objects(kind) /\ Unowned(kind, change[2])
    /\ \A st \in Stores :
          /\ IsCluster(st)
          /\ \A kind \in Kinds, name \in Names : st[kind][name] # Gone =>
                Unowned(kind, st[kind][name]) /\ (kind \in Workloads => st[kind][name].tpl \in Templates)

ASSUME ReconcilerAssumption

-----------------------------------------------------------------------------
(* What the media objects should look like. *)

\* SetControllerReference replaces a reference to an owner of the same kind and name, and
\* refuses an object that another owner controls.
Owner_OfMedia(j) == [kind |-> j.kind, name |-> Media(j.name), uid |-> j.uid]

Owner(j) == [kind |-> j.kind, name |-> j.name, uid |-> j.uid]

SameOwner(a, b) == a.kind = b.kind /\ a.name = b.name

MayOwn_Anything(j, old) == TRUE

MayOwn(j, old) ==
    old = Gone \/ old.ctl = NoOwner \/ SameOwner(old.ctl, Owner(j))

\* The label of a group stays when the annotation goes.
MediaService(j, old) ==
    [ctl |-> Owner(j), selector |-> j.tpl.labels,
     ports |-> << [port |-> ServePort, target |-> ServePort],
                  [port |-> MintPort, target |-> MintPort] >>,
     group |-> Or(j.tpl.ann.group, "", IF old = Gone THEN "" ELSE old.group)]

InheritedHost(host, name) ==
    IF host = NoHost THEN [label |-> Media(name), domain |-> ""]
    ELSE [host EXCEPT !.label = Media(@)]

SecretOf(src) == IF src.tls = NoTls THEN "" ELSE src.tls.secret

\* What the annotations leave open comes from the source, if there is one, or is made up.
\* The secret is only inherited along with something else.
Class(a, src) == Or(Or(a.class, "", IF src = Gone THEN "" ELSE src.class), "", "tailscale")

Host(j, src) ==
    LET a == j.tpl.ann
        inherited == IF src = Gone \/ src.rules = <<>> THEN NoHost
                     ELSE InheritedHost(src.rules[1].host, j.name)
    IN  Or(Or(a.host, NoHost, inherited), NoHost, [label |-> Media(j.name), domain |-> ""])

Issuer(a, src) == Or(a.issuer, "", IF src = Gone THEN "" ELSE src.issuer)

Secret(a, src) == Or(a.secret, "", IF src = Gone THEN "" ELSE SecretOf(src))

\* An annotation of an issuer stays when there is none any more.
MediaIngress(j, src, old) ==
    LET a == j.tpl.ann
        class == Class(a, src)
        host == Host(j, src)
        secret == Secret(a, src)
    IN  [ctl |-> Owner(j), class |-> class,
         rules |-> <<[host |-> host, backend |-> Media(j.name)]>>,
         tls |-> IF secret # "" \/ class = "tailscale"
                 THEN [host |-> host, secret |-> secret] ELSE NoTls,
         issuer |-> Or(Issuer(a, src), "", IF old = Gone THEN "" ELSE old.issuer)]

\* backendMatchesLabels, or the backend is named as the workload.
Routes(j, seen, backend) ==
    \/ backend = j.name
    \/ /\ backend # Resource /\ seen["Service"][backend] # Gone
       /\ seen["Service"][backend].selector = j.tpl.labels

Ends_AlsoOwn(j, seen, name) ==
    LET ing == seen["Ingress"][name]
    IN  IF ing = Gone THEN {}
        ELSE {r \in DOMAIN ing.rules :
                 LET backend == ing.rules[r].backend IN backend = Resource \/ Routes(j, seen, backend)}

\* The rule of an Ingress at which the search for a source ends: one that routes to the
\* workload, or one whose backend is no Service, where the search panics.  The media
\* Ingress, and every rule with its backend, is passed over.
Ends(j, seen, name) ==
    LET ing == seen["Ingress"][name]
    IN  IF name = Media(j.name) \/ ing = Gone THEN {}
        ELSE {r \in DOMAIN ing.rules :
                 LET backend == ing.rules[r].backend
                 IN  backend # Media(j.name) /\ (backend = Resource \/ Routes(j, seen, backend))}

FirstEnd(j, seen, name) ==
    CHOOSE r \in Ends(j, seen, name) : \A s \in Ends(j, seen, name) : r <= s

Panics(j, seen, name) ==
    /\ Ends(j, seen, name) # {}
    /\ seen["Ingress"][name].rules[FirstEnd(j, seen, name)].backend = Resource

\* findSourceIngress.  The cache lists the Ingresses in no particular order: where the
\* search ends is any of those where it can.
SourceNames(j, seen) ==
    {name \in Names : Ends(j, seen, name) # {} /\ ~Panics(j, seen, name)}

NeedsSource(a) == a.class = "" \/ a.host = NoHost \/ a.issuer = ""

MayPanic(j, seen) == NeedsSource(j.tpl.ann) /\ \E name \in Names : Panics(j, seen, name)

Sources(j, seen) ==
    LET found == {seen["Ingress"][name] : name \in SourceNames(j, seen)}
    IN  IF ~NeedsSource(j.tpl.ann) \/ (found = {} /\ ~MayPanic(j, seen)) THEN {Gone} ELSE found

\* The upstream port: the annotation, else the first container port.
Upstream(tpl) == Or(tpl.ann.upstream, NoPort, tpl.port)

Retargeted(ports, up) ==
    [i \in DOMAIN ports |->
        [ports[i] EXCEPT !.target = IF ports[i].port = up THEN ProxyPort ELSE @]]

-----------------------------------------------------------------------------
(* The queue and its worker. *)

Existing(seen) == {name \in Names : \E kind \in Workloads : seen[kind][name] # Gone}

\* A Deployment hides a StatefulSet of its name.
KindOf(seen, name) == IF seen["Deployment"][name] # Gone THEN "Deployment" ELSE "StatefulSet"

\* What a reconcile of an existing workload remembers of it to its end.
JobOf(seen, name) ==
    LET kind == KindOf(seen, name)
        w == seen[kind][name]
    IN  [at |-> IF w.tpl.ann.sidecar THEN "service" ELSE "port",
         kind |-> kind, name |-> name, uid |-> w.uid, tpl |-> w.tpl, host |-> NoHost]

Init ==
    /\ store \in Stores
    /\ cache = store
    /\ queue = Existing(store)
    /\ job = Idle
    /\ edits = 0 /\ faults = 0

Take(name) ==
    /\ job = Idle /\ name \in queue
    /\ queue' = queue \ {name}
    /\ job' = IF name \notin Existing(cache) THEN Idle
              ELSE LET j == JobOf(cache, name)
                   IN  IF j.tpl.ann.sidecar \/ j.tpl.ann.proxy THEN j ELSE Idle
    /\ UNCHANGED <<store, cache, edits, faults>>

\* An error, and a RequeueAfter, bring the name back.
Retry == job' = Idle /\ queue' = queue \cup {job.name}

Done == job' = Idle /\ UNCHANGED queue

GoOn(next) == job' = next /\ UNCHANGED queue

\* The store with another object at a place.
Put(kind, name, obj) == [store EXCEPT ![kind] = [@ EXCEPT ![name] = obj]]

\* Create or Update of what was computed from the cache: refused when the store has
\* another version (a version is the object itself).
Write(kind, name, new, continuation) ==
    IF store[kind][name] = cache[kind][name]
    THEN /\ store' = Put(kind, name, new)
         /\ continuation
    ELSE Retry /\ UNCHANGED store

EnsureMediaService_OnlyCreates ==
    /\ job.at = "service"
    /\ LET name == Media(job.name)
           next == [job EXCEPT !.at = "ingress"]
       IN  IF cache["Service"][name] # Gone
           THEN GoOn(next) /\ UNCHANGED store
           ELSE Write("Service", name, MediaService(job, Gone), GoOn(next))
    /\ UNCHANGED <<cache, edits, faults>>

\* The API server fills in the protocol of the ports, so that the Service never equals
\* what is wanted of it and is always written.
EnsureMediaService ==
    /\ job.at = "service"
    /\ LET name == Media(job.name)
           old == cache["Service"][name]
       IN  IF MayOwn(job, old)
           THEN Write("Service", name, MediaService(job, old), GoOn([job EXCEPT !.at = "ingress"]))
           ELSE Retry /\ UNCHANGED store
    /\ UNCHANGED <<cache, edits, faults>>

\* The source, or none: with a listing that fails there seems to be none.
ShapeIngress(src) ==
    LET name == Media(job.name)
        old == cache["Ingress"][name]
        new == MediaIngress(job, src, old)
        continuation == GoOn([job EXCEPT !.at = "url", !.host = new.rules[1].host])
    IN  IF ~MayOwn(job, old) THEN Retry /\ UNCHANGED store
        ELSE IF new = old THEN continuation /\ UNCHANGED store
        ELSE Write("Ingress", name, new, continuation)

EnsureMediaIngress ==
    /\ job.at = "ingress"
    /\ \/ \E src \in Sources(job, cache) : ShapeIngress(src)
       \/ MayPanic(job, cache) /\ Retry /\ UNCHANGED store
    /\ UNCHANGED <<cache, edits, faults>>

\* Every error is swallowed.  The patch carries the cached list of containers as a whole.
EnsurePublicUrl ==
    /\ job.at = "url"
    /\ IF job.tpl.ann.proxy THEN GoOn([job EXCEPT !.at = "port"]) ELSE Done
    /\ LET dep == cache["Deployment"][job.name]
           stored == store["Deployment"][job.name]
       IN  \/ UNCHANGED store      \* nothing to do, or refused
           \/ /\ job.tpl.ann.url = "" /\ dep # Gone
              /\ dep.tpl.env \notin {<<>>, <<job.host>>}
              /\ stored # Gone
              /\ store' = Put("Deployment", job.name,
                     [stored EXCEPT !.tpl = [@ EXCEPT !.env = <<job.host>>, !.port = dep.tpl.port]])
    /\ UNCHANGED <<cache, edits, faults>>

\* The patch carries the cached list of ports as a whole, whatever it is by now.
PatchUpstreamService ==
    /\ job.at = "port"
    /\ LET up == Upstream(job.tpl)
           svc == cache["Service"][job.name]
           stored == store["Service"][job.name]
       IN  IF up \in {NoPort, NotANumber} \/ svc = Gone
           THEN Retry /\ UNCHANGED store
           ELSE IF Retargeted(svc.ports, up) = svc.ports
           THEN Done /\ UNCHANGED store
           ELSE IF stored = Gone
           THEN Retry /\ UNCHANGED store
           ELSE /\ store' = Put("Service", job.name,
                       [stored EXCEPT !.ports = Retargeted(svc.ports, up)])
                /\ Done
    /\ UNCHANGED <<cache, edits, faults>>

Reconcile == EnsureMediaService \/ EnsureMediaIngress \/ EnsurePublicUrl \/ PatchUpstreamService

-----------------------------------------------------------------------------
(* The rest of the cluster, and what goes wrong. *)

\* The controller watches workloads only: an event of another kind wakes nobody.
Sync(kind) ==
    /\ cache[kind] # store[kind]
    /\ cache' = [cache EXCEPT ![kind] = store[kind]]
    /\ queue' = queue \cup
           {name \in Names : kind \in Workloads /\ cache[kind][name] # store[kind][name]}
    /\ UNCHANGED <<store, job, edits, faults>>

\* The informers hand all workloads out again, every ten hours.
Resync ==
    /\ queue' = queue \cup Existing(cache)
    /\ UNCHANGED <<store, cache, job, edits, faults>>

\* What charts and users apply: a new workload has an identity of its own, whatever exists
\* keeps its identity or its owner.
Applied(kind, old, new) ==
    CASE kind \in Workloads -> [uid |-> IF old = Gone THEN edits + 1 ELSE old.uid, tpl |-> new]
      [] kind \notin Workloads -> [new EXCEPT !.ctl = IF old = Gone THEN NoOwner ELSE old.ctl]

Apply(kind, name, new) == store' = Put(kind, name, Applied(kind, store[kind][name], new))

Delete(kind, name) == store[kind][name] # Gone /\ store' = Put(kind, name, Gone)

Edit ==
    /\ edits < MaxEdits /\ edits' = edits + 1
    /\ \E kind \in Kinds :
          \/ \E change \in Charts[kind] : Apply(kind, change[1], change[2])
          \/ \E name \in Names : Delete(kind, name)
    /\ UNCHANGED <<cache, queue, job, faults>>

Alive(owner) ==
    /\ store[owner.kind][owner.name] # Gone
    /\ store[owner.kind][owner.name].uid = owner.uid

\* The garbage collector removes what an owner that is gone controls.
Collect(kind, name) ==
    /\ LET obj == store[kind][name]
       IN  obj # Gone /\ obj.ctl # NoOwner /\ ~Alive(obj.ctl)
    /\ store' = Put(kind, name, Gone)
    /\ UNCHANGED <<cache, queue, job, edits, faults>>

\* The call fails, or the one before it had an effect but its answer got lost.
CallFails ==
    /\ job # Idle /\ faults < MaxFaults /\ faults' = faults + 1
    /\ Retry
    /\ UNCHANGED <<store, cache, edits>>

\* findSourceIngress takes a failed List for a namespace without Ingresses.
ListFails ==
    /\ job.at = "ingress" /\ NeedsSource(job.tpl.ann)
    /\ faults < MaxFaults /\ faults' = faults + 1
    /\ ShapeIngress(Gone)
    /\ UNCHANGED <<cache, edits>>

\* The controller restarts, with fresh caches, and is handed all workloads.
Restart ==
    /\ faults < MaxFaults /\ faults' = faults + 1
    /\ job' = Idle /\ cache' = store /\ queue' = Existing(store)
    /\ UNCHANGED <<store, edits>>

-----------------------------------------------------------------------------
World == Edit \/ \E kind \in Owned, name \in Names : Collect(kind, name)

Next ==
    \/ \E name \in Names : Take(name)
    \/ Reconcile
    \/ \E kind \in Kinds : Sync(kind)
    \/ Resync \/ World
    \/ CallFails \/ ListFails \/ Restart

Spec == Init /\ [][Next]_vars

\* The worker takes what is queued, its calls return, the informers deliver, the resync and
\* the garbage collector come round.
Fairness ==
    /\ WF_vars(\E name \in Names : Take(name))
    /\ WF_vars(Reconcile)
    /\ \A kind \in Kinds : WF_vars(Sync(kind))
    /\ WF_vars(Resync)
    /\ WF_vars(\E kind \in Owned, name \in Names : Collect(kind, name))

FairSpec == Spec /\ Fairness

-----------------------------------------------------------------------------
(* Properties. *)

Jobs ==
    [at : {"service", "ingress", "url", "port"}, kind : Workloads, name : Hosting, uid : Nat,
     tpl : PodTemplates, host : Hosts]

\* The state has the types of its declarations: the two clusters hold objects of their kinds
\* where these may be, the worker has a job that a workload can give it.
TypeOK ==
    /\ IsCluster(store) /\ IsCluster(cache)
    /\ queue \subseteq Names
    /\ job \in Jobs \cup {Idle}
    /\ edits \in 0..MaxEdits /\ faults \in 0..MaxFaults

\* A media object never goes from one owner straight to another: the check of the owner is
\* made on a cached object, the write on the stored one.
NeverStolen ==
    [][\A kind \in Owned, name \in Names :
          LET old == store[kind][name]
              new == store'[kind][name]
          IN  old # Gone /\ old.ctl # NoOwner /\ new # Gone => SameOwner(old.ctl, new.ctl)]_vars

\* Hosts that charts and users have put on an Ingress.
ChartIngresses ==
    ({change[2] : change \in Charts["Ingress"]} \cup {st["Ingress"][name] : st \in Stores, name \in Names})
    \ {Gone}

ChartHosts == UNION {{ing.rules[r].host : r \in DOMAIN ing.rules} : ing \in ChartIngresses}

PossibleHosts(name) ==
    ChartHosts \cup {InheritedHost(h, name) : h \in ChartHosts}
    \cup {t.ann.host : t \in Templates} \cup {[label |-> Media(name), domain |-> ""]}

\* "host must not grow across reconciles" (workload_reconciler_test.go:311): the host of an
\* Ingress that is controlled was put on it, asked for, made up, or inherited once from
\* one of the charts, however many reconciles read what earlier ones wrote.
HostNeverGrows ==
    \A name \in Names :
        LET obj == store["Ingress"][name]
        IN  obj # Gone /\ obj.ctl # NoOwner =>
               \A r \in DOMAIN obj.rules : obj.rules[r].host \in PossibleHosts(obj.ctl.name)

ServiceMade(j, st) ==
    LET svc == st["Service"][Media(j.name)] IN svc = MediaService(j, svc)

IngressMade(j, sources, st) ==
    LET ing == st["Ingress"][Media(j.name)]
    IN  \E src \in sources : ing = MediaIngress(j, src, ing)

PortsMade(j, st) ==
    LET svc == st["Service"][j.name]
    IN  svc # Gone => svc.ports = Retargeted(svc.ports, Upstream(j.tpl))

Reliable(kind) == store' # store \/ cache[kind] = store[kind]

\* A reconcile leaves a step for the next only with the object such that to make it again would
\* change nothing, so that reconciling is idempotent, and ends with the ports only when
\* they lead to the proxy: whatever was cached, whoever wrote meanwhile and whichever calls
\* failed.  The exception is a stale cache that shows nothing to do.
StepsDone ==
    [][/\ job.at = "service" /\ job'.at = "ingress" => ServiceMade(job, store')
       /\ job.at = "ingress" /\ job'.at = "url" /\ Reliable("Ingress") =>
             IngressMade(job, Sources(job, cache) \cup {Gone}, store')
       /\ /\ job.at = "port" /\ job' = Idle /\ Reliable("Service")
          /\ job.name \in Existing(store) \ queue'
          => PortsMade(job, store')]_vars

\* The sidecar's part cannot be done for j: another owner has its objects, or the search
\* for a source may panic.
Stuck(j, st) ==
    \/ ~MayOwn(j, st["Service"][Media(j.name)])
    \/ ~MayOwn(j, st["Ingress"][Media(j.name)])
    \/ MayPanic(j, st)

SidecarRight(j, st) == ServiceMade(j, st) /\ IngressMade(j, Sources(j, st), st)

ProxyRight(j, st) ==
    Upstream(j.tpl) \notin {NoPort, NotANumber} => PortsMade(j, st)

Served(j, st) ==
    \/ j.tpl.ann.sidecar /\ Stuck(j, st)
    \/ /\ j.tpl.ann.sidecar => SidecarRight(j, st)
       /\ j.tpl.ann.proxy => ProxyRight(j, st)

Right(name) ==
    IF name \in Existing(store) THEN Served(JobOf(store, name), store)
    ELSE \A kind \in Owned, owned \in Names :
            store[kind][owned] # Gone /\ store[kind][owned].ctl # NoOwner
                => store[kind][owned].ctl.name # name

\* The workload is still as the worker's job remembers it, but for its public URL.
UpToDate(name) ==
    /\ job # Idle /\ job.name = name /\ name \in Existing(store)
    /\ LET now == JobOf(store, name)
       IN  /\ <<job.kind, job.uid>> = <<now.kind, now.uid>>
           /\ job.tpl = [now.tpl EXCEPT !.env = job.tpl.env]

\* What is right stays right: no step of a reconcile that sees the cluster as it is undoes
\* what follows from it, whichever of several sources the search finds this time, and though
\* the step itself changes what the next search will see.
StaysRight ==
    [][\A name \in Names :
          cache = store /\ UpToDate(name) /\ Right(name) /\ Reconcile => Right(name)']_vars

\* Whatever order charts apply their objects in, whatever is edited or deleted, whatever
\* calls fail, and however late the controller sees it: once the charts rest, every
\* workload comes to have the Service and the Ingress that follow from the cluster as it
\* then is, and its own Service leads to the proxy; with a workload that is gone its objects
\* go.
Settles == <>[](\A name \in Names : Right(name))

=============================================================================
