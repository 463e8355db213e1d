------------------------ MODULE ReconcilerHostProofs ------------------------
(***************************************************************************)
(* The host of a media Ingress does not grow, provided that workloads can  *)
(* be told apart: no two of different names have the same labels, none is  *)
(* named as the media objects of another, and charts leave the names of    *)
(* media Services alone.                                                   *)
(***************************************************************************)
EXTENDS ReconcilerProofs

\* The labels that the workloads of a name may have.
LabelAt(name, labels) ==
    \E kind \in Workloads :
       \/ \E change \in Charts[kind] : change[1] = name /\ change[2].labels = labels
       \/ \E st \in Stores : st[kind][name] # Gone /\ st[kind][name].tpl.labels = labels

Apart ==
    /\ \A a, b \in Hosting : (\E labels \in Texts : LabelAt(a, labels) /\ LabelAt(b, labels)) => a = b
    /\ \A a \in Hosting : Media(a) \notin Hosting
    /\ \A change \in Charts["Service"] : \A a \in Hosting : change[1] # Media(a)
    /\ \A st \in Stores : \A a \in Hosting : st["Service"][Media(a)] = Gone

AnnotatedHosts == {t.ann.host : t \in Templates}

TemplateGood(name, tpl) == LabelAt(name, tpl.labels) /\ tpl.ann.host \in AnnotatedHosts

\* A media Service selects a workload of its name.
SelectsItsOwn(name, svc) == \E a \in Hosting : name = Media(a) /\ LabelAt(a, svc.selector)

\* An Ingress is as a chart left it, or made for the workload it is named after.
FromChart(ing) == \A r \in DOMAIN ing.rules : ing.rules[r].host \in ChartHosts

MadeFor(a, name, ing) ==
    /\ name = Media(a) /\ ing.ctl.name = a
    /\ \A r \in DOMAIN ing.rules :
          ing.rules[r].backend = Media(a) /\ ing.rules[r].host \in PossibleHosts(a)

ObjectGood(kind, name, obj) ==
    /\ kind \in Workloads => TemplateGood(name, obj.tpl)
    /\ kind = "Service" /\ (\E a \in Hosting : name = Media(a)) => SelectsItsOwn(name, obj)
    /\ kind = "Ingress" => FromChart(obj) \/ \E a \in Hosting : MadeFor(a, name, obj)

ClusterGood(st) ==
    \A kind \in Kinds, name \in Names : st[kind][name] # Gone => ObjectGood(kind, name, st[kind][name])

JobGood(j) == j # Idle => TemplateGood(j.name, j.tpl)

HostInv == TypeOK /\ ClusterGood(store) /\ ClusterGood(cache) /\ JobGood(job)

-----------------------------------------------------------------------------
(* What the invariant says, and where hosts come from. *)

LEMMA HostInvImplies == HostInv => HostNeverGrows
<1> SUFFICES ASSUME HostInv, NEW name \in Names,
                    store["Ingress"][name] # Gone, store["Ingress"][name].ctl # NoOwner,
                    NEW r \in DOMAIN store["Ingress"][name].rules
             PROVE  store["Ingress"][name].rules[r].host
                       \in PossibleHosts(store["Ingress"][name].ctl.name)
  BY DEF HostNeverGrows
<1> DEFINE obj == store["Ingress"][name]
<1>1. FromChart(obj) \/ \E a \in Hosting : MadeFor(a, name, obj)
  BY KindsAre DEF HostInv, ClusterGood, ObjectGood
<1>2. CASE FromChart(obj)
  BY <1>2 DEF FromChart, PossibleHosts
<1>3. CASE \E a \in Hosting : MadeFor(a, name, obj)
  BY <1>3 DEF MadeFor
<1> QED
  BY <1>1, <1>2, <1>3

\* A source was put there by a chart: the media Ingress of another workload does not route
\* to this one.
LEMMA SourceFromChart ==
    ASSUME Apart, HostInv, job \in Jobs, NEW src \in Sources(job, cache), src # Gone
    PROVE  FromChart(src)
<1>1. PICK name \in Names : src = cache["Ingress"][name] /\ Ends(job, cache, name) # {}
                            /\ ~Panics(job, cache, name)
  BY DEF Sources, SourceNames
<1>2. PICK r \in Ends(job, cache, name) : TRUE
  BY <1>1
<1>3. CASE FromChart(src)
  BY <1>3
<1>4. CASE \E a \in Hosting : MadeFor(a, name, src)
  <2>1. PICK a \in Hosting : MadeFor(a, name, src)
    BY <1>4
  <2>2. name # Media(job.name) /\ r \in DOMAIN src.rules
    BY <1>1, <1>2 DEF Ends
  <2>3. src.rules[r].backend = Media(a) /\ name = Media(a)
    BY <2>1, <2>2 DEF MadeFor
  <2>4. Media(a) # Resource /\ Media(a) \in Names
    BY MediaIsName, ReconcilerAssumption DEF ReconcilerAssumption
  <2>5. Routes(job, cache, Media(a))
    BY <1>1, <1>2, <2>3, <2>4 DEF Ends
  <2>6. job.name \in Hosting /\ TemplateGood(job.name, job.tpl) /\ job.tpl.labels \in Texts
    <3>1. job # Idle
      BY DEF Jobs, Idle
    <3> QED
      BY <3>1 DEF HostInv, JobGood, Jobs, PodTemplates
  <2>7. Media(a) # job.name
    BY <2>6 DEF Apart
  <2>8. cache["Service"][Media(a)] # Gone /\ cache["Service"][Media(a)].selector = job.tpl.labels
    BY <2>5, <2>7 DEF Routes
  <2>9. SelectsItsOwn(Media(a), cache["Service"][Media(a)])
    BY <2>4, <2>8, KindsAre DEF HostInv, ClusterGood, ObjectGood
  <2>10. PICK b \in Hosting : Media(a) = Media(b) /\ LabelAt(b, job.tpl.labels)
    BY <2>8, <2>9 DEF SelectsItsOwn
  <2>11. b = job.name
    BY <2>6, <2>10 DEF Apart, TemplateGood
  <2> QED
    BY <2>2, <2>3, <2>10, <2>11
<1> QED
  BY <1>1, <1>3, <1>4, KindsAre DEF HostInv, ClusterGood, ObjectGood

\* What is made of it, or of nothing, is one of the possible hosts.
LEMMA HostPossible ==
    ASSUME HostInv, job \in Jobs, NEW src \in Ingresses \cup {Gone}, src = Gone \/ FromChart(src)
    PROVE  Host(job, src) \in PossibleHosts(job.name)
<1>1. job.tpl.ann.host \in AnnotatedHosts
  <2>1. job # Idle
    BY DEF Jobs, Idle
  <2> QED
    BY <2>1 DEF HostInv, JobGood, TemplateGood
<1>2. src # Gone /\ src.rules # <<>> => src.rules[1].host \in ChartHosts
  <2> SUFFICES ASSUME src # Gone, src.rules # <<>> PROVE src.rules[1].host \in ChartHosts
    OBVIOUS
  <2>1. src.rules \in Seq([host : Hosts, backend : Names \cup {Resource}])
    BY DEF Ingresses
  <2>2. 1 \in DOMAIN src.rules
    BY <2>1, SequenceFacts
  <2> QED
    BY <2>2 DEF FromChart
<1>3. AnnotatedHosts \subseteq PossibleHosts(job.name)
      /\ [label |-> Media(job.name), domain |-> ""] \in PossibleHosts(job.name)
      /\ \A h \in ChartHosts : InheritedHost(h, job.name) \in PossibleHosts(job.name)
  BY DEF PossibleHosts, AnnotatedHosts
<1> QED
  BY <1>1, <1>2, <1>3 DEF Host, Or

-----------------------------------------------------------------------------
(* The invariant holds at the start, and survives a change of one object. *)

LEMMA ChartIngressGood ==
    ASSUME NEW ing \in ChartIngresses PROVE FromChart(ing)
BY DEF FromChart, ChartHosts

LEMMA StoreGood == ASSUME Apart, NEW st \in Stores PROVE ClusterGood(st)
<1> SUFFICES ASSUME NEW kind \in Kinds, NEW name \in Names, st[kind][name] # Gone
             PROVE  ObjectGood(kind, name, st[kind][name])
  BY DEF ClusterGood
<1> DEFINE obj == st[kind][name]
<1>1. kind \in Workloads => TemplateGood(name, obj.tpl)
  <2>1. kind \in Workloads => obj.tpl \in Templates
    BY ReconcilerAssumption DEF ReconcilerAssumption
  <2> QED
    BY <2>1 DEF TemplateGood, LabelAt, AnnotatedHosts
<1>2. ~(kind = "Service" /\ \E a \in Hosting : name = Media(a))
  BY DEF Apart
<1>3. kind = "Ingress" => FromChart(obj)
  BY ChartIngressGood DEF ChartIngresses
<1> QED
  BY <1>1, <1>2, <1>3 DEF ObjectGood

LEMMA InitGood == ASSUME Apart, Init PROVE HostInv
<1>1. ClusterGood(store) /\ cache = store /\ job = Idle
  BY StoreGood DEF Init
<1> QED
  BY <1>1, InitTyped DEF HostInv, JobGood

LEMMA PutGood ==
    ASSUME HostInv, NEW kind \in Kinds, NEW name \in Names, NEW obj,
           obj = Gone \/ ObjectGood(kind, name, obj), store' = Put(kind, name, obj)
    PROVE  ClusterGood(store')
<1> DEFINE Any == Deployments \cup Services \cup Ingresses \cup {Gone}
<1>1. store \in [Kinds -> [Names -> Any]]
  BY DEF HostInv, TypeOK, IsCluster
<1> HIDE DEF Any
<1>2. \A k \in Kinds, n \in Names :
         store'[k][n] = IF k = kind /\ n = name THEN obj ELSE store[k][n]
  BY <1>1 DEF Put
<1> QED
  BY <1>2 DEF HostInv, ClusterGood

\* What the worker knows of its workload is still so as the job goes on, or ends.
LEMMA WorkerGood ==
    ASSUME HostInv, job \in Jobs, job' = Idle \/ (job'.name = job.name /\ job'.tpl = job.tpl)
    PROVE  JobGood(job')
<1>1. job # Idle
  BY DEF Jobs, Idle
<1> QED
  BY <1>1 DEF HostInv, JobGood

LEMMA JobKeeps ==
    ASSUME NEW j \in Jobs
    PROVE  /\ [j EXCEPT !.at = "ingress"].name = j.name /\ [j EXCEPT !.at = "ingress"].tpl = j.tpl
           /\ [j EXCEPT !.at = "port"].name = j.name /\ [j EXCEPT !.at = "port"].tpl = j.tpl
           /\ \A h : /\ [j EXCEPT !.at = "url", !.host = h].name = j.name
                     /\ [j EXCEPT !.at = "url", !.host = h].tpl = j.tpl
BY DEF Jobs

LEMMA JobIsGood ==
    ASSUME HostInv, job \in Jobs
    PROVE  TemplateGood(job.name, job.tpl)
<1>1. job # Idle
  BY DEF Jobs, Idle
<1> QED
  BY <1>1 DEF HostInv, JobGood

-----------------------------------------------------------------------------
(* Each action: what it leaves of the cluster and of the worker's knowledge. *)

Good == ClusterGood(store') /\ ClusterGood(cache') /\ JobGood(job')

LEMMA TakeGood == ASSUME HostInv, NEW name \in Names, Take(name) PROVE Good
<1>1. UNCHANGED <<store, cache>>
  BY DEF Take
<1>2. CASE job' = Idle
  BY <1>1, <1>2 DEF Good, HostInv, JobGood
<1>3. CASE name \in Existing(cache) /\ job' = JobOf(cache, name)
  <2> DEFINE kind == KindOf(cache, name)
  <2>1. kind \in Workloads /\ kind \in Kinds /\ cache[kind][name] # Gone
    BY <1>3, KindsAre DEF Existing, KindOf
  <2>2. TemplateGood(name, cache[kind][name].tpl)
    BY <2>1 DEF HostInv, ClusterGood, ObjectGood
  <2>3. job'.name = name /\ job'.tpl = cache[kind][name].tpl
    BY <1>3 DEF JobOf
  <2> QED
    BY <1>1, <2>2, <2>3 DEF Good, HostInv, JobGood
<1> QED
  BY <1>2, <1>3 DEF Take

LEMMA ServiceGood == ASSUME HostInv, EnsureMediaService PROVE Good
<1> DEFINE name == Media(job.name)
           new == MediaService(job, cache["Service"][name])
           next == [job EXCEPT !.at = "ingress"]
<1>1. job \in Jobs /\ job.name \in Hosting /\ name \in Names /\ "Service" \in Kinds
  BY AtJob, AtNotIdle, KindsAre DEF HostInv, EnsureMediaService
<1>2. new.selector = job.tpl.labels
  BY DEF MediaService
<1>3. \/ Retry /\ UNCHANGED store
      \/ store' = Put("Service", name, new) /\ GoOn(next)
  BY DEF EnsureMediaService, Write
<1>4. ObjectGood("Service", name, new)
  <2>1. SelectsItsOwn(name, new)
    BY <1>1, <1>2, JobIsGood DEF SelectsItsOwn, TemplateGood
  <2> QED
    BY <2>1, KindsAre DEF ObjectGood
<1>5. next.name = job.name /\ next.tpl = job.tpl
  BY <1>1, JobKeeps
<1> HIDE DEF name, new, next
<1>6. ClusterGood(store')
  BY <1>1, <1>3, <1>4, PutGood DEF HostInv
<1>7. JobGood(job')
  BY <1>1, <1>3, <1>5, WorkerGood DEF Retry, GoOn
<1> QED
  BY <1>6, <1>7 DEF Good, EnsureMediaService, HostInv

LEMMA ShapeGood ==
    ASSUME HostInv, job \in Jobs, NEW src \in Ingresses \cup {Gone}, src = Gone \/ FromChart(src),
           ShapeIngress(src)
    PROVE  ClusterGood(store') /\ JobGood(job')
<1> DEFINE name == Media(job.name)
           old == cache["Ingress"][name]
           new == MediaIngress(job, src, old)
           next == [job EXCEPT !.at = "url", !.host = new.rules[1].host]
<1>1. job.name \in Hosting /\ name \in Names /\ "Ingress" \in Kinds
  BY MediaIsName, KindsAre DEF Jobs
<1>2. \/ Retry /\ UNCHANGED store
      \/ GoOn(next) /\ UNCHANGED store
      \/ store' = Put("Ingress", name, new) /\ GoOn(next)
  BY DEF ShapeIngress, Write
<1>3. ObjectGood("Ingress", name, new)
  <2> DEFINE rule == [host |-> Host(job, src), backend |-> name]
  <2>1. new.ctl = Owner(job) /\ new.rules = <<rule>>
    BY DEF MediaIngress
  <2>2. rule.host \in PossibleHosts(job.name) /\ rule.backend = name
    BY HostPossible
  <2>3. Owner(job).name = job.name
    BY DEF Owner
  <2> HIDE DEF rule, new
  <2>4. \A r \in DOMAIN new.rules : new.rules[r] = rule
    BY <2>1
  <2>5. MadeFor(job.name, name, new)
    BY <2>1, <2>2, <2>3, <2>4 DEF MadeFor
  <2> QED
    BY <1>1, <2>5, KindsAre DEF ObjectGood
<1>4. next.name = job.name /\ next.tpl = job.tpl
  BY JobKeeps
<1> HIDE DEF name, new, next
<1>5. ClusterGood(store')
  BY <1>1, <1>2, <1>3, PutGood DEF HostInv
<1>6. JobGood(job')
  BY <1>2, <1>4, WorkerGood DEF Retry, GoOn
<1> QED
  BY <1>5, <1>6

LEMMA IngressGood == ASSUME Apart, HostInv, EnsureMediaIngress \/ ListFails PROVE Good
<1>1. job \in Jobs /\ UNCHANGED cache
  BY AtJob, AtNotIdle DEF HostInv, EnsureMediaIngress, ListFails
<1>2. CASE \E src \in Sources(job, cache) : ShapeIngress(src)
  <2>1. PICK src \in Sources(job, cache) : ShapeIngress(src)
    BY <1>2
  <2>2. src \in Ingresses \cup {Gone}
    BY <2>1, SourceTyped DEF HostInv, TypeOK
  <2>3. src = Gone \/ FromChart(src)
    BY <1>1, SourceFromChart
  <2> QED
    BY <1>1, <2>1, <2>2, <2>3, ShapeGood DEF Good, HostInv
<1>3. CASE Retry /\ UNCHANGED store
  BY <1>1, <1>3, WorkerGood DEF Retry, Good, HostInv
<1>4. CASE ShapeIngress(Gone)
  BY <1>1, <1>4, ShapeGood DEF Good, HostInv
<1> QED
  BY <1>2, <1>3, <1>4 DEF EnsureMediaIngress, ListFails

LEMMA UrlGood == ASSUME HostInv, EnsurePublicUrl PROVE Good
<1> DEFINE stored == store["Deployment"][job.name]
<1>1. job \in Jobs /\ job.name \in Names /\ "Deployment" \in Kinds /\ UNCHANGED cache
  BY AtJob, AtNotIdle, KindsAre DEF HostInv, EnsurePublicUrl
<1>2. JobGood(job')
  <2>1. GoOn([job EXCEPT !.at = "port"]) \/ Done
    BY DEF EnsurePublicUrl
  <2> QED
    BY <1>1, <2>1, JobKeeps, WorkerGood DEF GoOn, Done
<1>3. CASE UNCHANGED store
  BY <1>1, <1>2, <1>3 DEF Good, HostInv
<1>4. CASE stored # Gone /\ \E env, port :
             store' = Put("Deployment", job.name,
                          [stored EXCEPT !.tpl = [@ EXCEPT !.env = env, !.port = port]])
  <2>1. PICK env, port :
             store' = Put("Deployment", job.name,
                          [stored EXCEPT !.tpl = [@ EXCEPT !.env = env, !.port = port]])
    BY <1>4
  <2> DEFINE new == [stored EXCEPT !.tpl = [@ EXCEPT !.env = env, !.port = port]]
  <2>2. stored \in Deployments /\ TemplateGood(job.name, stored.tpl)
    BY <1>1, <1>4, InCluster, KindsAre
       DEF HostInv, TypeOK, Objects, ClusterGood, ObjectGood
  <2>3. new.tpl.labels = stored.tpl.labels /\ new.tpl.ann = stored.tpl.ann
    BY <2>2 DEF Deployments, PodTemplates
  <2> HIDE DEF new
  <2>4. ObjectGood("Deployment", job.name, new)
    BY <2>2, <2>3 DEF ObjectGood, TemplateGood
  <2>5. ClusterGood(store')
    BY <1>1, <2>1, <2>4, PutGood DEF new
  <2> QED
    BY <1>1, <1>2, <2>5 DEF Good, HostInv
<1> QED
  BY <1>3, <1>4 DEF EnsurePublicUrl

LEMMA PatchGood == ASSUME Apart, HostInv, PatchUpstreamService PROVE Good
<1> DEFINE stored == store["Service"][job.name]
<1>1. job \in Jobs /\ job.name \in Hosting /\ job.name \in Names /\ "Service" \in Kinds
      /\ UNCHANGED cache
  BY AtJob, AtNotIdle, KindsAre DEF HostInv, PatchUpstreamService
<1>2. JobGood(job')
  BY <1>1, WorkerGood DEF PatchUpstreamService, Retry, Done
<1>3. UNCHANGED store \/ \E obj : store' = Put("Service", job.name, obj)
  BY DEF PatchUpstreamService
<1>4. \A obj : ObjectGood("Service", job.name, obj)
  BY <1>1, KindsAre DEF Apart, ObjectGood
<1>5. ClusterGood(store')
  BY <1>1, <1>3, <1>4, PutGood DEF HostInv
<1> QED
  BY <1>1, <1>2, <1>5 DEF Good, HostInv

LEMMA EditGood == ASSUME Apart, HostInv, Edit PROVE Good
<1>1. UNCHANGED <<cache, job>>
  BY DEF Edit
<1>2. ASSUME NEW kind \in Kinds, NEW change \in Charts[kind], Apply(kind, change[1], change[2])
      PROVE  ClusterGood(store')
  <2> DEFINE name == change[1]
             old == store[kind][name]
             new == Applied(kind, old, change[2])
  <2>1. name \in Names
    BY ChartTyped DEF Places, Hosting
  <2>2. store' = Put(kind, name, new)
    BY <1>2 DEF Apply
  <2>3. ObjectGood(kind, name, new)
    <3>1. CASE kind \in Workloads
      <4>1. new.tpl = change[2]
        BY <3>1 DEF Applied
      <4>2. change[2] \in Templates
        BY <3>1, ReconcilerAssumption DEF ReconcilerAssumption
      <4>3. TemplateGood(name, new.tpl)
        BY <3>1, <4>1, <4>2 DEF TemplateGood, LabelAt, AnnotatedHosts
      <4> QED
        BY <3>1, <4>3, KindsAre DEF ObjectGood
    <3>2. CASE kind = "Service"
      BY <3>2, KindsAre DEF ObjectGood, Apart
    <3>3. CASE kind = "Ingress"
      <4>1. change[2] \in Ingresses
        BY <3>3, ChartTyped, KindsAre DEF Objects
      <4>2. new.rules = change[2].rules
        BY <3>3, <4>1, KindsAre DEF Applied, Ingresses
      <4>3. change[2] # Gone
        <5>1. "ctl" \in DOMAIN change[2]
          BY <4>1 DEF Ingresses
        <5>2. "ctl" \notin DOMAIN Gone
          BY DEF Gone
        <5> QED
          BY <5>1, <5>2
      <4>4. FromChart(change[2])
        BY <3>3, <4>3, ChartIngressGood DEF ChartIngresses
      <4> QED
        BY <3>3, <4>2, <4>4, KindsAre DEF ObjectGood, FromChart
    <3> QED
      BY <3>1, <3>2, <3>3, KindsAre
  <2> HIDE DEF new
  <2> QED
    BY <2>1, <2>2, <2>3, PutGood
<1>3. ASSUME NEW kind \in Kinds, NEW name \in Names, Delete(kind, name) PROVE ClusterGood(store')
  BY <1>3, PutGood DEF Delete
<1>4. ClusterGood(store')
  BY <1>2, <1>3 DEF Edit
<1> QED
  BY <1>1, <1>4 DEF Good, HostInv

LEMMA CollectGood ==
    ASSUME HostInv, NEW kind \in Owned, NEW name \in Names, Collect(kind, name) PROVE Good
<1>1. ClusterGood(store') /\ UNCHANGED <<cache, job>>
  BY PutGood, KindsAre DEF Collect
<1> QED
  BY <1>1 DEF Good, HostInv

LEMMA SyncGood == ASSUME HostInv, NEW kind \in Kinds, Sync(kind) PROVE Good
<1> DEFINE Any == Deployments \cup Services \cup Ingresses \cup {Gone}
<1>1. cache \in [Kinds -> [Names -> Any]]
  BY DEF HostInv, TypeOK, IsCluster
<1> HIDE DEF Any
<1>2. \A k \in Kinds : cache'[k] = IF k = kind THEN store[k] ELSE cache[k]
  BY <1>1 DEF Sync
<1>3. ClusterGood(cache')
  BY <1>2 DEF HostInv, ClusterGood
<1>4. UNCHANGED <<store, job>>
  BY DEF Sync
<1> QED
  BY <1>3, <1>4 DEF Good, HostInv

LEMMA FaultGood == ASSUME HostInv, CallFails \/ Restart PROVE Good
<1>1. UNCHANGED store /\ (cache' = cache \/ cache' = store) /\ job' = Idle
  BY DEF CallFails, Restart, Retry
<1> QED
  BY <1>1 DEF Good, HostInv, JobGood

LEMMA StepGood == ASSUME Apart, HostInv, [Next]_vars PROVE HostInv'
<1>1. TypeOK'
  BY StepTyped DEF HostInv
<1>2. Good
  <2>1. CASE \E name \in Names : Take(name)
    BY <2>1, TakeGood
  <2>2. CASE Reconcile
    BY <2>2, ServiceGood, IngressGood, UrlGood, PatchGood DEF Reconcile
  <2>3. CASE \E kind \in Kinds : Sync(kind)
    BY <2>3, SyncGood
  <2>4. CASE World
    BY <2>4, EditGood, CollectGood DEF World
  <2>5. CASE ListFails
    BY <2>5, IngressGood
  <2>6. CASE CallFails \/ Restart
    BY <2>6, FaultGood
  <2>7. CASE UNCHANGED <<store, cache, job>>
    BY <2>7 DEF Good, HostInv
  <2> QED
    BY <2>1, <2>2, <2>3, <2>4, <2>5, <2>6, <2>7 DEF Next, Resync, vars
<1> QED
  BY <1>1, <1>2 DEF Good, HostInv, ClusterGood, JobGood

\* Where workloads can be told apart, no number of reconciles, edits, faults and stale reads
\* makes a host longer than a host of a chart with one "-media" after its first label.
THEOREM HostsNeverGrow == ASSUME Apart PROVE Spec => []HostNeverGrows
<1>1. Init => HostInv
  BY InitGood
<1>2. HostInv /\ [Next]_vars => HostInv'
  BY StepGood
<1> QED
  BY <1>1, <1>2, HostInvImplies, PTL DEF Spec

=============================================================================
