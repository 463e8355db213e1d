----------------------------- MODULE Injection -----------------------------
(***************************************************************************)
(* The pod webhook, and the two programs that have to start from what it   *)
(* writes: Default reads the pod's annotations, injectPod adds containers, *)
(* a volume and mounts, and the kubelet starts the containers, whose       *)
(* loadConfig accepts or refuses their environment.  A stored pod may be   *)
(* submitted again (a restore, a copy), its annotations edited.            *)
(*                                                                         *)
(* Values of annotations and of environment variables are tuples of        *)
(* strings, <<>> being the unset one: a URL is its scheme, its port and    *)
(* the parts of its host, a path <<"/", name>> or, when relative, <<name>>. *)
(***************************************************************************)
EXTENDS Naturals, Sequences

CONSTANTS
    Annotations,    \* sets of annotations (records) a pod may carry
    Workloads,      \* pods without annotations and before any injection
    Labels,         \* the values that are names to Kubernetes
    Numbers,        \* the values that are decimal numbers, with or without a sign
    Positive,       \* ... that are positive ones
    Digits,         \* the values that a URL takes for a port: numbers without a sign
    Regexes,        \* the values that are regular expressions
    LongSecrets,    \* the secrets of at least 32 bytes
    MaxCopies       \* bound: how often a pod is submitted again

VARIABLES pod, stage, gate, asked, running, copies

vars == <<pod, stage, gate, asked, running, copies>>

Unset == <<>>
Gates == {"enabled", "disabled", "unknown"}
Sidecar == "media-sidecar"
Proxy == "mcp-media-proxy"
MediaVolume == "media-volume"

\* The host that may not be empty is the one of net/url, which has the port in it.
HttpUrl(v) ==
    /\ Len(v) > 2 /\ v[1] \in {"http", "https"}
    /\ v[2] = "" \/ <<v[2]>> \in Digits
    /\ \E i \in 2..Len(v) : v[i] # ""

Absolute(path) == Len(path) > 0 /\ path[1] = "/"
Or(v, default) == IF v = Unset THEN default ELSE v

\* A workload's own containers.
Containers ==
    [name : STRING, ports : Seq(STRING), env : {Unset},
     mounts : SUBSET [volume : STRING, path : Seq(STRING), readOnly : BOOLEAN]]

\* The annotations, parsed: the two flags, and the values of the others.
AnnotationSets ==
    [sidecar : BOOLEAN, proxy : BOOLEAN, group : Seq(STRING), volume : Seq(STRING),
     path : Seq(STRING), url : Seq(STRING), port : Seq(STRING), mode : Seq(STRING),
     match : Seq(STRING), mint : Seq(STRING), inline : Seq(STRING), auth : Seq(STRING)]

InjectionAssumption ==
    /\ Annotations \subseteq AnnotationSets
    /\ Positive \subseteq Numbers
    /\ {<<"8090">>, <<"8091">>} \subseteq Digits /\ \A d \in Digits : d = <<d[1]>>
    /\ <<"media-signing">> \in LongSecrets /\ <<"media-internal-token">> \in LongSecrets
    /\ MaxCopies \in Nat
    /\ \A w \in Workloads : w.containers \in Seq(Containers) /\ w.inits \in Seq(Containers)
    /\ \A w \in Workloads : \A i \in DOMAIN w.containers :
          w.containers[i].name \notin {Sidecar, Proxy}

ASSUME InjectionAssumption

-----------------------------------------------------------------------------
(* parseAnnotations and injectPod. *)

\* Default skips a pod with an annotation that is malformed, whichever it asks for.
Malformed(a) ==
    \/ a.sidecar /\ a.volume \notin {Unset, <<"empty">>} \cup Labels
    \/ a.proxy /\ a.port \notin {Unset} \cup Numbers
    \/ a.proxy /\ a.auth \notin {Unset} \cup Labels

HasContainer_No(p, name) == FALSE

HasContainer(p, name) == \E i \in DOMAIN p.containers : p.containers[i].name = name

Path(a) == Or(a.path, <<"/", "data">>)

\* mountIfAbsent, for a container that is not an injected one.
Mounting(c, path) ==
    IF \/ c.name \in {Sidecar, Proxy}
       \/ \E m \in c.mounts : m.volume = MediaVolume \/ m.path = path
    THEN c
    ELSE [c EXCEPT !.mounts = @ \cup
             {[volume |-> MediaVolume, path |-> path, readOnly |-> FALSE]}]

EachMounting(containers, path) ==
    [i \in DOMAIN containers |-> Mounting(containers[i], path)]

WithMediaVolume(volumes, a) ==
    IF \E v \in volumes : v.name = MediaVolume THEN volumes
    ELSE volumes \cup {[name |-> MediaVolume,
                        claim |-> IF a.volume = <<"empty">> THEN Unset ELSE a.volume,
                        readOnly |-> a.volume \notin {Unset, <<"empty">>}]}

PublicUrl_AnnotationOnly(p, a) == a.url

\* Without an annotation, the Service <workload>-media inside the cluster; the workload is
\* "" for a pod that has no name yet.
PublicUrl(p, a) == Or(a.url, <<"http", "8090", p.target, "-media">>)

SidecarContainer(p, a) ==
    [name |-> Sidecar, ports |-> <<"8090", "8091">>,
     env |-> [MEDIA_PUBLIC_BASE_URL |-> PublicUrl(p, a),
              MEDIA_INTERNAL_TOKEN |-> <<"media-internal-token">>,
              MEDIA_SIGNING_SECRET |-> <<"media-signing">>,
              MEDIA_ROOTS |-> Path(a)],
     mounts |-> {[volume |-> MediaVolume, path |-> Path(a), readOnly |-> TRUE]}]

AddSidecar(p, a) ==
    IF ~a.sidecar \/ HasContainer(p, Sidecar) THEN p
    ELSE [p EXCEPT !.containers = EachMounting(@ \o <<SidecarContainer(p, a)>>, Path(a)),
                   !.inits = EachMounting(@, Path(a)),
                   !.volumes = WithMediaVolume(@, a)]

ResolveMintURL_Localhost(a) == Or(a.mint, <<"http", "8091", "localhost">>)

ResolveMintURL(a) ==
    CASE a.mint # Unset -> a.mint
      [] a.mint = Unset /\ a.group # Unset ->
            <<"http", "8091", a.group[1], "-sidecar-service">>
      [] a.mint = Unset /\ a.group = Unset /\ a.sidecar -> <<"http", "8091", "localhost">>
      [] OTHER -> Unset

Mode(a) == Or(a.mode, <<"full">>)

ProxyContainer_Leftovers(a) ==
    [name |-> Proxy, ports |-> <<"5780">>,
     env |-> [PROXY_MODE |-> Mode(a),
              MEDIA_INTERNAL_TOKEN |-> <<"media-internal-token">>,
              UPSTREAM_MCP_URL |-> IF a.port # Unset
                                   THEN <<"http", a.port[1], "localhost">> ELSE Unset,
              TOOL_MATCH |-> a.match,
              INLINE_MAX_BYTES |-> a.inline,
              MINT_URL |-> ResolveMintURL(a),
              MEDIA_AUTH_TOKEN |-> a.auth],
     mounts |-> {}]

\* A variable that is not set reads as "": os.Getenv does not tell them apart.
ProxyContainer(a) ==
    [name |-> Proxy, ports |-> <<"5780">>,
     env |-> [PROXY_MODE |-> Mode(a),
              MEDIA_INTERNAL_TOKEN |-> <<"media-internal-token">>,
              UPSTREAM_MCP_URL |-> IF Mode(a) # <<"standalone">> /\ a.port # Unset
                                   THEN <<"http", a.port[1], "localhost">> ELSE Unset,
              TOOL_MATCH |-> IF Mode(a) = <<"full">> THEN a.match ELSE Unset,
              INLINE_MAX_BYTES |-> a.inline,
              MINT_URL |-> ResolveMintURL(a),
              MEDIA_AUTH_TOKEN |-> a.auth],
     mounts |-> {}]

AddProxy(p, a) ==
    IF ~a.proxy \/ HasContainer(p, Proxy) THEN p
    ELSE [p EXCEPT !.containers = Append(@, ProxyContainer(a))]

InjectPod_Unlabelled(p, a) == AddProxy(AddSidecar(p, a), a)

InjectPod(p, a) ==
    [AddProxy(AddSidecar(p, a), a) EXCEPT !.injected = @ \/ a.sidecar \/ a.proxy]

-----------------------------------------------------------------------------
(* loadConfig of the two programs, over the environment of their container. *)

SidecarAccepts(env) ==
    /\ env.MEDIA_SIGNING_SECRET \in LongSecrets
    /\ env.MEDIA_INTERNAL_TOKEN # Unset
    /\ HttpUrl(env.MEDIA_PUBLIC_BASE_URL)
    /\ Absolute(Or(env.MEDIA_ROOTS, <<"/", "data">>))

\* PROXY_MODE "" is auto-detected; the webhook always sets it.
ConfigMode(env) ==
    CASE env.PROXY_MODE # Unset -> env.PROXY_MODE
      [] env.PROXY_MODE = Unset /\ env.UPSTREAM_MCP_URL = Unset -> <<"standalone">>
      [] OTHER -> <<"full">>

ProxyAccepts(env) ==
    /\ \/ /\ ConfigMode(env) = <<"standalone">>
          /\ env.UPSTREAM_MCP_URL = Unset /\ env.TOOL_MATCH = Unset
       \/ /\ ConfigMode(env) = <<"full">>
          /\ HttpUrl(env.UPSTREAM_MCP_URL)
          /\ env.TOOL_MATCH \in {Unset} \cup Regexes
    /\ HttpUrl(env.MINT_URL)
    /\ env.MEDIA_INTERNAL_TOKEN # Unset
    /\ env.MEDIA_AUTH_TOKEN \in {Unset} \cup LongSecrets
    /\ env.INLINE_MAX_BYTES \in {Unset} \cup Positive

Accepts(c) ==
    \/ c.name = Sidecar /\ SidecarAccepts(c.env)
    \/ c.name = Proxy /\ ProxyAccepts(c.env)

-----------------------------------------------------------------------------

Init ==
    /\ \E w \in Workloads, a \in Annotations :
          pod = [target |-> w.target, containers |-> w.containers, inits |-> w.inits,
                 volumes |-> w.volumes, ann |-> a, injected |-> FALSE]
    /\ stage = "created"
    /\ gate \in Gates
    /\ asked = [c \in {} |-> Unset]
    /\ running = {}
    /\ copies = 0

\* What each injected container was asked for with: the annotations of that admission.
Asked(p, a) ==
    [name \in {n \in {Sidecar, Proxy} : HasContainer(p, n)} |->
        IF name \in DOMAIN asked THEN asked[name] ELSE a]

\* PodCustomDefaulter.Default, which never refuses a pod.  The namespace is "unknown" when
\* its lookup fails.
Admit ==
    /\ stage = "created"
    /\ stage' = "admitted"
    /\ IF gate = "enabled" /\ ~Malformed(pod.ann) /\ (pod.ann.sidecar \/ pod.ann.proxy)
       THEN pod' = InjectPod(pod, pod.ann) /\ asked' = Asked(pod', pod.ann)
       ELSE UNCHANGED <<pod, asked>>
    /\ UNCHANGED <<gate, running, copies>>

\* The kubelet starts the containers.
Start ==
    /\ stage = "admitted"
    /\ stage' = "running"
    /\ running' = {pod.containers[i].name :
                      i \in {j \in DOMAIN pod.containers : Accepts(pod.containers[j])}}
    /\ UNCHANGED <<pod, gate, asked, copies>>

\* The stored pod is submitted again, asking for other containers perhaps.
Resubmit ==
    /\ stage \in {"admitted", "running"} /\ copies < MaxCopies
    /\ stage' = "created" /\ copies' = copies + 1 /\ running' = {}
    /\ \E s, p \in BOOLEAN :
          pod' = [pod EXCEPT !.ann = [@ EXCEPT !.sidecar = s, !.proxy = p]]
    /\ gate' \in Gates
    /\ UNCHANGED asked

Next == Admit \/ Start \/ Resubmit

Spec == Init /\ [][Next]_vars

-----------------------------------------------------------------------------
(* What the webhook promises. *)

TypeOK ==
    /\ stage \in {"created", "admitted", "running"} /\ gate \in Gates
    /\ copies \in 0..MaxCopies
    /\ pod.ann.sidecar \in BOOLEAN /\ pod.ann.proxy \in BOOLEAN
    /\ DOMAIN asked = {n \in {Sidecar, Proxy} : HasContainer(pod, n)}
    /\ running \subseteq DOMAIN asked
    /\ pod.injected <=> DOMAIN asked # {}

\* Injecting is idempotent: a pod that was admitted, submitted once more and admitted
\* again does not change, whatever was edited and injected before.
Idempotent ==
    stage # "created" /\ gate = "enabled" /\ ~Malformed(pod.ann) =>
        InjectPod(pod, pod.ann) = pod

\* A sidecar that the webhook injected accepts its configuration, unless an annotation
\* says otherwise: no value it makes up is refused.
SidecarStarts ==
    stage = "running" /\ Sidecar \in DOMAIN asked =>
        LET a == asked[Sidecar]
        IN  (a.url = Unset \/ HttpUrl(a.url)) /\ (a.path = Unset \/ Absolute(a.path)) =>
                Sidecar \in running

\* Annotations the proxy can make something of, and a way to a mint API.
Sound(a) ==
    /\ a.mode \in {Unset, <<"full">>, <<"standalone">>}
    /\ Mode(a) = <<"full">> => a.match \in {Unset} \cup Regexes
    /\ a.inline \in {Unset} \cup Positive
    /\ a.auth \in {Unset} \cup LongSecrets
    /\ IF a.mint # Unset THEN HttpUrl(a.mint) ELSE a.group # Unset \/ a.sidecar

\* A proxy that the webhook injected accepts its configuration when its annotations are
\* sound, with an upstream port unless it is standalone, one without a sign: nothing that is
\* left over from the other mode makes it refuse to start.
ProxyStarts ==
    stage = "running" /\ Proxy \in DOMAIN asked =>
        LET a == asked[Proxy]
        IN  Sound(a) /\ (Mode(a) = <<"full">> => a.port \in Digits) => Proxy \in running

\* A proxy that mints via localhost without having been told to has the sidecar in its pod,
\* however the pod was copied and edited since.
LocalMintHasSidecar ==
    \A i \in DOMAIN pod.containers :
        LET c == pod.containers[i]
        IN  c.name = Proxy /\ c.env.MINT_URL = <<"http", "8091", "localhost">> =>
                asked[Proxy].mint # Unset \/ HasContainer(pod, Sidecar)

\* Without upstream-port the proxy's upstream is the port of the main container.
UpstreamDetected ==
    stage = "running" /\ Proxy \in DOMAIN asked =>
        LET a == asked[Proxy]
        IN  Sound(a) /\ a.port \in {Unset} \cup Digits /\ pod.containers[1].ports # <<>> =>
                Proxy \in running

\* A mount is read-only to the kubelet when it or its claim says so.
Writable(p, m) ==
    ~m.readOnly /\ \A v \in p.volumes : v.name = m.volume => ~v.readOnly

\* The workload's own containers can write the media volume they were given.
WorkloadWrites ==
    stage = "running" /\ Sidecar \in DOMAIN asked =>
        \A i \in DOMAIN pod.containers : \A m \in pod.containers[i].mounts :
            pod.containers[i].name # Sidecar /\ m.volume = MediaVolume => Writable(pod, m)

=============================================================================
