---------------------------- MODULE MCInjection ----------------------------
(***************************************************************************)
(* Pods for TLC: the sidecar's annotations in every combination with sound *)
(* ones for the proxy, and the other way round.                            *)
(***************************************************************************)
EXTENDS Injection

AnnotationsOf(volumes, paths, urls, ports, modes, matches, mints, inlines, auths) ==
    [sidecar : BOOLEAN, proxy : BOOLEAN, group : {Unset, <<"whatsapp">>},
     volume : volumes, path : paths, url : urls, port : ports, mode : modes,
     match : matches, mint : mints, inline : inlines, auth : auths]

MCAnnotations ==
    AnnotationsOf({Unset, <<"empty">>, <<"store">>, <<"No Name">>},
                  {Unset, <<"/", "project">>, <<"project">>},
                  {Unset, <<"https", "", "media.example.com">>, <<"ftp", "", "media">>},
                  {<<"5777">>}, {Unset}, {Unset}, {Unset}, {Unset}, {Unset})
    \cup
    AnnotationsOf({Unset}, {Unset}, {Unset},
                  {Unset, <<"5777">>, <<"-1">>, <<"mcp">>},
                  {Unset, <<"full">>, <<"standalone">>, <<"other">>},
                  {Unset, <<"^save">>, <<"(">>},
                  {Unset, <<"http", "8091", "mint">>, <<"http", "", "">>},
                  {Unset, <<"4096">>, <<"0">>},
                  {Unset, <<"token">>, <<"pin">>})

FewAnnotations ==
    AnnotationsOf({Unset, <<"store">>}, {Unset}, {Unset}, {Unset, <<"5777">>},
                  {Unset, <<"standalone">>}, {Unset}, {Unset}, {Unset}, {Unset})

MCLabels == {<<"store">>, <<"token">>, <<"pin">>, <<"empty">>}
MCDigits == {<<"5777">>, <<"4096">>, <<"0">>, <<"8090">>, <<"8091">>}
MCNumbers == {<<"5777">>, <<"4096">>, <<"0">>, <<"-1">>}
MCPositive == {<<"5777">>, <<"4096">>}
MCRegexes == {<<"^save">>}
MCLongSecrets == {<<"media-signing">>, <<"media-internal-token">>, <<"token">>}

Main(mounts) == [name |-> "main", ports |-> <<"5777">>, env |-> <<>>, mounts |-> mounts]
OwnMount == [volume |-> "own", path |-> <<"/", "data">>, readOnly |-> FALSE]

\* A plain pod; one whose chart mounts its own volume where the media go, with an init
\* container; one that has no name yet, and already a volume of the webhook's name.
MCWorkloads ==
    {[target |-> "wa", containers |-> <<Main({})>>, inits |-> <<>>, volumes |-> {}],
     [target |-> "wa", containers |-> <<Main({OwnMount})>>,
      inits |-> <<[name |-> "init", ports |-> <<>>, env |-> <<>>, mounts |-> {}]>>,
      volumes |-> {[name |-> "own", claim |-> <<"store">>, readOnly |-> FALSE]}],
     [target |-> "", containers |-> <<Main({})>>, inits |-> <<>>,
      volumes |-> {[name |-> MediaVolume, claim |-> Unset, readOnly |-> FALSE]}]}

PlainWorkload == {w \in MCWorkloads : w.inits = <<>> /\ w.volumes = {}}
=============================================================================
