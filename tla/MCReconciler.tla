---------------------------- MODULE MCReconciler ----------------------------
(* Small instances of Reconciler for TLC. *)
EXTENDS Reconciler, TLC

MCTexts == STRING

Wa == <<"wa">>
Src == <<"src">>
MCNames == {Wa, Media(Wa), Src}

Bare(label) == [label |-> <<label>>, domain |-> ""]
Under(label) == [label |-> <<label>>, domain |-> "example.com"]

None == [sidecar |-> FALSE, proxy |-> FALSE, upstream |-> NoPort, group |-> "", url |-> "",
         class |-> "", host |-> NoHost, issuer |-> "", secret |-> ""]

Template(ann, port, env) == [ann |-> ann, port |-> port, env |-> env, labels |-> "wa"]

\* Everything left open; everything given, with a sidecar the chart
\* placed; a sidecar alone.
Open == Template([None EXCEPT !.sidecar = TRUE, !.proxy = TRUE], 5777, <<>>)
Given == Template([None EXCEPT !.sidecar = TRUE, !.proxy = TRUE, !.upstream = 80, !.group = "g",
                               !.class = "traefik", !.issuer = "le"], NoPort, <<NoHost>>)
SidecarOnly == Template([None EXCEPT !.sidecar = TRUE], 5777, <<>>)

MCTemplates == {Open, Given, SidecarOnly}

Port(port, target) == [port |-> port, target |-> target]

Service(ports) == [ctl |-> NoOwner, selector |-> "wa", ports |-> ports, group |-> ""]
Ingress(class, issuer, tls, rules) ==
    [ctl |-> NoOwner, class |-> class, issuer |-> issuer, tls |-> tls, rules |-> rules]
Rule(host, backend) == [host |-> host, backend |-> backend]

OwnService == Service(<<Port(5777, 5777), Port(80, 8080)>>)
SrcService == Service(<<Port(80, 8080)>>)

Tls == [host |-> Bare("wa"), secret |-> "wa-tls"]
Short == Ingress("tailscale", "", NoTls, <<Rule(Bare("wa"), Wa)>>)
Full == Ingress("traefik", "le", Tls, <<Rule(Under("www"), Media(Wa)), Rule(Under("mcp"), Src)>>)
CdnIngress == Ingress("nginx", "", NoTls, <<Rule(Under("cdn"), Resource)>>)

MCCharts ==
    [Deployment  |-> {<<Wa, Open>>, <<Wa, Given>>},
     StatefulSet |-> {},
     Service     |-> {<<Wa, OwnService>>},
     Ingress     |-> {<<Wa, Short>>, <<Src, CdnIngress>>}]

Empty == [kind \in Kinds |-> [name \in MCNames |-> Gone]]
With(st, kind, name, obj) == [st EXCEPT ![kind] = [@ EXCEPT ![name] = obj]]

StsWithSidecar == [uid |-> 0, tpl |-> SidecarOnly]
DepWith(tpl) == [uid |-> 0, tpl |-> tpl]

\* A StatefulSet with its Service; a Deployment whose Ingress leads to it by its labels,
\* through a Service of another name.
MCStores ==
    {With(With(Empty, "StatefulSet", Wa, StsWithSidecar), "Service", Wa, OwnService),
     With(With(With(Empty, "Deployment", Wa, DepWith(Given)), "Service", Src, SrcService),
          "Ingress", Src, Full)}
=============================================================================
