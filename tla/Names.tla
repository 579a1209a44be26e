------------------------------- MODULE Names -------------------------------
(***************************************************************************)
(* The names under which the server publishes tunnels: the domains it is   *)
(* started with, the URL that registerVhost gives to a request, and the    *)
(* lookup of httpHandler.  Everything here is an operator; the state is in *)
(* the modules that use it.                                                *)
(*                                                                         *)
(* A host is a label under a domain, with a port or None.  A domain name   *)
(* is one value, so that domains are not nested in each other; the label   *)
(* None is the domain itself.  Letter case and spaces, which every         *)
(* function of the code removes first, are left out.                       *)
(***************************************************************************)
EXTENDS Naturals, Sequences, SequencesExt

CONSTANTS
    None,           \* no label, no port
    Badly           \* a label that validHostnameLabel refuses

Host(l, d, p) == [label |-> l, dom |-> d, port |-> p]
Url(protocol, host) == [protocol |-> protocol, host |-> host]

\* the loop that keeps some elements of a list: those at the positions I, in their order
Selected(s, I) ==
    LET kept[i \in 0..Len(s)] ==
            IF i = 0 THEN <<>> ELSE IF i \in I THEN Append(kept[i - 1], s[i]) ELSE kept[i - 1]
    IN  kept[Len(s)]
Without(s, X) == Selected(s, {i \in DOMAIN s : s[i] \notin X})
Distinct(s) == Selected(s, {i \in DOMAIN s : \A j \in 1..(i - 1) : s[j] # s[i]})
AppendNew(s, e) == IF Contains(s, e) THEN s ELSE Append(s, e)

\* main.configuredDomains: -domain first, then the domains of -domainCert
ConfiguredDomains(domain, certDomains) == Distinct(<<domain>> \o certDomains)

DefaultPort(protocol) == IF protocol = "https" THEN 443 ELSE 80

\* publicVhosts: VHOST of the environment, or else every configured domain with the port
\* that is listened on; the default port of the protocol is cut off
PublicVhosts(protocol, servingPort, env, domains) ==
    LET raw == IF env # <<>> THEN env
               ELSE [i \in 1..Len(domains) |-> Host(None, domains[i], servingPort)]
        cut(h) == IF h.port = DefaultPort(protocol) THEN [h EXCEPT !.port = None] ELSE h
    IN  Distinct([i \in 1..Len(raw) |-> cut(raw[i])])

ValidHostnameLabel(l) == l # Badly
ValidHostname(h) == h.port = None /\ (h.label = None \/ ValidHostnameLabel(h.label))
StripHostPort(h) == [h EXCEPT !.port = None]

\* the host name is a public host itself or lies under one
HostnameAllowed(h, vhosts) ==
    \E i \in 1..Len(vhosts) :
        LET v == StripHostPort(vhosts[i]) IN h = v \/ (v.label = None /\ h.dom = v.dom)

\* what registerVhost asks the registry for: a set with the URL, or the empty set when it
\* refuses; the random name of a request without names is the label "random"
VhostUrl(protocol, vhosts, hostname, subdomain) ==
    IF vhosts = <<>> THEN {}
    ELSE IF hostname # None
         THEN IF ValidHostname(hostname) /\ HostnameAllowed(hostname, vhosts)
              THEN {Url(protocol, hostname)} ELSE {}
    ELSE IF subdomain # None
         THEN IF ValidHostnameLabel(subdomain)
              THEN {Url(protocol, Host(subdomain, vhosts[1].dom, vhosts[1].port))} ELSE {}
    ELSE {Url(protocol, Host("random", vhosts[1].dom, vhosts[1].port))}

\* httpHandler: the listener's protocol and the Host header as the visitor sent it
HandlerUrl(protocol, hostHeader) == Url(protocol, hostHeader)
=============================================================================
