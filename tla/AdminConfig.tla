---------------------------- MODULE AdminConfig ----------------------------
(***************************************************************************)
(* The configuration that ngrok-admin keeps in the server's environment    *)
(* file, and what its handlers compute from it.  No state: Admin has the   *)
(* requests, the files and the processes.                                  *)
(*                                                                         *)
(* A configuration is a record.  addr stands for the addresses, the log    *)
(* level and the connection limit, which are only carried along; TLSCrt    *)
(* and TLSKey are always set together and are the directory of the pair;   *)
(* args are the -domainCert arguments of NGROKD_EXTRA_ARGS with their      *)
(* directories, between whatever else stands there (OtherArg).  Domain     *)
(* names are values, of which Example is "example.com"; a control host is  *)
(* a label under a domain.  Writing quotes every value and reading unquotes *)
(* it, so that a file holds the record that was written.                   *)
(***************************************************************************)
EXTENDS Names

CONSTANTS
    Domains,        \* valid domain names other than example.com
    Example,        \* example.com
    DefaultTls,     \* the directory of the default certificate paths
    OtherArg,       \* an argument that is no -domainCert
    Tokens,         \* tokens that forms and randomToken give
    NoToken, ChangeMe, \* no token, and the one of the example file
    Absent, Empty   \* what a path leads to instead of a configuration

AllNames == Domains \cup {Example}
Dirs == AllNames \cup {DefaultTls}
Control(label, d) == [label |-> label, of |-> d]
Ngrok(d) == Control("ngrok", d)
NoControl == Control("none", Example)

\* what a configuration and nginx's file consist of
Addrs == {"default", "other"}
CertArgs == [of : Domains, dir : Dirs]
Controls == [label : {"ngrok", "own", "none"}, of : AllNames]
Configs ==
    [domain : AllNames, control : Controls, tls : Dirs, token : Tokens \cup {NoToken, ChangeMe},
     addr : Addrs, args : Seq(CertArgs \cup {OtherArg}), vhost : Seq(AllNames)]
NginxConfigs == [addr : Addrs, blocks : Seq([dom : AllNames, dir : Dirs])]

DefaultLikeDomain(d) == d = Example
DefaultLikeControlHost(h) == h = Ngrok(Example)

ApplyDefaults(c) ==
    IF DefaultLikeControlHost(c.control) THEN [c EXCEPT !.control = Ngrok(c.domain)] ELSE c

DefaultServerConfig ==
    [domain |-> Example, control |-> Ngrok(Example), tls |-> DefaultTls,
     token |-> NoToken, addr |-> "default", args |-> <<>>, vhost |-> <<>>]

\* a file that is not there or has no lines leaves every default
ReadServerConfig(content) ==
    IF content \in {Absent, Empty} THEN DefaultServerConfig ELSE ApplyDefaults(content)
EnvVhost(content) == IF content \in {Absent, Empty} THEN <<>> ELSE content.vhost

Validate(c) == c.token \notin {NoToken, ChangeMe}

\* handleConfig: the form's token and addresses into the configuration that was read
ConfigForm(c, token, addr, newToken) ==
    ApplyDefaults([c EXCEPT !.addr = addr, !.token = IF token = NoToken THEN newToken ELSE token])

(* --- domains --- *)

\* the primary domain and those of VHOST, which is read from the file once more when the
\* configuration at hand has none; example.com is not a domain
ConfiguredDomainList(env, c) ==
    LET vhost == IF c.vhost = <<>> THEN EnvVhost(env) ELSE c.vhost
    IN  Without(Distinct(<<c.domain>> \o vhost), {Example})

\* the list that the handlers add a domain to
KnownDomains(env, c) ==
    IF DefaultLikeDomain(c.domain) THEN <<>> ELSE ConfiguredDomainList(env, c)

\* appendDomain
AppendDomain(domains, d) == AppendNew(domains, d)

IsCertOf(a, d) == a # OtherArg /\ a.of = d
CertArgsOf(args, d) == {i \in DOMAIN args : IsCertOf(args[i], d)}
RemoveDomainCertArg(args, d) == Selected(args, DOMAIN args \ CertArgsOf(args, d))
UpsertDomainCertArg(args, d, dir) == Append(RemoveDomainCertArg(args, d), [of |-> d, dir |-> dir])
HasCertArg(args, d) == CertArgsOf(args, d) # {}
DomainCertArgDir(args, d) == Selected(args, CertArgsOf(args, d))[1].dir

\* the pair that serves a domain; an issued one lies in the directory of its name
ArgOrOwnDir(args, d) == IF HasCertArg(args, d) THEN DomainCertArgDir(args, d) ELSE d
CertDir(c, d) == IF d = c.domain THEN c.tls ELSE ArgOrOwnDir(c.args, d)

\* mutant: the new domain comes first
AddDomain_First(env, c, d, host) ==
    LET fresh == DefaultLikeDomain(c.domain)
    IN  [c EXCEPT !.vhost = Distinct(<<d>> \o KnownDomains(env, c)), !.domain = IF fresh THEN d ELSE @,
                  !.tls = IF fresh THEN d ELSE @,
                  !.control = IF host # NoControl THEN host ELSE @]

\* handleCertificateDomain
AddDomain(env, c, d, host) ==
    LET fresh == DefaultLikeDomain(c.domain)
        c1 == IF fresh THEN [c EXCEPT !.domain = d, !.tls = d] ELSE c
    IN  [c1 EXCEPT !.vhost = AppendDomain(KnownDomains(env, c), d),
                   !.control = IF host # NoControl THEN host
                               ELSE IF DefaultLikeControlHost(@) THEN Ngrok(c1.domain) ELSE @]

\* handleCertificateIssue, once the certificate is in its directory
CertificateIssued(env, c, d) ==
    LET fresh == DefaultLikeDomain(c.domain)
        c1 == [c EXCEPT !.vhost = AppendDomain(KnownDomains(env, c), d)]
    IN  IF fresh \/ c.domain = d
        THEN [c1 EXCEPT !.domain = d, !.tls = d,
                        !.control = IF DefaultLikeControlHost(@) THEN Ngrok(d) ELSE @]
        ELSE [c1 EXCEPT !.args = UpsertDomainCertArg(@, d, d)]

DomainKnown(env, c, d) == Contains(ConfiguredDomainList(env, c), d)

\* mutant: the argument of the domain that moves up stays
RemoveDomain_KeepsArg(env, c, d) ==
    LET rest == Without(ConfiguredDomainList(env, c), {d})
    IN  IF rest = <<>>
        THEN [c EXCEPT !.domain = Example, !.control = Ngrok(Example), !.tls = DefaultTls,
                       !.args = <<>>, !.vhost = <<>>]
        ELSE [c EXCEPT !.args = RemoveDomainCertArg(@, d), !.vhost = rest, !.domain = rest[1]]

\* removeDomainFromConfig; the caller has checked that the domain is in the list
RemoveDomain(env, c, d) ==
    LET rest == Without(ConfiguredDomainList(env, c), {d})
        c1 == [c EXCEPT !.args = RemoveDomainCertArg(@, d)]
        next == rest[1]
        moved(h) == DefaultLikeControlHost(h) \/ h.of = d
    IN  IF rest = <<>>
        THEN [c EXCEPT !.domain = Example, !.control = Ngrok(Example), !.tls = DefaultTls,
                       !.args = <<>>, !.vhost = <<>>]
        ELSE IF c.domain = d \/ DefaultLikeDomain(c.domain)
             THEN [c1 EXCEPT !.domain = next, !.tls = ArgOrOwnDir(c1.args, next),
                             !.args = RemoveDomainCertArg(@, next),
                             !.control = IF moved(@) THEN Ngrok(next) ELSE @, !.vhost = rest]
             ELSE [c1 EXCEPT !.vhost = rest]

\* each additional certificate is of one of these names, and the only one of it
ArgsInStep(args, names) ==
    \A i \in DOMAIN args : args[i] # OtherArg =>
        /\ args[i].of \in names
        /\ \A j \in DOMAIN args : IsCertOf(args[j], args[i].of) => i = j

\* A configuration names each domain once and in one role: VHOST begins with the primary domain,
\* an additional certificate is of an additional domain that VHOST lists, and a configuration
\* without domains has neither.
InStep(c) ==
    LET listed == Range(c.vhost) \ {Example}
    IN  /\ ~DefaultLikeDomain(c.domain) /\ c.vhost # <<>> => c.vhost[1] = c.domain
        /\ IsInjective(c.vhost)
        /\ ArgsInStep(c.args, listed \ {c.domain})
        /\ DefaultLikeDomain(c.domain) => listed = {}

(* --- what is derived from a configuration --- *)

\* desiredNginxConfig: one block for each domain, with its pair
NginxConfig(env, c) ==
    LET l == ConfiguredDomainList(env, c)
        ds == IF l = <<>> THEN <<c.domain>> ELSE l
    IN  [addr |-> c.addr, blocks |-> [i \in DOMAIN ds |-> [dom |-> ds[i], dir |-> CertDir(c, ds[i])]]]

\* clientConfig: the file that users of the server download
ClientConfig(c) == [server |-> c.control, token |-> c.token]

\* dnsRecordText: the records that the page asks for, each domain with its wildcard
ControlName(c) == Host(c.control.label, c.control.of, None)
DnsRecords(env, c) ==
    LET ds == IF DefaultLikeDomain(c.domain) THEN <<Example>> ELSE ConfiguredDomainList(env, c)
    IN  UNION {{Host(None, ds[i], None), Host("*", ds[i], None)} : i \in DOMAIN ds}
        \cup IF DefaultLikeDomain(c.domain) THEN {} ELSE {ControlName(c)}

\* domainDNSChecks and the check of the control host: the names that the page looks up
DnsLookups(env, c) ==
    LET ds == ConfiguredDomainList(env, c)
    IN  {ControlName(c)} \cup UNION {{Host(None, ds[i], None), Host("probe", ds[i], None)} : i \in DOMAIN ds}

\* dnsStepState, when the records are those that the page asks for
Resolves(h, records) == h \in records \/ Host("*", h.dom, None) \in records
DnsDone(env, c) ==
    ~DefaultLikeDomain(c.domain) /\ \A h \in DnsLookups(env, c) : Resolves(h, DnsRecords(env, c))

\* systemdServiceUnit: systemd hands the file's values to the server as its options
ServerOptions(content) ==
    LET c == content
        certs == Without(c.args, {OtherArg})
    IN  [domains |-> ConfiguredDomains(c.domain, [i \in DOMAIN certs |-> certs[i].of]),
         dirs |-> {c.tls} \cup {certs[i].dir : i \in DOMAIN certs},
         token |-> c.token, addr |-> c.addr,
         vhost |-> [i \in DOMAIN c.vhost |-> Host(None, c.vhost[i], None)]]

\* nextStep: the first step that is not done
StepNames == <<"config", "domain", "dns", "certificate", "nginx", "server_build", "service",
               "client_build", "download">>
NextStep(done) ==
    LET todo == Selected(StepNames, {i \in DOMAIN StepNames : ~done[StepNames[i]]}) IN IF todo = <<>> THEN "ready" ELSE todo[1]
=============================================================================
