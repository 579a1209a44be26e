----------------------------- MODULE MCClient ------------------------------
(***************************************************************************)
(* Small instances of Client for TLC: what is found when the client is     *)
(* started.                                                                *)
(***************************************************************************)
EXTENDS Client, TLC

\* a # begins a comment when the file is read again
Values == ("" :> "") @@ ("t1" :> "t1") @@ ("t2" :> "t2") @@ ("t#3" :> "t")

Local(port) == Addr("", port)
Tunnel(sub, host, protos) ==
    [sub |-> sub, host |-> host, auth |-> "", port |-> 0, proto |-> protos]

Web == Tunnel("", "", "http" :> Local("80"))
Api == Tunnel("v1", "", "https" :> Local("81"))
Site == Tunnel("", "", "http" :> Local("82") @@ "tcp" :> Addr("10.0.0.1", "22"))
Both == Tunnel("", "", "http+https" :> Local("80"))

Written(token, ts) == File([Nothing EXCEPT !.token = token, !.tunnels = ts])
TwoTunnels == Written("t1", "web" :> Web @@ "api" :> Api)
Dotted_ == Written("", "www.example.com" :> Site)
Combined == Written("t1", "both" :> Both)
Exposed(auth) == File([Nothing EXCEPT !.inspect = Addr("0.0.0.0", "4040"), !.iauth = auth,
                                      !.tunnels = "web" :> Web])
Uninspected == File([Nothing EXCEPT !.inspect = Disabled, !.tunnels = "web" :> Web])
Proxied(scheme) == File([Nothing EXCEPT !.hproxy = scheme, !.tunnels = "web" :> Web])
WithoutProto == Written("", "web" :> Tunnel("web", "", <<>>))
WrongProto == Written("", "web" :> Tunnel("web", "", "udp" :> Local("80")))
WrongAddress == Written("", "web" :> Tunnel("web", "", "http" :> Addr("localhost", "")))

Options(words, token) ==
    [explicit |-> FALSE, authtoken |-> token, inspectauth |-> "", httpauth |-> "",
     subdomain |-> "", hostname |-> "", protocols |-> {"http", "https"}, local |-> Local("8080"),
     words |-> words]
Explicit(o) == [o EXCEPT !.explicit = TRUE]

All == Options(<<"start-all">>, "")

With_(f, o, losses, refusals, pxy) ==
    [file |-> f, opts |-> o, bounds |-> [losses |-> losses, refusals |-> refusals, proxies |-> pxy]]

\* a reconnect and a visitor; refusals; files and tokens
Runs ==
    {With_(TwoTunnels, Options(<<"start-all">>, "t2"), 1, 0, 1),
     With_(TwoTunnels, Options(<<"start", "api">>, "t2"), 0, 0, 0),
     With_(Combined, All, 0, 1, 0),
     With_(Exposed("u:p"), All, 0, 2, 0),
     With_(Absent, Options(<<"8080">>, "t1"), 0, 0, 1),
     With_(Exposed(""), [Explicit(Options(<<"start", "web">>, "t#3")) EXCEPT !.inspectauth = "u:p"],
           1, 0, 0),
     With_(Dotted_, All, 0, 0, 0), With_(Uninspected, All, 1, 0, 0),
     With_(Proxied("http"), All, 0, 0, 1), With_(Absent, All, 1, 0, 0)}

\* command lines with which the client says why it does not run
Refusals ==
    {With_(s[1], s[2], 0, 0, 0) : s \in
        {<<Absent, Explicit(All)>>, <<Refused, All>>, <<Exposed(""), All>>, <<Proxied("socks5"), All>>,
         <<WithoutProto, All>>, <<WrongProto, All>>, <<WrongAddress, All>>,
         <<TwoTunnels, Options(<<"start">>, "")>>, <<TwoTunnels, Options(<<"start", "db">>, "")>>,
         <<TwoTunnels, Options(<<"list">>, "")>>, <<Absent, Options(<<>>, "")>>,
         <<Absent, Options(<<"80", "81">>, "")>>, <<Absent, Options(<<"version">>, "")>>,
         <<Absent, [Options(<<"80">>, "") EXCEPT !.protocols = {"udp"}]>>}}

Starts_ == Runs \cup Refusals
=============================================================================
