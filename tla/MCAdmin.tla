------------------------------ MODULE MCAdmin ------------------------------
(***************************************************************************)
(* Machines on which ngrok-admin may be started, for TLC.                  *)
(***************************************************************************)
EXTENDS Admin

CONSTANTS d1, d2, t1, alice, bob

Certs(pairs) == [d \in Dirs |-> IF d \in pairs THEN "pair" ELSE "none"]
Cert(d) == [of |-> d, dir |-> d]
Config1(args, vhost) ==
    [domain |-> d1, control |-> Ngrok(d1), tls |-> d1, token |-> t1, addr |-> "default",
     args |-> args, vhost |-> vhost]
Active(env) == [state |-> "active", opts |-> ServerOptions(env)]

\* nothing but ngrok-admin
Fresh ==
    [admin |-> Absent, env |-> Absent, nginx |-> Absent, bin |-> Absent, unit |-> Absent,
     certs |-> Certs({}), loaded |-> Absent, built |-> [server |-> 0, client |-> FALSE],
     server |-> [state |-> "stopped"]]

\* after install-systemd.sh: the example file, the binary, the unit
Installed ==
    [Fresh EXCEPT !.env = [DefaultServerConfig EXCEPT !.token = ChangeMe], !.bin = 0, !.unit = "unit"]

\* everything done with ngrok-admin for two domains, the second with an additional certificate, and
\* a flag of the operator's own
Deployed ==
    LET env == Config1(<<OtherArg, Cert(d2)>>, <<d1, d2>>)
    IN  [admin |-> alice, env |-> env, nginx |-> NginxConfig(env, env), bin |-> 1, unit |-> "unit",
         certs |-> Certs({d1, d2}), loaded |-> NginxConfig(env, env),
         built |-> [server |-> 1, client |-> TRUE], server |-> Active(env)]

\* by the documents, without VHOST and ngrok-admin's files
ByHand ==
    LET env == [Config1(<<OtherArg>>, <<>>) EXCEPT !.tls = DefaultTls]
    IN  [Fresh EXCEPT !.env = env, !.certs = Certs({DefaultTls}), !.bin = 0, !.unit = "unit",
                      !.server = Active(env)]

MCDeployments == {Fresh, Installed, Deployed, ByHand}
Sym == Permutations(Requests)
=============================================================================
