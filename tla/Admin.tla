------------------------------- MODULE Admin -------------------------------
(***************************************************************************)
(* The administration service (ngrok-admin), the files it writes, and the  *)
(* programs that read them: nginx and the server.                          *)
(*                                                                         *)
(* net/http serves every request in a goroutine of its own, and no lock is *)
(* held but for the administrator and the sessions in memory.  A request   *)
(* that changes a file reads it, computes, and calls writeFileRoot, which   *)
(* opens and truncates path.tmp, fills it and renames it; each of these is *)
(* a step.  A path leads to a node; a request that has opened a node keeps *)
(* writing to it whatever the path leads to since.                         *)
(*                                                                         *)
(* External: acme.sh installs a pair in two steps and may fail or be       *)
(* killed at its time limit; systemd starts the server again while it      *)
(* fails; nginx keeps its configuration when the new one is wrong.  DNS is *)
(* taken to be set up.  Pages that only show something are operators       *)
(* (SetupSteps), not actions.                                              *)
(***************************************************************************)
EXTENDS AdminConfig, FiniteSets

CONSTANTS
    Requests,       \* requests that may be in work at one time
    MaxRequests,    \* bound: requests that change a file, in all
    MaxBuild,       \* bound: builds of the server, in all
    Admins, NoAdmin,\* names of administrators
    Broken,         \* the content of a file of which only parts are of one writer
    Deployments     \* the states a machine may be in when ngrok-admin comes to it

Files == {"env", "nginx", "admin", "bin", "unit"}
Contents(f) ==
    CASE f = "env" -> Configs [] f = "nginx" -> NginxConfigs [] f = "admin" -> Admins
      [] f = "bin" -> 0..MaxBuild [] f = "unit" -> {"unit"}

\* an additional certificate that the configuration names has been installed at some time
ArgsInstalled(pairs, c) ==
    \A i \in DOMAIN c.args : c.args[i] # OtherArg => pairs[c.args[i].dir] # "none"

\* what may be on a machine: whole files, and a configuration that is in step
IsDeployment(m) ==
    /\ \A f \in Files : m[f] = Absent \/ m[f] \in Contents(f)
    /\ m.env # Absent => InStep(m.env) /\ ArgsInstalled(m.certs, m.env)
    /\ m.certs \in [Dirs -> {"none", "pair", "mixed"}]
    /\ m.built \in [server : 0..MaxBuild, client : BOOLEAN]
    /\ m.server.state \in {"stopped", "active", "retrying"}

ASSUME AdminAssumption ==
    /\ IsFiniteSet(Requests) /\ MaxRequests \in Nat /\ MaxBuild \in Nat
    /\ Absent # Empty /\ Absent # Broken /\ Empty # Broken
    /\ \A f \in Files : Absent \notin Contents(f) /\ Empty \notin Contents(f) /\ Broken \notin Contents(f)
    /\ NoAdmin \notin Admins /\ Example \notin Domains /\ OtherArg \notin CertArgs
    /\ None \notin Nat /\ None # "app" /\ Badly # "app"
    /\ \A d \in Domains : Host("app", d, None) # None
    /\ \A m \in Deployments : IsDeployment(m)

VARIABLES
    up,             \* whether ngrok-admin runs
    mem,            \* a.state: the administrator in memory
    session,        \* whether the browser has a session that is in a.sessions
    req,            \* [Requests -> record]: the position of each request and what it holds
    node, tmp,      \* [Files -> Nodes0]: what path and path.tmp lead to, 0 when to nothing
    data,           \* [Files -> [Nodes -> content]]
    certs,          \* [directories -> "none", "pair", "mixed"]: the pairs of acme.sh
    nginx,          \* the configuration that nginx runs with
    server,         \* the server under systemd, with the options it was started with
    built,          \* in the work directory: the server's version (0: none), a client
    left, clash     \* requests left; files that two requests were writing (or two setups
                    \* were going to write) at one time

files == <<node, tmp, data>>
memory == <<up, mem, session>>
outside == <<certs, nginx, server, built>>
vars == <<memory, req, files, outside, left, clash>>

Nodes == 1..(Cardinality(Requests) + 1)
Idle == [pc |-> "idle"]
Writing(file, val, then) == [pc |-> "open", file |-> file, val |-> val, then |-> then]

Content(f) == IF node[f] = 0 THEN Absent ELSE data[f][node[f]]
HasOpen(r, f) == req[r].pc \in {"fill", "rename"} /\ req[r].file = f
FreeNodes(f) == Nodes \ ({node[f], tmp[f]} \cup {req[r].fd : r \in {q \in Requests : HasOpen(q, f)}})

Init == \E m \in Deployments :
    /\ up = TRUE /\ mem = (IF m.admin = Absent THEN NoAdmin ELSE m.admin) /\ session = FALSE
    /\ req = [r \in Requests |-> Idle]
    /\ node = [f \in Files |-> IF m[f] = Absent THEN 0 ELSE 1]
    /\ tmp = [f \in Files |-> 0]
    /\ data = [f \in Files |-> [i \in Nodes |-> IF i = 1 /\ m[f] # Absent THEN m[f] ELSE Empty]]
    /\ certs = m.certs /\ nginx = m.loaded /\ built = m.built /\ server = m.server
    /\ left = MaxRequests /\ clash = {}

\* what a request holds at its position; only a setup goes on to assign what it has written
Thens(f) == IF f = "admin" THEN {"assign"} ELSE {"done", "unit", "restart"}
IsRequest(q) ==
    \/ q \in [pc : {"idle", "unit", "restart"}]
            \cup [pc : {"assign"}, name : Admins]
            \cup [pc : {"nginx"}, cfg : Configs]
            \cup [pc : {"add"}, cfg : Configs, d : AllNames, h : Controls]
            \cup [pc : {"delete", "issuing", "install", "installed", "compute"}, cfg : Configs, d : Domains]
    \/ /\ q.pc = "open"
       /\ q \in [pc : {"open"}, file : Files, val : Contents(q.file), then : Thens(q.file)]
    \/ /\ q.pc \in {"fill", "rename"}
       /\ q \in [pc : {"fill", "rename"}, file : Files, val : Contents(q.file), then : Thens(q.file),
                 fd : Nodes]
IsWriting(r) == req[r].pc \in {"open", "fill", "rename"}

TypeOK ==
    /\ up \in BOOLEAN /\ session \in BOOLEAN /\ mem \in Admins \cup {NoAdmin}
    /\ req = [r \in Requests |-> req[r]] /\ \A r \in Requests : IsRequest(req[r])
    /\ node \in [Files -> Nodes \cup {0}] /\ tmp \in [Files -> Nodes \cup {0}]
    /\ data = [f \in Files |-> [n \in Nodes |-> data[f][n]]]
    /\ \A f \in Files, n \in Nodes :
          data[f][n] \in {Empty} \cup (IF f = "env" THEN {} ELSE {Broken}) \cup Contents(f)
    /\ certs \in [Dirs -> {"none", "pair", "mixed"}]
    /\ server.state \in {"stopped", "active", "retrying"}
    /\ built \in [server : 0..MaxBuild, client : BOOLEAN]
    /\ left \in 0..MaxRequests /\ clash \subseteq Files

\* a request moves on and nothing else changes
Goes(r, to) == req' = [req EXCEPT ![r] = to]

(* --- writeFileRoot --- *)

\* mutant: the file is written in place
WriteOpen_InPlace(r) ==
    /\ req[r].pc = "open"
    /\ LET f == req[r].file
           i == IF node[f] # 0 THEN node[f] ELSE CHOOSE n \in FreeNodes(f) : TRUE
       IN  /\ tmp' = [tmp EXCEPT ![f] = i]
           /\ data' = [data EXCEPT ![f][i] = Empty]
           /\ Goes(r, [pc |-> "fill", file |-> f, val |-> req[r].val, then |-> req[r].then, fd |-> i])
    /\ UNCHANGED <<memory, node, outside, left, clash>>
WriteOpen(r) ==
    /\ req[r].pc = "open"
    /\ LET f == req[r].file
           i == IF tmp[f] # 0 THEN tmp[f] ELSE CHOOSE n \in FreeNodes(f) : TRUE
       IN  /\ tmp' = [tmp EXCEPT ![f] = i]
           /\ data' = [data EXCEPT ![f][i] = Empty]
           /\ Goes(r, [pc |-> "fill", file |-> f, val |-> req[r].val, then |-> req[r].then, fd |-> i])
           /\ clash' = IF \E q \in Requests \ {r} : HasOpen(q, f) THEN clash \cup {f} ELSE clash
    /\ UNCHANGED <<memory, node, outside, left>>

\* Both writers begin at the first byte: what the longer of them wrote beyond the end of the
\* shorter stays.  The environment file is read line by line, and its last lines are these.
Overlaid(f, old, new) ==
    IF old = Empty THEN {new}
    ELSE IF f = "env" /\ old # Broken
         THEN {new, [new EXCEPT !.vhost = old.vhost], [new EXCEPT !.vhost = old.vhost, !.args = old.args]}
         ELSE {new, Broken}

WriteFill(r) ==
    /\ req[r].pc = "fill"
    /\ LET f == req[r].file
       IN  \E c \in Overlaid(f, data[f][req[r].fd], req[r].val) :
              data' = [data EXCEPT ![f][req[r].fd] = c]
    /\ Goes(r, [req[r] EXCEPT !.pc = "rename"])
    /\ UNCHANGED <<memory, node, tmp, outside, left, clash>>

AfterWrite(w) ==
    CASE w.then = "done" -> Idle
      [] w.then = "assign" -> [pc |-> "assign", name |-> w.val]
      [] w.then = "unit" -> [pc |-> "unit"]
      [] w.then = "restart" -> [pc |-> "restart"]

\* mutant: the error is not looked at
WriteFails_Ignored(r) ==
    /\ req[r].pc \in {"open", "fill"}
    /\ Goes(r, AfterWrite(req[r]))
    /\ UNCHANGED <<memory, files, outside, left, clash>>
\* the disk is full, or the limit of file sizes is reached: path.tmp stays as it is
WriteFails(r) ==
    /\ req[r].pc \in {"open", "fill"}
    /\ Goes(r, Idle)
    /\ UNCHANGED <<memory, files, outside, left, clash>>

\* the other writer has renamed the file: Chmod and Rename find nothing.  The node that the path
\* led to is gone, unless somebody has it open.
WriteRename(r) ==
    /\ req[r].pc = "rename"
    /\ LET f == req[r].file
           gone == {node[f]} \ {req[q].fd : q \in {p \in Requests \ {r} : HasOpen(p, f)}}
       IN  IF tmp[f] = 0 THEN Goes(r, Idle) /\ UNCHANGED files
           ELSE /\ node' = [node EXCEPT ![f] = tmp[f]]
                /\ tmp' = [tmp EXCEPT ![f] = 0]
                /\ data' = [data EXCEPT ![f] = [i \in Nodes |-> IF i \in gone THEN Empty ELSE @[i]]]
                /\ Goes(r, AfterWrite(req[r]))
    /\ UNCHANGED <<memory, outside, left, clash>>

(* --- the administrator and the sessions --- *)

\* handleSetup up to saveAdminState; the setup key is the right one.  A second setup that
\* comes before the first has assigned finds no administrator either.
SettingUp(r) == req[r].pc = "assign" \/ (IsWriting(r) /\ req[r].file = "admin")
SaveAdminState(a) == Writing("admin", a, "assign")
Setup(r, a) ==
    /\ up /\ req[r].pc = "idle" /\ left > 0
    /\ mem = NoAdmin
    /\ left' = left - 1
    /\ Goes(r, SaveAdminState(a))
    /\ clash' = IF \E q \in Requests : SettingUp(q) THEN clash \cup {"admin"} ELSE clash
    /\ UNCHANGED <<memory, files, outside>>

\* setSession and clearSession
SetSession == session' = TRUE
ClearSession == session' = FALSE

SetupAssigns(r) ==
    /\ req[r].pc = "assign"
    /\ mem' = req[r].name /\ SetSession
    /\ Goes(r, Idle)
    /\ UNCHANGED <<up, files, outside, left, clash>>

\* handleLogin with a password that checkPassword accepts
Login ==
    /\ up /\ mem # NoAdmin /\ SetSession
    /\ UNCHANGED <<up, mem, req, files, outside, left, clash>>

\* handleLogout, or twelve hours have passed
SessionEnds ==
    /\ up /\ ClearSession
    /\ UNCHANGED <<up, mem, req, files, outside, left, clash>>

Crash ==
    /\ up /\ up' = FALSE /\ session' = FALSE /\ mem' = NoAdmin
    /\ req' = [r \in Requests |-> Idle]
    /\ UNCHANGED <<files, outside, left, clash>>

\* newApp: loadAdminState takes a file that is not there or is empty for no administrator,
\* and one that it cannot parse for an error
Restart ==
    /\ ~up /\ Content("admin") # Broken
    /\ up' = TRUE
    /\ mem' = IF Content("admin") \in {Absent, Empty} THEN NoAdmin ELSE Content("admin")
    /\ UNCHANGED <<session, req, files, outside, left, clash>>

(* --- the configuration --- *)

\* requireAuth, at the beginning of every other handler
Authorized(r) == up /\ req[r].pc = "idle" /\ mem # NoAdmin /\ session

Begin(r, to) ==
    /\ Authorized(r) /\ left > 0
    /\ left' = left - 1
    /\ Goes(r, to)
    /\ UNCHANGED <<memory, files, outside, clash>>

ReadConfig == ReadServerConfig(Content("env"))

Config(r) == \E token \in Tokens \cup {NoToken, ChangeMe}, new \in Tokens, addr \in {"default", "other"} :
    LET c == ConfigForm(ReadConfig, token, addr, new)
    IN  Validate(c) /\ Begin(r, Writing("env", c, "done"))

CertificateDomain(r) == \E d \in AllNames : \E h \in {NoControl, Control("own", d)} :
    Begin(r, [pc |-> "add", cfg |-> ReadConfig, d |-> d, h |-> h])

CertificateDomainDelete(r) == \E d \in Domains :
    Begin(r, [pc |-> "delete", cfg |-> ReadConfig, d |-> d])

\* the checks of acme.sh and of DNS have passed; nobody can prove that example.com is theirs
CertificateIssue(r) == \E d \in Domains :
    Begin(r, [pc |-> "issuing", cfg |-> ReadConfig, d |-> d])

\* the file is read a second time (configuredDomainList), then written
DomainSaved(r) ==
    /\ req[r].pc = "add"
    /\ Goes(r, Writing("env", AddDomain(Content("env"), req[r].cfg, req[r].d, req[r].h), "done"))
    /\ UNCHANGED <<memory, files, outside, left, clash>>

DomainDeleted(r) ==
    /\ req[r].pc = "delete"
    /\ Goes(r, IF DomainKnown(Content("env"), req[r].cfg, req[r].d)
               THEN Writing("env", RemoveDomain(Content("env"), req[r].cfg, req[r].d), "done") ELSE Idle)
    /\ UNCHANGED <<memory, files, outside, left, clash>>

(* --- issueWithAcmeSH --- *)

\* acme.sh --issue; the first file of --install-cert; the second
AcmeIssued(r) ==
    /\ req[r].pc = "issuing"
    /\ Goes(r, [req[r] EXCEPT !.pc = "install"])
    /\ UNCHANGED <<memory, files, outside, left, clash>>

FirstInstalled(r) ==
    /\ req[r].pc = "install"
    /\ certs' = [certs EXCEPT ![req[r].d] = "mixed"]
    /\ Goes(r, [req[r] EXCEPT !.pc = "installed"])
    /\ UNCHANGED <<memory, files, nginx, server, built, left, clash>>

SecondInstalled(r) ==
    /\ req[r].pc = "installed"
    /\ certs' = [certs EXCEPT ![req[r].d] = "pair"]
    /\ Goes(r, [req[r] EXCEPT !.pc = "compute"])
    /\ UNCHANGED <<memory, files, nginx, server, built, left, clash>>

\* mutant: the error is not looked at
AcmeFails_Ignored(r) ==
    /\ req[r].pc \in {"issuing", "install", "installed"}
    /\ Goes(r, [req[r] EXCEPT !.pc = "compute"])
    /\ UNCHANGED <<memory, files, outside, left, clash>>
\* a command fails, or is killed at its time limit
AcmeFails(r) ==
    /\ req[r].pc \in {"issuing", "install", "installed"}
    /\ Goes(r, Idle)
    /\ UNCHANGED <<memory, files, outside, left, clash>>

\* the configuration that was read before acme.sh ran goes into the file
IssueSaved(r) ==
    /\ req[r].pc = "compute"
    /\ Goes(r, Writing("env", CertificateIssued(Content("env"), req[r].cfg, req[r].d), "done"))
    /\ UNCHANGED <<memory, files, outside, left, clash>>

(* --- nginx, builds, the service --- *)

NginxWrite(r) == Begin(r, [pc |-> "nginx", cfg |-> ReadConfig])

NginxComputed(r) ==
    /\ req[r].pc = "nginx"
    /\ Goes(r, Writing("nginx", NginxConfig(Content("env"), req[r].cfg), "done"))
    /\ UNCHANGED <<memory, files, outside, left, clash>>

\* nginx takes a configuration whose pairs it can load
Loadable(n) == n \notin {Absent, Empty, Broken} /\ \A i \in DOMAIN n.blocks : certs[n.blocks[i].dir] = "pair"

NginxReload ==
    /\ \E r \in Requests : Authorized(r)
    /\ Loadable(Content("nginx")) /\ nginx' = Content("nginx")
    /\ UNCHANGED <<memory, req, files, certs, server, built, left, clash>>

Build ==
    /\ \E r \in Requests : Authorized(r)
    /\ \/ built.server < MaxBuild /\ built' = [built EXCEPT !.server = @ + 1]
       \/ ~built.client /\ built' = [built EXCEPT !.client = TRUE]
    /\ UNCHANGED <<memory, req, files, certs, nginx, server, left, clash>>

\* LoadTLSConfig fails when one pair cannot be loaded; an empty file gives the flag
\* -maxConnections no number
Startable(env) ==
    /\ env \notin {Absent, Empty}
    /\ Content("bin") \notin {Absent, Empty, Broken}
    /\ \A d \in ServerOptions(env).dirs : certs[d] = "pair"

\* systemd starts the server with the file as it is now
Started(env) == IF Startable(env) THEN [state |-> "active", opts |-> ServerOptions(env)]
                ELSE [state |-> "retrying"]

\* systemctl restart, or enable --now on a server that does not run
ServiceStarts ==
    /\ \E r \in Requests : Authorized(r)
    /\ Content("unit") # Absent
    /\ server' = Started(Content("env"))
    /\ UNCHANGED <<memory, req, files, certs, nginx, built, left, clash>>

ServiceStops ==
    /\ \E r \in Requests : Authorized(r)
    /\ server' = [state |-> "stopped"]
    /\ UNCHANGED <<memory, req, files, certs, nginx, built, left, clash>>

\* Restart=on-failure, RestartSec=3s
SystemdRetries ==
    /\ server.state = "retrying"
    /\ server' = Started(Content("env"))
    /\ UNCHANGED <<memory, req, files, certs, nginx, built, left, clash>>

\* installServerBinary, the first of its three writes and commands
InstallServer(r) == built.server > 0 /\ Begin(r, Writing("bin", built.server, "unit"))

CanInstallUnit == Content("bin") # Absent /\ Content("env") # Absent

\* installServiceUnit, on its own or as a part of the other
InstallUnit(r) == CanInstallUnit /\ Begin(r, Writing("unit", "unit", "done"))

ServerInstallsUnit(r) ==
    /\ req[r].pc = "unit"
    /\ Goes(r, IF CanInstallUnit THEN Writing("unit", "unit", "restart") ELSE Idle)
    /\ UNCHANGED <<memory, files, outside, left, clash>>

ServerRestarted(r) ==
    /\ req[r].pc = "restart"
    /\ server' = Started(Content("env"))
    /\ Goes(r, Idle)
    /\ UNCHANGED <<memory, files, certs, nginx, built, left, clash>>

Handler(r) ==
    \/ WriteOpen(r) \/ WriteFill(r) \/ WriteFails(r) \/ WriteRename(r)
    \/ (\E a \in Admins : Setup(r, a)) \/ SetupAssigns(r)
    \/ Config(r) \/ CertificateDomain(r) \/ CertificateDomainDelete(r) \/ CertificateIssue(r)
    \/ DomainSaved(r) \/ DomainDeleted(r)
    \/ AcmeIssued(r) \/ FirstInstalled(r) \/ SecondInstalled(r) \/ AcmeFails(r) \/ IssueSaved(r)
    \/ NginxWrite(r) \/ NginxComputed(r)
    \/ InstallServer(r) \/ InstallUnit(r) \/ ServerInstallsUnit(r) \/ ServerRestarted(r)

Next ==
    \/ \E r \in Requests : Handler(r)
    \/ Login \/ SessionEnds \/ Crash \/ Restart
    \/ NginxReload \/ Build \/ ServiceStarts \/ ServiceStops \/ SystemdRetries

Spec == Init /\ [][Next]_vars

(* --- the dashboard --- *)

\* certStateForDomain looks at the certificate, not at the key: of an interrupted
\* installation it may see either file
RowOk(c, d) == certs[CertDir(c, d)] # "none" /\ CertDir(c, d) \in {d, DefaultTls}

CertificatesComplete(c, ds) == ds # <<>> /\ \A i \in DOMAIN ds : RowOk(c, ds[i])

\* readCertStatus, readServiceStatus, serverBinaryItem, serverLiveItem, hasBuiltClient
PrimaryCertIsThere(c) == certs[c.tls] # "none"
ServiceIsActive == Content("unit") # Absent /\ server.state = "active"
ServerIsBuilt == built.server > 0
ServerIsLive == Content("bin") = built.server
HasBuiltClient == built.client

\* setupSteps; the operator has set up the DNS records that the page asks for
SetupSteps(env) ==
    LET c == ReadServerConfig(env)
        ds == ConfiguredDomainList(env, c)
    IN  [config |-> env # Absent /\ Validate(c),
         domain |-> ~DefaultLikeDomain(c.domain),
         dns |-> DnsDone(env, c),
         certificate |-> /\ ~DefaultLikeDomain(c.domain) /\ PrimaryCertIsThere(c)
                         /\ CertificatesComplete(c, ds),
         nginx |-> Content("nginx") = NginxConfig(env, c),
         server_build |-> ServerIsBuilt /\ ServerIsLive,
         service |-> ServiceIsActive,
         client_build |-> HasBuiltClient,
         download |-> HasBuiltClient]

\* the pair that the server presents under a name of a domain (certificateForName)
ServerPair(env, d) == IF HasCertArg(env.args, d) THEN DomainCertArgDir(env.args, d) ELSE env.tls

(* --- properties --- *)

\* No two requests have been writing one file.
Alone(f) == f \notin clash

\* What a path leads to is always one writer's whole content, whatever crashes, full disks and
\* interrupted commands there were, as long as no two requests wrote that file at one time
\* (writeFileRoot, main.go:991).
FilesAreWhole == \A f \in Files : Alone(f) => Content(f) \notin {Empty, Broken}

\* The configuration stays in step (InStep) through any sequence and interleaving of adding,
\* deleting, issuing and saving that does not write the file twice at one time (main.go:495-642,
\* removeDomainFromConfig:1768).
DomainsInStep ==
    LET env == Content("env")
    IN  (Alone("env") /\ env \notin {Absent, Empty}) => InStep(env)

\* A server that fails to start and is started again and again by systemd has something that the
\* operator can see on the dashboard (no file, no binary, no certificate of the primary domain), or
\* an installation of a certificate was cut off between its two files (main.go:2034): an
\* additional domain's certificate is never missing.
OnlyPrimaryCertMissing ==
    LET env == Content("env")
    IN  (Alone("env") /\ env \notin {Absent, Empty}) =>
        \A d \in ServerOptions(env).dirs \ {env.tls} : certs[d] # "none"

\* The administrator in memory is the one in the file, so that a restart changes nothing, but
\* for the time in which a setup is under way and after two at one time (handleSetup, main.go:398).
AdminSurvivesRestart ==
    (up /\ Alone("admin") /\ \A r \in Requests : ~SettingUp(r)) =>
    mem = (IF Content("admin") = Absent THEN NoAdmin ELSE Content("admin"))

\* When the dashboard says "Ready" and server and nginx have been told since, a visitor of a tunnel
\* under any configured domain gets to it: nginx passes the name on with a pair of its own, the
\* server gives out the URL that httpHandler looks up for that name, and a subdomain lands under
\* the primary domain (setupSteps, nginxConfig, publicVhosts, registerVhost, httpHandler).  A client
\* with the client.yml of the dashboard is let in, and when the control host lies under the primary
\* domain it is presented a pair of that domain (clientConfig, certificateForName).
ReadyMeansServed ==
    LET env == Content("env")
        c == ReadServerConfig(env)
        ds == ConfiguredDomainList(env, c)
        o == server.opts
        vhosts == PublicVhosts("http", 8080, o.vhost, o.domains)
    IN  (/\ Alone("env") /\ NextStep(SetupSteps(env)) = "ready"
         /\ o = ServerOptions(env) /\ nginx = Content("nginx") /\ env.vhost # <<>>) =>
        /\ \A i \in DOMAIN ds :
              /\ \E j \in DOMAIN nginx.blocks : nginx.blocks[j].dom = ds[i] /\ certs[nginx.blocks[j].dir] # "none"
              /\ VhostUrl("http", vhosts, Host("app", ds[i], None), None) = {HandlerUrl("http", Host("app", ds[i], None))}
        /\ VhostUrl("http", vhosts, None, "app") = {HandlerUrl("http", Host("app", c.domain, None))}
        /\ LET yml == ClientConfig(c)
           IN  /\ yml.token = o.token
               /\ yml.server.of = c.domain =>
                     ServerPair(env, c.domain) \in {c.domain, DefaultTls} /\ certs[ServerPair(env, c.domain)] # "none"
=============================================================================
