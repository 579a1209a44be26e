---------------------------- MODULE ClientConfig ----------------------------
(***************************************************************************)
(* What a run of the client is asked to do: the command line, the          *)
(* configuration file, and what LoadConfiguration makes of the two.        *)
(*                                                                         *)
(* A file is absent, or text that parseConfiguration refuses, or a         *)
(* configuration.  An address is what is written, split at its last colon; *)
(* "8080" and ":8080" both have the host "".                               *)
(***************************************************************************)
EXTENDS Naturals, Sequences

CONSTANTS
    Dotted,         \* names of tunnels with a dot in them
    ReadBack,       \* [Values -> Values]: what is read of a value that was written to the file
    EnvProxy        \* the scheme of $http_proxy, or ""

Addr(host, port) == [host |-> host, port |-> port]
NoAddr == Addr("", "")
Disabled == Addr("disabled", "")
DefaultServer == Addr("ngrokd.ngrok.com", "443")
DefaultInspect == Addr("127.0.0.1", "4040")

WellFormed(a) == a.port # ""
Normal(a) == IF a.host = "" THEN [a EXCEPT !.host = "127.0.0.1"] ELSE a
IsLoopback(a) == a.host = "127.0.0.1"

ValidProtocols == {"http", "https", "http+https", "tcp"}

NoTunnels == <<>>
Nothing == [server |-> NoAddr, inspect |-> NoAddr, iauth |-> "", hproxy |-> "", token |-> "",
            tunnels |-> NoTunnels]

\* what a configuration and the options of a run consist of
IsConfig(c) ==
    c = [server |-> c.server, inspect |-> c.inspect, iauth |-> c.iauth, hproxy |-> c.hproxy,
         token |-> c.token, tunnels |-> c.tunnels]
IsOptions(o) ==
    o = [explicit |-> o.explicit, authtoken |-> o.authtoken, inspectauth |-> o.inspectauth,
         httpauth |-> o.httpauth, subdomain |-> o.subdomain, hostname |-> o.hostname,
         protocols |-> o.protocols, local |-> o.local, words |-> o.words]

Absent == [is |-> "absent"]
Refused == [is |-> "refused"]
File(c) == [is |-> "config", config |-> c]

(***************************************************************************)
(* Reading and writing the file.  A line is "key: value"; what follows a # *)
(* and quotes around a value are not read, and are written as they are.    *)
(***************************************************************************)
Parses(f) == f # Refused
Parsed(f) == IF f = Absent THEN Nothing ELSE f.config
Formatted(c) == File([c EXCEPT !.token = ReadBack[c.token]])

(***************************************************************************)
(* ParseArgs.  "words" is what follows the flags.  The result is "error"   *)
(* or "exit", with which the program is over, or a command.                *)
(***************************************************************************)
Commands == {"list", "start", "start-all"}

ParseArgs(words) ==
    CASE words = <<>> -> "error"
      [] words # <<>> /\ words[1] \in {"version", "help"} -> "exit"
      [] words # <<>> /\ words[1] \in Commands -> words[1]
      [] words # <<>> /\ words[1] \notin Commands \cup {"version", "help"} ->
            IF Len(words) > 1 THEN "error" ELSE "default"

Args(words) == IF words[1] \in Commands THEN Tail(words) ELSE words

(***************************************************************************)
(* LoadConfiguration, in the order of its code                             *)
(***************************************************************************)
Defaults(c) ==
    [c EXCEPT !.server = IF @ = NoAddr THEN DefaultServer ELSE @,
              !.inspect = IF @ = NoAddr THEN DefaultInspect ELSE @,
              !.hproxy = IF @ = "" THEN EnvProxy ELSE @]

Guarded(c, opts) ==
    [c EXCEPT !.iauth = IF @ = "" /\ c.inspect # Disabled THEN opts.inspectauth ELSE @]

Valid(c, opts) ==
    /\ c.inspect # Disabled =>
        /\ WellFormed(c.inspect)
        /\ Guarded(c, opts).iauth # "" \/ IsLoopback(Normal(c.inspect))
    /\ WellFormed(c.server)
    /\ c.hproxy \in {"", "http", "https"}
    /\ \A n \in DOMAIN c.tunnels :
        /\ DOMAIN c.tunnels[n].proto # {}
        /\ \A k \in DOMAIN c.tunnels[n].proto :
            WellFormed(c.tunnels[n].proto[k]) /\ k \in ValidProtocols

\* a tunnel that says neither a subdomain nor a host name takes its own name
Named(n, t) ==
    CASE t.sub # "" \/ t.host # "" -> t
      [] t.sub = "" /\ t.host = "" /\ n \in Dotted -> [t EXCEPT !.host = n]
      [] t.sub = "" /\ t.host = "" /\ n \notin Dotted -> [t EXCEPT !.sub = n]

NormalTunnel(n, t) ==
    [Named(n, t) EXCEPT !.proto = [k \in DOMAIN t.proto |-> Normal(t.proto[k])]]

Normalized(c, opts) ==
    [Guarded(c, opts) EXCEPT
        !.inspect = IF @ = Disabled THEN @ ELSE Normal(@),
        !.server = Normal(@),
        !.tunnels = [n \in DOMAIN c.tunnels |-> NormalTunnel(n, c.tunnels[n])]]

\* the tunnel of "ngrok 8080": one local address for every protocol of -proto
DefaultTunnel(opts) ==
    [sub |-> opts.subdomain, host |-> opts.hostname, auth |-> opts.httpauth, port |-> 0,
     proto |-> [k \in opts.protocols |-> Normal(opts.local)]]

Runnable(c, opts, command, args) ==
    CASE command = "default" ->
            opts.protocols \subseteq ValidProtocols \ {"http+https"} /\ WellFormed(opts.local)
      [] command = "start" -> args # <<>> /\ \A i \in 1..Len(args) : args[i] \in DOMAIN c.tunnels
      [] command \in {"start-all", "list"} -> TRUE

ToRun(c, opts, command, args) ==
    CASE command = "default" -> [n \in {"default"} |-> DefaultTunnel(opts)]
      [] command = "start" -> [n \in {args[i] : i \in 1..Len(args)} |-> c.tunnels[n]]
      [] command = "start-all" -> c.tunnels

Fails == [is |-> "error"]
Listed == [is |-> "exit"]

Loadable(f, opts, command, args) ==
    /\ Parses(f) /\ ~(f = Absent /\ opts.explicit)
    /\ LET read == Defaults(Parsed(f)) IN
        Valid(read, opts) /\ Runnable(Normalized(read, opts), opts, command, args)

Loaded(f, opts, command, args) ==
    LET c == Normalized(Defaults(Parsed(f)), opts) IN
    [c EXCEPT !.token = IF opts.authtoken # "" THEN opts.authtoken ELSE @,
              !.tunnels = ToRun(c, opts, command, args)]

LoadConfiguration(f, opts, command, args) ==
    IF ~Loadable(f, opts, command, args) THEN Fails
    ELSE IF command = "list" THEN Listed ELSE File(Loaded(f, opts, command, args))

\* Main, up to NewController().Run
Start(f, opts) ==
    LET command == ParseArgs(opts.words) IN
    CASE command = "error" -> Fails
      [] command = "exit" -> Listed
      [] command \in Commands \cup {"default"} ->
            LoadConfiguration(f, opts, command, Args(opts.words))
=============================================================================
