------------------------------ MODULE Settings ------------------------------
(***************************************************************************)
(* What config.MustLoad makes of the environment variables that the SSH    *)
(* side depends on.  A setting is abstracted to its form: a port number, a *)
(* service name, nothing after the colon, or something no listener takes.  *)
(***************************************************************************)
EXTENDS Naturals

\* port is the number given, or the one the service stands for.
Setting == [form: {"unset", "port", "service", "empty", "other"}, port: Nat]

Unset == [form |-> "unset", port |-> 0]
Port(n) == [form |-> "port", port |-> n]

Environment == [SSH_LISTEN_ADDR: Setting, SSH_PORT: Setting, hostKeyPath: BOOLEAN]

DefaultPort == 2222

(* sshListenAddr, envOr.                                                   *)
SSHListenAddr(e) ==
  IF e.SSH_LISTEN_ADDR # Unset THEN e.SSH_LISTEN_ADDR
  ELSE IF e.SSH_PORT # Unset THEN e.SSH_PORT ELSE Port(DefaultPort)

(* Variant for mutation: the hint is read from SSH_PORT.                   *)
PortSetting(e) == IF e.SSH_PORT.form = "port" THEN e.SSH_PORT.port ELSE DefaultPort

(* Config.SSHPort, the port in the commands that the console shows.        *)
SSHPort(e) ==
  LET address == SSHListenAddr(e) IN
    IF address.form = "port" THEN address.port ELSE DefaultPort

(* sshCommand in the console: -p is left out for the port ssh takes then.   *)
PortSuffix(port) == IF port = 22 THEN Unset ELSE Port(port)

(* ssh, with that command.                                                 *)
DialledPort(suffix) == IF suffix = Unset THEN 22 ELSE suffix.port

HighestPort == 65535

(* net.Listen: port 0, or none, is any that is free.                       *)
ListenPorts(address) ==
  CASE address.form = "service" -> {address.port}
    [] address.form = "port" /\ address.port \in 1 .. HighestPort -> {address.port}
    [] address = Port(0) \/ address.form = "empty" -> 1024 .. HighestPort
    [] OTHER -> {}
=============================================================================
