----------------------------- MODULE MCGateway -----------------------------
(* Environments of Gateway for TLC: each form of each setting.             *)
EXTENDS Gateway

Env(listen, port, path) ==
  [SSH_LISTEN_ADDR |-> listen, SSH_PORT |-> port, hostKeyPath |-> path]

Named == [form |-> "service", port |-> 22]
NoPort == [form |-> "empty", port |-> 0]
Refused == [form |-> "other", port |-> 0]

Environs ==
  {Env(Unset, Unset, TRUE), Env(Unset, Unset, FALSE), Env(Unset, Port(2200), TRUE),
   Env(Port(22), Port(2200), TRUE), Env(Named, Unset, TRUE), Env(NoPort, Unset, TRUE),
   Env(Refused, Unset, TRUE), Env(Port(70000), Unset, TRUE)}
=============================================================================
