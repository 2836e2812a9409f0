----------------------------- MODULE KnownHosts -----------------------------
(***************************************************************************)
(* How dialUpstream verifies an upstream's host key: not at all without    *)
(* SSH_KNOWN_HOSTS; against the file with it; and with                     *)
(* SSH_ACCEPT_UNKNOWN_UPSTREAM on as well, a host whose key is not in the  *)
(* file is asked for it, its answer is appended, and the dial is tried     *)
(* once more.  Connections share the file and nothing else: there is no    *)
(* lock.  What answers at an address, and with which key, is outside the   *)
(* program.                                                                *)
(***************************************************************************)
EXTENDS Sequences, Naturals

CONSTANTS
  Conns,     \* goroutines that dial
  Hosts,     \* upstream addresses
  HostKeys,  \* host keys
  Presents,  \* the keys that may answer at each address
  None,      \* no file, no key, no port
  Curated,   \* the file as an operator may have written it
  MaxLines   \* bound: lines ever appended

(* Variant for mutation: the port is left out.                             *)
HostOnly(address) == [address EXCEPT !.port = None]

(* normalizeKnownHostsHost: the port is written unless it is 22, which is  *)
(* the one knownhosts takes a line without a port to be about.             *)
Normalize(address) == IF address.port = 22 THEN [address EXCEPT !.port = None] ELSE address

Line == [host: Hosts \cup {[h EXCEPT !.port = None] : h \in Hosts}, key: HostKeys]

ASSUME HostKeysArePresented == Presents \in [Hosts -> SUBSET HostKeys]

ASSUME NoneIsNothingElse == None \notin HostKeys /\ None \notin Seq(Line)

(* An instance has a host and a port, and every port is a number.          *)
ASSUME AddressesHavePorts ==
  \A h \in Hosts : h = [host |-> h.host, port |-> h.port] /\ h.port # None

ASSUME CuratedIsFile == Curated \in Seq(Line)

VARIABLES
  policy,  \* how SSH_KNOWN_HOSTS and SSH_ACCEPT_UNKNOWN_UPSTREAM are set
  file,    \* the known_hosts file: a sequence of lines, or None
  dial     \* what each goroutine does

vars == <<policy, file, dial>>

(* callback: the lines knownhosts.New read; retried: the second ssh.Dial.  *)
PCs == {"stat", "create", "load", "dial", "fetch", "statAgain", "createAgain",
        "append", "connected", "refused"}

Closed == [pc |-> "closed"]

Dialling == [pc: PCs, host: Hosts, key: HostKeys \cup {None}, retried: BOOLEAN,
             callback: Seq(Line)]

TypeOK ==
  /\ policy \in {"unverified", "strict", "acceptNew"}
  /\ file = None \/ file \in Seq(Line)
  /\ dial \in [Conns -> Dialling \cup {Closed}]

Init ==
  /\ policy \in {"unverified", "strict", "acceptNew"}
  /\ file \in {None, <<>>, Curated}
  /\ dial = [c \in Conns |-> Closed]

----------------------------------------------------------------------------
(* What knownhosts makes of a key that a host presents.  Where the lines   *)
(* of a host disagree, whether it heeds the first or all of them is left   *)
(* open.                                                                   *)
Recorded(lines, host) ==
  {lines[n].key : n \in {m \in 1 .. Len(lines) : lines[m].host = Normalize(host)}}

Verdicts(lines, host, key) ==
  LET recorded == Recorded(lines, host) IN
    IF policy = "unverified" THEN {"accepted"}
    ELSE IF recorded = {} THEN {"unknown"}
    ELSE {v \in {"accepted", "mismatch"} :
            IF v = "accepted" THEN key \in recorded ELSE recorded # {key}}

Step(c, pc) == dial' = [dial EXCEPT ![c].pc = pc]

StartDial(c, host) ==
  /\ dial[c] = Closed
  /\ dial' = [dial EXCEPT ![c] = [
       pc |-> IF policy = "unverified" THEN "dial" ELSE "stat", host |-> host,
       key |-> None, retried |-> FALSE, callback |-> <<>>]]
  /\ UNCHANGED file

(* ensureFile, for hostKeyCallback and again before an append.             *)
Stat(c) ==
  /\ dial[c].pc \in {"stat", "statAgain"}
  /\ Step(c, CASE dial[c].pc = "stat" -> IF file = None THEN "create" ELSE "load"
               [] OTHER -> IF file = None THEN "createAgain" ELSE "append")
  /\ UNCHANGED file

(* Variant for mutation: os.Create truncates.                              *)
TruncateFile(c) ==
  /\ dial[c].pc \in {"create", "createAgain"}
  /\ file' = <<>>
  /\ Step(c, IF dial[c].pc = "create" THEN "load" ELSE "append")

(* O_CREATE leaves alone what another goroutine has created meanwhile.     *)
CreateFile(c) ==
  /\ dial[c].pc \in {"create", "createAgain"}
  /\ file' = IF file = None THEN <<>> ELSE file
  /\ Step(c, IF dial[c].pc = "create" THEN "load" ELSE "append")

(* knownhosts.New: the callback never looks at the file again.             *)
LoadKnownHosts(c) ==
  /\ dial[c].pc = "load"
  /\ dial' = [dial EXCEPT ![c].pc = "dial", ![c].callback = file]
  /\ UNCHANGED file

(* ssh.Dial with the callback: the host answers with some key.  Only the   *)
(* first dial's "key is unknown" leads to an append.                       *)
Dial(c) ==
  /\ dial[c].pc = "dial"
  /\ \E key \in Presents[dial[c].host] :
       \E verdict \in Verdicts(dial[c].callback, dial[c].host, key) :
         dial' = [dial EXCEPT
           ![c].key = key,
           ![c].pc = IF verdict = "accepted" THEN "connected"
                     ELSE IF verdict = "unknown" /\ policy = "acceptNew" /\ ~dial[c].retried THEN "fetch"
                     ELSE "refused"]
  /\ UNCHANGED file

(* Variant for mutation: nobody looks whether a key was captured.          *)
FetchNothing(c) ==
  /\ dial[c].pc = "fetch"
  /\ dial' = [dial EXCEPT ![c].pc = "statAgain", ![c].key = None]
  /\ UNCHANGED file

(* fetchAndAppendHostKey: a second connection, which accepts any key ...   *)
FetchHostKey(c) ==
  /\ dial[c].pc = "fetch"
  /\ \E key \in Presents[dial[c].host] :
       dial' = [dial EXCEPT ![c].pc = "statAgain", ![c].key = key]
  /\ UNCHANGED file

(* ... and one O_APPEND write, after which the file is loaded anew.        *)
AppendHostKey(c) ==
  /\ dial[c].pc = "append" /\ Len(file) < MaxLines
  /\ file' = Append(file, [host |-> Normalize(dial[c].host), key |-> dial[c].key])
  /\ dial' = [dial EXCEPT ![c].pc = "load", ![c].retried = TRUE]

(* A step fails (no route, a timeout, a full disk), or the connection ends. *)
CloseDial(c) ==
  /\ dial[c] # Closed
  /\ dial' = [dial EXCEPT ![c] = Closed]
  /\ UNCHANGED file

Next ==
  /\ UNCHANGED policy
  /\ \E c \in Conns :
    \/ \E host \in Hosts : StartDial(c, host)
    \/ Stat(c) \/ CreateFile(c) \/ LoadKnownHosts(c) \/ Dial(c)
    \/ FetchHostKey(c) \/ AppendHostKey(c) \/ CloseDial(c)

Spec == Init /\ [][Next]_vars

----------------------------------------------------------------------------
(* Trust is written down before it is used, though connections create,     *)
(* append to and load the file without a lock: a key that an upstream was  *)
(* accepted with is in the file, so a restart does not forget it.          *)
AcceptedKeysAreRecorded ==
  policy # "unverified" => \A c \in Conns : dial[c].pc = "connected" =>
    file # None /\ dial[c].key \in Recorded(file, dial[c].host)

(* Where unknown hosts are accepted, one that only ever has one key, and   *)
(* of which the operator's file names no other, is not refused, whichever  *)
(* connections found it unknown at the same time.                          *)
HonestHostsAreAccepted ==
  policy = "acceptNew" => \A c \in Conns : dial[c].pc = "refused" =>
    \/ Presents[dial[c].host] # {dial[c].key}
    \/ ~(Recorded(Curated, dial[c].host) \subseteq {dial[c].key})
=============================================================================
