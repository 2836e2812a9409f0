----------------------------- MODULE Lifecycle -----------------------------
(***************************************************************************)
(* main, from the start of the process to its end: the steps that may end  *)
(* it, the host key that is loaded or generated, the two listeners, and    *)
(* the shutdown on a signal.  The process may be killed at any moment and  *)
(* started again; the host key file is what it leaves behind.              *)
(***************************************************************************)
EXTENDS Settings

CONSTANTS
  Environments,  \* those the process may be started in
  Keys,          \* host keys that may be generated
  None           \* no file, no key

ASSUME EnvironmentsExist == Environments # {} /\ Environments \subseteq Environment

ASSUME NoneIsNoKey == None \notin Keys /\ "cut" \notin Keys /\ None # "cut"

VARIABLES
  env,        \* the environment, the same at every start
  proc,       \* where main is
  keyFile,    \* SSH_HOST_KEY_PATH: absent, cut short, or a key
  signer,     \* the key in memory
  listening,  \* the faces that accept connections
  requests,   \* HTTP requests are being served
  served      \* every host key that clients have ever been shown

processVars == <<env, proc, keyFile, signer, listening, requests, served>>

Faces == {"ssh", "http"}

PCs == {"down", "starting", "hostKey", "writeKey", "serving", "stoppingHttp", "stoppingSsh"}

ProcessTypeOK ==
  /\ env \in Environments /\ proc \in PCs
  /\ keyFile \in Keys \cup {None, "cut"} /\ signer \in Keys \cup {None}
  /\ listening \subseteq Faces /\ requests \in BOOLEAN /\ served \subseteq Keys

ProcessInit ==
  /\ env \in Environments /\ proc = "down" /\ keyFile = None /\ signer = None
  /\ listening = {} /\ requests = FALSE /\ served = {}

----------------------------------------------------------------------------
Start ==
  /\ proc = "down"
  /\ proc' = "starting"
  /\ UNCHANGED <<env, keyFile, signer, listening, requests, served>>

(* log.Fatalf, a kill: what is in memory is gone, what was written stays.  *)
Die ==
  /\ proc' = "down" /\ signer' = None /\ listening' = {} /\ requests' = FALSE
  /\ UNCHANGED <<env, keyFile, served>>

Crash == proc # "down" /\ Die

(* The database is opened and migrated and the provider discovered.        *)
InitServices ==
  /\ proc = "starting"
  /\ \/ Die
     \/ proc' = "hostKey" /\ UNCHANGED <<env, keyFile, signer, listening, requests, served>>

Load ==
  /\ env.hostKeyPath /\ keyFile \in Keys
  /\ signer' = keyFile /\ proc' = "serving"
  /\ UNCHANGED keyFile

(* Variant for mutation: a file that cannot be read counts as absent.      *)
Regenerate ==
  /\ env.hostKeyPath
  /\ \E key \in Keys : signer' = key
  /\ keyFile' = "cut" /\ proc' = "writeKey"

(* os.WriteFile first creates an empty file.                               *)
Generate ==
  /\ env.hostKeyPath /\ keyFile = None
  /\ \E key \in Keys : signer' = key
  /\ keyFile' = "cut" /\ proc' = "writeKey"

GenerateForThisRun ==
  /\ ~env.hostKeyPath
  /\ \E key \in Keys : signer' = key
  /\ proc' = "serving"
  /\ UNCHANGED keyFile

(* loadOrGenerateHostKey: a file that cannot be read or parsed ends the    *)
(* process.                                                                *)
LoadOrGenerate ==
  /\ proc = "hostKey"
  /\ \/ Die
     \/ /\ Load \/ Generate \/ GenerateForThisRun
        /\ UNCHANGED <<env, listening, requests, served>>

(* Variant for mutation: the empty file is taken for the key.              *)
WriteNothing ==
  /\ proc = "writeKey"
  /\ signer' = "cut" /\ proc' = "serving"
  /\ UNCHANGED <<env, keyFile, listening, requests, served>>

(* A write that fails ends the process, and leaves the file as it is.      *)
WriteKey ==
  /\ proc = "writeKey"
  /\ \/ Die
     \/ /\ keyFile' = signer /\ proc' = "serving"
        /\ UNCHANGED <<env, signer, listening, requests, served>>

(* Variant for mutation: an API that cannot listen is logged and no more.  *)
ListenOrLog(face) ==
  /\ face = "ssh" /\ proc = "serving" /\ face \notin listening
  /\ listening' = listening \cup {face}
  /\ served' = served \cup {signer}
  /\ UNCHANGED <<env, proc, keyFile, signer, requests>>

(* The goroutine of a face listens, or ends the process for both.  Nothing *)
(* keeps the SSH proxy from starting to listen after the signal.           *)
Listen(face) ==
  /\ proc = "serving" \/ (face = "ssh" /\ proc \in {"stoppingHttp", "stoppingSsh"})
  /\ face \notin listening
  /\ \/ Die
     \/ /\ face = "ssh" => ListenPorts(SSHListenAddr(env)) # {}
        /\ listening' = listening \cup {face}
        /\ served' = IF face = "ssh" THEN served \cup {signer} ELSE served
        /\ UNCHANGED <<env, proc, keyFile, signer, requests>>

(* Run returns what Accept fails with, too many open files for one, and    *)
(* main ends the process and all it serves.                                *)
AcceptFails == "ssh" \in listening /\ Die

ServeRequest ==
  /\ "http" \in listening \/ requests
  /\ requests' = ~requests
  /\ UNCHANGED <<env, proc, keyFile, signer, listening, served>>

----------------------------------------------------------------------------
(* SIGINT or SIGTERM, once main waits for them: httpServer.Shutdown stops  *)
(* listening ...                                                           *)
Signal ==
  /\ proc = "serving"
  /\ proc' = "stoppingHttp"
  /\ listening' = listening \ {"http"}
  /\ UNCHANGED <<env, keyFile, signer, requests, served>>

(* Variant for mutation: Shutdown waits without a timeout.                 *)
AwaitRequests ==
  /\ proc = "stoppingHttp" /\ ~requests
  /\ proc' = "stoppingSsh"
  /\ UNCHANGED <<env, keyFile, signer, listening, requests, served>>

(* ... and waits for the requests, for ten seconds at most.                *)
HttpStopped ==
  /\ proc = "stoppingHttp"
  /\ proc' = "stoppingSsh"
  /\ UNCHANGED <<env, keyFile, signer, listening, requests, served>>

(* The SSH listener is closed and main returns; connections end with it.   *)
SshStopped == proc = "stoppingSsh" /\ Die

ProcessNext ==
  \/ Start \/ Crash \/ InitServices \/ LoadOrGenerate \/ WriteKey
  \/ \E face \in Faces : Listen(face)
  \/ AcceptFails \/ ServeRequest \/ Signal \/ HttpStopped \/ SshStopped

----------------------------------------------------------------------------
(* Clients that remember the proxy's host key are never shown another one, *)
(* wherever earlier runs of the process broke off; and once it has served, *)
(* the file is whole, so the next start does not fail on it.               *)
HostKeySurvives == env.hostKeyPath => served \in {{}} \cup {{k} : k \in {keyFile}}

(* "SSH command hints shown in the UI are sourced from backend config":    *)
(* they lead to the port that the proxy listens on, whichever settings are *)
(* given, as long as it is given by its number.                            *)
HintsNameTheListener ==
  "ssh" \in listening /\ SSHListenAddr(env).form = "port" /\ SSHListenAddr(env) # Port(0)
    => ListenPorts(SSHListenAddr(env)) = {DialledPort(PortSuffix(SSHPort(env)))}

(* The process does not go on with one of its faces only.                  *)
BothFacesOrNone == proc = "serving" ~> listening = Faces \/ proc # "serving"

(* A signal ends the process though a request never finishes.              *)
SignalEnds == proc = "stoppingHttp" ~> proc = "down"
=============================================================================
