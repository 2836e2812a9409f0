# ssh-reverseproxy in TLA+

ssh-reverseproxy is one Go process with two faces on one SQLite database: an HTTP API behind a
web console, where people sign in with OIDC and manage users, SSH keys and instances, and an SSH
proxy on port 2222, where a public key says who the client is and the SSH user name says which
instance it is to be connected to. This directory holds TLA+ specifications of that process,
configurations that check them with TLC, and proofs that TLAPS checks.

    tlasany ReverseProxy.tla
    tlc -workers 2 -config Access.cfg MCReverseProxy.tla
    tlapm ReverseProxyProofs.tla
    tlc -workers 2 -config Relay.cfg ChannelRelay.tla

Paths below are relative to `src/backend/internal` unless they start with `src/`.

## Inventory of the system

| Part | Code | State it keeps | Operations | What makes it correct |
|---|---|---|---|---|
| Data model, database | `models`, `database` | five tables, unique indexes, AUTOINCREMENT counters | GORM `Create`, `Save`, `Delete`, transactions | rows refer to rows that exist; ids are not reused |
| Session middleware, guards | `middleware/auth.go`, `routes/routes.go`, `auth/service.go` | sessions; the request's copy of its user | `Session`, `RequireAuth`, `RequireRole`, `Logout` | only a signed-in, active user gets in, administrators only where it says so |
| User and key administration | `handlers/admin.go`, `handlers/user.go` | users, keys | create, update, delete | a key stays with its user; a deleted user leaves nothing behind |
| Instance administration | `handlers/admin.go` | instances, assignments | create, update, delete, assign | the stored secret is of the chosen method, and a key goes with its passphrase; assignments refer to what exists |
| OIDC sign-in | `auth/service.go`, `handlers/auth.go` | state store in memory, users, sessions | begin, callback, cleanup | one session per state; abandoned states go; a disabled user stays disabled |
| SSH proxy, connections | `proxy/server.go` 78-228 | a connection's user and its copy of the target | accept, authenticate, look up, dial | nobody is connected who has no assignment; what is dialled with is what was stored; a connection that is over is let go |
| Known hosts | `proxy/server.go` 229-251, 322-378 | the known_hosts file | verify, trust on first use, append | a key that was trusted is on record; a host that keeps its key is accepted |
| Channel relay | `proxy/server.go` 253-320 | two SSH channels, four goroutines each; the connection's global requests | copy, forward requests, close | each stream arrives whole and in order; ends are passed on; requests are answered; everything ends |
| Host key | `proxy/server.go` 380-420 | the key file | load or generate | the key survives restarts |
| Lifecycle | `src/backend/cmd/server/main.go` | listeners | start, shut down, crash | a stop releases both listeners; a restart finds a consistent database |
| Slugs, key parsing | `handlers/admin.go`, `sshkeys` | none | pure | a slug is usable as an SSH user name |
| Configuration | `config` | read once | pure | what one setting says agrees with what another one does |
| Static files, CORS | `routes/static.go`, `middleware/cors.go` | none | per request | every page that the program sends a browser to is there, and may talk to the API |
| Web console | `src/frontend/src` | the signed-in user, dialogs and forms, requests under way, a query cache, the theme | list, edit, save, delete, sign in, toggle | what is saved is what was shown, for the row it was shown for; a sign-in ends in the console |

The parts meet in four places. The *database* is shared by every HTTP handler and every SSH
connection; there is no lock above it, so two handlers interleave at their statements. The *state
store* is shared by sign-in requests and the cleanup goroutine, under a mutex. A *connection* takes
a user id in the public key callback and uses it in `handleConn`, after a network round trip. And the
*browser* carries a sign-in from the console to the provider, to the backend and back, over hosts that
headers and settings name.

What is hard here: handlers that read a row, change the copy and save every column of it; GORM's
`Save`, which inserts a row that it could not update; foreign keys that the models declare and
SQLite does not enforce; guards that decide on a copy of the user; column defaults that replace
zero values; a restart between two halves of a sign-in; two copy loops and two request loops
that share a channel's close; a bounded queue inside the SSH library that decides whether anybody
notices a client leaving; answers that find another dialog open. `PROJECT.json` lists them, each at its line, as `hazards`.

## The modules

    Store                      tables, indexes, GORM's statements
      Middleware               requests, sessions, guards
        Accounts               users and SSH keys
        Instances              instances, credentials, assignments
        Login                  OIDC sign-in
      Proxy                    SSH connections up to the dial
    ReverseProxy               all of them together, with crashes
      AccessControl            what it promises about who gets where
      MCReverseProxy           instances for TLC

    Settings                   what the environment says about the SSH port
      Lifecycle                main: start, host key, listeners, shutdown
        Gateway                the connections that the process serves
          MCGateway            instances for TLC
    ChannelRelay               one SSH channel through the proxy
      Pipe                     what it promises for each direction
    KnownHosts                 verification of upstream host keys
      MCKnownHosts             an instance for TLC

    Console                    one browser tab: dialogs, forms, late answers
      MCConsole                an instance for TLC
    Theme                      the tab's theme and its effects
    Visit                      Console and Theme, and the way to the provider and back
      MCVisit                  an instance for TLC

    HandlerProofs              what each handler keeps
      ReverseProxyProofs       the theorems about the backend's tables
        HistoryProofs          the theorems about its past: ids, owners, login states
        AccessProofs           the backend implements AccessControl
    KnownHostsProofs           the theorems about the known_hosts file
    RelayProofs                each direction of a channel implements Pipe
    GatewayProofs              the theorems about the process and its host key
    ConsoleProofs              the theorems about Console, Theme and Visit

**Store.** A table is a function from ids to rows, `None` where there is no row. A row keeps the
columns that decide something; names, comments, hosts and timestamps are left out, and `valid`
stands for a session's `expires_at` being in the future. `lastId` holds the AUTOINCREMENT counters
(GORM's SQLite driver declares integer primary keys AUTOINCREMENT), so an id is used once. The way
GORM treats a row is external to the repository and modelled from how the code calls it:

- `Create` replaces a zero value by the column's `default`: a FALSE flag is stored TRUE, also in
  the struct (`CreatedUser`, `CreatedKey`, `CreatedInstance`; `models.go` 17, 35, 55).
- `Save` is an `UPDATE` of every column by id and, if no row was touched, a second
  statement, `INSERT .. ON CONFLICT DO UPDATE`, with the same defaults (`Update*Row`,
  `Upsert*Row`). Inside a transaction, as in `UpdateInstance`, nothing comes between the two.
- A transaction, and a statement, is atomic: SQLite has one writer at a time. A statement that
  fails (busy, index violated) ends the request; that is `Fail`.

**Middleware.** A slot of `Requests` is a goroutine serving requests. `req[r]` is what the
goroutine has in its local variables: where it is, for whom it acts, the id it found, the row it
loaded and is about to save. `FindSession` and `Admit` are the two statements of
`GetUserBySession` with the guards that follow; after that the user is never read again, as in
the code. `Fail` ends a request before its next statement, for whatever reason; requests that
change nothing (lists, `Me`, `Health`) are requests that end with it.

**Accounts, Instances, Login.** One action per statement or transaction of a handler, the local
work before it included. `UpdateUser` is `UpdateUserRead`, then `UpdateUserSave` or
`UpdateUserMissed` and `UpdateUserUpsert`; `UpdateInstance` is `UpdateInstanceRead` and one
transaction; `DeleteUser` is a lookup and one transaction; and so on. Bodies of requests come from
small sets, `None` for an absent field. `Credentials` is `applyInstanceRequest`, case by case.
`pending` is the state store with the history of every state: a state is unused, fresh, expired
(still in the map) or gone. The identity provider is external: it may answer with anyone's claims,
with an error, or never send the browser back. `UpdateSSHKey` hands its id to GORM as text, unlike the
other handlers; whose row a text finds that is not a number is left open, so `UpdateSSHKeyRead` may
find any, and what is claimed of keys holds whichever it finds.

Keys and passphrases are names. `Pasted` says which pairs administrators paste: the handlers try
neither, so a pair may be of a key that is none or of a passphrase of something else. `Generated` holds
the pairs that `GeneratePrivateKeyPEM` makes, and `Readable` those that the library opens; all that is
assumed of them is that what is generated can be read (`GeneratedAreReadable`).

**Proxy.** A connection is closed, authenticated, dialing or serving, with the user id of the
handshake and the copy of the instance it dials with. `HasAuthMethod` is the switch at the top of
`dialUpstream`, which returns early for a key that cannot be read.

**ReverseProxy and AccessControl.** All actions interleave. `Crash` empties everything that is in memory; the
database stays, and an uncommitted transaction leaves no trace because a transaction is one step.
`AccessControl` knows people, gates and grants, and neither tables nor requests: a key identifies a
person, who is let through to a gate that is open and granted to that person. The mapping takes users
for people, instances for gates, assignments for grants, the owners of active keys with an active user
for the trusted, and a connection's user and target for its session; every step of the backend is one
of `AccessControl` or changes nothing that it sees.

**ChannelRelay and Pipe.** From `serving` on, a connection relays channels. `ChannelRelay` is one
of them: `main` is `proxyChannel`, `copy[s]` the goroutine that copies from side `s` to the other,
`forward[s]` the one that forwards its requests, `leg[s]` what the proxy has said on its channel to
that side, `peer[s]` what the peer has sent. Data and requests are counted, because every buffer on
the way is a queue; the library keeps the two apart, so a request may overtake data and the other
way round. The library is external and modelled from how the code uses it: a channel answers a
close with a close and fails every later write; a read drains what has arrived before it reports
the end; error output takes its share of the window and, since nobody reads it, never gives it
back. There is no wire: delivering at once and delivering later differ only in when the peer is
said to have sent. `link` is the client's connection; once it is lost, `handleConn` closes the one to
the upstream. `Pipe` says what one direction promises, and the module's two instances of it are
refinement mappings. A `Pipe` tells the *end* of a stream, EOF, only after all of it; it may also be
*shut* before, by a close, when the receiver has hung up or the sender has vanished. Hanging up is the
peer's own doing: the close by which the proxy itself, having lost the client, cuts off what the client
had sent counts as the client's vanishing, and for what the upstream sends nothing counts as that.

**KnownHosts.** `dialUpstream`'s verification: `Stat` and `CreateFile` are `ensureFile`,
`LoadKnownHosts` is `knownhosts.New`, `Dial` is `ssh.Dial` with the callback, and on "key is
unknown" `FetchHostKey` and `AppendHostKey` are `fetchAndAppendHostKey`, after which the file is
loaded again and the dial retried once. `policy` is how `SSH_KNOWN_HOSTS` and
`SSH_ACCEPT_UNKNOWN_UPSTREAM` are set: no verification, the file as the operator keeps it, or trust on
first use. A line names a host with its port unless that is 22, as `normalizeKnownHostsHost` writes it
and `knownhosts` reads it. `Presents` says which keys may answer at an address: more than one where
something else answers now and then, or a machine is replaced. What `knownhosts` does with a host
whose lines disagree is left open.

**Settings, Lifecycle and Gateway.** `Settings` is the part of `config` that the SSH side depends on: a
setting is a port number, a service name, nothing after the colon, or something no listener takes.
`Lifecycle` is `main` step by step: services that may fail, the host key file, the goroutines of the
two faces, the signal. `keyFile` survives a crash and may be `"cut"`: `os.WriteFile` creates the file
before it fills it. `served` remembers every host key that clients were shown. `Gateway` adds the
connections: `handleConn` from `Accept` to its end, `proxyGlobalRequests`, and the loop over new
channels with the opening of one, which `ChannelRelay` goes on with. An upstream answers, is silent or
is dead. The library is external: it reads the client's connection in one goroutine, puts global
requests into a queue of bounded length, and while that is full (`Clogged`) it sees nothing else of the
client, neither a new channel nor the end of the connection. Requests that want no reply hold nothing
up and are left out. The process ends with everything it serves (`ConnsFollow`).

**Console.** One tab: the pages with users, instances and SSH keys have the same shape, a list, a
dialog with a form, a dialog that confirms a deletion, and `useMutation` requests whose `onSuccess`
works on whatever the page shows when the answer arrives. `pending` holds the requests under way,
at most one of a kind because the buttons are disabled meanwhile; the dialogs can be closed and
others opened. What a form holds is abstracted to the row it was copied from or typed for, and for
the secrets of an instance to the row they were typed for; `method` and `mode` decide which fields
are shown and sent. A page that is left takes its state with it. The server is a choice between an
answer and a failure; whether a list is up to date is not modelled, any row that was ever there may
be opened.

**Theme and Visit.** `Theme` is `ThemeProvider`: two states, three effects, the entry in
`localStorage` and the system's preference. The effects of the first render read the entry and then
write the initial theme over it; those of the second write it back; `phase` says how far they are, and
the tab may be loaded again at any point. `expected` remembers the theme that the browser was left
with. `Visit` puts `Console` and `Theme` into one tab and adds what happens outside the console's
pages: `BeginLogin` derives the redirect URL from the request's headers (`CallbackOrigin`) and keeps
it with the state, `ExchangeCode` is the callback, a request with headers of its own, whose code is worth
a token if the URL it is exchanged with (`ExchangeURL`) is the one it was asked for. `SignedIn` sets
the cookie and redirects to a page (`RedirectOrigin`) that `Resolve` finds in the export, and the
page's first request is answered as a signed-in user only if the session reaches the API from there:
`CookieIsSent` is about hosts, `SameSite=Lax` and, with `SESSION_SECURE`, schemes (some browsers make
an exception of localhost, which is not counted on), `AnswersAreReadable` about the CORS header. A
*deployment* is a setting of the program with the URLs that the provider has been told of, each of
which leads to the program.

## What TLC checks

| Run | Question | Bounds |
|---|---|---|
| `accounts` | do two racing requests over users and keys keep every key, and every fingerprint, with its user, and does a new user id start clean? `TypeOK`, `KeyOwnerStable`, `KeyIdentifiesOneUser`, `NewUsersStartClean` | 2 requests; 3 users; 2 keys and sessions; 1 fingerprint |
| `instances` | is what the table and every pending save hold a secret of the chosen method, a key with its own passphrase, and does each slug a user is shown lead to its instance? `CredentialsKept`, `ListedInstancesConnect` | 2 requests, 2 instances, 1 slug, every method; a generated key, a pasted one without a passphrase, and a pasted text that is no key |
| `login` | does one state yield at most one session, one person one user, and does every abandoned state go? `OneSessionPerState`, `OnePersonOneUser`, `AbandonedStatesGo` | 2 requests, 2 states, 2 sessions, 2 users, fresh database |
| `access` | do administrators' requests and an SSH connection leave assignments and dials in order, and is what they do together access control? `AssignmentsReferential`, `AppearingUsersAreUnassigned`, `NoDialForDeletedUser`, `AccessIsControlled` | 2 requests, 1 connection, 2 users, 1 instance |
| `relay` | is each direction of a channel a pipe, does a channel end with its client, do the goroutines that forward requests end with it, answered or not, and are reports passed on? `TypeOK`, `InboundIsPipe`, `OutboundIsPipe`, `EndsWithItsClient`, `ForwardersEnd`, `ReportsArrive` | 1 unit of data from each side, 1 of error output, a window of 1; 2 requests from the two sides together |
| `known_hosts` | what becomes of one file that three dials create, append to and load, under each policy? `AcceptedKeysAreRecorded`, `HonestHostsAreAccepted`, `TypeOK` | 3 connections, 2 ports of one host, one of them 22, 2 keys, 3 lines |
| `lifecycle` | what do crashes and shutdowns leave behind, which port is shown, and what can hold up a connection? `HostKeySurvives`, `HintsNameTheListener`, `BothFacesOrNone`, `SignalEnds`, `UpstreamsAreReleased`, `PingsAreAnswered`, `ChannelsAreDecided`, `TypeOK` | 8 environments, 2 keys, 1 connection, a queue of 1, 3 requests |
| `console` | can a late answer mix two rows or two users, does a sign-in end in the console, does the theme last? `SavesKeepToTheirRow`, `KeysKeepToTheirUser`, `MessagesAreOfTheForm`, `SignInReachesTheConsole`, `LandingPagesAreServed`, `ThemeIsRemembered`, `ThemeIsPainted`, `TypeOK` | 3 rows, 3 hosts, 3 ports, 8 deployments |

Two requests suffice for the read-save races, each of which is between one reader and one writer;
two rows of a table suffice for "another row" in an index; counters one above the seed suffice for
an id that is handed out after a deletion. A window of one can be free, full, and full of error
output, and a unit of each is one more than it takes; two requests are one that waits for its answer
and one that is queued behind, or one in each direction. Three dials are needed for one to append between the two loads of another
while a third creates the file; a line written without its port would
be about the other port. With a queue of one, three requests are one that is being passed on, one in
the queue and one that clogs it; a process's connections share nothing in `Gateway`, so one shows what
any of them does. The environments are each form of each setting; the deployments are a server behind a
proxy and one on plain http, each with and without `SESSION_SECURE`, the first with the other form of
the export too and without `ENV`, a development server, and the one that the two example environments
describe. Three rows are one that an answer is about, one that the page shows
by then, and one more. Where nothing is said, the other bounds are zero: a run leaves out the parts
it does not ask about by giving them nothing to work on, never by another next-state relation. The
theorems below hold without bounds.

Deadlock is not checked only where a configuration says so: there, the bounded counters run out.
Symmetry permutes requests and connections; the run with a liveness property uses none.

**Fairness.** `FairSpec` assumes that the ticker of `runStateCleanup` goes on (the goroutine is
started with the service and never stopped) and that time passes. It assumes nothing of browsers,
SSH clients, the provider or the scheduler's choice among requests.

In `ChannelRelay` the goroutines are scheduled, a peer reads what it is sent and answers a close with a
close (SSH requires it), and the upstream's program ends some time after its input has ended, if it is
not stuck in a write: `EndsWithItsClient` rests on that. A peer need not answer requests; one that is
waited for is given up when the channel it went to is closed. The client is not obliged to anything;
that is why `EndsWithItsClient` starts when the client ends. Its exception `Stalled` is what the
code does: error output is not forwarded, and an upstream that writes a window of it blocks for
good. `ReportsArrive` excepts clients that have ended their input, because for them the code may
close the channel before the exit status has been forwarded; both exceptions are listed as hazards.
It also excepts a report behind a request that its client has yet to answer.

In `Gateway` the goroutines are scheduled; nobody has to start or stop the process, to finish a
request or a handshake, or to leave. The ten seconds of `httpServer.Shutdown` are the weak fairness of
`HttpStopped`, and `SignalEnds` says no more than that nothing else holds up the end: a signal before
`Run` has stored its listener leaves the listener to start, and `main` returns all the same. An upstream may fall silent at any time, and nothing makes it speak again: the three
properties about connections say what holds unless it does, `Silent`. A client that does not go on
with its handshake stays, which the code allows too.

### Where code and documents disagree

Each of these is a run that ends in a counterexample.

| Run | Property | What happens |
|---|---|---|
| `user_returns` | `DeletedUsersStayDeleted` | `UpdateUser` read the row; `DeleteUser` commits; `Save` inserts the row again, active |
| `sign_in_enables` | `OnlyAdminsEnable` | sign-in read the row; an administrator disables the user; sign-in saves the old flag |
| `hidden_key` | `StoredKeyIsKept` | a private key is pasted for a saved instance, *Generate for me* hides it, and *Save changes* sends it: the stored key is replaced while the form says it is used |
| `developer_sign_in` | `SessionsReachThePage` | with the two example environments the cookie is set on localhost, where the callback is, and the console calls the API on 127.0.0.1, which it is not sent to |

Some more follow from the same modules and have no run of their own: a `DeleteInstance` between the
read and the transaction of `UpdateInstance` is undone as `DeleteUser` is, with the assignments that
the request names; two users created ahead of their first sign-in collide on the empty
`oidc_subject` (`UserTaken`), though the project's README says that users can be pre-created; a key created with its active
box cleared is stored active (`CreatedKey`); a `CreateSSHKey` that was admitted before a
`DeleteUser` inserts a key without an owner; and an instance has as many users as the request
names, where the project's README says one. `OIDC_REDIRECT_URL`, which that README asks for, is never
used: the callback URL derived from the request is never empty (`CallbackOrigin`). `SESSION_SECURE` on
a site without https keeps the session from the console, and `SignInReachesTheConsole` leaves that
out by its premise. An unreadable key or a wrong passphrase is stored as it was pasted, and shows only
when somebody connects: `OnlyPastedKeysFail` says that nothing else fails there. A deployment whose SSH address is a service name or has
no port shows 2222 in its commands (`HintsNameTheListener` leaves it out too). And a load of the
console that is cut off between the two renders, or any load under React's strict mode in development,
which runs the first effects twice, loses the stored theme; `LoadLook` takes what is left for expected.

## What is proved

TLAPS proves every safety property that a run checks, for all values of the constants that satisfy the
named assumptions: any number of requests, connections, users, keys, instances, states, hosts, rows and
deployments, streams and windows of any size. The theorems are about `Spec` of `ReverseProxy`,
`KnownHosts`, `ChannelRelay`, `Gateway` and `Console`, and `VisitSpec` of `Visit`.

| Theorem | Property |
|---|---|
| `BackendControlsAccess` | `AccessIsControlled` |
| `TypeCorrect` | `TypeOK` |
| `AssignmentsAlwaysReferential` | `AssignmentsReferential` |
| `CredentialsAlwaysKept` | `CredentialsKept` |
| `OnlyPastedKeysEverFail` | `OnlyPastedKeysFail`, which no run checks |
| `DeletedUsersAreNotDialled` | `NoDialForDeletedUser` |
| `AppearingUsersHaveNoAccess` | `AppearingUsersAreUnassigned` |
| `PeopleHaveOneUser` | `OnePersonOneUser` |
| `ListedInstancesAlwaysConnect` | `ListedInstancesConnect` |
| `EveryStateOpensOneSession` | `OneSessionPerState` |
| `KeysKeepTheirOwner` | `KeyOwnerStable` |
| `KeysIdentifyOneUser` | `KeyIdentifiesOneUser` |
| `NewUsersAlwaysStartClean` | `NewUsersStartClean` |
| `FileTypeCorrect` | `TypeOK` of `KnownHosts` |
| `AcceptedKeysStayRecorded` | `AcceptedKeysAreRecorded` |
| `HonestHostsAreNotRefused` | `HonestHostsAreAccepted` |
| `InboundAlwaysIsPipe`, `OutboundAlwaysIsPipe` | `InboundIsPipe`, `OutboundIsPipe` |
| `RelayTyped` | `TypeOK` of `ChannelRelay` |
| `HostKeySurvivesCrashes` | `HostKeySurvives` |
| `HintsAlwaysNameTheListener` | `HintsNameTheListener` |
| `GatewayTyped` | `TypeOK` of `Gateway` |
| `TabTypeCorrect` | `TypeOK` of `Console` |
| `SavesAlwaysKeepToTheirRow` | `SavesKeepToTheirRow` |
| `KeysAlwaysKeepToTheirUser` | `KeysKeepToTheirUser` |
| `MessagesAreAlwaysOfTheForm` | `MessagesAreOfTheForm` |
| `VisitsKeepTheConsole` | `VisitSpec => Spec`: the four above hold of `Visit` too |
| `SignInAlwaysReaches` | `SignInReachesTheConsole` |
| `LandingPagesAlwaysServed` | `LandingPagesAreServed` |
| `ThemeAlwaysRemembered`, `ThemeAlwaysPainted` | `ThemeIsRemembered`, `ThemeIsPainted` |

*Assumptions.* Each stands in the module that declares its constants, and TLC evaluates it on every run
of a module that extends that one. In `Store` and `Login`: the bounds are naturals, the requests and
states finitely many (`LoginsAreFinite`; `OneSessionPerState` counts them), the keys that the program
generates can be read (`GeneratedAreReadable`), `ADMIN_EMAILS` are e-mails, and the database found at start was written by this
program (`SeedIsConsistent`). In `KnownHosts`: an address is a host and a port (`AddressesHavePorts`),
the operator's file is one of lines. In `Lifecycle`: there is an environment. In `Visit`: deployments
are such. The others say that a marker for "nothing" (`None`, `New`, `Nothing`, `NoEntry`, a cut file)
is not one of the values it stands in for.

**The backend.** `TypeOK` is inductive; the type of a request ties the rows it carries to the point it
has reached, which is what lets a later save keep the types of the tables. `AssignmentsReferential`
is inductive relative to it: only `replaceAssignedUsers` adds pairs, inside the transaction that
looks the users up and writes the instance; only `DeleteUser` and `DeleteInstance` remove rows,
inside the transaction that removes their pairs; and a stale `Save` only adds rows. No check of
the users table by `lookupTarget` is needed for `NoDialForDeletedUser`: it follows from the pair
that the lookup finds. `CredentialsKept` had to speak of the pending saves too, or it would not be
inductive: `UpdateInstanceRead` computes the row and `UpdateInstanceSave` writes it later. With
`TargetsMatch`, that the copies held by connections are in order, it gives `OnlyPastedKeysFail`: a
target of method `key` holds a pair that was pasted or generated, and what is generated can be read. No
run checks `OnlyPastedKeysFail`: requests that paste and generate keys beside a connection, two of each
and the users and keys that come with them, are more states than a run should take, while `instances`
checks the rows that the targets are copied from.
`HandlerProofs` shows that each component's next-state relation keeps these invariants on the state
that component has (`ConsoleTypeOK`, `AssignedExist`), and `ReverseProxyProofs` puts them together.
`OnePersonOneUser` is inductive once types are known, and `ListedInstancesConnect` follows from its
counterpart for slugs, `Named`: each statement that writes a row is refused where two rows would share a
value of a unique column, on whatever copy the handler acts.

**Its past.** `HistoryProofs` is about what a state of the tables does not show. `OneSessionPerState`
is inductive as it stands: a callback adds one to the sign-ins under way and one to the popped states,
a session takes a sign-in away, and a request that fails or crashes only leaves room. `KeyOwnerStable`
and `NewUsersStartClean` follow from `OwnershipInv`: every id in a table or in a request's hands is at
most its counter (`IdsIssued`, `Sound`), the copy of a key that is about to be saved names the owner
that the row has, if the row is there, and two copies of one key name the same owner (`Agree`). Nothing
is said of the user that the request acts for: which row `UpdateSSHKey` finds is left open. The last
part is what a stale upsert needs: one request deletes the key while two others are about to save it;
the first of these inserts the row again, and the second must not find it with another owner.
`KeyIdentifiesOneUser` combines this with the unique index on fingerprints (`Identifying`), which is
inductive by itself. `OwnershipInv` holds as an invariant of the runs `accounts` and `login` too.

**Access.** `BackendControlsAccess` is a refinement, in `AccessProofs`: the initial states map, and each
action is sorted by what it does to the mapped state. An administrator's statement or a sign-in is
`Administer`, whose demand that a new grant be to somebody who existed before follows from
`AssignmentsReferential` and from no statement adding both a user and an assignment (`OneTableGrows`);
`Authenticate` is `Identify`, `LookupTarget` is `Admit`, closing and crashing are `Leave`, and
everything else stutters.

**Known hosts.** The invariant `OnRecord` says of every dial that the lines in its callback are
still in the file, and that a key it was accepted with is among them; no step takes a line away
(`Growing`), so what one connection does leaves the others' claims alone. `HonestInv` adds whose lines
they are: each names a key that its host presents or that the operator gave it, and a dial that is
tried again has its host on record, so it cannot meet "key is unknown" twice. That an append is about
one host only is `NormalizeIsInjective`: a port is left out of a line only where it is 22.

**The relay.** `RelayInv` says how far each copy is: what was read and not yet written is the one unit
in its buffer; a copy ends only when all is written or the receiver's channel is closed; an EOF is sent
only by a copy that is done; `proxyChannel` closes only when both are; a lost client has left. Each step
is then one of `Pipe` or a stutter, for both directions at once (`From(s)`, of which `Inbound` and
`Outbound` are the two values). A peer's own close is `Finish` for the direction that begins at it and
`HangUp` for the other one; an EOF that `CloseWrite` sends is `End`, which `Pipe` allows only when the
whole stream has arrived, whoever has gone. A close by the proxy is never counted as the receiver's: it
is `Shut`, and needs that the stream is through, that the receiver hung up, or, where
`upstreamClient.Close` cuts the upstream off, that the client at the other end was lost (`vanished`).

**The process.** `ProcessInv` strengthens `HostKeySurvives`: nothing was shown while the file holds no
whole key, the file is whole before a listener is up, and the key in memory is the one in the file
whenever it is meant to last. `HintsNameTheListener` adds that an address is listened on only if it can
be.

**The console.** The four theorems about `Console` share one invariant, `Belonging`: the property of the
request under way says nothing of the form that will be sent next, so the form and the keys dialog have
to belong to their row and user too, and messages to the instances page, where no deletion resets the
form. The type of a key request needs it as well: that somebody is selected when a key is deleted is
not checked where the request is made. `VisitsKeepTheConsole` maps every step of `Visit` to one of
`Console` or a stutter. `TripInv` follows the redirect URL from stop to stop; `PagesAreFound` is the
lemma about the file search, by what a path can end in. `LookInv` says what the storage and
`ThemeProvider`'s states know at each phase: between the two renders the entry is wrong and the state
holds the theme; before them only the entry does, and afterwards both do.

*Only model-checked*: the liveness properties (`AbandonedStatesGo`, `EndsWithItsClient`, `ForwardersEnd`,
`ReportsArrive`, `BothFacesOrNone`, `SignalEnds`, `UpstreamsAreReleased`, `PingsAreAnswered`,
`ChannelsAreDecided`). They rest on fairness, and so on ENABLED, which the prover does not handle. The
counterexamples under "Where code and documents disagree" are TLC's as well.

## What is not modelled

- Lists, `Me`, `Health`, public configuration: they change nothing.
- Parsing of keys, PEM and certificates, OIDC's cryptography: libraries.
- Static files beyond the pages, their content types, and the search for the export's directory.
- Settings that are only passed on; packaging.
- `buildSlug`: rules on characters; that slugs are unique is modelled.
- The console's query cache: which list is refetched after which save. `Console` opens any row that was
  ever there, which is more than the cache would show. The cache has its own flaw where it meets a
  hazard modelled here: an answer about a key marks the list of the dialog that is open by then.
- The instance form's set of assigned users, which comes from a list up to a minute old and overwrites
  another administrator's; texts of errors; everything that only renders.
- Migration: runs once, before anything else.
- Expired sessions and unused states of the database are never removed: nothing in the code does.
- A schema or a database that something else than this program has written to.

## Plan

1. *Liveness by safety*: for each liveness property, the invariant that its argument turns on (what a
   forwarder that has not ended is waiting for, say), checked and proved as far as it needs no fairness.
2. *Abstract specifications* for the parts that have none: a known_hosts store that only grows, and a
   console that edits one row at a time.
3. *Console*: the query cache, and two tabs against one API, each with its stale copy.
