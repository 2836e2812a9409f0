------------------------------- MODULE Visit -------------------------------
(***************************************************************************)
(* The browser tab beyond the console's own pages: it leaves for the       *)
(* identity provider and comes back to a page that the backend, or the     *)
(* server of the static export, finds for it.  The URL that the provider   *)
(* sends the browser back to is derived from the headers of the request    *)
(* that begins the login; those of the callback may say something else.    *)
(***************************************************************************)
EXTENDS Console, Theme, Sequences

CONSTANTS
  Hosts, Ports,
  Deployments  \* how the program may be set up

Schemes == {"http", "https"}
Origins == [scheme: Schemes, host: Hosts, port: Ports]

Deployment ==
  [production: BOOLEAN,         \* ENV
   secure: BOOLEAN,             \* SESSION_SECURE
   base: Origins,               \* FRONTEND_BASE_URL
   api: Origins \cup {Nothing}, \* NEXT_PUBLIC_DEV_API_URL
   registered: SUBSET Origins,  \* whose callback the provider knows
   trailingSlash: BOOLEAN]      \* of the Next export

ASSUME DeploymentsAreSuch == Deployments \subseteq Deployment

VARIABLE trip

visitVars == <<vars, look, trip>>

\* asked is the redirect URL of the authorization request and saved what the
\* state holds, landed is where the tab is sent, and file what is served.
Home == [pc |-> "home"]

(* What callbackURL looks at: X-Forwarded-Host and -Proto, Referer, Host.  *)
Headers ==
  [forwarded: (Hosts \X Ports) \cup {Nothing}, proto: Schemes \cup {Nothing},
   referer: Origins \cup {Nothing}, host: Hosts \X Ports, tls: BOOLEAN]

----------------------------------------------------------------------------
Origin(scheme, at) == [scheme |-> scheme, host |-> at[1], port |-> at[2]]

(* publicBaseURLFromRequest; a browser always sends a Host.                *)
CallbackOrigin(h) ==
  IF h.forwarded # Nothing
  THEN Origin(IF h.proto = Nothing THEN "http" ELSE h.proto, h.forwarded)
  ELSE IF h.referer # Nothing THEN h.referer
  ELSE Origin(IF h.tls THEN "https" ELSE "http", h.host)

CallbackOrigins == {CallbackOrigin(h) : h \in Headers}

(* "Continue to identity provider": BeginLogin keeps the URL with the      *)
(* state, and asks the provider to send the browser there.                 *)
BeginLogin ==
  /\ trip = Home /\ page = "login"
  /\ \E d \in Deployments, o \in CallbackOrigins :
       trip' = [pc |-> "provider", at |-> d, asked |-> o, saved |-> o]
  /\ UNCHANGED vars

(* HandleCallback names the URL that was saved, or else the callback's own.*)
ExchangeURL(saved, here) == IF saved # Nothing THEN saved ELSE here

(* The provider sends the browser to a URL it knows, with any headers, and *)
(* gives a token for the code if the exchange names the same URL.          *)
ExchangeCode ==
  /\ trip.pc = "provider" /\ trip.asked \in trip.at.registered
  /\ \E here \in CallbackOrigins : ExchangeURL(trip.saved, here) = trip.asked
  /\ trip' = [pc |-> "exchange", at |-> trip.at, asked |-> trip.asked]
  /\ UNCHANGED vars

(* The user goes back, or the provider knows no such URL, or not this one. *)
GiveUp ==
  /\ trip.pc = "provider"
  /\ trip' = Home
  /\ UNCHANGED vars

----------------------------------------------------------------------------
(* The export: a directory with an index, or a file, for each page.        *)
Path(p) ==
  CASE p = "overview" -> <<"dashboard">> [] p = "keys" -> <<"settings", "ssh-keys">>
    [] p = "users" -> <<"admin", "users">> [] p = "instances" -> <<"admin", "instances">>
    [] p = "login" -> <<"login">>

Html(path) == path \o <<".html">>
Index(path) == path \o <<"/index.html">>

Exported(slash, p) == IF slash THEN Index(Path(p)) ELSE Html(Path(p))

Files(slash) == {Exported(slash, p) : p \in Pages} \cup {Index(<<>>), Html(<<"404">>)}

(* Variant for mutation: no file with .html is looked for.                 *)
ResolveIndex(files, path) == IF Index(path) \in files THEN Index(path) ELSE Html(<<"404">>)

(* resolveRequestedAsset and resolveStatic404: the file, the index of the  *)
(* directory, the file with .html, in this order.                          *)
Resolve(files, path) ==
  IF path \in files THEN path
  ELSE IF Index(path) \in files THEN Index(path)
  ELSE IF Html(path) \in files THEN Html(path)
  ELSE Html(<<"404">>)

(* Variant for mutation: the page is always at FRONTEND_BASE_URL.          *)
BaseURL(d, here) == d.base

(* redirectURL: a path, in production; here is the callback's origin.      *)
RedirectOrigin(d, here) == IF d.production THEN here ELSE d.base

(* The cookie is set on the callback's host, and the tab sent to the       *)
(* overview or, an administrator, to the users.                            *)
SignedIn ==
  /\ trip.pc = "exchange"
  /\ \E p \in {"overview", "users"} :
       /\ Load(p)
       /\ trip' = [pc |-> "landed", at |-> trip.at, asked |-> trip.asked,
                   landed |-> RedirectOrigin(trip.at, trip.asked),
                   file |-> Resolve(Files(trip.at.trailingSlash), Path(p))]

(* The callback fails: the login page, with the error in its address.      *)
Refuse ==
  /\ trip.pc = "exchange"
  /\ trip' = Home
  /\ UNCHANGED vars

----------------------------------------------------------------------------
ApiOrigin == IF trip.at.api = Nothing THEN trip.landed ELSE trip.at.api

(* The cookie is set on the callback's host, SameSite=Lax and maybe Secure:*)
(* browsers keep it, and send it with the calls of a page of that site.    *)
CookieIsSent ==
  /\ trip.at.secure => {trip.asked.scheme, ApiOrigin.scheme} = {"https"}
  /\ ApiOrigin.host = trip.asked.host
  /\ ApiOrigin.host = trip.landed.host /\ ApiOrigin.scheme = trip.landed.scheme

(* CORS: pages of other origins than FRONTEND_BASE_URL see no answers.     *)
AnswersAreReadable == ApiOrigin = trip.landed \/ trip.landed = trip.at.base

SessionReaches == CookieIsSent /\ AnswersAreReadable

(* AuthProvider asks who is signed in.                                     *)
GetMeBack(p) ==
  /\ trip.pc = "landed"
  /\ GetMe(p) /\ (user' # "nobody" => SessionReaches)
  /\ trip' = Home

(* The theme can be toggled from the header, below any dialog.  Answers    *)
(* come over the network, after the effects.                               *)
VisitNext ==
  \/ /\ trip = Home /\ UNCHANGED trip
     /\ \/ phase = "settled" /\ Work /\ UNCHANGED look
        \/ \E p \in Pages : Load(p) /\ LoadLook
        \/ user \in Roles /\ NoDialog /\ Toggle /\ UNCHANGED vars
  \/ (BeginLogin \/ ExchangeCode) /\ UNCHANGED look
  \/ (GiveUp \/ Refuse \/ SignedIn) /\ LoadLook
  \/ phase = "settled" /\ (\E p \in Pages : GetMeBack(p)) /\ UNCHANGED look
  \/ trip.pc \in {"home", "landed"} /\ (FirstEffects \/ SecondEffects) /\ UNCHANGED <<vars, trip>>
  \/ PreferenceChanges /\ UNCHANGED <<vars, trip>>

VisitInit == Init /\ LookInit /\ trip = Home

VisitSpec == VisitInit /\ [][VisitNext]_visitVars

----------------------------------------------------------------------------
(* "Your role and assignments are loaded after the provider callback       *)
(* completes": in production, with a static export that calls the API of   *)
(* its own origin, the page that the tab is sent to has the session that   *)
(* the callback set, whatever the headers and FRONTEND_BASE_URL say, unless*)
(* SESSION_SECURE is set for a site that is not on https.                  *)
SignInReachesTheConsole ==
  trip.pc = "landed" /\ trip.at.production /\ trip.at.api = Nothing
    /\ (trip.at.secure => \A o \in trip.at.registered : o.scheme = "https")
  => SessionReaches

(* The same of every deployment: "The frontend runs on                     *)
(* `http://localhost:3000` and talks to the Go backend using               *)
(* `NEXT_PUBLIC_DEV_API_URL`", which the example environment sets to       *)
(* another host than that of the callback.                                 *)
SessionsReachThePage == trip.pc = "landed" => SessionReaches

(* The tab is sent to addresses that the export has a page for.            *)
LandingPagesAreServed ==
  trip.pc = "landed" => trip.file = Exported(trip.at.trailingSlash, page)
=============================================================================
