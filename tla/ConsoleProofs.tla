--------------------------- MODULE ConsoleProofs ---------------------------
(***************************************************************************)
(* For any number of rows, hosts and deployments: forms and requests stay  *)
(* with their row however late the answers come, the way to the identity   *)
(* provider and back ends in the console, and the theme lasts.             *)
(***************************************************************************)
EXTENDS Visit, SequenceTheorems, TLAPS

(* The contents and secrets of a form belong to the row it is for.         *)
FormBelongs(f) == f.of = f.id /\ {f.password, f.key} \subseteq {f.id, Nothing}

(* What SavesKeepToTheirRow needs of the form that is going to be sent.    *)
FormKeepsToItsRow == FormBelongs(form)

(* What the keys dialog holds is of the user it is open for.               *)
DialogKeepsToItsUser == {keyForm, keyTarget} \subseteq {keysOf, Nothing}

(* Only the instances page has messages.                                   *)
MessagesStayOnTheirPage == page # "instances" => message = Nothing

Belonging ==
  /\ FormKeepsToItsRow /\ SavesKeepToTheirRow
  /\ DialogKeepsToItsUser /\ KeysKeepToTheirUser
  /\ MessagesStayOnTheirPage /\ MessagesAreOfTheForm

(* A form of its type stays one when it is filled in or reset.             *)
LEMMA EmptyFormType == EmptyForm \in Form /\ FormBelongs(EmptyForm)
  BY MarkersAreNoRows DEF EmptyForm, Form, FormBelongs, Ids, Methods

(* A request body is a form, of the same row.                              *)
LEMMA BodyType ==
  ASSUME NEW f \in Form
  PROVE  /\ RequestBody(f) \in Form
         /\ FormBelongs(f) => FormBelongs(RequestBody(f))
  BY DEF RequestBody, Form, FormBelongs

(* Mounting a page leaves no dialog, form, message or request behind.      *)
LEMMA MountIsClean ==
  ASSUME NEW p \in Pages, Mount(p)
  PROVE  /\ page' \in Pages /\ open' \in BOOLEAN /\ form' \in Form
         /\ {message', target', keysOf', keyForm', keyTarget'} \subseteq Rows \cup {Nothing}
         /\ pending' \in [save: SaveRequest \cup {Nothing}, delete: Rows \cup {Nothing},
                          createKey: KeyRequest \cup {Nothing},
                          deleteKey: KeyRequest \cup {Nothing}]
         /\ Belonging'
<1>1. form' = EmptyForm /\ pending' = Idle /\ page' = p
  BY DEF Mount
<1>2. FormKeepsToItsRow'
  BY <1>1, EmptyFormType DEF FormKeepsToItsRow, FormBelongs
<1>3. SavesKeepToTheirRow' /\ KeysKeepToTheirUser'
  BY <1>1 DEF Idle, SavesKeepToTheirRow, KeysKeepToTheirUser
<1>4. DialogKeepsToItsUser' /\ MessagesStayOnTheirPage' /\ MessagesAreOfTheForm'
  BY DEF Mount, DialogKeepsToItsUser, MessagesStayOnTheirPage, MessagesAreOfTheForm
<1>5. Belonging'
  BY <1>2, <1>3, <1>4 DEF Belonging
<1>6. /\ page' \in Pages /\ open' \in BOOLEAN /\ form' \in Form
      /\ {message', target', keysOf', keyForm', keyTarget'} \subseteq Rows \cup {Nothing}
  BY <1>1, EmptyFormType DEF Mount
<1>7. Idle \in [save: SaveRequest \cup {Nothing}, delete: Rows \cup {Nothing},
                createKey: KeyRequest \cup {Nothing}, deleteKey: KeyRequest \cup {Nothing}]
  BY DEF Idle
<1>8. QED
  BY <1>1, <1>5, <1>6, <1>7

(* Where a user ends up is a page.                                         *)
LEMMA AdmittedIsPage ==
  ASSUME NEW u, NEW p \in Pages
  PROVE  Admitted(u, p) \in Pages
  BY DEF Admitted, Pages, AdminPages

(* The variables keep their types.                                         *)
LEMMA TypeStep == TypeOK /\ Belonging /\ [Next]_vars => TypeOK'
<1> SUFFICES ASSUME TypeOK, Belonging, [Next]_vars PROVE TypeOK'
  OBVIOUS
<1> USE DEF TypeOK, sheet, keyRing
<1>1. CASE SignOut
  <2>1. "login" \in Pages
    BY DEF Pages
  <2>2. QED
    BY <1>1, <2>1, MountIsClean DEF SignOut
<1>2. ASSUME NEW p \in Pages, Load(p) PROVE TypeOK'
  BY <1>2, MountIsClean DEF Load
<1>3. ASSUME NEW p \in Pages, GetMe(p) PROVE TypeOK'
  BY <1>3, MountIsClean DEF GetMe
<1>4. ASSUME NEW p \in Pages, Navigate(p) PROVE TypeOK'
  BY <1>4, MountIsClean, AdmittedIsPage DEF Navigate
<1>5. ASSUME NEW i \in Rows, RowAppears(i) PROVE TypeOK'
  BY <1>5 DEF RowAppears
<1>6. ASSUME NEW i \in Rows, NEW m \in Methods, StartEdit(i, m) PROVE TypeOK'
  <2>1. [EmptyForm EXCEPT !.id = i, !.of = i, !.method = m] \in Form
    BY EmptyFormType DEF Form, Ids
  <2>2. QED
    BY <1>6, <2>1 DEF StartEdit
<1>7. ASSUME NEW i \in Rows, SaveAnswered(i) PROVE TypeOK'
  <2>1. pending.save \in SaveRequest
    BY <1>7 DEF SaveAnswered
  <2>2. pending.save.form \in Form
    BY <2>1 DEF SaveRequest
  <2>3. [EmptyForm EXCEPT !.id = i, !.of = i, !.method = pending.save.form.method,
                          !.mode = pending.save.form.mode] \in Form
    BY <2>2, EmptyFormType DEF Form, Ids
  <2>4. form' \in Form /\ open' \in BOOLEAN /\ message' \in Rows \cup {Nothing}
    BY <1>7, <2>3, EmptyFormType DEF SaveAnswered, ShowInstance, CloseForm
  <2>5. QED
    BY <1>7, <2>4 DEF SaveAnswered
<1>8. ASSUME NEW i \in Rows, AskToDelete(i) PROVE TypeOK'
  BY <1>8 DEF AskToDelete
<1>9. ASSUME NEW i \in Rows, Delete(i) PROVE TypeOK'
  BY <1>9 DEF Delete
<1>10. ASSUME NEW i \in Rows, OpenKeys(i) PROVE TypeOK'
  BY <1>10 DEF OpenKeys, KeysDialog
<1>11. CASE StartCreate \/ Cancel
  BY <1>11, EmptyFormType DEF StartCreate, Cancel
<1>12. ASSUME NEW m \in Methods, ChooseMethod(m) PROVE TypeOK'
  BY <1>12 DEF ChooseMethod, Fill, Form
<1>13. CASE TypePassword \/ GenerateForMe \/ PasteMyPrivateKey \/ TypePrivateKey
  <2>1. CASE TypePassword
    BY <2>1 DEF TypePassword, Fill, Form
  <2>2. CASE GenerateForMe
    BY <2>2 DEF GenerateForMe, Fill, Form
  <2>3. CASE PasteMyPrivateKey
    BY <2>3 DEF PasteMyPrivateKey, Fill, Form
  <2>4. CASE TypePrivateKey
    BY <2>4 DEF TypePrivateKey, Fill, Form
  <2>5. QED
    BY <1>13, <2>1, <2>2, <2>3, <2>4
<1>14. ASSUME NEW regenerate \in BOOLEAN, Save(regenerate) PROVE TypeOK'
  <2>1. [form |-> RequestBody(form), regenerate |-> regenerate] \in SaveRequest
    BY BodyType DEF SaveRequest
  <2>2. QED
    BY <1>14, <2>1 DEF Save
<1>15. CASE CloseConfirm \/ DeleteAnswered
  BY <1>15, EmptyFormType DEF CloseConfirm, DeleteAnswered
<1>16. CASE CloseKeys \/ TypeKey \/ AddKeyAnswered \/ AskToDeleteKey
            \/ CloseConfirmKey \/ DeleteKeyAnswered
  BY <1>16 DEF CloseKeys, KeysDialog, TypeKey, AddKeyAnswered, AskToDeleteKey,
               CloseConfirmKey, DeleteKeyAnswered
<1>17. CASE AddKey
  <2>1. [user |-> keysOf, of |-> keyForm] \in KeyRequest
    BY <1>17 DEF AddKey, KeyRequest
  <2>2. QED
    BY <1>17, <2>1 DEF AddKey
<1>18. CASE DeleteKey
  <2>1. keysOf \in Rows /\ keyTarget \in Rows
    BY <1>18 DEF DeleteKey, Belonging, DialogKeepsToItsUser
  <2>2. [user |-> keysOf, of |-> keyTarget] \in KeyRequest
    BY <2>1 DEF KeyRequest
  <2>3. QED
    BY <1>18, <2>2 DEF DeleteKey
<1>19. ASSUME NEW kind \in DOMAIN Idle, RequestFails(kind) PROVE TypeOK'
  BY <1>19 DEF RequestFails, Idle
<1>20. CASE UNCHANGED vars
  BY <1>20 DEF vars
<1>21. QED
  BY <1>1, <1>2, <1>3, <1>4, <1>5, <1>6, <1>7, <1>8, <1>9, <1>10, <1>11, <1>12, <1>13,
     <1>14, <1>15, <1>16, <1>17, <1>18, <1>19, <1>20 DEF Next, Work

(* A form that is filled in stays with its row.                            *)
LEMMA FillBelongs ==
  ASSUME TypeOK, Belonging, NEW f \in Form, Fill(f), f.id = form.id, FormBelongs(f)
  PROVE  Belonging'
BY DEF Fill, sheet, keyRing, Belonging, FormKeepsToItsRow, FormBelongs, SavesKeepToTheirRow,
       DialogKeepsToItsUser, KeysKeepToTheirUser, MessagesStayOnTheirPage, MessagesAreOfTheForm

(* Forms, dialogs, messages and requests stay with what they are for.      *)
LEMMA BelongingStep == TypeOK /\ Belonging /\ [Next]_vars => Belonging'
<1> SUFFICES ASSUME TypeOK, Belonging, [Next]_vars PROVE Belonging'
  OBVIOUS
<1> USE DEF TypeOK, sheet, keyRing, Belonging, FormKeepsToItsRow, SavesKeepToTheirRow,
            DialogKeepsToItsUser, KeysKeepToTheirUser, MessagesStayOnTheirPage,
            MessagesAreOfTheForm
<1>1. CASE SignOut
  BY <1>1, MountIsClean DEF SignOut, Pages
<1>2. ASSUME NEW p \in Pages, Load(p) PROVE Belonging'
  BY <1>2, MountIsClean DEF Load
<1>3. ASSUME NEW p \in Pages, GetMe(p) PROVE Belonging'
  BY <1>3, MountIsClean DEF GetMe
<1>4. ASSUME NEW p \in Pages, Navigate(p) PROVE Belonging'
  BY <1>4, MountIsClean, AdmittedIsPage DEF Navigate
<1>5. ASSUME NEW i \in Rows, RowAppears(i) PROVE Belonging'
  BY <1>5 DEF RowAppears, FormBelongs
<1>6. ASSUME NEW i \in Rows, NEW m \in Methods, StartEdit(i, m) PROVE Belonging'
  <2>1. FormBelongs(form')
    BY <1>6, EmptyFormType DEF StartEdit, FormBelongs, EmptyForm
  <2>2. QED
    BY <1>6, <2>1 DEF StartEdit, FormBelongs
<1>7. ASSUME NEW i \in Rows, SaveAnswered(i) PROVE Belonging'
  <2>1. FormBelongs(form') /\ (message' # Nothing => form'.id = message')
    BY <1>7, EmptyFormType
    DEF SaveAnswered, ShowInstance, CloseForm, FormBelongs, EmptyForm
  <2>2. page' # "instances" => message' = Nothing
    BY <1>7 DEF SaveAnswered, ShowInstance, CloseForm
  <2>3. QED
    BY <1>7, <2>1, <2>2 DEF SaveAnswered, FormBelongs
<1>8. ASSUME NEW i \in Rows, AskToDelete(i) \/ Delete(i) PROVE Belonging'
  BY <1>8 DEF AskToDelete, Delete, FormBelongs
<1>9. ASSUME NEW i \in Rows, OpenKeys(i) PROVE Belonging'
  BY <1>9 DEF OpenKeys, KeysDialog, FormBelongs
<1>10. CASE StartCreate \/ Cancel
  BY <1>10, EmptyFormType DEF StartCreate, Cancel, FormBelongs
<1>11. ASSUME NEW m \in Methods, ChooseMethod(m) PROVE Belonging'
  BY <1>11, FillBelongs DEF ChooseMethod, Form, FormBelongs
<1>12. CASE TypePassword
  BY <1>12, FillBelongs DEF TypePassword, Form, FormBelongs
<1>13. CASE GenerateForMe
  BY <1>13, FillBelongs DEF GenerateForMe, Form, FormBelongs
<1>14. CASE PasteMyPrivateKey
  BY <1>14, FillBelongs DEF PasteMyPrivateKey, Form, FormBelongs
<1>15. CASE TypePrivateKey
  BY <1>15, FillBelongs DEF TypePrivateKey, Form, FormBelongs
<1>16. ASSUME NEW regenerate \in BOOLEAN, Save(regenerate) PROVE Belonging'
  <2>1. FormBelongs(pending'.save.form)
    BY <1>16, BodyType DEF Save
  <2>2. QED
    BY <1>16, <2>1 DEF Save, FormBelongs
<1>17. CASE CloseConfirm
  BY <1>17 DEF CloseConfirm, FormBelongs
<1>18. CASE DeleteAnswered
  <2>1. FormBelongs(form') /\ (form' # form => page = "keys")
    BY <1>18, EmptyFormType DEF DeleteAnswered, FormBelongs
  <2>2. QED
    BY <1>18, <2>1 DEF DeleteAnswered, FormBelongs
<1>19. CASE CloseKeys \/ TypeKey \/ AskToDeleteKey \/ CloseConfirmKey
  BY <1>19 DEF CloseKeys, KeysDialog, TypeKey, AskToDeleteKey, CloseConfirmKey, FormBelongs
<1>20. CASE AddKey \/ AddKeyAnswered
  BY <1>20 DEF AddKey, AddKeyAnswered, FormBelongs
<1>21. CASE DeleteKey \/ DeleteKeyAnswered
  BY <1>21 DEF DeleteKey, DeleteKeyAnswered, FormBelongs
<1>22. ASSUME NEW kind \in DOMAIN Idle, RequestFails(kind) PROVE Belonging'
  BY <1>22 DEF RequestFails, Idle, FormBelongs
<1>23. CASE UNCHANGED vars
  BY <1>23 DEF vars, FormBelongs
<1>24. QED
  BY <1>1, <1>2, <1>3, <1>4, <1>5, <1>6, <1>7, <1>8, <1>9, <1>10, <1>11, <1>12, <1>13,
     <1>14, <1>15, <1>16, <1>17, <1>18, <1>19, <1>20, <1>21, <1>22, <1>23 DEF Next, Work

(* All of it holds at first.                                               *)
LEMMA InitBelongs == Init => TypeOK /\ Belonging
<1> SUFFICES ASSUME Init PROVE TypeOK /\ Belonging
  OBVIOUS
<1>1. TypeOK
  BY EmptyFormType DEF Init, TypeOK, Idle
<1>2. FormKeepsToItsRow
  BY EmptyFormType DEF Init, FormKeepsToItsRow
<1>3. Belonging
  BY <1>2 DEF Init, Idle, Belonging, SavesKeepToTheirRow, DialogKeepsToItsUser,
              KeysKeepToTheirUser, MessagesStayOnTheirPage, MessagesAreOfTheForm
<1>4. QED
  BY <1>1, <1>3

(* The invariant that the theorems below follow from.                      *)
LEMMA AlwaysBelonging == Spec => [](TypeOK /\ Belonging)
  BY InitBelongs, TypeStep, BelongingStep, PTL DEF Spec

(* Whatever is open when an answer arrives, the state of the pages and the *)
(* requests under way stay of their types.                                 *)
THEOREM TabTypeCorrect == Spec => []TypeOK
  BY AlwaysBelonging, PTL

(* useMutation's late answers never put the contents or the secrets of one *)
(* row under the id of another.                                            *)
THEOREM SavesAlwaysKeepToTheirRow == Spec => []SavesKeepToTheirRow
<1>1. Belonging => SavesKeepToTheirRow
  BY DEF Belonging
<1>2. QED
  BY <1>1, AlwaysBelonging, PTL

(* Keys are added to, and removed from, the user whose dialog it was.      *)
THEOREM KeysAlwaysKeepToTheirUser == Spec => []KeysKeepToTheirUser
<1>1. Belonging => KeysKeepToTheirUser
  BY DEF Belonging
<1>2. QED
  BY <1>1, AlwaysBelonging, PTL

(* A success message stands above the form it is about.                    *)
THEOREM MessagesAreAlwaysOfTheForm == Spec => []MessagesAreOfTheForm
<1>1. Belonging => MessagesAreOfTheForm
  BY DEF Belonging
<1>2. QED
  BY <1>1, AlwaysBelonging, PTL

----------------------------------------------------------------------------
(* The tab with its trips and its theme is still a console: what leaves    *)
(* and comes back does nothing to the pages but load them.                 *)
THEOREM VisitsKeepTheConsole == VisitSpec => Spec
<1>1. VisitInit => Init
  BY DEF VisitInit
<1>2. [VisitNext]_visitVars => [Next]_vars
  <2> SUFFICES ASSUME [VisitNext]_visitVars PROVE [Next]_vars
    OBVIOUS
  <2>1. CASE UNCHANGED vars
    BY <2>1
  <2>2. CASE Work
    BY <2>2 DEF Next
  <2>3. ASSUME NEW p \in Pages, Load(p) PROVE [Next]_vars
    BY <2>3 DEF Next
  <2>4. ASSUME NEW p \in Pages, GetMe(p) PROVE [Next]_vars
    BY <2>4 DEF Next, Work
  <2>5. CASE SignedIn
    <3>1. {"overview", "users"} \subseteq Pages
      BY DEF Pages, AdminPages
    <3>. QED BY <2>3, <2>5, <3>1 DEF SignedIn
  <2>. QED BY <2>1, <2>2, <2>3, <2>4, <2>5
       DEF VisitNext, visitVars, BeginLogin, ExchangeCode, GiveUp, Refuse, GetMeBack
<1>. QED BY <1>1, <1>2, PTL DEF VisitSpec, Spec

----------------------------------------------------------------------------
(* Paths and files, without their slashes.                                 *)
Segments == {"dashboard", "settings", "ssh-keys", "admin", "users", "instances", "login", "404"}
Suffixes == {".html", "/index.html"}
Names == Segments \cup Suffixes

(* What names a page never ends like a file of the export.                 *)
LEMMA PathType ==
  ASSUME NEW p \in Pages
  PROVE  /\ Path(p) \in Seq(Names) /\ Len(Path(p)) \in {1, 2}
         /\ Path(p)[Len(Path(p))] \notin Suffixes
<1>. USE DEF Names, Segments, Suffixes
<1>1. CASE p = "overview"
  <2>1. Path(p) = <<"dashboard">>
    BY <1>1 DEF Path
  <2>. QED BY <2>1
<1>2. CASE p = "login"
  <2>1. Path(p) = <<"login">>
    BY <1>2 DEF Path
  <2>. QED BY <2>1
<1>3. CASE p = "keys"
  <2>1. Path(p) = <<"settings", "ssh-keys">>
    BY <1>3 DEF Path
  <2>. QED BY <2>1
<1>4. CASE p = "users"
  <2>1. Path(p) = <<"admin", "users">>
    BY <1>4 DEF Path
  <2>. QED BY <2>1
<1>5. CASE p = "instances"
  <2>1. Path(p) = <<"admin", "instances">>
    BY <1>5 DEF Path
  <2>. QED BY <2>1
<1>. QED BY <1>1, <1>2, <1>3, <1>4, <1>5 DEF Pages, AdminPages

(* What follows a path is the last of it.                                  *)
LEMMA SuffixIsLast ==
  ASSUME NEW path \in Seq(Names), NEW e \in Names
  PROVE  /\ path \o <<e>> \in Seq(Names)
         /\ Len(path \o <<e>>) = Len(path) + 1
         /\ (path \o <<e>>)[Len(path) + 1] = e
BY AppendIsConcat, AppendProperties

(* A file of the export ends with its suffix.                              *)
LEMMA FileType ==
  ASSUME NEW path \in Seq(Names)
  PROVE  /\ Len(Index(path)) = Len(path) + 1 /\ Index(path)[Len(Index(path))] = "/index.html"
         /\ Len(Html(path)) = Len(path) + 1 /\ Html(path)[Len(Html(path))] = ".html"
BY SuffixIsLast DEF Index, Html, Names, Suffixes

(* resolveRequestedAsset finds the page, with either form of export.       *)
LEMMA PagesAreFound ==
  ASSUME NEW p \in Pages, NEW slash \in BOOLEAN
  PROVE  Resolve(Files(slash), Path(p)) = Exported(slash, p)
<1>1. <<>> \in Seq(Names) /\ Len(<<>>) = 0 /\ <<"404">> \in Seq(Names)
  BY EmptySeq DEF Names, Segments
<1>2. \A q \in Pages :
        Exported(slash, q)[Len(Exported(slash, q))] = IF slash THEN "/index.html" ELSE ".html"
  BY PathType, FileType DEF Exported
<1>3. \A file \in Files(slash) : file[Len(file)] \in Suffixes
  BY <1>1, <1>2, FileType DEF Files, Suffixes
<1>4. Path(p) \notin Files(slash)
  BY <1>3, PathType
<1>5. Exported(slash, p) \in Files(slash)
  BY DEF Files
<1>6. CASE slash
  BY <1>4, <1>5, <1>6 DEF Resolve, Exported
<1>7. CASE ~slash
  <2>1. \A file \in Files(slash) : file[Len(file)] = "/index.html" => file = Index(<<>>)
    BY <1>1, <1>2, <1>7, FileType DEF Files
  <2>2. Len(Index(Path(p))) # Len(Index(<<>>))
    <3>1. <<"/index.html">> \in Seq(Names)
      BY DEF Names, Suffixes
    <3>2. Index(<<>>) = <<"/index.html">>
      BY <3>1, ConcatEmptySeq DEF Index
    <3>3. Len(Index(<<>>)) = 1
      BY <3>2
    <3>4. Len(Path(p)) \in {1, 2}
      BY PathType
    <3>5. Len(Index(Path(p))) = Len(Path(p)) + 1
      BY FileType, PathType
    <3>. QED BY <3>3, <3>4, <3>5
  <2>3. Index(Path(p)) \notin Files(slash)
    BY <2>1, <2>2, FileType, PathType
  <2>. QED BY <1>4, <1>5, <1>7, <2>3 DEF Resolve, Exported
<1>. QED BY <1>6, <1>7

----------------------------------------------------------------------------
(* The tab comes back to the redirect URL of the authorization request,    *)
(* which the provider knows, and lands there in production.                *)
TripIsOfOneURL ==
  /\ trip.pc \in {"provider", "exchange", "landed"} => trip.at \in Deployments
  /\ trip.pc \in {"exchange", "landed"} => trip.asked \in trip.at.registered
  /\ trip.pc = "landed" => trip.landed = RedirectOrigin(trip.at, trip.asked)

TripInv ==
  trip.pc \in {"home", "provider", "exchange", "landed"}
    /\ TripIsOfOneURL /\ LandingPagesAreServed

(* A tab begins at home.                                                   *)
LEMMA InitTrip == VisitInit => TripInv
  BY DEF VisitInit, Home, TripInv, TripIsOfOneURL, LandingPagesAreServed

(* The URL, and with it the deployment, is handed on at each stop.         *)
LEMMA TripStep == TripInv /\ [VisitNext]_visitVars => TripInv'
<1> SUFFICES ASSUME TripInv, [VisitNext]_visitVars PROVE TripInv'
  OBVIOUS
<1>. USE DEF TripInv, TripIsOfOneURL, LandingPagesAreServed
<1>1. CASE trip' = Home
  BY <1>1 DEF Home
<1>2. CASE BeginLogin
  BY <1>2 DEF BeginLogin
<1>3. CASE ExchangeCode
  BY <1>3 DEF ExchangeCode
<1>4. CASE SignedIn
  <2>1. PICK p \in {"overview", "users"} :
          /\ Load(p)
          /\ trip' = [pc |-> "landed", at |-> trip.at, asked |-> trip.asked,
                      landed |-> RedirectOrigin(trip.at, trip.asked),
                      file |-> Resolve(Files(trip.at.trailingSlash), Path(p))]
    BY <1>4 DEF SignedIn
  <2>2. p \in Pages
    BY DEF Pages, AdminPages
  <2>3. trip.at \in Deployments /\ trip.asked \in trip.at.registered
    BY <1>4 DEF SignedIn
  <2>4. trip.at.trailingSlash \in BOOLEAN
    BY <2>3, DeploymentsAreSuch DEF Deployment
  <2>5. Resolve(Files(trip.at.trailingSlash), Path(p)) = Exported(trip.at.trailingSlash, p)
    BY <2>2, <2>4, PagesAreFound
  <2>6. page' = p
    BY <2>1 DEF Load, Mount
  <2>. QED BY <2>1, <2>3, <2>5, <2>6
<1>5. CASE UNCHANGED <<vars, trip>>
  BY <1>5 DEF vars
<1>6. CASE trip = Home /\ UNCHANGED trip
  BY <1>1, <1>6
<1>. QED BY <1>1, <1>2, <1>3, <1>4, <1>5, <1>6 DEF VisitNext, visitVars, GiveUp, Refuse, GetMeBack

(* The invariant that the theorems about the sign-in follow from.          *)
LEMMA TripAlways == VisitSpec => []TripInv
  BY InitTrip, TripStep, PTL DEF VisitSpec

(* Every page that the callback sends a tab to is found in the export.     *)
THEOREM LandingPagesAlwaysServed == VisitSpec => []LandingPagesAreServed
<1>1. TripInv => LandingPagesAreServed
  BY DEF TripInv
<1>. QED BY <1>1, TripAlways, PTL

(* In production the session that the callback sets reaches the API from   *)
(* the page that the tab lands on: with any headers, for any set of        *)
(* registered URLs, with and without SESSION_SECURE where those are https. *)
THEOREM SignInAlwaysReaches == VisitSpec => []SignInReachesTheConsole
<1>1. TripInv => SignInReachesTheConsole
  BY DEF TripInv, TripIsOfOneURL, SignInReachesTheConsole, SessionReaches, CookieIsSent,
         AnswersAreReadable, ApiOrigin, RedirectOrigin
<1>. QED BY <1>1, TripAlways, PTL

----------------------------------------------------------------------------
(* What the storage and the states say until the effects have run: the     *)
(* second render knows the theme that the first has overwritten.           *)
LookInv ==
  /\ {theme, expected} \subseteq Themes /\ prefers \in Looks
  /\ phase \in {"loaded", "rendered", "settled"}
  /\ phase = "loaded" =>
       theme = "light" /\ expected = IF stored \in Themes THEN stored ELSE "light"
  /\ phase = "rendered" => stored \in Themes
  /\ phase = "settled" => stored = theme
  /\ phase # "loaded" => theme = expected
  /\ ThemeIsPainted

(* What the storage says at first is what the browser was left with.       *)
LEMMA InitLook == LookInit => LookInv
  BY NoEntryIsNoTheme DEF LookInit, LookInv, ThemeIsPainted, Themes, Looks

(* Effects, toggles and loads: between the renders the entry is wrong, and *)
(* the state is right.                                                     *)
LEMMA LookStep ==
  ASSUME LookInv,
         LoadLook \/ FirstEffects \/ SecondEffects \/ Toggle \/ PreferenceChanges
           \/ UNCHANGED look
  PROVE  LookInv'
<1>. USE DEF LookInv, ThemeIsPainted, ResolveTheme, Themes, Looks
<1>1. CASE LoadLook
  BY <1>1 DEF LoadLook
<1>2. CASE FirstEffects
  BY <1>2 DEF FirstEffects, Apply
<1>3. CASE SecondEffects
  BY <1>3 DEF SecondEffects, Apply
<1>4. CASE Toggle
  BY <1>4 DEF Toggle, NextTheme, Apply
<1>5. CASE PreferenceChanges
  BY <1>5 DEF PreferenceChanges
<1>6. CASE UNCHANGED look
  BY <1>6 DEF look
<1>. QED BY <1>1, <1>2, <1>3, <1>4, <1>5, <1>6

(* The invariant that the theorems about the theme follow from.            *)
LEMMA LookAlways == VisitSpec => []LookInv
<1>1. VisitInit => LookInv
  BY InitLook DEF VisitInit
<1>2. LookInv /\ [VisitNext]_visitVars => LookInv'
  BY LookStep DEF VisitNext, visitVars
<1>. QED BY <1>1, <1>2, PTL DEF VisitSpec

(* However often the console is loaded and toggled, the theme that this    *)
(* browser was left with is back once the effects have run.                *)
THEOREM ThemeAlwaysRemembered == VisitSpec => []ThemeIsRemembered
<1>1. LookInv => ThemeIsRemembered
  BY DEF LookInv, ThemeIsRemembered
<1>. QED BY <1>1, LookAlways, PTL

(* The page is painted in the theme, and in what the system prefers where  *)
(* the theme leaves it to the system.                                      *)
THEOREM ThemeAlwaysPainted == VisitSpec => []ThemeIsPainted
<1>1. LookInv => ThemeIsPainted
  BY DEF LookInv
<1>. QED BY <1>1, LookAlways, PTL
=============================================================================
