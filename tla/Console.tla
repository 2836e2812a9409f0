------------------------------ MODULE Console ------------------------------
(***************************************************************************)
(* The web console in one browser tab: the pages with lists, dialogs and   *)
(* forms, and the requests they have under way.  A dialog may be closed,   *)
(* and another one opened, before the answer to the first arrives; the     *)
(* answer then works on whatever the page shows.                           *)
(*                                                                         *)
(* The contents of a form are the row they were copied from or typed for;  *)
(* editing a field does not change that.  Lists may be out of date: any    *)
(* row that was ever there can be opened.  Error texts are left out.       *)
(***************************************************************************)
EXTENDS Naturals

CONSTANTS
  Rows,     \* ids that the database hands out, of the table a page is about
  New,      \* the id of a form that creates
  Nothing   \* no value, no dialog, no request

ASSUME MarkersAreNoRows == New \notin Rows /\ Nothing \notin Rows /\ New # Nothing

Ids == Rows \cup {New}
Roles == {"user", "admin"}
AdminPages == {"users", "instances"}
Pages == AdminPages \cup {"keys", "overview", "login"}
Methods == {"none", "password", "key"}

VARIABLES
  user,     \* the role of the signed-in user as AuthProvider knows it
  page,     \* the page that is mounted
  rows,     \* the ids handed out so far
  open,     \* whether the dialog with the form is open
  form,     \* the form, kept while the dialog is closed
  message,  \* the row that the success message of the instances page is about
  target,   \* the row that the delete dialog names
  keysOf,   \* the user whose keys the keys dialog shows
  keyForm,  \* the user the contents of the form for a new key were typed for
  keyTarget,\* the owner of the key that the dialog for deleting it names
  pending   \* requests under way, one of each kind

sheet == <<open, form, message, target>>
keyRing == <<keysOf, keyForm, keyTarget>>
vars == <<user, page, rows, sheet, keyRing, pending>>

Form == [id: Ids, of: Ids, method: Methods, mode: {"generate", "paste"},
         password: Ids \cup {Nothing}, key: Ids \cup {Nothing}]

SaveRequest == [form: Form, regenerate: BOOLEAN]
KeyRequest == [user: Rows, of: Rows \cup {Nothing}]

TypeOK ==
  /\ user \in Roles \cup {"loading", "nobody"} /\ page \in Pages
  /\ rows \subseteq Rows /\ open \in BOOLEAN /\ form \in Form
  /\ {message, target, keysOf, keyForm, keyTarget} \subseteq Rows \cup {Nothing}
  /\ pending \in [save: SaveRequest \cup {Nothing}, delete: Rows \cup {Nothing},
                  createKey: KeyRequest \cup {Nothing},
                  deleteKey: KeyRequest \cup {Nothing}]

EmptyForm == [id |-> New, of |-> New, method |-> "key", mode |-> "generate",
              password |-> Nothing, key |-> Nothing]

Idle == [save |-> Nothing, delete |-> Nothing, createKey |-> Nothing, deleteKey |-> Nothing]

(* A page that is mounted starts empty; the answers to requests of the one *)
(* before it find nothing to work on.                                      *)
Mount(p) ==
  /\ page' = p
  /\ open' = FALSE /\ form' = EmptyForm /\ message' = Nothing /\ target' = Nothing
  /\ keysOf' = Nothing /\ keyForm' = Nothing /\ keyTarget' = Nothing
  /\ pending' = Idle

Init ==
  /\ user = "loading" /\ page \in Pages \ {"login"} /\ rows \in SUBSET Rows
  /\ open = FALSE /\ form = EmptyForm /\ message = Nothing /\ target = Nothing
  /\ keysOf = Nothing /\ keyForm = Nothing /\ keyTarget = Nothing
  /\ pending = Idle

----------------------------------------------------------------------------
(* ProtectedLayout and AdminLayout: where a user who asks for p ends up.   *)
Admitted(u, p) ==
  CASE u = "nobody" -> "login"
    [] u = "user" /\ p \in AdminPages -> "overview"
    [] OTHER -> p

(* The tab is loaded: by its address, or on the way back from the provider. *)
Load(p) ==
  /\ p # "login"
  /\ user' = "loading" /\ Mount(p)
  /\ rows' \in SUBSET Rows

(* AuthProvider asks once; nothing is shown before it has its answer.      *)
GetMe(p) ==
  /\ user = "loading"
  /\ user' \in Roles \cup {"nobody"}
  /\ p = Admitted(user', page)
  /\ Mount(p)
  /\ UNCHANGED rows

Navigate(p) ==
  /\ user \in Roles /\ p \notin {page, "login"}
  /\ Mount(Admitted(user, p))
  /\ rows' \in SUBSET Rows
  /\ UNCHANGED user

(* The logout request has been answered, well or not; by now any dialog    *)
(* may be open.                                                            *)
SignOut ==
  /\ user \in Roles
  /\ user' = "nobody" /\ Mount("login")
  /\ UNCHANGED rows

(* Somebody else creates a row, and a list shows it.                       *)
RowAppears(i) ==
  /\ i \notin rows
  /\ rows' = rows \cup {i}
  /\ UNCHANGED <<user, page, sheet, keyRing, pending>>

----------------------------------------------------------------------------
(* Dialogs are modal: what is below can be used when none is open.         *)
NoDialog == ~open /\ target = Nothing /\ keysOf = Nothing

ListUsable == user \in Roles /\ page \in AdminPages \cup {"keys"} /\ NoDialog

StartCreate ==
  /\ ListUsable
  /\ open' = TRUE /\ form' = EmptyForm /\ message' = Nothing
  /\ UNCHANGED <<user, page, rows, target, keyRing, pending>>

(* Variant for mutation: the message of an earlier save stays.             *)
StartEditOnly(i, method) ==
  /\ ListUsable /\ i \in rows
  /\ page # "instances" => method = EmptyForm.method
  /\ open' = TRUE
  /\ form' = [EmptyForm EXCEPT !.id = i, !.of = i, !.method = method]
  /\ UNCHANGED <<user, page, rows, message, target, keyRing, pending>>

StartEdit(i, method) ==
  /\ ListUsable /\ i \in rows
  /\ page # "instances" => method = EmptyForm.method
  /\ open' = TRUE
  /\ form' = [EmptyForm EXCEPT !.id = i, !.of = i, !.method = method]
  /\ message' = Nothing
  /\ UNCHANGED <<user, page, rows, target, keyRing, pending>>

Cancel ==
  /\ open
  /\ open' = FALSE /\ form' = EmptyForm /\ message' = Nothing
  /\ UNCHANGED <<user, page, rows, target, keyRing, pending>>

(* The credentials of an instance: fields show up with their method.       *)
Fill(f) ==
  /\ open /\ page = "instances"
  /\ form' = f
  /\ UNCHANGED <<user, page, rows, open, message, target, keyRing, pending>>

ChooseMethod(m) == Fill([form EXCEPT !.method = m])

TypePassword == form.method = "password" /\ Fill([form EXCEPT !.password = form.id])

GenerateForMe ==
  /\ form.method = "key"
  /\ Fill([form EXCEPT !.mode = "generate", !.key = IF form.id = New THEN Nothing ELSE @])

PasteMyPrivateKey == form.method = "key" /\ Fill([form EXCEPT !.mode = "paste"])

TypePrivateKey ==
  /\ form.method = "key" /\ form.mode = "paste"
  /\ \E key \in {form.id, Nothing} : Fill([form EXCEPT !.key = key])

----------------------------------------------------------------------------
(* What a save sends: nothing that was pasted for a key to be generated    *)
(* with a new instance.                                                    *)
RequestBody(f) ==
  [f EXCEPT !.key = IF f.method = "key" /\ f.mode = "generate" /\ f.id = New
                    THEN Nothing ELSE @]

(* "Regenerate key" is there for an instance that is saved already.        *)
RegenerateKey ==
  page = "instances" /\ form.id # New /\ form.method = "key" /\ form.mode = "generate"

(* "Paste a private key or switch back to Generate for me."                *)
KeyMissing == form.method = "key" /\ form.mode = "paste" /\ form.key = Nothing

Save(regenerate) ==
  /\ open /\ pending.save = Nothing
  /\ (regenerate => RegenerateKey) /\ ~KeyMissing
  /\ pending' = [pending EXCEPT
       !.save = [form |-> RequestBody(form), regenerate |-> regenerate]]
  /\ UNCHANGED <<user, page, rows, sheet, keyRing>>

CloseForm ==
  open' = FALSE /\ form' = EmptyForm /\ message' = Nothing

(* Variant for mutation: what the form holds is kept.                      *)
KeepInstance(i, sent) ==
  /\ form' = [form EXCEPT !.id = i, !.mode = sent.mode]
  /\ message' = i
  /\ UNCHANGED open

(* The instances page goes on with the row it was answered.                *)
ShowInstance(i, sent) ==
  /\ form' = [EmptyForm EXCEPT !.id = i, !.of = i,
                               !.method = sent.method, !.mode = sent.mode]
  /\ message' = i
  /\ UNCHANGED open

(* A new row may be in the list before the answer is here.                 *)
SaveAnswered(i) ==
  /\ pending.save # Nothing
  /\ LET sent == pending.save.form IN
       /\ sent.id \in {i, New}
       /\ IF page = "instances" /\ (sent.id = New \/ pending.save.regenerate)
          THEN ShowInstance(i, sent) ELSE CloseForm
  /\ rows' = rows \cup {i}
  /\ pending' = [pending EXCEPT !.save = Nothing]
  /\ UNCHANGED <<user, page, target, keyRing>>

(* A request that fails: the page stays as it is, but for the error.       *)
RequestFails(kind) ==
  /\ pending[kind] # Nothing
  /\ pending' = [pending EXCEPT ![kind] = Nothing]
  /\ UNCHANGED <<user, page, rows, sheet, keyRing>>

----------------------------------------------------------------------------
(* Deleting: after a confirmation, except on the page with one's own keys. *)
AskToDelete(i) ==
  /\ ListUsable /\ page \in AdminPages /\ i \in rows
  /\ target' = i
  /\ UNCHANGED <<user, page, rows, open, form, message, keyRing, pending>>

CloseConfirm ==
  /\ target # Nothing
  /\ target' = Nothing
  /\ UNCHANGED <<user, page, rows, open, form, message, keyRing, pending>>

Delete(i) ==
  /\ pending.delete = Nothing
  /\ IF page = "keys" THEN ListUsable /\ i \in rows ELSE target = i
  /\ pending' = [pending EXCEPT !.delete = i]
  /\ UNCHANGED <<user, page, rows, sheet, keyRing>>

(* The page with one's own keys closes its form, also that of another key, *)
(* and keeps what was typed for a new one until it is opened again.        *)
DeleteAnswered ==
  /\ pending.delete # Nothing
  /\ pending' = [pending EXCEPT !.delete = Nothing]
  /\ target' = Nothing
  /\ IF page = "keys"
     THEN open' = FALSE /\ form' = IF form.id = New THEN form ELSE EmptyForm
     ELSE UNCHANGED <<open, form>>
  /\ UNCHANGED <<user, page, rows, message, keyRing>>

----------------------------------------------------------------------------
(* Variant for mutation: the dialog keeps what was typed.                  *)
KeysDialogAsItWas(u) == keysOf' = u /\ keyTarget' = Nothing /\ UNCHANGED keyForm

(* The keys dialog of the users page is emptied when it opens and closes.  *)
KeysDialog(u) == keysOf' = u /\ keyForm' = Nothing /\ keyTarget' = Nothing

OpenKeys(u) ==
  /\ ListUsable /\ page = "users" /\ u \in rows
  /\ KeysDialog(u)
  /\ UNCHANGED <<user, page, rows, sheet, pending>>

CloseKeys ==
  /\ keysOf # Nothing /\ keyTarget = Nothing
  /\ KeysDialog(Nothing)
  /\ UNCHANGED <<user, page, rows, sheet, pending>>

TypeKey ==
  /\ keysOf # Nothing /\ keyTarget = Nothing
  /\ keyForm' = keysOf
  /\ UNCHANGED <<user, page, rows, sheet, keysOf, keyTarget, pending>>

(* Variant for mutation: no user has to be selected.                       *)
AddKeyOfNobody ==
  /\ user \in Roles /\ page = "users" /\ pending.createKey = Nothing
  /\ pending' = [pending EXCEPT !.createKey = [user |-> keysOf, of |-> keyForm]]
  /\ UNCHANGED <<user, page, rows, sheet, keyRing>>

AddKey ==
  /\ keysOf # Nothing /\ keyTarget = Nothing /\ pending.createKey = Nothing
  /\ pending' = [pending EXCEPT !.createKey = [user |-> keysOf, of |-> keyForm]]
  /\ UNCHANGED <<user, page, rows, sheet, keyRing>>

(* Whichever dialog is open by then, its form is emptied.                  *)
AddKeyAnswered ==
  /\ pending.createKey # Nothing
  /\ keyForm' = Nothing
  /\ pending' = [pending EXCEPT !.createKey = Nothing]
  /\ UNCHANGED <<user, page, rows, sheet, keysOf, keyTarget>>

AskToDeleteKey ==
  /\ keysOf # Nothing /\ keyTarget = Nothing
  /\ keyTarget' = keysOf
  /\ UNCHANGED <<user, page, rows, sheet, keysOf, keyForm, pending>>

CloseConfirmKey ==
  /\ keyTarget # Nothing
  /\ keyTarget' = Nothing
  /\ UNCHANGED <<user, page, rows, sheet, keysOf, keyForm, pending>>

DeleteKey ==
  /\ keyTarget # Nothing /\ pending.deleteKey = Nothing
  /\ pending' = [pending EXCEPT !.deleteKey = [user |-> keysOf, of |-> keyTarget]]
  /\ UNCHANGED <<user, page, rows, sheet, keyRing>>

DeleteKeyAnswered ==
  /\ pending.deleteKey # Nothing
  /\ keyTarget' = Nothing
  /\ pending' = [pending EXCEPT !.deleteKey = Nothing]
  /\ UNCHANGED <<user, page, rows, sheet, keysOf, keyForm>>

----------------------------------------------------------------------------
Work ==
  \/ SignOut
  \/ \E p \in Pages : GetMe(p) \/ Navigate(p)
  \/ \E i \in Rows :
       \/ RowAppears(i) \/ \E m \in Methods : StartEdit(i, m)
       \/ SaveAnswered(i) \/ AskToDelete(i) \/ Delete(i) \/ OpenKeys(i)
  \/ StartCreate \/ Cancel
  \/ \E m \in Methods : ChooseMethod(m)
  \/ TypePassword \/ GenerateForMe \/ PasteMyPrivateKey \/ TypePrivateKey
  \/ \E regenerate \in BOOLEAN : Save(regenerate)
  \/ CloseConfirm \/ DeleteAnswered
  \/ CloseKeys \/ TypeKey \/ AddKey \/ AddKeyAnswered
  \/ AskToDeleteKey \/ CloseConfirmKey \/ DeleteKey \/ DeleteKeyAnswered
  \/ \E kind \in DOMAIN Idle : RequestFails(kind)

Next == Work \/ \E p \in Pages : Load(p)

Spec == Init /\ [][Next]_vars

----------------------------------------------------------------------------
(* Whatever answers arrive while another form is open, a save carries the  *)
(* contents of the row it names, and secrets that were typed for it.       *)
SavesKeepToTheirRow ==
  pending.save # Nothing =>
    LET f == pending.save.form IN
      f.of = f.id /\ {f.password, f.key} \subseteq {f.id, Nothing}

(* A key is added to the user in whose dialog it was typed, and deleted    *)
(* from the user in whose dialog it was listed, over any number of dialogs *)
(* and late answers.                                                       *)
KeysKeepToTheirUser ==
  /\ pending.createKey # Nothing => pending.createKey.of \in {pending.createKey.user, Nothing}
  /\ pending.deleteKey # Nothing => pending.deleteKey.of = pending.deleteKey.user

(* "Instance created. Copy the public key below": the message stands above *)
(* the form of the row it is about, also when the answer came late.        *)
MessagesAreOfTheForm == message # Nothing => form.id = message

(* "This instance is using a stored private key": saving an instance while *)
(* the form says so does not replace that key.                             *)
StoredKeyIsKept ==
  pending.save # Nothing =>
    LET f == pending.save.form IN
      f.id # New /\ f.method = "key" /\ f.mode = "generate" /\ ~pending.save.regenerate
      => f.key = Nothing
=============================================================================
