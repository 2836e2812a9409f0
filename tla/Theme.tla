------------------------------- MODULE Theme -------------------------------
(***************************************************************************)
(* The theme of a tab: ThemeProvider's two states and three effects, the   *)
(* entry in the browser's storage, and the system's preference.  The first *)
(* render knows nothing of the storage, and the effects after it first     *)
(* read the entry and then write the theme of that render over it; the     *)
(* effects after the second render write it back.  A tab that is loaded    *)
(* again in between finds the wrong entry.                                 *)
(*                                                                         *)
(* This is the exported console.  The development server runs with React's *)
(* strict mode, which runs the first effects twice.                        *)
(***************************************************************************)
CONSTANT NoEntry  \* nothing in the storage

VARIABLES
  phase,     \* how far the effects are: loaded, rendered, settled
  theme,     \* the theme as ThemeProvider knows it
  shown,     \* what the page is painted in
  stored,    \* the entry "theme" of localStorage
  prefers,   \* what the system prefers
  expected   \* the theme that this browser was last left with

look == <<phase, theme, shown, stored, prefers, expected>>

Looks == {"light", "dark"}
Themes == Looks \cup {"system"}

ASSUME NoEntryIsNoTheme == NoEntry \notin Themes

ResolveTheme(t) == IF t = "system" THEN prefers ELSE t

LookInit ==
  /\ phase = "loaded" /\ theme = "light" /\ shown = "light"
  /\ stored \in Themes \cup {NoEntry} /\ prefers \in Looks
  /\ expected = IF stored = NoEntry THEN "light" ELSE stored

(* The page is loaded: the states start over.  What is in the storage      *)
(* between the two renders is lost for good.                               *)
LoadLook ==
  /\ phase' = "loaded" /\ theme' = "light" /\ shown' = "light"
  /\ expected' = IF phase = "rendered" THEN stored ELSE expected
  /\ UNCHANGED <<stored, prefers>>

Apply(t) == shown' = ResolveTheme(t) /\ stored' = t

(* Variant for mutation: the entry is written before it is read.           *)
WriteBeforeRead ==
  /\ phase = "loaded"
  /\ Apply(theme) /\ theme' = stored'
  /\ phase' = "rendered"
  /\ UNCHANGED <<prefers, expected>>

FirstEffects ==
  /\ phase = "loaded"
  /\ theme' = IF stored \in Themes THEN stored ELSE "light"
  /\ Apply(theme)
  /\ phase' = "rendered"
  /\ UNCHANGED <<prefers, expected>>

SecondEffects ==
  /\ phase = "rendered"
  /\ Apply(theme)
  /\ phase' = "settled"
  /\ UNCHANGED <<theme, prefers, expected>>

NextTheme ==
  CASE theme = "light" -> "dark" [] theme = "dark" -> "system" [] theme = "system" -> "light"

(* ThemeToggle; the effects follow within the click.                       *)
Toggle ==
  /\ phase = "settled"
  /\ theme' = NextTheme /\ Apply(theme') /\ expected' = theme'
  /\ UNCHANGED <<phase, prefers>>

(* Variant for mutation: the listener stays when the theme changes.        *)
FollowAlways ==
  /\ prefers' \in Looks \ {prefers}
  /\ shown' = IF phase = "settled" THEN prefers' ELSE shown
  /\ UNCHANGED <<phase, theme, stored, expected>>

PreferenceChanges ==
  /\ prefers' \in Looks \ {prefers}
  /\ shown' = IF phase = "settled" /\ theme = "system" THEN prefers' ELSE shown
  /\ UNCHANGED <<phase, theme, stored, expected>>

----------------------------------------------------------------------------
(* Loading the console again does not change the theme, though its first   *)
(* effects write another one, unless it is cut off right there.            *)
ThemeIsRemembered == phase = "settled" => theme = expected

(* What is painted follows the theme, and the system where it says so,     *)
(* over every toggle, load and change of the system's preference.          *)
ThemeIsPainted == phase = "settled" => shown = ResolveTheme(theme)
=============================================================================
