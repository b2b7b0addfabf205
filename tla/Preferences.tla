---------------------------- MODULE Preferences ----------------------------
(***************************************************************************)
(* The preferences of a user, one row, and a page that shows them:         *)
(* SettingsPage, or OverlayPage.  The page loads them as it opens; what is *)
(* set in it is shown at once and saved field by field.  A save that is    *)
(* refused is told in a toast, or not at all; nothing is put back.         *)
(***************************************************************************)
EXTENDS Naturals, FiniteSets

CONSTANTS
  Field,  \* fields of the preferences
  Early,  \* those OverlayPage offers before they are loaded
  Task    \* slots of saves; bounds those in flight at once

VARIABLES
  stored,  \* the row; every field has a default and one other value
  shown,   \* what the page shows of it
  load,    \* where its loading is
  save,    \* the saves in flight
  astray   \* history: fields that need not be as stored until it opens anew

vars == <<stored, shown, load, save, astray>>

-----------------------------------------------------------------------------
Prefs == [Field -> BOOLEAN]
Default == [f \in Field |-> FALSE]

Asked == [pc |-> "asked"]
Loaded == [pc |-> "loaded"]
Idle == [pc |-> "idle"]
Save(f, v) == [pc |-> "asked", field |-> f, to |-> v]

Saving == {save[t].field : t \in {u \in Task : save[u] # Idle}}
Quiet == load = Loaded /\ Saving = {}

Init ==
  /\ stored \in Prefs
  /\ shown = Default /\ load = Asked
  /\ save = [t \in Task |-> Idle]
  /\ astray = {}

-----------------------------------------------------------------------------
\* The page is left and opened again; its saves go on.
Open ==
  /\ load = Loaded
  /\ shown' = Default /\ load' = Asked
  /\ UNCHANGED <<stored, save, astray>>

\* getPreferences
Read ==
  /\ load = Asked
  /\ load' = [pc |-> "read", prefs |-> stored]
  /\ astray' = Saving
  /\ UNCHANGED <<stored, shown, save>>

\* then, of both pages
Answer ==
  /\ load.pc = "read"
  /\ shown' = load.prefs
  /\ load' = Loaded
  /\ UNCHANGED <<stored, save, astray>>

\* catch and finally: the defaults are shown as if they were the user's
Unread ==
  /\ load # Loaded
  /\ load' = Loaded
  /\ astray' = Field
  /\ UNCHANGED <<stored, shown, save>>

-----------------------------------------------------------------------------
\* SettingsPage shows nothing before it has loaded; of OverlayPage's controls
\* one is disabled until then.
Offered(f) == load = Loaded \/ f \in Early

\* A lone save from a loaded page makes the field good again.
Set(t, f) ==
  /\ Offered(f) /\ save[t] = Idle
  /\ shown' = [shown EXCEPT ![f] = ~@]
  /\ save' = [save EXCEPT ![t] = Save(f, ~shown[f])]
  /\ astray' = IF f \in Saving \/ (f \in Early /\ load # Loaded) THEN astray \cup {f} ELSE astray \ {f}
  /\ UNCHANGED <<stored, load>>

\* A volume slider saves as the mouse or a finger leaves it; moved by the
\* keyboard it saves nothing.
Slide(f) ==
  /\ load = Loaded
  /\ shown' = [shown EXCEPT ![f] = ~@]
  /\ astray' = astray \cup {f}
  /\ UNCHANGED <<stored, load, save>>

\* updatePreferences: the row is there as long as the user
Write(t) ==
  /\ save[t] # Idle
  /\ stored' = [stored EXCEPT ![save[t].field] = save[t].to]
  /\ save' = [save EXCEPT ![t] = Idle]
  /\ UNCHANGED <<shown, load, astray>>

Refuse(t) ==
  /\ save[t] # Idle
  /\ save' = [save EXCEPT ![t] = Idle]
  /\ astray' = astray \cup {save[t].field}
  /\ UNCHANGED <<stored, shown, load>>

\* by another page of his, of which this one hears nothing
WriteElsewhere(f) ==
  /\ stored' = [stored EXCEPT ![f] = ~@]
  /\ astray' = astray \cup {f}
  /\ UNCHANGED <<shown, load, save>>

Next ==
  \/ Open \/ Read \/ Answer \/ Unread
  \/ \E t \in Task : Write(t) \/ Refuse(t) \/ \E f \in Field : Set(t, f)
  \/ \E f \in Field : Slide(f) \/ WriteElsewhere(f)

Spec == Init /\ [][Next]_vars

-----------------------------------------------------------------------------
\* The row, the page and the saves are well-typed.
TypeOK ==
  /\ stored \in Prefs /\ shown \in Prefs /\ astray \in SUBSET Field
  /\ load \in {Asked, Loaded} \cup [pc : {"read"}, prefs : Prefs]
  /\ save \in [Task -> {Idle} \cup [pc : {"asked"}, field : Field, to : BOOLEAN]]

\* Once nothing is in flight the page shows what is stored.  The exceptions,
\* which last until the page is opened anew or the field is saved alone: saves of
\* one field that overlapped, as those of the opacity slider do; a save refused; a
\* volume slider moved by the keyboard, whose save no debounce makes up for; a
\* control used before the load had come, or when it had failed; another page.
PrefsTrue == Quiet => \A f \in Field \ astray : shown[f] = stored[f]
=============================================================================
