------------------------------- MODULE Profile -------------------------------
(***************************************************************************)
(* The account card of SettingsPage: what is typed into it, how it is      *)
(* saved, and the profile it is filled from, again whenever a refresh      *)
(* brings that anew, after a save and after the upload of a picture; with  *)
(* the deletion of the account, which scrubs the row.                      *)
(*                                                                         *)
(* The text stands for display name, handle and bio, which are saved       *)
(* together.  Requests of another page of the user's, whose access token   *)
(* outlives the account by minutes, change the row as well.                *)
(***************************************************************************)
EXTENDS Naturals, FiniteSets

CONSTANTS
  Text,      \* what may be typed
  Scrubbed,  \* "Deleted User" and the tombstone
  MaxPics    \* bounds the pictures uploaded

VARIABLES
  row,      \* the user's row: its text, its picture by number, deleted
  form,     \* what stands in the card
  profile,  \* AppData's profile
  saving,   \* saveAccount, of which the button allows one at a time
  pics,     \* handleAvatarChange, of which it allows one too
  other,    \* an update by another page
  deletes,  \* deleteAccount
  typed,    \* history: something was typed after the card was last filled
  apart,    \* history: the profile met what no refresh follows
  late      \* history: the row was written after it was scrubbed

page == <<form, profile, typed>>
requests == <<saving, pics, other, deletes>>
vars == <<row, page, requests, apart, late>>

-----------------------------------------------------------------------------
Row(text, pic) == [text |-> text, pic |-> pic, deleted |-> FALSE]

Idle == [pc |-> "idle"]
Asked == [pc |-> "asked"]
Done == [pc |-> "done"]
Refresh == [pc |-> "refresh"]
Got == [pc |-> "got", profile |-> row]
Open == deletes # Done  \* the page has not signed out

Quiet == saving = Idle /\ pics = Idle /\ other = Idle

Init ==
  /\ \E t \in Text : row = Row(t, 0) /\ form = t
  /\ profile = row
  /\ saving = Idle /\ pics = Idle /\ other = Idle /\ deletes = Idle
  /\ typed = FALSE /\ apart = FALSE /\ late = FALSE

-----------------------------------------------------------------------------
Type(t) ==
  /\ Open /\ t # form
  /\ form' = t /\ typed' = TRUE
  /\ UNCHANGED <<row, profile, requests, apart, late>>

\* updateProfile, whether the handle is free having been looked at before
Written(text) == row' = [row EXCEPT !.text = text] /\ late' = (late \/ row.deleted)

\* saveAccount
AskSave ==
  /\ Open /\ saving = Idle
  /\ saving' = [pc |-> "asked", text |-> form]
  /\ UNCHANGED <<row, page, pics, other, deletes, apart, late>>

Save ==
  /\ saving.pc = "asked"
  /\ Written(saving.text)
  /\ saving' = Done
  /\ UNCHANGED <<page, pics, other, deletes, apart>>

\* handleAvatarChange; PointAvatar of Uploads
AskPic ==
  /\ Open /\ pics = Idle /\ row.pic < MaxPics
  /\ pics' = Asked
  /\ UNCHANGED <<row, page, saving, other, deletes, apart, late>>

SetPic ==
  /\ pics = Asked
  /\ row' = [row EXCEPT !.pic = @ + 1]
  /\ pics' = Done
  /\ late' = (late \/ row.deleted)
  /\ UNCHANGED <<page, saving, other, deletes, apart>>

\* both await refreshProfile
Await ==
  /\ \/ saving = Done /\ saving' = Refresh /\ UNCHANGED pics
     \/ pics = Done /\ pics' = Refresh /\ UNCHANGED saving
  /\ UNCHANGED <<row, page, other, deletes, apart, late>>

ReadProfile ==
  /\ \/ saving = Refresh /\ saving' = Got /\ UNCHANGED pics
     \/ pics = Refresh /\ pics' = Got /\ UNCHANGED saving
  /\ UNCHANGED <<row, page, other, deletes, apart, late>>

\* setProfile, and the effect that fills the card from it, whatever was typed
Install(new) ==
  /\ profile' = new /\ form' = new.text
  /\ typed' = FALSE
  /\ apart' = (apart \/ new # row)

Refreshed ==
  /\ \/ saving.pc = "got" /\ Install(saving.profile) /\ saving' = Idle /\ UNCHANGED pics
     \/ pics.pc = "got" /\ Install(pics.profile) /\ pics' = Idle /\ UNCHANGED saving
  /\ UNCHANGED <<row, other, deletes, late>>

\* a handle that is taken, an error, an answer that is lost
Fail ==
  /\ \/ saving # Idle /\ saving' = Idle /\ UNCHANGED pics
     \/ pics # Idle /\ pics' = Idle /\ UNCHANGED saving
  /\ apart' = (apart \/ row # profile)
  /\ UNCHANGED <<row, page, other, deletes, late>>

-----------------------------------------------------------------------------
\* The other page of the user's: of what it writes this one hears nothing.
AskOther(t) ==
  /\ other = Idle
  /\ other' = [pc |-> "asked", text |-> t]
  /\ UNCHANGED <<row, page, saving, pics, deletes, apart, late>>

SaveOther ==
  /\ other # Idle /\ other' = Idle
  /\ Written(other.text)
  /\ apart' = TRUE
  /\ UNCHANGED <<page, saving, pics, deletes>>

\* deleteAccount: the transaction; then logout, which never goes wrong here
AskDelete ==
  /\ deletes = Idle /\ deletes' = Asked
  /\ UNCHANGED <<row, page, saving, pics, other, apart, late>>

Scrub == [text |-> Scrubbed, pic |-> 0, deleted |-> TRUE]

Delete ==
  /\ deletes = Asked /\ deletes' = Done
  /\ row' = Scrub
  /\ UNCHANGED <<page, saving, pics, other, apart, late>>

Next ==
  \/ \E t \in Text : Type(t) \/ AskOther(t)
  \/ AskSave \/ Save \/ AskPic \/ SetPic
  \/ Await \/ ReadProfile \/ Refreshed \/ Fail
  \/ SaveOther \/ AskDelete \/ Delete

Spec == Init /\ [][Next]_vars

-----------------------------------------------------------------------------
\* The row, the card and the requests are well-typed.
TypeOK ==
  /\ row.text \in Text \cup {Scrubbed} /\ row.pic \in 0 .. MaxPics
  /\ form \in Text \cup {Scrubbed} /\ profile.text \in Text \cup {Scrubbed}
  /\ {saving.pc, pics.pc} \subseteq {"idle", "asked", "done", "refresh", "got"}
  /\ typed \in BOOLEAN /\ apart \in BOOLEAN /\ late \in BOOLEAN

\* Once nothing is in flight the card shows what is stored, but for what was
\* typed since and not saved.  The exceptions: a refresh that was overtaken by a
\* write, requests that ended half way, and another page.
CardTrue == Quiet /\ ~apart /\ Open => profile = row /\ (typed \/ form = row.text)

\* A deleted account has none of the user's data, unless a request whose access
\* token was good still wrote to it.
Scrubs == row.deleted => late \/ row = Scrub
=============================================================================
