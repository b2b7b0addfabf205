------------------------------- MODULE Uploads -------------------------------
(***************************************************************************)
(* UploadsService: a file is stored, recorded and then pointed to, by the  *)
(* user's row (an avatar), by a community's (an icon, which its owner may  *)
(* change) or by nobody (an attachment, which a message may name).  Each   *)
(* of them is a request of one user, whose account may be deleted in       *)
(* between: the guard of the routes looks at the access token only.        *)
(***************************************************************************)
EXTENDS Naturals, FiniteSets

CONSTANTS
  File,    \* keys the driver makes, each of them once
  NoFile,
  Task     \* slots of uploads; bounds those in flight at once

VARIABLES
  files,    \* what the driver holds
  rows,     \* the table Upload, by file
  avatar,   \* User.avatarUrl
  icon,     \* Community.iconUrl
  owner,    \* Community.owner: the user, another member, or no community
  deleted,  \* User.deletedAt
  task,     \* the uploads in flight
  failed,   \* history: files whose upload ended half way
  late      \* history: an avatar set after the account was deleted

vars == <<files, rows, avatar, icon, owner, deleted, task, failed, late>>

-----------------------------------------------------------------------------
Idle == [pc |-> "idle"]
At(kind, pc, f) == [kind |-> kind, pc |-> pc, file |-> f]
Tasks == {Idle} \cup [kind : {"avatar", "icon", "attachment"},
                      pc : {"owner", "save", "record", "point"}, file : File]

Used == files \cup {task[t].file : t \in {u \in Task : task[u] # Idle}}
Goto(t, pc) == task' = [task EXCEPT ![t].pc = pc]
End(t) == task' = [task EXCEPT ![t] = Idle]

Init ==
  /\ files = {} /\ rows = {} /\ avatar = NoFile /\ icon = NoFile
  /\ owner \in {"user", "other"} /\ deleted = FALSE
  /\ task = [t \in Task |-> Idle]
  /\ failed = {} /\ late = FALSE

-----------------------------------------------------------------------------
\* The page has looked at size and type before, and so does the service here.
Begin(t, kind, f) ==
  /\ task[t] = Idle /\ f \notin Used \cup failed
  /\ task' = [task EXCEPT ![t] = At(kind, IF kind = "icon" THEN "owner" ELSE "save", f)]
  /\ UNCHANGED <<files, rows, avatar, icon, owner, deleted, failed, late>>

\* the look at the community
FindOwner(t) ==
  /\ task[t].pc = "owner"
  /\ IF owner = "user" THEN Goto(t, "save") ELSE End(t)
  /\ UNCHANGED <<files, rows, avatar, icon, owner, deleted, failed, late>>

\* save of the driver, local or S3
Store(t) ==
  /\ task[t].pc = "save"
  /\ files' = files \cup {task[t].file}
  /\ Goto(t, "record")
  /\ UNCHANGED <<rows, avatar, icon, owner, deleted, failed, late>>

Record(t) ==
  /\ task[t].pc = "record"
  /\ rows' = rows \cup {task[t].file}
  /\ IF task[t].kind = "attachment" THEN End(t) ELSE Goto(t, "point")
  /\ UNCHANGED <<files, avatar, icon, owner, deleted, failed, late>>

PointAvatar(t) ==
  /\ task[t].pc = "point" /\ task[t].kind = "avatar"
  /\ avatar' = task[t].file
  /\ End(t)
  /\ late' = (late \/ deleted)
  /\ UNCHANGED <<files, rows, icon, owner, deleted, failed>>

PointIcon(t) ==
  /\ task[t].pc = "point" /\ task[t].kind = "icon" /\ owner # "none"
  /\ icon' = task[t].file
  /\ End(t)
  /\ UNCHANGED <<files, rows, avatar, owner, deleted, failed, late>>

\* What is stored is left behind: the driver's delete is called nowhere.
Fail(t) ==
  /\ task[t] # Idle
  /\ End(t)
  /\ failed' = IF task[t].file \in files THEN failed \cup {task[t].file} ELSE failed
  /\ UNCHANGED <<files, rows, avatar, icon, owner, deleted, late>>

\* deleteAccount, as far as it goes here; the access token is good still
DeleteAccount ==
  /\ ~deleted /\ deleted' = TRUE
  /\ avatar' = NoFile
  /\ \/ owner = "user" /\ owner' = "other" /\ UNCHANGED icon
     \/ owner = "user" /\ owner' = "none" /\ icon' = NoFile
     \/ owner # "user" /\ UNCHANGED <<owner, icon>>
  /\ UNCHANGED <<files, rows, task, failed, late>>

Next ==
  \/ \E t \in Task :
       \/ \E kind \in {"avatar", "icon", "attachment"}, f \in File : Begin(t, kind, f)
       \/ FindOwner(t) \/ Store(t) \/ Record(t) \/ PointAvatar(t) \/ PointIcon(t) \/ Fail(t)
  \/ DeleteAccount

Spec == Init /\ [][Next]_vars

-----------------------------------------------------------------------------
\* Files, rows, pointers and uploads are well-typed.
TypeOK ==
  /\ files \in SUBSET File /\ rows \in SUBSET File /\ failed \in SUBSET File
  /\ avatar \in File \cup {NoFile} /\ icon \in File \cup {NoFile}
  /\ owner \in {"user", "other", "none"} /\ task \in [Task -> Tasks]
  /\ deleted \in BOOLEAN /\ late \in BOOLEAN

\* A picture that is pointed to is stored and recorded, and a file without a row
\* is of an upload that is in flight or has failed.
Served ==
  /\ {avatar, icon} \ {NoFile} \subseteq files \cap rows
  /\ \A f \in files \ rows : f \in failed \/ \E t \in Task : task[t] # Idle /\ task[t].file = f

\* A deleted account has no picture, unless an upload was pointed to after it.
Erased == deleted => avatar = NoFile \/ late
=============================================================================
