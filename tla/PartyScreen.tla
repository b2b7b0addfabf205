---------------------------- MODULE PartyScreen ----------------------------
(***************************************************************************)
(* PartyPage of a leader: a party is created by a chain of requests, of     *)
(* which any may fail, and shown once activeParty has been fetched anew;    *)
(* the switch of openInvites has a state of its own, set as the page mounts *)
(* and turned before the server has saved it.                               *)
(***************************************************************************)
EXTENDS Naturals, Sequences

CONSTANTS
  Task,  \* slots of requests of the switch; bounds those in flight at once
  None   \* no party, no chain

VARIABLES
  stored,  \* openInvites of the party the user leads
  active,  \* the same of activeParty, which the page shows
  switch,  \* openInvites of the page
  chain,   \* what createParty or leaveParty has still to do
  save,    \* requests of the switch in flight
  half,    \* history: a chain has stopped between its first request and its last
  astray   \* history: the switch need not be as stored

vars == <<stored, active, switch, chain, save, half, astray>>

-----------------------------------------------------------------------------
Idle == [pc |-> "idle"]
Pending == {t \in Task : save[t] # Idle}
Quiet == chain = <<>> /\ Pending = {}

\* a party begins with its invites open
Begin == TRUE

Private == <<"create", "refresh">>
Public == <<"create", "updateSettings", "inviteAllFriends", "refresh">>
Leaving == <<"leave", "refresh">>

Init ==
  /\ stored \in {None, TRUE, FALSE}
  /\ active \in {None, stored}
  /\ switch = IF active = None THEN TRUE ELSE active
  /\ chain = <<>> /\ save = [t \in Task |-> Idle]
  /\ half = (active # stored) /\ astray = (stored # None /\ switch # stored)

-----------------------------------------------------------------------------
\* The page is mounted again: openInvites of activeParty, or true.
Mount ==
  /\ chain = <<>>
  /\ switch' = IF active = None THEN TRUE ELSE active
  /\ astray' = (Pending # {} \/ (stored # None /\ switch' # stored))
  /\ UNCHANGED <<stored, active, chain, save, half>>

\* createParty without a party, leaveParty with one
Start ==
  /\ chain = <<>>
  /\ chain' \in IF active = None THEN {Private, Public} ELSE {Leaving}
  /\ UNCHANGED <<stored, active, switch, save, half, astray>>

\* Each request is awaited before the next.
Done(request) ==
  /\ chain # <<>> /\ Head(chain) = request
  /\ chain' = Tail(chain)

Create ==
  /\ Done("create") /\ stored = None
  /\ stored' = Begin
  /\ half' = TRUE
  /\ astray' = (Pending # {} \/ switch # Begin)
  /\ UNCHANGED <<active, switch, save>>

UpdateSettings ==
  /\ Done("updateSettings") /\ stored # None
  /\ stored' = TRUE
  /\ UNCHANGED <<active, switch, save, half, astray>>

InviteAll ==
  /\ Done("inviteAllFriends") /\ stored # None
  /\ UNCHANGED <<stored, active, switch, save, half, astray>>

Leave ==
  /\ Done("leave") /\ stored # None
  /\ stored' = None
  /\ UNCHANGED <<active, switch, save, half, astray>>

\* refreshActiveParty: a fetch that fails takes the party off the page
Refresh ==
  /\ Done("refresh")
  /\ active' \in {stored, None}
  /\ half' = (active' # stored)
  /\ UNCHANGED <<stored, switch, save, astray>>

\* party:updated or party:ended of the party the page shows
Updated ==
  /\ active \notin {None, stored}
  /\ active' = stored
  /\ half' = FALSE
  /\ UNCHANGED <<stored, switch, chain, save, astray>>

\* catch: "Couldn't create party", though it may be there
ChainFailed ==
  /\ chain # <<>> /\ Head(chain) # "refresh"
  /\ chain' = <<>>
  /\ UNCHANGED <<stored, active, switch, save, half, astray>>

\* The page is loaded anew.
Reload ==
  /\ Quiet
  /\ active' = stored /\ half' = FALSE
  /\ switch' = TRUE  \* the page mounts before activeParty has come
  /\ astray' = (stored = FALSE)
  /\ UNCHANGED <<stored, chain, save>>

-----------------------------------------------------------------------------
(* toggleOpenInvites                                                       *)

Toggle(t) ==
  /\ active # None /\ save[t] = Idle
  /\ switch' = ~switch
  /\ save' = [save EXCEPT ![t] = [pc |-> "asked", to |-> ~switch]]
  /\ astray' = (astray \/ Pending # {})
  /\ UNCHANGED <<stored, active, chain, half>>

Saved(t) ==
  /\ save[t] # Idle /\ stored # None
  /\ stored' = save[t].to
  /\ save' = [save EXCEPT ![t] = Idle]
  /\ UNCHANGED <<active, switch, chain, half, astray>>

\* catch, also when the answer of a change that was saved is lost
Refused(t) ==
  /\ save[t] # Idle
  /\ switch' = ~save[t].to
  /\ save' = [save EXCEPT ![t] = Idle]
  /\ \/ UNCHANGED <<stored, astray>>
     \/ stored # None /\ stored' = save[t].to /\ astray' = TRUE
  /\ UNCHANGED <<active, chain, half>>

Next ==
  \/ Mount \/ Start \/ Create \/ UpdateSettings \/ InviteAll \/ Leave \/ Refresh
  \/ Updated \/ ChainFailed \/ Reload
  \/ \E t \in Task : Toggle(t) \/ Saved(t) \/ Refused(t)

Spec == Init /\ [][Next]_vars

-----------------------------------------------------------------------------
\* The party, the page, the chain and the requests are well-typed.
TypeOK ==
  /\ {stored, active} \subseteq {None, TRUE, FALSE} /\ {switch, half, astray} \subseteq BOOLEAN
  /\ \E c \in {Private, Public, Leaving} : \E n \in 0..4 : chain = SubSeq(c, n + 1, Len(c))
  /\ save \in [Task -> {Idle} \cup [pc : {"asked"}, to : BOOLEAN]]

\* Once nothing is in flight the page shows the party the user leads, and the
\* switch is as stored.  The exceptions: a chain that failed on the way, or its refresh; the switch
\* of a page that mounted before the party was there, or whose party was created
\* since; turns of it that overlapped, and an answer that was lost.
ScreenTrue ==
  Quiet => /\ half \/ (active = None <=> stored = None)
           /\ astray \/ stored = None \/ switch = stored
=============================================================================
