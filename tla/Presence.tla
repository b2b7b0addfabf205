------------------------------ MODULE Presence ------------------------------
(***************************************************************************)
(* The presence of one user: what handleConnection and handleDisconnect    *)
(* write and tell when his first socket comes and his last one goes, and   *)
(* the status he sets himself.  Each of them is a few awaits, and nothing  *)
(* keeps the next one from beginning before the last one is through.       *)
(***************************************************************************)
EXTENDS Naturals, FiniteSets

CONSTANTS
  Socket,  \* sockets of the user
  Task     \* slots of what writes his presence; bounds those in flight at once

VARIABLES
  sockets,  \* his entry in socketsByUser
  status,   \* User.status
  told,     \* what the last presence:update has told everybody
  task,     \* the writers in flight
  doubt     \* history: the last writer to begin was not alone, or out of place

vars == <<sockets, status, told, task, doubt>>

-----------------------------------------------------------------------------
Status == {"ONLINE", "IDLE", "OFFLINE"}  \* the others are like IDLE

(* A writer is before its write or, a socket's, before the word of it. *)
Idle == [pc |-> "idle"]
Tasks == {Idle} \cup [pc : {"write"}, to : Status, tells : BOOLEAN] \cup [pc : {"tell"}, to : Status]

Quiet == \A t \in Task : task[t] = Idle
Begin(t, to, tells) ==
  /\ task[t] = Idle
  /\ task' = [task EXCEPT ![t] = [pc |-> "write", to |-> to, tells |-> tells]]

-----------------------------------------------------------------------------
(* Mutated forms: what a plausible slip in the code would make of the      *)
(* definition whose name each one carries.  No action uses them; replacing *)
(* the definition by its form must break the property the form is for.     *)

\* the entry left behind with no socket in it counted as a connection
WasOfflineNever(s) == FALSE

Init ==
  /\ sockets = {} /\ status = "OFFLINE" /\ told = "OFFLINE"
  /\ task = [t \in Task |-> Idle]
  /\ doubt = FALSE

-----------------------------------------------------------------------------
WasOffline(s) == sockets = {}

\* handleConnection, up to its first await
Connect(t, s) ==
  /\ s \notin sockets
  /\ sockets' = sockets \cup {s}
  /\ IF WasOffline(s)
       THEN Begin(t, "ONLINE", TRUE) /\ doubt' = ~Quiet
       ELSE UNCHANGED <<task, doubt>>
  /\ UNCHANGED <<status, told>>

\* handleDisconnect, up to its first await
Disconnect(t, s) ==
  /\ s \in sockets
  /\ sockets' = sockets \ {s}
  /\ IF sockets = {s}
       THEN Begin(t, "OFFLINE", TRUE) /\ doubt' = ~Quiet
       ELSE UNCHANGED <<task, doubt>>
  /\ UNCHANGED <<status, told>>

\* UsersService.updatePresence of a request: a status, or the one just read
\* when only the text or the game changes
Patch(t) ==
  /\ \E to \in Status : Begin(t, to, FALSE)
  /\ doubt' = (doubt \/ ~Quiet \/ sockets = {})
  /\ UNCHANGED <<sockets, status, told>>

\* the user's row; then, for a socket, the presence key, which nothing reads
Write(t) ==
  /\ task[t].pc = "write"
  /\ status' = task[t].to
  /\ task' = [task EXCEPT ![t] = IF @.tells THEN [pc |-> "tell", to |-> @.to] ELSE Idle]
  /\ UNCHANGED <<sockets, told, doubt>>

\* server.emit
Tell(t) ==
  /\ task[t].pc = "tell"
  /\ told' = task[t].to
  /\ task' = [task EXCEPT ![t] = Idle]
  /\ UNCHANGED <<sockets, status, doubt>>

\* the write fails; a socket whose write fails is disconnected by and by
Fail(t) ==
  /\ task[t] # Idle
  /\ task' = [task EXCEPT ![t] = Idle]
  /\ doubt' = TRUE
  /\ UNCHANGED <<sockets, status, told>>

\* The server stops: nobody writes the presence of those who were connected.
Restart ==
  /\ sockets # {}
  /\ sockets' = {} /\ task' = [t \in Task |-> Idle]
  /\ doubt' = TRUE
  /\ UNCHANGED <<status, told>>

Next ==
  \/ \E t \in Task : \/ \E s \in Socket : Connect(t, s) \/ Disconnect(t, s)
                     \/ Patch(t) \/ Write(t) \/ Tell(t) \/ Fail(t)
  \/ Restart

Spec == Init /\ [][Next]_vars

-----------------------------------------------------------------------------
\* The sockets, what is stored and told of them and the writers are well-typed.
TypeOK ==
  /\ sockets \in SUBSET Socket
  /\ status \in Status /\ told \in Status
  /\ task \in [Task -> Tasks] /\ doubt \in BOOLEAN

\* Once everything is written, a user without a socket is OFFLINE and everybody
\* has been told whether he is.  The exceptions, which last until his next
\* coming or going on its own: writers that overlapped, of a disconnect and the
\* reconnect that followed it for instance, a write that failed or was out of
\* place, and a restart of the server.
PresenceTrue == Quiet /\ ~doubt =>
  /\ sockets = {} => status = "OFFLINE"
  /\ (told = "OFFLINE") = (sockets = {})
=============================================================================
