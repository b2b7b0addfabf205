----------------------------- MODULE PageSocket -----------------------------
(***************************************************************************)
(* The socket of a page: connectSocket and disconnectSocket of socket.ts,  *)
(* called as AuthContext applies and clears sessions, and the contexts     *)
(* that subscribe to what getSocket returns when the status changes.       *)
(*                                                                         *)
(* socket.io-client dials again by itself when a connection is lost, and   *)
(* never again once the server has disconnected it.                        *)
(***************************************************************************)
EXTENDS Naturals, FiniteSets

CONSTANTS
  Sock,   \* sockets: bounds those ever made
  NoSock

VARIABLES
  signedIn,  \* status = "authenticated"
  token,     \* the access token of the page
  socket,    \* the module variable of socket.ts
  sock,      \* the state of each socket
  heard,     \* the socket the contexts have subscribed to
  stray,     \* history: sockets replaced while they were dialling
  deaf       \* history: since the last sign-in, something cut the contexts off

vars == <<signedIn, token, socket, sock, heard, stray, deaf>>

-----------------------------------------------------------------------------
Open == {s \in Sock : sock[s] \in {"dialling", "up"}}
Connected == \E s \in Sock : s = socket /\ sock[s] = "up"
Dialling == {s \in Sock : s = socket /\ sock[s] = "dialling"}

-----------------------------------------------------------------------------
Init ==
  /\ signedIn = FALSE /\ token = "none"
  /\ socket = NoSock /\ heard = NoSock
  /\ sock = [s \in Sock |-> "none"]
  /\ stray = {} /\ deaf = FALSE

-----------------------------------------------------------------------------
\* The effects of the contexts: they subscribe anew when the status changes.
Subscribed(s) == IF signedIn THEN heard ELSE s

\* applySession, or applyOAuthToken: connectSocket keeps a socket that is
\* connected and makes another one otherwise.
ApplyKept ==
  /\ Connected
  /\ signedIn' = TRUE /\ token' = "good"
  /\ heard' = Subscribed(socket)
  /\ UNCHANGED <<socket, sock, stray, deaf>>

Apply(s) ==
  /\ ~Connected /\ sock[s] = "none"
  /\ signedIn' = TRUE /\ token' = "good"
  /\ socket' = s
  /\ sock' = [sock EXCEPT ![s] = "dialling"]
  /\ stray' = stray \cup Dialling
  /\ heard' = Subscribed(s)
  /\ deaf' = signedIn

\* the access token is good for minutes only
Expire ==
  /\ token = "good" /\ token' = "stale"
  /\ UNCHANGED <<signedIn, socket, sock, heard, stray, deaf>>

\* disconnectSocket, as clearSession calls it
Disconnected == [s \in Sock |-> IF s = socket THEN "closed" ELSE sock[s]]

Clear ==
  /\ token' = "none" /\ socket' = NoSock
  /\ sock' = Disconnected
  /\ UNCHANGED stray

\* logout, or a session that has expired
SignOut ==
  /\ signedIn /\ signedIn' = FALSE
  /\ Clear
  /\ heard' = NoSock /\ deaf' = FALSE

\* a refresh begun before a login and refused after it: the status stays
ClearUnderLogin ==
  /\ signedIn /\ token # "none"
  /\ Clear
  /\ deaf' = TRUE
  /\ UNCHANGED <<signedIn, heard>>

-----------------------------------------------------------------------------
\* handleConnection: the token is the one the page has as it dials
Accept(s) ==
  /\ sock[s] = "dialling" /\ token = "good"
  /\ sock' = [sock EXCEPT ![s] = "up"]
  /\ UNCHANGED <<signedIn, token, socket, heard, stray, deaf>>

\* ... and its catch, for a token that is missing or stale and for any error
Refuse(s) ==
  /\ sock[s] = "dialling"
  /\ sock' = [sock EXCEPT ![s] = "closed"]
  /\ deaf' = (deaf \/ s = heard)
  /\ UNCHANGED <<signedIn, token, socket, heard, stray>>

Drop(s) ==
  /\ sock[s] = "up"
  /\ sock' = [sock EXCEPT ![s] = "dialling"]
  /\ UNCHANGED <<signedIn, token, socket, heard, stray, deaf>>

Next ==
  \/ \E s \in Sock : Apply(s) \/ Accept(s) \/ Refuse(s) \/ Drop(s)
  \/ ApplyKept \/ Expire \/ SignOut \/ ClearUnderLogin

Spec == Init /\ [][Next]_vars

-----------------------------------------------------------------------------
\* The session and the sockets are well-typed.
TypeOK ==
  /\ signedIn \in BOOLEAN /\ token \in {"none", "good", "stale"}
  /\ socket \in Sock \cup {NoSock} /\ heard \in Sock \cup {NoSock}
  /\ sock \in [Sock -> {"none", "dialling", "up", "closed"}]
  /\ stray \in SUBSET Sock /\ deaf \in BOOLEAN

\* A page that has signed out holds no connection, over which its user would
\* be online still; and a page never has two.  The exceptions are the sockets
\* that were dialling when a session was applied: they go on beside the one
\* that replaced them and nothing can close them any more.
Silent == \A s \in Open : s \in stray \/ (s = socket /\ signedIn)

\* The contexts of a page that is signed in have subscribed to its socket, and
\* that is open.  The exceptions, up to the next sign-in: the server refused the
\* token with which the socket dialled again, a refresh replaced it while it was
\* dialling, a refresh that failed took it away from a login.
Heard == signedIn /\ ~deaf => heard = socket /\ heard \in Open
=============================================================================
