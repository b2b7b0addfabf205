-------------------------------- MODULE Dms --------------------------------
(***************************************************************************)
(* Direct messages between two users: getOrCreateDm of MessagesService,    *)
(* which looks for their conversation and makes it if there is none, and   *)
(* the pages of the users, which ask for it from FriendsPage and show it   *)
(* on MessagesPage.                                                        *)
(***************************************************************************)
EXTENDS Naturals, Sequences, FiniteSets

CONSTANTS
  User,
  Req,      \* request slots; bounds the requests in flight at once
  MaxConvs  \* bounds the conversations ever made

VARIABLES
  dms,     \* table Conversation of type DM: the participants of each
  req,     \* the requests in flight
  screen,  \* the page each user is on
  url,     \* the c of its location
  active,  \* activeId of MessagesPage
  raced,   \* history: the pairs of which two requests had found nothing at once
  late     \* history: the users whose answer found them on MessagesPage

vars == <<dms, req, screen, url, active, raced, late>>

-----------------------------------------------------------------------------
NoConv == 0
Conv == 1..MaxConvs
Pair == {p \in SUBSET User : Cardinality(p) = 2}

Idle == [pc |-> "idle"]
Request == {Idle} \cup [pc : {"find", "create"}, by : User, with : Pair]
                  \cup [pc : {"answer"}, by : User, with : Pair, conv : Conv]
Go(r, next) == req' = [req EXCEPT ![r] = next]

\* findDmBetween: whichever comes first
Between(p) == {i \in DOMAIN dms : p \subseteq dms[i]}
Mine(u) == {i \in DOMAIN dms : u \in dms[i]}
Made(r, i) == [pc |-> "answer", by |-> req[r].by, with |-> req[r].with, conv |-> i]

Init ==
  /\ dms = <<>>
  /\ req = [r \in Req |-> Idle]
  /\ screen = [u \in User |-> "friends"]
  /\ url = [u \in User |-> NoConv] /\ active = [u \in User |-> NoConv]
  /\ raced = {} /\ late = {}

-----------------------------------------------------------------------------
(* The server.                                                             *)

Find(r) ==
  LET p == req[r].with IN
  /\ req[r].pc = "find"
  /\ IF Between(p) = {}
       THEN /\ Go(r, [req[r] EXCEPT !.pc = "create"])
            /\ raced' = IF \E s \in Req : req[s].pc = "create" /\ req[s].with = p
                          THEN raced \cup {p} ELSE raced
       ELSE /\ \E i \in Between(p) : Go(r, Made(r, i))
            /\ UNCHANGED raced
  /\ UNCHANGED <<dms, screen, url, active, late>>

CreateDm(r) ==
  /\ req[r].pc = "create"
  /\ Len(dms) < MaxConvs
  /\ dms' = Append(dms, req[r].with)
  /\ Go(r, Made(r, Len(dms) + 1))
  /\ UNCHANGED <<screen, url, active, raced, late>>

-----------------------------------------------------------------------------
(* The pages.                                                              *)

\* The button is not disabled while an answer is awaited.
OpenDm(r, u, f) ==
  /\ req[r] = Idle /\ screen[u] = "friends" /\ u # f
  /\ Go(r, [pc |-> "find", by |-> u, with |-> {u, f}])
  /\ UNCHANGED <<dms, screen, url, active, raced, late>>

\* MessagesPage takes the c of the location as it is mounted, not later.
Located(u, i) == IF screen[u] = "friends" THEN [active EXCEPT ![u] = i] ELSE active

\* navigate, wherever the user is by now
Opened(r) ==
  LET u == req[r].by
      i == req[r].conv
  IN  /\ req[r].pc = "answer"
      /\ screen' = [screen EXCEPT ![u] = "messages"]
      /\ url' = [url EXCEPT ![u] = i]
      /\ active' = Located(u, i)
      /\ late' = IF screen[u] = "messages" THEN late \cup {u} ELSE late
      /\ Go(r, Idle)
      /\ UNCHANGED <<dms, raced>>

NotOpened(r) ==
  /\ req[r] # Idle
  /\ Go(r, Idle)
  /\ UNCHANGED <<dms, screen, url, active, raced, late>>

\* The list has loaded, and without a c its first conversation is shown.
ShowMessages(u) ==
  /\ screen[u] = "friends"
  /\ screen' = [screen EXCEPT ![u] = "messages"]
  /\ url' = [url EXCEPT ![u] = NoConv]
  /\ \E i \in IF Mine(u) = {} THEN {NoConv} ELSE Mine(u) : active' = [active EXCEPT ![u] = i]
  /\ late' = late \ {u}
  /\ UNCHANGED <<dms, req, raced>>

SelectConversation(u, i) ==
  /\ screen[u] = "messages" /\ i \in Mine(u)
  /\ active' = [active EXCEPT ![u] = i] /\ url' = [url EXCEPT ![u] = i]
  /\ late' = late \ {u}
  /\ UNCHANGED <<dms, req, screen, raced>>

ShowFriends(u) ==
  /\ screen[u] = "messages"
  /\ screen' = [screen EXCEPT ![u] = "friends"]
  /\ url' = [url EXCEPT ![u] = NoConv] /\ active' = [active EXCEPT ![u] = NoConv]
  /\ late' = late \ {u}
  /\ UNCHANGED <<dms, req, raced>>

Next ==
  \/ \E r \in Req : \/ Find(r) \/ CreateDm(r) \/ Opened(r) \/ NotOpened(r)
                    \/ \E u, f \in User : OpenDm(r, u, f)
  \/ \E u \in User : \/ ShowMessages(u) \/ ShowFriends(u)
                     \/ \E i \in Conv : SelectConversation(u, i)

Spec == Init /\ [][Next]_vars

-----------------------------------------------------------------------------
\* The table, the requests and the pages are well-typed.
TypeOK ==
  /\ dms \in Seq(Pair) /\ Len(dms) <= MaxConvs
  /\ req \in [Req -> Request]
  /\ screen \in [User -> {"friends", "messages"}]
  /\ url \in [User -> Conv \cup {NoConv}] /\ active \in [User -> Conv \cup {NoConv}]
  /\ raced \in SUBSET Pair /\ late \in SUBSET User

\* Two users have one conversation, and so read what the other writes to them,
\* unless two requests for it met before it was made.  What a page shows is the
\* one its location names, unless the answer came when he was on MessagesPage by
\* his own way.
OneDm ==
  /\ \A i, j \in DOMAIN dms : dms[i] = dms[j] => i = j \/ dms[i] \in raced
  /\ \A u \in User : url[u] # NoConv => active[u] = url[u] \/ u \in late
=============================================================================
