------------------------------ MODULE Channels ------------------------------
(***************************************************************************)
(* The text channels of one community and a page that shows one of them:   *)
(* the messages of CommunitiesService, the gateway's channel rooms, and    *)
(* TextChannelPanel, whose list is fed by a fetch and by the socket.       *)
(*                                                                         *)
(* Who is a member or a manager is the business of module Communities;     *)
(* here the membership of the page's user comes and goes.  The other       *)
(* members only post.  A message is known by its place in log.             *)
(***************************************************************************)
EXTENDS Link, Listing, Naturals, FiniteSets, SequencesExt

CONSTANTS
  Channel,   \* text channels of the community
  Poster,    \* slots of sendChannelMessage; bounds those in flight at once
  MaxPosts   \* bounds the messages ever stored

VARIABLES
  seated,   \* the page's user is a member
  channel,  \* what has become of each channel
  log,      \* table ChannelMessage, oldest first: the channel of each message
  posting,  \* the requests that send a message
  panel,    \* state of the panel: the channel it shows, how far it is, its list
  fetches,  \* its requests for the history of a channel
  due       \* history: messages sent out while the panel stood ready for them

server == <<seated, channel, log>>
page == <<panel, fetches, due>>
vars == <<link, server, posting, page>>

-----------------------------------------------------------------------------
NoChannel == "none"
Message == 1..MaxPosts
Event == [chan : Channel, id : Message]

Idle == [pc |-> "idle"]
Posting == {Idle} \cup [pc : {"create"}, chan : Channel]
                  \cup [pc : {"emit"}, chan : Channel, id : Message]

Closed == [chan |-> NoChannel, state |-> "closed", list |-> <<>>]
Fetch == [chan : Channel, pc : {"asked", "allowed", "answered"},
          items : SUBSET Message]
Asked(c) == [chan |-> c, pc |-> "asked", items |-> {}]

MayRead(c) == seated /\ channel[c] = "here"
Stored(c) == {id \in 1..Len(log) : log[id] = c /\ channel[c] = "here"}

Go(p, next) == posting' = [posting EXCEPT ![p] = next]
Done(p) == Go(p, Idle)

\* The panel stands ready: it has its history, and the server has it in the
\* room of its channel.
Ready(c) == panel.chan = c /\ panel.state = "ready" /\ c \in rooms

-----------------------------------------------------------------------------
(* Mutated forms: what a plausible slip in the code would make of the      *)
(* definition whose name each one carries.  No action uses them; replacing *)
(* the definition by its form must break the property the form is for.     *)

\* the fetch of the channel left behind not cancelled
CancelNone(all) == all

Init ==
  /\ LinkInit
  /\ seated = TRUE
  /\ channel \in [Channel -> {"here", "unmade"}]
  /\ log = <<>>
  /\ posting = [p \in Poster |-> Idle]
  /\ panel = Closed /\ fetches = {} /\ due = {}

-----------------------------------------------------------------------------
(* The community, by operations that module Communities has the checks of: *)
(* the user joins, leaves or is kicked, a manager makes or deletes a        *)
(* channel.  None of it touches the rooms of a socket.                      *)

Membership ==
  /\ seated' = ~seated
  /\ UNCHANGED <<link, channel, log, posting, page>>

CreateChannel(c) ==
  /\ channel[c] = "unmade"
  /\ channel' = [channel EXCEPT ![c] = "here"]
  /\ UNCHANGED <<link, seated, log, posting, page>>

DeleteChannel(c) ==
  /\ channel[c] = "here"
  /\ channel' = [channel EXCEPT ![c] = "gone"]
  /\ UNCHANGED <<link, seated, log, posting, page>>

-----------------------------------------------------------------------------
(* sendChannelMessage, of the page or of somebody else: the checks, as one  *)
(* step; the insert, which the foreign key refuses when the channel is      *)
(* gone; the event.                                                        *)

PostCheck(p, c) ==
  /\ posting[p] = Idle
  /\ channel[c] = "here"
  /\ Go(p, [pc |-> "create", chan |-> c])
  /\ UNCHANGED <<link, server, page>>

PostCreate(p) ==
  LET c == posting[p].chan IN
  /\ posting[p].pc = "create"
  /\ Len(log) < MaxPosts
  /\ IF channel[c] = "here"
       THEN /\ log' = Append(log, c)
            /\ Go(p, [pc |-> "emit", chan |-> c, id |-> Len(log) + 1])
       ELSE Done(p) /\ UNCHANGED log
  /\ UNCHANGED <<link, seated, channel, page>>

\* Nothing comes back to the page by another way: send appends nothing.
PostEmit(p) ==
  LET c == posting[p].chan  id == posting[p].id IN
  /\ posting[p].pc = "emit"
  /\ Emit(c, [chan |-> c, id |-> id])
  /\ due' = IF Ready(c) THEN due \cup {id} ELSE due
  /\ Done(p)
  /\ UNCHANGED <<server, panel, fetches>>

-----------------------------------------------------------------------------
(* The panel.  Another channel keeps the list of the last one until its own *)
(* history comes; a panel that was closed starts with an empty one.         *)

\* what becomes of the fetches under way when the channel changes
Cancel(all) == {}
SwitchState == "loading"

Open(c) ==
  /\ channel[c] # "unmade" /\ c # panel.chan
  /\ outbox = <<>>  \* bound: the server has kept up with the last switch
  /\ panel' = [chan |-> c, state |-> SwitchState, list |-> panel.list]
  /\ fetches' = Cancel(fetches) \cup {Asked(c)}
  /\ due' = {}
  /\ Say((IF panel.chan = NoChannel THEN <<>> ELSE <<Ask("leave", panel.chan)>>)
           \o <<Ask("join", c)>>)
  /\ UNCHANGED <<server, posting>>

Close ==
  /\ panel.chan # NoChannel
  /\ outbox = <<>>  \* bound: as in Open
  /\ panel' = Closed /\ fetches' = {} /\ due' = {}
  /\ Say(<<Ask("leave", panel.chan)>>)
  /\ UNCHANGED <<server, posting>>

\* listChannelMessages: the check, then the page of messages
FetchCheck(f) ==
  /\ f.pc = "asked" /\ MayRead(f.chan)
  /\ fetches' = (fetches \ {f}) \cup {[f EXCEPT !.pc = "allowed"]}
  /\ UNCHANGED <<link, server, posting, panel, due>>

FetchRead(f) ==
  /\ f.pc = "allowed"
  /\ fetches' = (fetches \ {f}) \cup {[f EXCEPT !.pc = "answered", !.items = Stored(f.chan)]}
  /\ UNCHANGED <<link, server, posting, panel, due>>

\* then: the history replaces the list, whatever the socket has added to it
Install(f) ==
  /\ f.pc = "answered"
  /\ fetches' = fetches \ {f}
  /\ panel' = [panel EXCEPT !.state = "ready", !.list = InOrder(f.items)]
  /\ UNCHANGED <<link, server, posting, due>>

\* catch: refused, timed out or lost; the list stays as it is
FetchFail(f) ==
  /\ fetches' = fetches \ {f}
  /\ panel' = [panel EXCEPT !.state = "failed"]
  /\ UNCHANGED <<link, server, posting, due>>

\* onMessage
Appended(e) == IF Contains(panel.list, e.id) THEN panel.list ELSE Append(panel.list, e.id)

Receive ==
  /\ inbox # <<>>
  /\ LET e == Head(inbox)
     IN  panel' = IF e.chan = panel.chan THEN [panel EXCEPT !.list = Appended(e)] ELSE panel
  /\ Take
  /\ UNCHANGED <<server, posting, fetches, due>>

-----------------------------------------------------------------------------
Wire ==
  /\ \/ Handle /\ UNCHANGED due
     \/ \E c \in Channel : AnswerJoin(c, MayRead(c)) /\ UNCHANGED due
     \/ Drop /\ due' = {}
     \/ Reconnect /\ UNCHANGED due
  /\ UNCHANGED <<server, posting, panel, fetches>>

Send(p) ==
  \/ \E c \in Channel : PostCheck(p, c)
  \/ PostCreate(p) \/ PostEmit(p)

Load(f) == FetchCheck(f) \/ FetchRead(f) \/ Install(f) \/ FetchFail(f)

Next ==
  \/ Membership
  \/ \E c \in Channel : CreateChannel(c) \/ DeleteChannel(c) \/ Open(c)
  \/ \E p \in Poster : Send(p)
  \/ Close
  \/ \E f \in fetches : Load(f)
  \/ Receive
  \/ Wire

Spec == Init /\ [][Next]_vars

-----------------------------------------------------------------------------
\* Every table, the panel and what is under way between them is well-typed.
TypeOK ==
  /\ LinkTypeOK(Event)
  /\ seated \in BOOLEAN
  /\ channel \in [Channel -> {"unmade", "here", "gone"}]
  /\ log \in Seq(Channel) /\ Len(log) <= MaxPosts
  /\ posting \in [Poster -> Posting]
  /\ panel.chan \in Channel \cup {NoChannel} /\ panel.list \in Seq(Message)
  /\ panel.state \in {"closed", "loading", "ready", "failed"}
  /\ fetches \in SUBSET Fetch /\ due \in SUBSET Message

\* A message that comes by the fetch and by the socket, in either order, is
\* listed once: the test by id makes up for it.
ListedOnce == IsInjective(panel.list)

\* A channel that has its history shows that channel and no other, however
\* fast the user switches: the fetch of the last one is cancelled, and its
\* messages, of which the socket may still bring some, are not taken.
RightChannel == panel.state = "ready" => \A i \in DOMAIN panel.list : log[panel.list[i]] = panel.chan

\* What is sent out while the panel stands ready is in its list or on its way
\* there: no later answer replaces the list behind it.
LiveOnceReady == \A id \in due :
  Contains(panel.list, id) \/ \E i \in DOMAIN inbox : inbox[i].id = id
=============================================================================
