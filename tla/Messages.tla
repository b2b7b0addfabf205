------------------------------ MODULE Messages ------------------------------
(***************************************************************************)
(* Conversations and the page that shows one of them: sending, deleting    *)
(* and paging of MessagesService, the gateway's conversation rooms, and    *)
(* the message list of MessagesPage, which four answers and one event      *)
(* write to.                                                               *)
(*                                                                         *)
(* The page's user takes part in every Conversation, as nobody is ever     *)
(* taken out of one.  A message is known by its place in log.  Contents,   *)
(* pins and reactions, and the side bar with its counts, are left out.     *)
(***************************************************************************)
EXTENDS Link, Listing, Naturals, FiniteSets, SequencesExt

CONSTANTS
  Conversation,  \* the conversations of the page's user
  Poster,        \* slots of sendMessage; bounds those in flight at once
  PageSize,      \* messages to a page of history
  MaxPosts,      \* bounds the messages ever stored
  MaxDeletes     \* bounds those ever deleted

VARIABLES
  log,       \* table Message, oldest first: the conversation of each message
  deleted,   \* the messages with deletedAt set
  sending,   \* the requests that send a message
  deleting,  \* the message the page has deleted, until it has the answer
  view,      \* state of the page
  history,   \* the fetch of a first page, or none
  older,     \* the fetch of an older page, or none
  due        \* history: messages sent out while the page stood ready for them

vars == <<link, log, deleted, sending, deleting, view, history, older, due>>

-----------------------------------------------------------------------------
Nowhere == "none"
Message == 1..MaxPosts
Event == [conv : Conversation, id : Message]

Idle == [pc |-> "idle"]
Sending == {Idle} \cup [pc : {"emit", "answer"}, conv : Conversation, id : Message, own : BOOLEAN]
Deleting == {Idle} \cup [pc : {"answered"}, id : Message]
Fetch == {Idle} \cup [pc : {"asked"}, conv : Conversation, page : Nat]
                \cup [pc : {"answered"}, conv : Conversation, page : Nat,
                      items : Seq(Message), more : BOOLEAN]
Asked(c, n) == [pc |-> "asked", conv |-> c, page |-> n]

\* loading is messagesLoading; loaded, further, strayed and ahead are history: the
\* first page has come, an older one has, an answer about another conversation has;
\* the messages of older pages that came before the first.
View == [conv : Conversation \cup {Nowhere}, list : Seq(Message), known : SUBSET Message,
         page : Nat, hasMore : BOOLEAN, loading : BOOLEAN,
         loaded : BOOLEAN, further : BOOLEAN, strayed : BOOLEAN, ahead : SUBSET Message]

\* where conversationId = c and deletedAt is null, newest first
Stored(c) == {id \in 1..Len(log) : log[id] = c /\ id \notin deleted}
Newest(c) == Reverse(InOrder(Stored(c)))

\* skip and take; newest first, as the page turns round what the server had
PageOf(c, n) == SubSeq(Newest(c), (n - 1) * PageSize + 1,
                       IF n * PageSize < Len(Newest(c)) THEN n * PageSize ELSE Len(Newest(c)))
MoreAfter(c, n) == n * PageSize < Len(Newest(c))
Answer(f) == [pc |-> "answered", conv |-> f.conv, page |-> f.page,
              items |-> PageOf(f.conv, f.page), more |-> MoreAfter(f.conv, f.page)]

Go(p, next) == sending' = [sending EXCEPT ![p] = next]
Ready(c) == view.conv = c /\ view.loaded /\ c \in rooms

-----------------------------------------------------------------------------
(* Mutated forms: what a plausible slip in the code would make of the      *)
(* definition whose name each one carries.  No action uses them; replacing *)
(* the definition by its form must break the property the form is for.     *)

\* the message one has sent appended without a look at the known ids
IsNewAlways(id) == TRUE

\* the older page put in place of the list
OlderListReplaces == older.items

Init ==
  /\ LinkInit
  /\ log = <<>> /\ deleted = {}
  /\ sending = [p \in Poster |-> Idle] /\ deleting = Idle
  /\ view = [conv |-> Nowhere, list |-> <<>>, known |-> {}, page |-> 1, hasMore |-> FALSE,
             loading |-> FALSE, loaded |-> FALSE, further |-> FALSE, strayed |-> FALSE,
             ahead |-> {}]
  /\ history = Idle /\ older = Idle /\ due = {}

-----------------------------------------------------------------------------
(* sendMessage: the insert, then, after another statement, the event, then *)
(* the answer.  Any of them may be the last.  Its check always passes, so a *)
(* request begins with its insert.                                         *)

SendCreate(p, c, own) ==
  /\ sending[p] = Idle
  /\ own => view.conv = c
  /\ Len(log) < MaxPosts
  /\ log' = Append(log, c)
  /\ Go(p, [pc |-> "emit", conv |-> c, id |-> Len(log) + 1, own |-> own])
  /\ UNCHANGED <<link, deleted, deleting, view, history, older, due>>

SendEmit(p) ==
  LET s == sending[p] IN
  /\ s.pc = "emit"
  /\ Emit(s.conv, [conv |-> s.conv, id |-> s.id])
  /\ due' = IF Ready(s.conv) /\ s.id \notin deleted THEN due \cup {s.id} ELSE due
  /\ Go(p, IF s.own THEN [s EXCEPT !.pc = "answer"] ELSE Idle)
  /\ UNCHANGED <<log, deleted, deleting, view, history, older>>

\* The page hears nothing of a request that failed but that it did.
SendFail(p) ==
  /\ sending[p] # Idle
  /\ Go(p, Idle)
  /\ UNCHANGED <<link, log, deleted, deleting, view, history, older, due>>

IsNew(id) == id \notin view.known

\* The page appends to the list it has by now, whichever conversation that is of.
SendAnswered(p) ==
  LET s == sending[p] IN
  /\ s.pc = "answer"
  /\ view' = IF IsNew(s.id)
               THEN [view EXCEPT !.list = Append(@, s.id), !.known = @ \cup {s.id},
                                 !.strayed = @ \/ view.conv # s.conv]
               ELSE view
  /\ Go(p, Idle)
  /\ UNCHANGED <<link, log, deleted, deleting, history, older, due>>

-----------------------------------------------------------------------------
(* deleteMessage: assertAuthor and the soft delete, in one step as only the *)
(* author may, then the answer.  No event tells the other pages.           *)

MayDelete(id) == id \notin deleted /\ Cardinality(deleted) < MaxDeletes

DeleteByOther(id) ==
  /\ MayDelete(id)
  /\ deleted' = deleted \cup {id}
  /\ UNCHANGED <<link, log, sending, deleting, view, history, older, due>>

DeleteUpdate(id) ==
  /\ deleting = Idle
  /\ Contains(view.list, id) /\ MayDelete(id)
  /\ deleted' = deleted \cup {id}
  /\ deleting' = [pc |-> "answered", id |-> id]
  /\ UNCHANGED <<link, log, sending, view, history, older, due>>

DeleteAnswered ==
  /\ deleting # Idle
  /\ view' = [view EXCEPT !.list = Without(@, deleting.id)]
  /\ due' = due \ {deleting.id}
  /\ deleting' = Idle
  /\ UNCHANGED <<link, log, deleted, sending, history, older>>

-----------------------------------------------------------------------------
(* The page.  Another conversation cancels the fetch of the last one and   *)
(* forgets the known ids; the list stays until its own history comes.      *)

\* the fetch of a first page, when the conversation changes to c
HistoryOf(c) == Asked(c, 1)

Select(c) ==
  /\ c # view.conv
  /\ outbox = <<>> /\ joining = {}  \* bound: the last switch has reached the server
  /\ view' = [view EXCEPT !.conv = c, !.known = {}, !.loading = TRUE,
                          !.loaded = FALSE, !.further = FALSE, !.strayed = FALSE,
                          !.ahead = {}]
  /\ history' = HistoryOf(c)
  /\ due' = {}
  /\ Say((IF view.conv = Nowhere THEN <<>> ELSE <<Ask("leave", view.conv)>>)
           \o <<Ask("join", c)>>)
  /\ UNCHANGED <<log, deleted, sending, deleting, older>>

HistoryRead ==
  /\ history.pc = "asked"
  /\ history' = Answer(history)
  /\ UNCHANGED <<link, log, deleted, sending, deleting, view, older, due>>

\* then: the page replaces the list, whatever the socket has added to it;
\* those messages stay known
Install ==
  /\ history.pc = "answered"
  /\ view' = [view EXCEPT !.list = history.items, !.known = @ \cup ToSet(history.items),
                          !.page = 1, !.hasMore = history.more, !.loading = FALSE,
                          !.loaded = TRUE, !.further = FALSE, !.strayed = FALSE]
  /\ history' = Idle
  /\ UNCHANGED <<link, log, deleted, sending, deleting, older, due>>

HistoryFail ==
  /\ history # Idle
  /\ view' = [view EXCEPT !.loading = FALSE]
  /\ history' = Idle
  /\ UNCHANGED <<link, log, deleted, sending, deleting, older, due>>

\* loadOlder: pages are counted from the newest message there is by then
LoadOlder ==
  /\ view.conv # Nowhere /\ view.hasMore /\ ~view.loading
  /\ older = Idle  \* bound: one older page at a time, also across conversations
  /\ older' = Asked(view.conv, view.page + 1)
  /\ view' = [view EXCEPT !.loading = TRUE]
  /\ UNCHANGED <<link, log, deleted, sending, deleting, history, due>>

OlderRead ==
  /\ older.pc = "asked"
  /\ older' = Answer(older)
  /\ UNCHANGED <<link, log, deleted, sending, deleting, view, history, due>>

OlderList == older.items \o view.list

\* The answer is put before the list whichever conversation is shown by now.
OlderAnswered ==
  /\ older.pc = "answered"
  /\ view' = [view EXCEPT !.list = OlderList, !.known = @ \cup ToSet(older.items),
                          !.page = older.page, !.hasMore = older.more, !.loading = FALSE,
                          !.further = TRUE, !.strayed = @ \/ view.conv # older.conv,
                          !.ahead = IF view.loaded THEN @ ELSE @ \cup ToSet(older.items)]
  /\ older' = Idle
  /\ UNCHANGED <<link, log, deleted, sending, deleting, history, due>>

OlderFail ==
  /\ older # Idle
  /\ view' = [view EXCEPT !.loading = FALSE]
  /\ older' = Idle
  /\ UNCHANGED <<link, log, deleted, sending, deleting, history, due>>

\* onCreated
Receive ==
  /\ inbox # <<>>
  /\ LET e == Head(inbox)
     IN  view' = IF e.conv = view.conv /\ e.id \notin view.known
                   THEN [view EXCEPT !.list = Append(@, e.id), !.known = @ \cup {e.id}]
                   ELSE view
  /\ Take
  /\ UNCHANGED <<log, deleted, sending, deleting, history, older, due>>

-----------------------------------------------------------------------------
Wire ==
  /\ \/ Handle /\ UNCHANGED due
     \/ \E c \in Conversation : AnswerJoin(c, TRUE) /\ UNCHANGED due
     \/ Drop /\ due' = {}
     \/ Reconnect /\ UNCHANGED due
  /\ UNCHANGED <<log, deleted, sending, deleting, view, history, older>>

Next ==
  \/ \E p \in Poster : \/ \E c \in Conversation, own \in BOOLEAN : SendCreate(p, c, own)
                       \/ SendEmit(p) \/ SendFail(p) \/ SendAnswered(p)
  \/ \E id \in 1..Len(log) : DeleteByOther(id) \/ DeleteUpdate(id)
  \/ DeleteAnswered
  \/ \E c \in Conversation : Select(c)
  \/ HistoryRead \/ Install \/ HistoryFail
  \/ LoadOlder \/ OlderRead \/ OlderAnswered \/ OlderFail
  \/ Receive
  \/ Wire

Spec == Init /\ [][Next]_vars

-----------------------------------------------------------------------------
\* Every table, the page and what is under way between them is well-typed.
TypeOK ==
  /\ LinkTypeOK(Event)
  /\ log \in Seq(Conversation) /\ Len(log) <= MaxPosts
  /\ deleted \in SUBSET Message
  /\ sending \in [Poster -> Sending] /\ deleting \in Deleting
  /\ view \in View
  /\ history \in Fetch /\ older \in Fetch
  /\ due \in SUBSET Message

\* A message that the socket brings before or after the answer to its send,
\* or before or after the history, is shown once; only an older page, which is
\* counted from the newest message, can bring one a second time.
ShownOnce == view.loaded /\ ~view.further => IsInjective(view.list)

\* A conversation that has its history shows messages of its own, however fast
\* the user switches: only the late answer to a send or to an older page, which
\* the page does not compare with what it shows, brings others.
RightConversation == view.loaded /\ ~view.strayed =>
  \A i \in DOMAIN view.list : log[view.list[i]] = view.conv

\* What is sent out while the page stands ready for it is shown, until the
\* user deletes it, or on its way there: no later answer replaces the list
\* behind it.  The exception: an older page asked for on an earlier visit that
\* comes before the history makes its messages known, and the history drops them.
LiveOnceReady == \A id \in due \ view.ahead :
  Contains(view.list, id) \/ \E i \in DOMAIN inbox : inbox[i].id = id
=============================================================================
