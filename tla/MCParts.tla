------------------------------ MODULE MCParts ------------------------------
(***************************************************************************)
(* Small instances of the smaller components for TLC.  A behaviour of this *)
(* module is one of one of them, chosen at the start.  Where components    *)
(* check a property of one kind, it is one property here.                  *)
(***************************************************************************)
EXTENDS LiveParts, ScreenParts, TLC

-----------------------------------------------------------------------------
\* the variables a component of so many leaves unused
after12 == <<s13>>
after11 == <<s12, after12>>
after10 == <<s11, after11>>
after9 == <<s10, after10>>
after8 == <<s9, after9>>
after7 == <<s8, after8>>
after6 == <<s7, after7>>
after5 == <<s6, after6>>
after4 == <<s5, after5>>
slots == <<s1, s2, s3, s4, after4>>
partVars == <<part, vars, slots>>

Off == "off"
Off12 == s13 = Off
Off11 == s12 = Off /\ Off12
Off10 == s11 = Off /\ Off11
Off9 == s10 = Off /\ Off10
Off8 == s9 = Off /\ Off9
Off7 == s8 = Off /\ Off8
Off6 == s7 = Off /\ Off7
Off5 == s6 = Off /\ Off6
Off4 == s5 = Off /\ Off5
Off0 == s1 = Off /\ s2 = Off /\ s3 = Off /\ s4 = Off /\ Off4

Ids == Permutations(Spot) \cup Permutations(User) \cup Permutations(Req)

-----------------------------------------------------------------------------
PartsInit ==
  /\ Init
  /\ \/ part = "communities" /\ Off0
     \/ part = "channels" /\ Ch!Init /\ Off12
     \/ part = "messages" /\ Ms!Init
     \/ part = "partyfeed" /\ Pf!Init /\ Off12
     \/ part = "voicesession" /\ Vs!Init /\ Off8
     \/ part = "channelvoice" /\ Cv!Init /\ Off7
     \/ part = "accounts" /\ Ac!Init /\ Off6
     \/ part = "presence" /\ Pr!Init /\ Off5
     \/ part = "pagedata" /\ Pd!Init /\ Off4
     \/ part = "searchbox" /\ Sb!Init /\ Off6
     \/ part = "notices" /\ Nt!Init /\ Off8
     \/ part = "appdata" /\ Ad!Init /\ Off10
     \/ part = "pagesocket" /\ Ps!Init /\ Off7
     \/ part = "preferences" /\ Pp!Init /\ Off5
     \/ part = "uploads" /\ Up!Init /\ Off9
     \/ part = "profile" /\ Pl!Init /\ Off10
     \/ part = "friendlist" /\ Fl!Init /\ Off6
     \/ part = "reactions" /\ Rx!Init /\ Off7
     \/ part = "sidebar" /\ Sd!Init /\ Off11
     \/ part = "typing" /\ Ty!Init /\ Off9
     \/ part = "invitequeue" /\ Iq!Init /\ Off7
     \/ part = "partyscreen" /\ Px!Init /\ Off7
     \/ part = "communityform" /\ Cf!Init /\ Off9
     \/ part = "dms" /\ Dm!Init /\ Off7

CommunitiesStep == part = "communities" /\ Next /\ UNCHANGED <<part, slots>>
ChannelsStep == part = "channels" /\ Ch!Next /\ UNCHANGED <<part, vars, after12>>
MessagesStep == part = "messages" /\ Ms!Next /\ UNCHANGED <<part, vars>>
PartyFeedStep == part = "partyfeed" /\ Pf!Next /\ UNCHANGED <<part, vars, after12>>
VoiceSessionStep == part = "voicesession" /\ Vs!Next /\ UNCHANGED <<part, vars, after8>>
ChannelVoiceStep == part = "channelvoice" /\ Cv!Next /\ UNCHANGED <<part, vars, after7>>
AccountsStep == part = "accounts" /\ Ac!Next /\ UNCHANGED <<part, vars, after6>>
PresenceStep == part = "presence" /\ Pr!Next /\ UNCHANGED <<part, vars, after5>>
PageDataStep == part = "pagedata" /\ Pd!Next /\ UNCHANGED <<part, vars, after4>>
SearchBoxStep == part = "searchbox" /\ Sb!Next /\ UNCHANGED <<part, vars, after6>>
NoticesStep == part = "notices" /\ Nt!Next /\ UNCHANGED <<part, vars, after8>>
AppDataStep == part = "appdata" /\ Ad!Next /\ UNCHANGED <<part, vars, after10>>
PageSocketStep == part = "pagesocket" /\ Ps!Next /\ UNCHANGED <<part, vars, after7>>
PreferencesStep == part = "preferences" /\ Pp!Next /\ UNCHANGED <<part, vars, after5>>
UploadsStep == part = "uploads" /\ Up!Next /\ UNCHANGED <<part, vars, after9>>
ProfileStep == part = "profile" /\ Pl!Next /\ UNCHANGED <<part, vars, after10>>
FriendListStep == part = "friendlist" /\ Fl!Next /\ UNCHANGED <<part, vars, after6>>
ReactionsStep == part = "reactions" /\ Rx!Next /\ UNCHANGED <<part, vars, after7>>
SideBarStep == part = "sidebar" /\ Sd!Next /\ UNCHANGED <<part, vars, after11>>
TypingStep == part = "typing" /\ Ty!Next /\ UNCHANGED <<part, vars, after9>>
InviteQueueStep == part = "invitequeue" /\ Iq!Next /\ UNCHANGED <<part, vars, after7>>
PartyScreenStep == part = "partyscreen" /\ Px!Next /\ UNCHANGED <<part, vars, after7>>
CommunityFormStep == part = "communityform" /\ Cf!Next /\ UNCHANGED <<part, vars, after9>>
DmsStep == part = "dms" /\ Dm!Next /\ UNCHANGED <<part, vars, after7>>

PartsNext ==
  \/ CommunitiesStep \/ ChannelsStep \/ MessagesStep \/ PartyFeedStep
  \/ VoiceSessionStep \/ ChannelVoiceStep \/ AccountsStep \/ PresenceStep
  \/ PageDataStep \/ SearchBoxStep \/ NoticesStep \/ AppDataStep \/ PageSocketStep
  \/ PreferencesStep \/ UploadsStep \/ ProfileStep \/ FriendListStep \/ ReactionsStep
  \/ SideBarStep \/ TypingStep \/ InviteQueueStep \/ PartyScreenStep
  \/ CommunityFormStep \/ DmsStep

PartsSpec == PartsInit /\ [][PartsNext]_partVars

\* Bound: a list of notices that a change has crossed is not followed further.
Followed == part = "notices" => Nt!Followed

-----------------------------------------------------------------------------
\* The variables of every component are well-typed, and in Communities the key of
\* the memberships holds.
TypesOK ==
  /\ TypeOK /\ OneSeatEach
  /\ part = "channels" => Ch!TypeOK
  /\ part = "messages" => Ms!TypeOK
  /\ part = "partyfeed" => Pf!TypeOK
  /\ part = "voicesession" => Vs!TypeOK
  /\ part = "channelvoice" => Cv!TypeOK
  /\ part = "accounts" => Ac!TypeOK
  /\ part = "presence" => Pr!TypeOK
  /\ part = "pagedata" => Pd!TypeOK
  /\ part = "searchbox" => Sb!TypeOK
  /\ part = "notices" => Nt!TypeOK
  /\ part = "appdata" => Ad!TypeOK
  /\ part = "pagesocket" => Ps!TypeOK
  /\ part = "preferences" => Pp!TypeOK
  /\ part = "uploads" => Up!TypeOK
  /\ part = "profile" => Pl!TypeOK
  /\ part = "friendlist" => Fl!TypeOK
  /\ part = "reactions" => Rx!TypeOK
  /\ part = "sidebar" => Sd!TypeOK
  /\ part = "typing" => Ty!TypeOK
  /\ part = "invitequeue" => Iq!TypeOK
  /\ part = "partyscreen" => Px!TypeOK
  /\ part = "communityform" => Cf!TypeOK
  /\ part = "dms" => Dm!TypeOK

\* A message that comes both as an answer and as an event is listed once
\* (TextChannelPanel, MessagesPage).
ShownOnce ==
  /\ part = "channels" => Ch!ListedOnce
  /\ part = "messages" => Ms!ShownOnce

\* What a page shows belongs where it shows it.  For a channel panel this holds
\* whatever answers are late: it cancels the fetch of the channel it left and takes
\* no message of another.  The other pages install what comes late, so each of them
\* excepts just that, and its property says that nothing else goes wrong: messages
\* are of their conversation until a send or an older page of another is answered
\* (strayed), data and settings of their subject until the page goes on with a fetch
\* or an open form (left, carried), results are of the query but for searches that
\* nothing can abort (behind), members of a voice channel are in one room unless two
\* joined it first at once (doubled), a pair has one conversation unless two requests
\* for it met (raced) and is sent to it unless the user has gone to his messages
\* (late); pictures that are shown are stored without exception.
RightPlace ==
  /\ part = "channels" => Ch!RightChannel
  /\ part = "messages" => Ms!RightConversation
  /\ part = "channelvoice" => Cv!Together
  /\ part = "pagedata" => Pd!RightSubject
  /\ part = "searchbox" => Sb!RightResults
  /\ part = "uploads" => Up!Served
  /\ part = "communityform" => Cf!RightCommunity /\ Cf!OwnSettings
  /\ part = "dms" => Dm!OneDm

\* Once a page has its history and is in the room, what is sent there reaches its
\* list, in a channel panel without exception, in MessagesPage but for the messages
\* of an older page that came ahead of the history; and the contexts of a page that
\* is signed in have subscribed to its socket, unless its token was refused, replaced
\* or taken away while it was dialling.
LiveOnceReady ==
  /\ part = "channels" => Ch!LiveOnceReady
  /\ part = "messages" => Ms!LiveOnceReady
  /\ part = "pagesocket" => Ps!Heard

\* A party the user is no longer in does not stay on his page, save when the word
\* of it was lost.
NoStaleParty ==
  part = "partyfeed" => Pf!NoStaleParty

\* No microphone stays live in a room the page has let go of by leaving, by a join
\* that fails, by party:ended, by a switch of channel or by a room that closes.  The
\* code does leave one live when the user signs out, or the panel of the channel goes,
\* while the join is under way, and when a second join, or the Disconnected of another
\* room, takes roomRef from a live one: those are excepted, and the sign-out is shown
\* by VoiceSession!SilentOnceOut.
MicHeld ==
  /\ part = "voicesession" => Vs!MicHeld
  /\ part = "channelvoice" => Cv!MicHeld

\* The microphone of the room that is held is as the page shows it, unless the user
\* muted or unmuted himself while the join was under way, which is lost on it.
MicAsShown ==
  part = "voicesession" => Vs!MicAsShown

\* Accounts: no password opens a deleted account, whatever tokens and changes of it
\* were under way, and a mailed token that was used serves no request that comes
\* after.  A sign-in by an identity does open one, two requests that found a token
\* unused both use it, and a sign-in that had proved itself by then stores its
\* session after the deletion.
SessionsWarranted ==
  part = "accounts" => Ac!DeletedStaysOut /\ Ac!SingleUse

\* What the page keeps of its user goes with him: AppDataContext shows nothing of
\* another unless an answer came after the sign-out, the page holds no connection
\* then but one that was dialling as its token was replaced, and the row of a deleted
\* account keeps neither texts nor picture unless a request that was still let in
\* wrote to it.  The files, their Upload rows and the linked identities do stay.
OwnDataOnly ==
  /\ part = "appdata" => Ad!OwnData
  /\ part = "pagesocket" => Ps!Silent
  /\ part = "uploads" => Up!Erased
  /\ part = "profile" => Pl!Scrubs

\* A page that says it is loading has a request to wait for.
LoadingIsAwaited ==
  /\ part = "pagedata" => Pd!LoadingIsAwaited
  /\ part = "searchbox" => Sb!LoadingIsAwaited
  /\ part = "communityform" => Cf!LoadingIsAwaited

\* Once nothing is in flight, what is shown is what is stored, apart from the
\* exceptions each module names: what was shown before the server had it, what it
\* refused, and what it told the page have met.
SettledTrue ==
  /\ part = "presence" => Pr!PresenceTrue
  /\ part = "notices" => Nt!ListTrue
  /\ part = "appdata" => Ad!DataTrue
  /\ part = "preferences" => Pp!PrefsTrue
  /\ part = "profile" => Pl!CardTrue
  /\ part = "friendlist" => Fl!ListTrue
  /\ part = "reactions" => Rx!MarksTrue
  /\ part = "sidebar" => Sd!BadgesTrue
  /\ part = "typing" => Ty!TypingEnds
  /\ part = "invitequeue" => Iq!InvitesTrue
  /\ part = "partyscreen" => Px!ScreenTrue
  /\ part = "communityform" => Cf!SavedTrue
=============================================================================
