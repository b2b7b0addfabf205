----------------------------- MODULE PartsProofs -----------------------------
(***************************************************************************)
(* The invariants the smaller components share, for every value of the     *)
(* constants, from what LivePartsProofs and ScreenPartsProofs prove of     *)
(* each component.  Only what Communities keeps to, types among it, needs  *)
(* its Setting.                                                            *)
(***************************************************************************)
EXTENDS MCParts, LivePartsProofs, ScreenPartsProofs

-----------------------------------------------------------------------------
\* A behaviour stays the one component's whose it was at the start.
PartsInv ==
  /\ part = "channels" => ChInv
  /\ part = "messages" => MsInv
  /\ part = "partyfeed" => PfInv
  /\ part = "pagesocket" => PsInv
  /\ part = "accounts" => AcInv
  /\ part = "uploads" => UpInv
  /\ part = "dms" => DmInv
  /\ part = "presence" => PrInv
  /\ part = "typing" => TyInv
  /\ part = "voicesession" => VsInv
  /\ part = "channelvoice" => CvInv
  /\ part = "pagedata" => PdInv
  /\ part = "searchbox" => SbInv
  /\ part = "notices" => NtInv
  /\ part = "appdata" => AdInv
  /\ part = "preferences" => PpInv
  /\ part = "profile" => PlInv
  /\ part = "friendlist" => FlInv
  /\ part = "reactions" => RxInv
  /\ part = "sidebar" => SdInv
  /\ part = "invitequeue" => IqInv
  /\ part = "partyscreen" => PxInv
  /\ part = "communityform" => CfInv

LEMMA Chosen ==
  ASSUME [PartsNext]_partVars
  PROVE  /\ part' = part
         /\ part = "channels" => Ch!Next \/ UNCHANGED Ch!vars
         /\ part = "messages" => Ms!Next \/ UNCHANGED Ms!vars
         /\ part = "partyfeed" => Pf!Next \/ UNCHANGED Pf!vars
         /\ part = "pagesocket" => Ps!Next \/ UNCHANGED Ps!vars
         /\ part = "accounts" => Ac!Next \/ UNCHANGED Ac!vars
         /\ part = "uploads" => Up!Next \/ UNCHANGED Up!vars
         /\ part = "dms" => Dm!Next \/ UNCHANGED Dm!vars
         /\ part = "presence" => Pr!Next \/ UNCHANGED Pr!vars
         /\ part = "typing" => Ty!Next \/ UNCHANGED Ty!vars
         /\ part = "voicesession" => Vs!Next \/ UNCHANGED Vs!vars
         /\ part = "channelvoice" => Cv!Next \/ UNCHANGED Cv!vars
         /\ part = "pagedata" => Pd!Next \/ UNCHANGED Pd!vars
         /\ part = "searchbox" => Sb!Next \/ UNCHANGED Sb!vars
         /\ part = "notices" => Nt!Next \/ UNCHANGED Nt!vars
         /\ part = "appdata" => Ad!Next \/ UNCHANGED Ad!vars
         /\ part = "preferences" => Pp!Next \/ UNCHANGED Pp!vars
         /\ part = "profile" => Pl!Next \/ UNCHANGED Pl!vars
         /\ part = "friendlist" => Fl!Next \/ UNCHANGED Fl!vars
         /\ part = "reactions" => Rx!Next \/ UNCHANGED Rx!vars
         /\ part = "sidebar" => Sd!Next \/ UNCHANGED Sd!vars
         /\ part = "invitequeue" => Iq!Next \/ UNCHANGED Iq!vars
         /\ part = "partyscreen" => Px!Next \/ UNCHANGED Px!vars
         /\ part = "communityform" => Cf!Next \/ UNCHANGED Cf!vars
  <1>1. CASE PartsNext
    BY <1>1 DEF PartsNext, CommunitiesStep, ChannelsStep, MessagesStep, PartyFeedStep,
           VoiceSessionStep, ChannelVoiceStep, AccountsStep, PresenceStep,
           PageDataStep, SearchBoxStep, NoticesStep, AppDataStep, PageSocketStep,
           PreferencesStep, UploadsStep, ProfileStep, FriendListStep, ReactionsStep,
           SideBarStep, TypingStep, InviteQueueStep, PartyScreenStep,
           CommunityFormStep, DmsStep
  <1>2. CASE UNCHANGED partVars
    <2>1. UNCHANGED <<part, s1, s2, s3, s4, s5, s6, s7, s8, s9, s10, s11, s12, s13>>
      BY <1>2 DEF partVars, slots, after4, after5, after6, after7, after8, after9, after10, after11, after12
    <2>2. UNCHANGED Ch!vars
      BY <2>1 DEF Ch!vars, Ch!link, Ch!server, Ch!page
    <2>3. UNCHANGED Ms!vars
      BY <2>1 DEF Ms!vars, Ms!link
    <2>4. UNCHANGED Pf!vars
      BY <2>1 DEF Pf!vars, Pf!link, Pf!tables, Pf!page
    <2>5. UNCHANGED Ps!vars
      BY <2>1 DEF Ps!vars
    <2>6. UNCHANGED Ac!vars
      BY <2>1 DEF Ac!vars, Ac!tables
    <2>7. UNCHANGED Up!vars
      BY <2>1 DEF Up!vars
    <2>8. UNCHANGED Dm!vars
      BY <2>1 DEF Dm!vars
    <2>9. UNCHANGED Pr!vars
      BY <2>1 DEF Pr!vars
    <2>10. UNCHANGED Ty!vars
      BY <2>1 DEF Ty!vars
    <2>11. UNCHANGED Vs!vars
      BY <2>1 DEF Vs!vars, Vs!page, Vs!past
    <2>12. UNCHANGED Cv!vars
      BY <2>1 DEF Cv!vars, Cv!server
    <2>13. UNCHANGED Pd!vars
      BY <2>1 DEF Pd!vars
    <2>14. UNCHANGED Sb!vars
      BY <2>1 DEF Sb!vars
    <2>15. UNCHANGED Nt!vars
      BY <2>1 DEF Nt!vars, Nt!page
    <2>16. UNCHANGED Ad!vars
      BY <2>1 DEF Ad!vars, Ad!stored, Ad!shown, Ad!past
    <2>17. UNCHANGED Pp!vars
      BY <2>1 DEF Pp!vars
    <2>18. UNCHANGED Pl!vars
      BY <2>1 DEF Pl!vars, Pl!page, Pl!requests
    <2>19. UNCHANGED Fl!vars
      BY <2>1 DEF Fl!vars
    <2>20. UNCHANGED Rx!vars
      BY <2>1 DEF Rx!vars
    <2>21. UNCHANGED Sd!vars
      BY <2>1 DEF Sd!vars
    <2>22. UNCHANGED Iq!vars
      BY <2>1 DEF Iq!vars
    <2>23. UNCHANGED Px!vars
      BY <2>1 DEF Px!vars
    <2>24. UNCHANGED Cf!vars
      BY <2>1 DEF Cf!vars
    <2> QED
      BY <2>1, <2>2, <2>3, <2>4, <2>5, <2>6, <2>7, <2>8, <2>9, <2>10, <2>11, <2>12, <2>13, <2>14, <2>15, <2>16, <2>17, <2>18, <2>19, <2>20, <2>21, <2>22, <2>23, <2>24
  <1> QED
    BY <1>1, <1>2

LEMMA PartsInitInv == ASSUME PartsInit PROVE PartsInv
  <1>1. ASSUME part = "channels" PROVE ChInv
    <2>1. Ch!Init
      BY <1>1 DEF PartsInit
    <2> QED
      BY <2>1, ChInitInv
  <1>2. ASSUME part = "messages" PROVE MsInv
    <2>1. Ms!Init
      BY <1>2 DEF PartsInit
    <2> QED
      BY <2>1, MsInitInv
  <1>3. ASSUME part = "partyfeed" PROVE PfInv
    <2>1. Pf!Init
      BY <1>3 DEF PartsInit
    <2> QED
      BY <2>1, PfInitInv
  <1>4. ASSUME part = "pagesocket" PROVE PsInv
    <2>1. Ps!Init
      BY <1>4 DEF PartsInit
    <2> QED
      BY <2>1, PsInitInv
  <1>5. ASSUME part = "accounts" PROVE AcInv
    <2>1. Ac!Init
      BY <1>5 DEF PartsInit
    <2> QED
      BY <2>1, AcInitInv
  <1>6. ASSUME part = "uploads" PROVE UpInv
    <2>1. Up!Init
      BY <1>6 DEF PartsInit
    <2> QED
      BY <2>1, UpInitInv
  <1>7. ASSUME part = "dms" PROVE DmInv
    <2>1. Dm!Init
      BY <1>7 DEF PartsInit
    <2> QED
      BY <2>1, DmInitInv
  <1>8. ASSUME part = "presence" PROVE PrInv
    <2>1. Pr!Init
      BY <1>8 DEF PartsInit
    <2> QED
      BY <2>1, PrInitInv
  <1>9. ASSUME part = "typing" PROVE TyInv
    <2>1. Ty!Init
      BY <1>9 DEF PartsInit
    <2> QED
      BY <2>1, TyInitInv
  <1>10. ASSUME part = "voicesession" PROVE VsInv
    <2>1. Vs!Init
      BY <1>10 DEF PartsInit
    <2>2. VsSetting
      BY NobodyAssumption DEF VsSetting
    <2> QED
      BY <2>1, <2>2, VsInitInv
  <1>11. ASSUME part = "channelvoice" PROVE CvInv
    <2>1. Cv!Init
      BY <1>11 DEF PartsInit
    <2>2. CvSetting
      BY NobodyAssumption, BoundsAssumption DEF CvSetting
    <2> QED
      BY <2>1, <2>2, CvInitInv
  <1>12. ASSUME part = "pagedata" PROVE PdInv
    <2>1. Pd!Init
      BY <1>12 DEF PartsInit
    <2> QED
      BY <2>1, PdInitInv
  <1>13. ASSUME part = "searchbox" PROVE SbInv
    <2>1. Sb!Init
      BY <1>13 DEF PartsInit
    <2> QED
      BY <2>1, SbInitInv
  <1>14. ASSUME part = "notices" PROVE NtInv
    <2>1. Nt!Init
      BY <1>14 DEF PartsInit
    <2> QED
      BY <2>1, NtInitInv
  <1>15. ASSUME part = "appdata" PROVE AdInv
    <2>1. Ad!Init
      BY <1>15 DEF PartsInit
    <2> QED
      BY <2>1, AdInitInv
  <1>16. ASSUME part = "preferences" PROVE PpInv
    <2>1. Pp!Init
      BY <1>16 DEF PartsInit
    <2> QED
      BY <2>1, PpInitInv
  <1>17. ASSUME part = "profile" PROVE PlInv
    <2>1. Pl!Init
      BY <1>17 DEF PartsInit
    <2> QED
      BY <2>1, PlInitInv
  <1>18. ASSUME part = "friendlist" PROVE FlInv
    <2>1. Fl!Init
      BY <1>18 DEF PartsInit
    <2> QED
      BY <2>1, FlInitInv
  <1>19. ASSUME part = "reactions" PROVE RxInv
    <2>1. Rx!Init
      BY <1>19 DEF PartsInit
    <2> QED
      BY <2>1, RxInitInv
  <1>20. ASSUME part = "sidebar" PROVE SdInv
    <2>1. Sd!Init
      BY <1>20 DEF PartsInit
    <2> QED
      BY <2>1, SdInitInv
  <1>21. ASSUME part = "invitequeue" PROVE IqInv
    <2>1. Iq!Init
      BY <1>21 DEF PartsInit
    <2> QED
      BY <2>1, IqInitInv
  <1>22. ASSUME part = "partyscreen" PROVE PxInv
    <2>1. Px!Init
      BY <1>22 DEF PartsInit
    <2> QED
      BY <2>1, PxInitInv
  <1>23. ASSUME part = "communityform" PROVE CfInv
    <2>1. Cf!Init
      BY <1>23 DEF PartsInit
    <2> QED
      BY <2>1, CfInitInv
  <1> QED
    BY <1>1, <1>2, <1>3, <1>4, <1>5, <1>6, <1>7, <1>8, <1>9, <1>10, <1>11, <1>12,
       <1>13, <1>14, <1>15, <1>16, <1>17, <1>18, <1>19, <1>20, <1>21, <1>22, <1>23 DEF
       PartsInv

LEMMA PartsNextInv == ASSUME PartsInv, [PartsNext]_partVars PROVE PartsInv'
  <1>0. part' = part
    BY Chosen
  <1>1. ASSUME part = "channels" PROVE ChInv'
    <2>1. ChInv /\ (Ch!Next \/ UNCHANGED Ch!vars)
      BY <1>1, Chosen DEF PartsInv
    <2> QED
      BY <2>1, ChNextInv, ChStillInv
  <1>2. ASSUME part = "messages" PROVE MsInv'
    <2>1. MsInv /\ (Ms!Next \/ UNCHANGED Ms!vars)
      BY <1>2, Chosen DEF PartsInv
    <2> QED
      BY <2>1, MsNextInv, MsStillInv
  <1>3. ASSUME part = "partyfeed" PROVE PfInv'
    <2>1. PfInv /\ (Pf!Next \/ UNCHANGED Pf!vars)
      BY <1>3, Chosen DEF PartsInv
    <2> QED
      BY <2>1, PfNextInv, PfStillInv
  <1>4. ASSUME part = "pagesocket" PROVE PsInv'
    <2>1. PsInv /\ (Ps!Next \/ UNCHANGED Ps!vars)
      BY <1>4, Chosen DEF PartsInv
    <2> QED
      BY <2>1, PsNextInv, PsStillInv
  <1>5. ASSUME part = "accounts" PROVE AcInv'
    <2>1. AcInv /\ (Ac!Next \/ UNCHANGED Ac!vars)
      BY <1>5, Chosen DEF PartsInv
    <2> QED
      BY <2>1, AcNextInv, AcStillInv
  <1>6. ASSUME part = "uploads" PROVE UpInv'
    <2>1. UpInv /\ (Up!Next \/ UNCHANGED Up!vars)
      BY <1>6, Chosen DEF PartsInv
    <2> QED
      BY <2>1, UpNextInv, UpStillInv
  <1>7. ASSUME part = "dms" PROVE DmInv'
    <2>1. DmInv /\ (Dm!Next \/ UNCHANGED Dm!vars)
      BY <1>7, Chosen DEF PartsInv
    <2> QED
      BY <2>1, DmNextInv, DmStillInv
  <1>8. ASSUME part = "presence" PROVE PrInv'
    <2>1. PrInv /\ (Pr!Next \/ UNCHANGED Pr!vars)
      BY <1>8, Chosen DEF PartsInv
    <2> QED
      BY <2>1, PrNextInv, PrStillInv
  <1>9. ASSUME part = "typing" PROVE TyInv'
    <2>1. TyInv /\ (Ty!Next \/ UNCHANGED Ty!vars)
      BY <1>9, Chosen DEF PartsInv
    <2> QED
      BY <2>1, TyNextInv, TyStillInv
  <1>10. ASSUME part = "voicesession" PROVE VsInv'
    <2>1. VsInv /\ (Vs!Next \/ UNCHANGED Vs!vars)
      BY <1>10, Chosen DEF PartsInv
    <2>2. VsSetting
      BY NobodyAssumption DEF VsSetting
    <2> QED
      BY <2>1, <2>2, VsNextInv
  <1>11. ASSUME part = "channelvoice" PROVE CvInv'
    <2>1. CvInv /\ (Cv!Next \/ UNCHANGED Cv!vars)
      BY <1>11, Chosen DEF PartsInv
    <2>2. CvSetting
      BY NobodyAssumption, BoundsAssumption DEF CvSetting
    <2> QED
      BY <2>1, <2>2, CvNextInv
  <1>12. ASSUME part = "pagedata" PROVE PdInv'
    <2>1. PdInv /\ (Pd!Next \/ UNCHANGED Pd!vars)
      BY <1>12, Chosen DEF PartsInv
    <2> QED
      BY <2>1, PdNextInv, PdStillInv
  <1>13. ASSUME part = "searchbox" PROVE SbInv'
    <2>1. SbInv /\ (Sb!Next \/ UNCHANGED Sb!vars)
      BY <1>13, Chosen DEF PartsInv
    <2> QED
      BY <2>1, SbNextInv, SbStillInv
  <1>14. ASSUME part = "notices" PROVE NtInv'
    <2>1. NtInv /\ (Nt!Next \/ UNCHANGED Nt!vars)
      BY <1>14, Chosen DEF PartsInv
    <2> QED
      BY <2>1, NtNextInv
  <1>15. ASSUME part = "appdata" PROVE AdInv'
    <2>1. AdInv /\ (Ad!Next \/ UNCHANGED Ad!vars)
      BY <1>15, Chosen DEF PartsInv
    <2> QED
      BY <2>1, AdNextInv, AdStillInv
  <1>16. ASSUME part = "preferences" PROVE PpInv'
    <2>1. PpInv /\ (Pp!Next \/ UNCHANGED Pp!vars)
      BY <1>16, Chosen DEF PartsInv
    <2> QED
      BY <2>1, PpNextInv, PpStillInv
  <1>17. ASSUME part = "profile" PROVE PlInv'
    <2>1. PlInv /\ (Pl!Next \/ UNCHANGED Pl!vars)
      BY <1>17, Chosen DEF PartsInv
    <2> QED
      BY <2>1, PlNextInv, PlStillInv
  <1>18. ASSUME part = "friendlist" PROVE FlInv'
    <2>1. FlInv /\ (Fl!Next \/ UNCHANGED Fl!vars)
      BY <1>18, Chosen DEF PartsInv
    <2> QED
      BY <2>1, FlNextInv, FlStillInv
  <1>19. ASSUME part = "reactions" PROVE RxInv'
    <2>1. RxInv /\ (Rx!Next \/ UNCHANGED Rx!vars)
      BY <1>19, Chosen DEF PartsInv
    <2> QED
      BY <2>1, RxNextInv, RxStillInv
  <1>20. ASSUME part = "sidebar" PROVE SdInv'
    <2>1. SdInv /\ (Sd!Next \/ UNCHANGED Sd!vars)
      BY <1>20, Chosen DEF PartsInv
    <2> QED
      BY <2>1, SdNextInv, SdStillInv
  <1>21. ASSUME part = "invitequeue" PROVE IqInv'
    <2>1. IqInv /\ (Iq!Next \/ UNCHANGED Iq!vars)
      BY <1>21, Chosen DEF PartsInv
    <2> QED
      BY <2>1, IqNextInv, IqStillInv
  <1>22. ASSUME part = "partyscreen" PROVE PxInv'
    <2>1. PxInv /\ (Px!Next \/ UNCHANGED Px!vars)
      BY <1>22, Chosen DEF PartsInv
    <2> QED
      BY <2>1, PxNextInv, PxStillInv
  <1>23. ASSUME part = "communityform" PROVE CfInv'
    <2>1. CfInv /\ (Cf!Next \/ UNCHANGED Cf!vars)
      BY <1>23, Chosen DEF PartsInv
    <2> QED
      BY <2>1, CfNextInv, CfStillInv
  <1> QED
    BY <1>0, <1>1, <1>2, <1>3, <1>4, <1>5, <1>6, <1>7, <1>8, <1>9, <1>10, <1>11,
       <1>12, <1>13, <1>14, <1>15, <1>16, <1>17, <1>18, <1>19, <1>20, <1>21, <1>22,
       <1>23 DEF PartsInv

\* What each component keeps to, it keeps to for good.
THEOREM Invariance == PartsSpec => []PartsInv
  <1>1. PartsInit => PartsInv
    BY PartsInitInv
  <1>2. PartsInv /\ [PartsNext]_partVars => PartsInv'
    BY PartsNextInv
  <1> QED
    BY <1>1, <1>2, PTL DEF PartsSpec

\* However a message comes to the channel panel or the message page, by the history, by
\* the socket or by the answer to its send, it is listed once (TextChannelPanel.onMessage,
\* MessagesPage.onCreated and its knownIds).
THEOREM Shown == PartsSpec => []ShownOnce
  <1>1. PartsInv => ShownOnce
    BY DEF PartsInv, ShownOnce, ChInv, MsInv
  <1> QED
    BY <1>1, Invariance, PTL

\* What a screen shows is of what it shows it for: in the panel of a channel whatever
\* answers are late, elsewhere up to the late answers that the code lets in and that the
\* property of each component excepts by name (useApiData, MessagesPage, SearchPage,
\* CommunityDetailPage, getOrCreateDm, joinChannel).
THEOREM Placed == PartsSpec => []RightPlace
  <1>1. PartsInv => RightPlace
    BY CfMeans, CvInvMeans DEF PartsInv, RightPlace, ChInv, MsInv, PdInv, SbInv,
       UpInv, DmInv
  <1> QED
    BY <1>1, Invariance, PTL

\* No answer takes from a list what came to it live once the page had its history and was
\* in the room, but for what an older page brought ahead of the history; and a page that is
\* signed in hears its socket, unless the token it dialled with was refused, replaced or
\* taken away.
THEOREM Delivered == PartsSpec => []LiveOnceReady
  <1>1. PartsInv => LiveOnceReady
    BY DEF PartsInv, LiveOnceReady, ChInv, MsInv, PsInv
  <1> QED
    BY <1>1, Invariance, PTL

\* A page shows nobody else's data, but for an answer that came after the sign-out, holds no
\* connection once it is signed out, but for one that was dialling as its token was replaced,
\* and the row of a deleted account keeps no text and no picture of the person, unless a
\* request that was still let in wrote to it (AppDataContext, AuthContext, UsersService).
THEOREM Personal == PartsSpec => []OwnDataOnly
  <1>1. PartsInv => OwnDataOnly
    BY AdMeans, PlMeans DEF PartsInv, OwnDataOnly, PsInv, UpInv
  <1> QED
    BY <1>1, Invariance, PTL

\* No page of data, search box or community form says it is loading with nothing to wait
\* for, as one that was cancelled without another in its place would.
THEOREM Loading == PartsSpec => []LoadingIsAwaited
  <1>1. PartsInv => LoadingIsAwaited
    BY CfMeans DEF PartsInv, LoadingIsAwaited, PdInv, SbInv
  <1> QED
    BY <1>1, Invariance, PTL

\* A party the user has left or been taken out of is not on his page for good: word of it
\* is on its way, or was lost with the connection.
THEOREM Feed == PartsSpec => []NoStaleParty
  <1>1. PartsInv => NoStaleParty
    BY DEF PartsInv, NoStaleParty, PfInv
  <1> QED
    BY <1>1, Invariance, PTL

\* No password opens a deleted account, but for a sign-in that had proved itself before the
\* deletion, and a mailed token is used twice only by requests that both found it unused
\* (AuthService, UsersService).  Identities are not in it: they do open a deleted account.
THEOREM Warranted == PartsSpec => []SessionsWarranted
  <1>1. PartsInv => SessionsWarranted
    BY DEF PartsInv, SessionsWarranted, AcInv, AcWarranted
  <1> QED
    BY <1>1, Invariance, PTL

\* A microphone is live only in the room the page or the panel holds, but for a join that a
\* sign-out, or the panel's going, overtook, and rooms that another call or another room's
\* Disconnected took roomRef from.
THEOREM Held == PartsSpec => []MicHeld
  <1>1. PartsInv => MicHeld
    BY CvInvMeans DEF PartsInv, MicHeld, VsInv
  <1> QED
    BY <1>1, Invariance, PTL

\* Once nothing is in flight, what a screen shows is what is stored, apart from what each
\* module names: changes shown that the server refused, and what crossed on the way.
THEOREM Settled == PartsSpec => []SettledTrue
  <1>1. PartsInv => SettledTrue
    BY PrMeans, NtMeans, AdMeans, PpMeans, PlMeans, FlMeans, RxMeans, SdMeans,
       TyMeans, IqMeans, PxMeans, CfMeans DEF PartsInv, SettledTrue
  <1> QED
    BY <1>1, Invariance, PTL

\* The microphone of the room that is held is on if and only if the page shows it unmuted,
\* unless the switch was used while that room was being joined.
THEOREM AsShown == PartsSpec => []MicAsShown
  <1>1. PartsInv => MicAsShown
    BY DEF PartsInv, MicAsShown, VsInv
  <1> QED
    BY <1>1, Invariance, PTL

\* The component Communities steps with its own part, and stays as it is with the others'.
LEMMA Beside == ASSUME [PartsNext]_partVars PROVE [Next]_vars
  <1>1. CASE PartsNext
    BY <1>1 DEF PartsNext, CommunitiesStep, ChannelsStep, MessagesStep, PartyFeedStep,
       VoiceSessionStep, ChannelVoiceStep, AccountsStep, PresenceStep, PageDataStep,
       SearchBoxStep, NoticesStep, AppDataStep, PageSocketStep, PreferencesStep,
       UploadsStep, ProfileStep, FriendListStep, ReactionsStep, SideBarStep,
       TypingStep, InviteQueueStep, PartyScreenStep, CommunityFormStep, DmsStep
  <1>2. CASE UNCHANGED partVars
    BY <1>2 DEF partVars
  <1> QED
    BY <1>1, <1>2

LEMMA Typed ==
  ASSUME PartsInv, Inv
  PROVE  TypesOK
  <1>1. TypeOK /\ OneSeatEach
    BY InvMeans
  <1>2. part = "channels" => Ch!TypeOK
    BY DEF PartsInv, ChInv
  <1>3. part = "messages" => Ms!TypeOK
    BY DEF PartsInv, MsInv
  <1>4. part = "partyfeed" => Pf!TypeOK
    BY DEF PartsInv, PfInv
  <1>5. part = "pagesocket" => Ps!TypeOK
    BY DEF PartsInv, PsInv
  <1>6. part = "accounts" => Ac!TypeOK
    BY DEF PartsInv, AcInv
  <1>7. part = "uploads" => Up!TypeOK
    BY DEF PartsInv, UpInv
  <1>8. part = "dms" => Dm!TypeOK
    BY DEF PartsInv, DmInv
  <1>9. part = "presence" => Pr!TypeOK
    BY DEF PartsInv, PrInv
  <1>10. part = "typing" => Ty!TypeOK
    BY TyMeans DEF PartsInv
  <1>11. part = "voicesession" => Vs!TypeOK
    BY DEF PartsInv, VsInv
  <1>12. part = "channelvoice" => Cv!TypeOK
    BY CvInvMeans DEF PartsInv
  <1>13. part = "pagedata" => Pd!TypeOK
    BY DEF PartsInv, PdInv
  <1>14. part = "searchbox" => Sb!TypeOK
    BY DEF PartsInv, SbInv
  <1>15. part = "notices" => Nt!TypeOK
    BY NtMeans DEF PartsInv
  <1>16. part = "appdata" => Ad!TypeOK
    BY AdMeans DEF PartsInv
  <1>17. part = "preferences" => Pp!TypeOK
    BY DEF PartsInv, PpInv
  <1>18. part = "profile" => Pl!TypeOK
    BY PlMeans DEF PartsInv
  <1>19. part = "friendlist" => Fl!TypeOK
    BY FlMeans DEF PartsInv
  <1>20. part = "reactions" => Rx!TypeOK
    BY RxMeans DEF PartsInv
  <1>21. part = "sidebar" => Sd!TypeOK
    BY SdMeans DEF PartsInv
  <1>22. part = "invitequeue" => Iq!TypeOK
    BY IqMeans DEF PartsInv
  <1>23. part = "partyscreen" => Px!TypeOK
    BY PxMeans DEF PartsInv
  <1>24. part = "communityform" => Cf!TypeOK
    BY CfMeans DEF PartsInv
  <1> QED
    BY <1>1, <1>2, <1>3, <1>4, <1>5, <1>6, <1>7, <1>8, <1>9, <1>10, <1>11, <1>12,
       <1>13, <1>14, <1>15, <1>16, <1>17, <1>18, <1>19, <1>20, <1>21, <1>22, <1>23,
       <1>24 DEF TypesOK

\* The variables of every component are well-typed, and in Communities nobody has two
\* memberships (CommunitiesRepository, UNIQUE (communityId, userId)).
THEOREM Types == ASSUME Setting PROVE PartsSpec => []TypesOK
  <1>1. PartsInit => Inv
    BY InitInv DEF PartsInit
  <1>2. Inv /\ [PartsNext]_partVars => Inv'
    BY NextInv, Beside
  <1>3. PartsSpec => []Inv
    BY <1>1, <1>2, PTL DEF PartsSpec
  <1>4. PartsInv /\ Inv => TypesOK
    BY Typed
  <1> QED
    BY <1>3, <1>4, Invariance, PTL
=============================================================================
