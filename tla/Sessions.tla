------------------------------ MODULE Sessions ------------------------------
(***************************************************************************)
(* The sessions of one account: AuthService's login, rotation, logout and  *)
(* revocation, with the pages that use them (AuthContext, and the request  *)
(* function of http.ts with its one refresh and one retry).                *)
(*                                                                         *)
(* A session is named by the refresh token it was made for.  The server    *)
(* cannot tell the tokens of one user apart: bcrypt hashes the first 72    *)
(* bytes of a token, which hold the header of the JWT and the beginning of *)
(* the user id and nothing else, so compareRefreshToken lets every token   *)
(* of the user match every session of the user.  Accounts do not interact. *)
(*                                                                         *)
(* As in module Party, a request on the server takes its next statement at *)
(* any time or never.  Its page may give it up meanwhile (the timeout, a   *)
(* lost connection, a reload); the server then goes on by itself.  The     *)
(* timeout ends with the headers of the answer: the body, which every      *)
(* answer but that of a logout has, may stay away for good.                *)
(***************************************************************************)
EXTENDS Naturals

CONSTANTS
  Page,     \* pages open in some browser
  Browser,  \* cookie jars
  Jar,      \* the browser of each page
  Call,     \* API calls a page has under way at once, but for login and logout
  Session,  \* refresh tokens with their sessions: bounds those ever made
  Req,      \* auth requests on the server at once, given up ones included
  None

ASSUME JarAssumption == Jar \in [Page -> Browser]
ASSUME NoneAssumption == None \notin Page \cup Session

VARIABLES
  session,  \* table Session: none (not made), live, revoked or expired
  ended,    \* whether a session has ended other than by rotation (history)
  cookie,   \* the refresh_token cookie of each browser
  status,   \* AuthContext's status of each page
  token,    \* whether the page holds an access token
  call,     \* its calls: none, sent, wait (for the refresh), again (retried),
            \* read and reread (the body of the answer to the first two)
  req       \* the auth requests on the server

vars == <<session, ended, cookie, status, token, call, req>>
table == <<session, ended>>
pages == <<status, token, call>>

-----------------------------------------------------------------------------
Op == Call \cup {"login", "logout"}
Stage == {"none", "sent", "read", "wait", "again", "reread"}
Status == {"loading", "authenticated", "unauthenticated", "session-expired"}
Guest == {"unauthenticated", "session-expired"}
Kind == {"refresh", "login", "logout"}

Idle == [kind |-> "none", pc |-> "idle", page |-> None, sent |-> None, session |-> None]
At(kinds, pcs, sessions) ==
  [kind : kinds, pc : pcs, page : Page \cup {None},
   sent : Session \cup {None}, session : sessions]
Request ==
  {Idle} \cup At(Kind, {"find", "refused", "refused.body"}, {None})
         \cup At({"login"}, {"create"}, {None}) \cup At({"refresh", "login"}, {"ok.body"}, Session)
         \cup At({"logout"}, {"ok"}, {None}) \cup At({"refresh", "logout"}, {"revoke"}, Session)
         \cup At({"refresh"}, {"create"}, Session) \cup At(Kind, {"ok"}, Session)

Live == {s \in Session : session[s] = "live"}
Unrevoked == {s \in Session : session[s] \in {"live", "expired"}}

Of(r, p, kind) == req[r].page = p /\ req[r].kind = kind
Refreshing(p) == \E r \in Req : Of(r, p, "refresh")
Reading(r) == req[r].pc \in {"ok.body", "refused.body"}
Waiting(p, o) == call[p][o] = "wait"
SomeWait(p) == \E o \in Op : Waiting(p, o)

New(p, kind, pc) ==
  [kind |-> kind, pc |-> pc, page |-> p, sent |-> cookie[Jar[p]], session |-> None]

Send(p, kind, pc) ==
  \E r \in Req : req[r] = Idle /\ req' = [req EXCEPT ![r] = New(p, kind, pc)]

Reply(r, pc) == req' = [req EXCEPT ![r].pc = pc]
Matched(r, pc, s) == req' = [req EXCEPT ![r].pc = pc, ![r].session = s]
Free(r) == req' = [req EXCEPT ![r] = Idle]

\* Given up by its page: the server goes on with what it has not answered.
Orphan(r) == IF Reading(r) THEN Idle ELSE [req[r] EXCEPT !.page = None]
GiveUp(r) == req' = [req EXCEPT ![r] = Orphan(r)]

Set(p, o, stage) == call' = [call EXCEPT ![p][o] = stage]

-----------------------------------------------------------------------------
(* Mutated forms: what a plausible slip in the code would make of the      *)
(* definition whose name each one carries.  No action uses them; replacing *)
(* the definition by its form must break the property the form is for.     *)

\* a rotation that finds no session goes on all the same
FindUnchecked(r) ==
  /\ req[r].pc = "find" /\ req[r].kind = "refresh"
  /\ IF Live = {} THEN Reply(r, "revoke") ELSE \E s \in Live : Matched(r, "revoke", s)
  /\ UNCHANGED <<table, cookie, pages>>

\* the new row copied from the old one, revokedAt included
CreateCopied(r) ==
  /\ req[r].pc = "create"
  /\ \E s \in Session :
       /\ session[s] = "none"
       /\ session' = [session EXCEPT ![s] =
                        IF req[r].kind = "refresh" THEN "revoked" ELSE "live"]
       /\ Matched(r, "ok", s)
  /\ UNCHANGED <<ended, cookie, pages>>

\* the promise of an earlier refresh kept after it has settled
ShareKept(p) == IF token[p] \/ Refreshing(p) THEN UNCHANGED req
                ELSE Send(p, "refresh", "find")

\* no promise kept
ShareNone(p) == Send(p, "refresh", "find")

\* only one of those that await the refresh goes on
ReleasedFirst(p, stage) ==
  IF SomeWait(p)
    THEN Set(p, CHOOSE o \in Op : Waiting(p, o), stage)
    ELSE UNCHANGED call

-----------------------------------------------------------------------------
\* All calls of a page that await its refresh go on.
Released(p, stage) ==
  call' = [call EXCEPT ![p] =
             [o \in Op |-> IF Waiting(p, o) THEN stage ELSE call[p][o]]]

\* The state of pages whose bootstrap found no cookie.
Init ==
  /\ session = [s \in Session |-> "none"] /\ ended = FALSE
  /\ cookie = [b \in Browser |-> None]
  /\ status = [p \in Page |-> "unauthenticated"]
  /\ token = [p \in Page |-> FALSE]
  /\ call = [p \in Page |-> [o \in Op |-> "none"]]
  /\ req = [r \in Req |-> Idle]

-----------------------------------------------------------------------------
(* The server. *)

\* refreshTokens as far as the look at the match.  Every session matches;
\* which one findMany returns first is not defined.  The JWT may have expired.
FindSession(r) ==
  /\ req[r].pc = "find" /\ req[r].kind = "refresh"
  /\ \/ req[r].sent # None /\ \E s \in Live : Matched(r, "revoke", s)
     \/ Reply(r, "refused")
  /\ UNCHANGED <<table, cookie, pages>>

\* login: the password, then issueAuthResponse.
CheckPassword(r) ==
  /\ req[r].pc = "find" /\ req[r].kind = "login"
  /\ Reply(r, "create") \/ Reply(r, "refused")
  /\ UNCHANGED <<table, cookie, pages>>

\* logout as far as the match; without a cookie or a session it is done.
FindLogout(r) ==
  /\ req[r].pc = "find" /\ req[r].kind = "logout"
  /\ \/ req[r].sent # None /\ \E s \in Unrevoked : Matched(r, "revoke", s)
     \/ (req[r].sent = None \/ Unrevoked = {}) /\ Reply(r, "ok")
  /\ UNCHANGED <<table, cookie, pages>>

Revoke(r) ==
  /\ req[r].pc = "revoke"
  /\ session' = [session EXCEPT ![req[r].session] = "revoked"]
  /\ ended' = (ended \/ req[r].kind = "logout")
  /\ Reply(r, IF req[r].kind = "refresh" THEN "create" ELSE "ok")
  /\ UNCHANGED <<cookie, pages>>

\* issueAuthResponse
Create(r) ==
  /\ req[r].pc = "create"
  /\ \E s \in Session :
       /\ session[s] = "none"
       /\ session' = [session EXCEPT ![s] = "live"]
       /\ Matched(r, "ok", s)
  /\ UNCHANGED <<ended, cookie, pages>>

\* The answer to a request that its page has given up goes nowhere.
Unheard(r) ==
  /\ req[r].page = None /\ req[r].pc \in {"ok", "refused"}
  /\ Free(r)
  /\ UNCHANGED <<table, cookie, pages>>

End(gone, as) ==
  /\ session' = [s \in Session |-> IF s \in gone THEN as ELSE session[s]]
  /\ ended' = TRUE
  /\ UNCHANGED <<cookie, pages, req>>

\* A session ended in the list of devices; all of them, by a password reset
\* or the deletion of the account; and expiresAt gone by.
RevokeSession(s) == session[s] # "none" /\ End({s}, "revoked")
RevokeAll == End(Unrevoked, "revoked")
Expire(s) == s \in Live /\ End({s}, "expired")

-----------------------------------------------------------------------------
(* The page: attemptRefresh and those who await it. *)

\* attemptRefresh: one refresh at a time, shared by whoever needs one.
Share(p) == IF Refreshing(p) THEN UNCHANGED req ELSE Send(p, "refresh", "find")

\* A reload forgets everything but the cookie; the bootstrap refreshes.
Load(p) ==
  /\ \E r \in Req :
       /\ req[r] = Idle
       /\ req' = [q \in Req |-> IF q = r THEN New(p, "refresh", "find")
                                ELSE IF req[q].page = p THEN Orphan(q)
                                ELSE req[q]]
  /\ status' = [status EXCEPT ![p] = "loading"]
  /\ token' = [token EXCEPT ![p] = FALSE]
  /\ call' = [call EXCEPT ![p] = [o \in Op |-> "none"]]
  /\ UNCHANGED <<table, cookie>>

\* The headers of an answer with a body: they stop the timer, and the browser
\* takes the cookie of a session from them.
Headers(p, r, kind) ==
  /\ Of(r, p, kind)
  /\ \/ /\ req[r].pc = "ok" /\ kind # "logout"
        /\ cookie' = [cookie EXCEPT ![Jar[p]] = req[r].session]
        /\ Reply(r, "ok.body")
     \/ /\ req[r].pc = "refused"
        /\ UNCHANGED cookie
        /\ Reply(r, "refused.body")
  /\ UNCHANGED <<table, pages>>

\* applySession
Apply(p, r) ==
  /\ token' = [token EXCEPT ![p] = TRUE]
  /\ status' = [status EXCEPT ![p] = "authenticated"]
  /\ Free(r)

Refreshed(p, r) ==
  /\ Of(r, p, "refresh") /\ req[r].pc = "ok.body"
  /\ Apply(p, r)
  /\ Released(p, "again")
  /\ UNCHANGED <<table, cookie>>

\* Mutated form of the next: a failed bootstrap leaves the status as it is.
FailedCancelled(p) ==
  /\ token' = [token EXCEPT ![p] = FALSE]
  /\ Released(p, "none")
  /\ status' = [status EXCEPT ![p] = IF SomeWait(p) THEN "session-expired" ELSE @]

\* clearSession.  Then the bootstrap, or a logout in its finally block, leaves
\* the page unauthenticated, and any other call that waited expires it.
Failed(p) ==
  /\ token' = [token EXCEPT ![p] = FALSE]
  /\ Released(p, "none")
  /\ status' = [status EXCEPT ![p] =
       IF @ = "loading" \/ Waiting(p, "logout") THEN "unauthenticated"
       ELSE IF SomeWait(p) THEN "session-expired" ELSE @]

\* Refused; or no answer in time, or a connection that broke, in the body too.
NotRefreshed(p, r) ==
  /\ Of(r, p, "refresh")
  /\ \/ req[r].pc = "refused.body" /\ Free(r)
     \/ GiveUp(r)
  /\ Failed(p)
  /\ UNCHANGED <<table, cookie>>

\* VerifyEmailPage, for guests only, calls refreshUser.
RefreshUser(p) ==
  /\ status[p] \in Guest
  /\ Share(p)
  /\ UNCHANGED <<table, cookie, pages>>

-----------------------------------------------------------------------------
(* The page: request(), for the calls that need no more than an access     *)
(* token.  A token is good for minutes, so a 401 may come at any time.     *)

CallSend(p, c) ==
  /\ status[p] = "authenticated" /\ call[p][c] = "none"
  /\ Set(p, c, "sent")
  /\ UNCHANGED <<table, cookie, status, token, req>>

CallHeaders(p, c) ==
  /\ \/ call[p][c] = "sent" /\ Set(p, c, "read")
     \/ call[p][c] = "again" /\ Set(p, c, "reread")
  /\ UNCHANGED <<table, cookie, status, token, req>>

\* No answer in REQUEST_TIMEOUT_MS, one without a body, or a broken connection.
CallOver(p, c) ==
  /\ call[p][c] \in {"sent", "again"}
  /\ Set(p, c, "none")
  /\ UNCHANGED <<table, cookie, status, token, req>>

\* The body of an answer other than a first 401, or what there was of it.
CallDone(p, c) ==
  /\ call[p][c] \in {"read", "reread"}
  /\ Set(p, c, "none")
  /\ UNCHANGED <<table, cookie, status, token, req>>

CallRefused(p, c) ==
  /\ call[p][c] = "read"
  /\ Set(p, c, "wait")
  /\ Share(p)
  /\ UNCHANGED <<table, cookie, status, token>>

-----------------------------------------------------------------------------
(* The page: login (or register) and logout, through the same request().   *)

Login(p) ==
  /\ status[p] \in Guest /\ call[p]["login"] = "none"
  /\ Send(p, "login", "find")
  /\ Set(p, "login", "sent")
  /\ UNCHANGED <<table, cookie, status, token>>

\* The guard of the route refuses a request whose access token is not good.
Guarded(p) == IF token[p] THEN {"find", "refused"} ELSE {"refused"}

Logout(p) ==
  /\ status[p] = "authenticated" /\ call[p]["logout"] = "none"
  /\ \E pc \in Guarded(p) : Send(p, "logout", pc)
  /\ Set(p, "logout", "sent")
  /\ UNCHANGED <<table, cookie, status, token>>

\* After the refresh the request is sent once more.
Retry(p, kind) ==
  /\ call[p][kind] = "again" /\ ~\E r \in Req : Of(r, p, kind)
  /\ \E pc \in IF kind = "logout" THEN Guarded(p) ELSE {"find"} : Send(p, kind, pc)
  /\ UNCHANGED <<table, cookie, pages>>

LoggedIn(p, r) ==
  /\ Of(r, p, "login") /\ req[r].pc = "ok.body"
  /\ Apply(p, r)
  /\ Set(p, "login", "none")
  /\ UNCHANGED <<table, cookie>>

\* The finally block of logout, and a failed login, which changes nothing.
Over(p, kind) ==
  /\ Set(p, kind, "none")
  /\ IF kind = "logout"
       THEN /\ token' = [token EXCEPT ![p] = FALSE]
            /\ status' = [status EXCEPT ![p] = "unauthenticated"]
       ELSE UNCHANGED <<token, status>>

\* 204, with the cookie cleared.
LoggedOut(p, r) ==
  /\ Of(r, p, "logout") /\ req[r].pc = "ok"
  /\ cookie' = [cookie EXCEPT ![Jar[p]] = None]
  /\ Free(r)
  /\ Over(p, "logout")
  /\ UNCHANGED table

\* A first 401, of a wrong password too: the refresh it needs, unless one is
\* under way, takes the slot that it gives back.
Refused(p, kind, r) ==
  /\ Of(r, p, kind) /\ req[r].pc = "refused.body" /\ call[p][kind] = "sent"
  /\ req' = [req EXCEPT ![r] = IF Refreshing(p) THEN Idle ELSE New(p, "refresh", "find")]
  /\ Set(p, kind, "wait")
  /\ UNCHANGED <<table, cookie, status, token>>

\* A second 401; or no answer, for want of a slot too.
Unanswered(p, kind) ==
  /\ call[p][kind] \in {"sent", "again"}
  /\ \/ \E r \in Req : /\ Of(r, p, kind)
                       /\ \/ req[r].pc = "refused.body" /\ call[p][kind] = "again" /\ Free(r)
                          \/ GiveUp(r)
     \/ (~\E r \in Req : Of(r, p, kind)) /\ UNCHANGED req
  /\ Over(p, kind)
  /\ UNCHANGED <<table, cookie>>

-----------------------------------------------------------------------------
Server ==
  \/ \E r \in Req : \/ FindSession(r) \/ CheckPassword(r) \/ FindLogout(r)
                    \/ Revoke(r) \/ Create(r) \/ Unheard(r)
  \/ \E s \in Session : RevokeSession(s) \/ Expire(s)
  \/ RevokeAll

RefreshEnds(p) == \E r \in Req : Refreshed(p, r) \/ NotRefreshed(p, r)
CallEnds(p, c) == CallOver(p, c) \/ CallDone(p, c) \/ CallRefused(p, c)
OwnEnds(p, kind) ==
  \/ Unanswered(p, kind)
  \/ \E r \in Req : \/ Refused(p, kind, r)
                    \/ kind = "login" /\ LoggedIn(p, r)
                    \/ kind = "logout" /\ LoggedOut(p, r)

Client(p) ==
  \/ Load(p) \/ RefreshEnds(p) \/ RefreshUser(p)
  \/ \E r \in Req, kind \in Kind : Headers(p, r, kind)
  \/ \E c \in Call : CallSend(p, c) \/ CallHeaders(p, c) \/ CallEnds(p, c)
  \/ Login(p) \/ Logout(p)
  \/ \E kind \in {"login", "logout"} : Retry(p, kind) \/ OwnEnds(p, kind)

Next == Server \/ \E p \in Page : Client(p)

ReadingOf(p, kind) == \E r \in Req : Of(r, p, kind) /\ Reading(r)

\* What request() sees to within REQUEST_TIMEOUT_MS: headers, or the end.  The
\* timer is cleared with the headers, so that no body is promised.
RefreshTimer(p) ==
  /\ ~ReadingOf(p, "refresh")
  /\ \E r \in Req : Headers(p, r, "refresh") \/ NotRefreshed(p, r)
CallTimer(p, c) == CallHeaders(p, c) \/ CallOver(p, c)
OwnTimer(p, kind) ==
  /\ ~ReadingOf(p, kind)
  /\ \/ Unanswered(p, kind)
     \/ \E r \in Req : \/ Headers(p, r, kind)
                       \/ kind = "logout" /\ LoggedOut(p, r)

Fairness == \A p \in Page :
  /\ WF_vars(RefreshTimer(p))
  /\ \A c \in Call : WF_vars(CallTimer(p, c))
  /\ \A kind \in {"login", "logout"} : WF_vars(OwnTimer(p, kind))

Spec == Init /\ [][Next]_vars
FairSpec == Spec /\ Fairness

-----------------------------------------------------------------------------
TypeOK ==
  /\ session \in [Session -> {"none", "live", "revoked", "expired"}]
  /\ ended \in BOOLEAN
  /\ cookie \in [Browser -> Session \cup {None}]
  /\ status \in [Page -> Status]
  /\ token \in [Page -> BOOLEAN]
  /\ call \in [Page -> [Op -> Stage]]
  /\ req \in [Req -> Request]

\* Rotation by itself never signs the account out: however many refreshes
\* race and whichever sessions they match, until somebody ends a session
\* there is a live one, or a refresh about to store one.
NeverStranded ==
  (~ended /\ \E s \in Session : session[s] # "none")
    => \/ Live # {}
       \/ \E r \in Req : req[r].kind = "refresh" /\ req[r].pc = "create"

\* Whoever awaits a refresh awaits one that is in flight: the bootstrap and
\* every call, login and logout, whichever of them has started it.
AwaitedIsInFlight == \A p \in Page :
  (status[p] = "loading" \/ SomeWait(p)) => Refreshing(p)

\* A page never has two refreshes in flight, in whatever order its calls are
\* refused, given up and retried.
SingleFlight == \A p \in Page, q, r \in Req :
  (Of(q, p, "refresh") /\ Of(r, p, "refresh")) => q = r

\* A page leaves loading behind, however its bootstrap is refused, matched late
\* or given up, unless it is reloaded again and again, or for good reads the
\* body of the refresh's answer, for which http.ts has no timer.
LoadingEnds == \A p \in Page :
  \/ []<>(status[p] # "loading") \/ []<><<Load(p)>>_vars
  \/ <>[]ReadingOf(p, "refresh")

\* Every call, login and logout ends, one that waits for a refresh another has
\* started included: nothing can hold it up for good but the body of its own
\* answer, or of that refresh's.
HeldUp(p, o) ==
  \/ call[p][o] \in {"read", "reread"} \/ ReadingOf(p, o)
  \/ Waiting(p, o) /\ ReadingOf(p, "refresh")
CallsSettle == \A p \in Page, o \in Op :
  []<>(call[p][o] = "none") \/ <>[]HeldUp(p, o)

\* AuthContext.tsx:38: of two refreshes that race on the same old token
\* exactly one loses, so no two of them are ever answered with a session.
OneWinner == \A q, r \in Req :
  (q # r /\ req[q].kind = "refresh" /\ req[r].kind = "refresh"
     /\ req[q].pc \in {"ok", "ok.body"} /\ req[r].pc \in {"ok", "ok.body"})
    => req[q].sent # req[r].sent
=============================================================================
