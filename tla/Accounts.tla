------------------------------ MODULE Accounts ------------------------------
(***************************************************************************)
(* The accounts behind the sessions: registration, login by password or by *)
(* an identity at a provider, the tokens that are mailed, passwords and    *)
(* the deletion of an account, of AuthService and UsersService.            *)
(*                                                                         *)
(* One action is one statement or transaction.  A request refused by its   *)
(* first reads is left out, and so are whether an address is verified and  *)
(* the handles: an insert that the unique index on them refuses is one     *)
(* that fails.  Sessions are here only opened and closed; how one is       *)
(* rotated is the business of module Sessions.                             *)
(***************************************************************************)
EXTENDS Naturals, Sequences

CONSTANTS
  Email,      \* addresses
  Identity,   \* accounts at the providers
  Req,        \* slots of requests; bounds those in flight at once
  MaxUsers,   \* bounds the rows ever in table User
  MaxTokens   \* bounds the tokens ever mailed

VARIABLES
  users,     \* table User, in the order of its rows
  links,     \* table OAuthAccount: the user of each identity, 0 for none
  tokens,    \* EmailVerificationToken and PasswordResetToken
  sessions,  \* the unrevoked rows of Session
  ended,     \* history: how often all sessions of a user were revoked
  req        \* the requests in flight

tables == <<users, links, tokens, sessions>>
vars == <<tables, ended, req>>

-----------------------------------------------------------------------------
UserId == 1..MaxUsers
Tombstone == "deleted"
UserRow == [email : Email \cup {Tombstone}, password : BOOLEAN, deleted : BOOLEAN]
\* uses and raced are history: how often it was used, and whether two requests
\* found it unused before either used it
TokenRow == [kind : {"verify", "reset"}, user : UserId, uses : 0..2, raced : BOOLEAN]
\* the row, and history: by what the user proved himself, how often his sessions
\* had been revoked by then, and whether they were again before the insert
SessionRow == [user : UserId, by : {"password", "identity"}, since : Nat, late : BOOLEAN]

Idle == [pc |-> "idle"]
Signing(u, by) == [pc |-> "session", user |-> u, by |-> by, since |-> ended[u]]
Request == {Idle}
  \cup [pc : {"register"}, email : Email]
  \cup [pc : {"email", "create"}, id : Identity, email : Email]
  \cup [pc : {"link"}, id : Identity, user : UserId, since : Nat]
  \cup [pc : {"mail"}, user : UserId, since : Nat]
  \cup [pc : {"change"}, user : UserId]
  \cup [pc : {"session"}, user : UserId, by : {"password", "identity"}, since : Nat]
  \cup [pc : {"use"}, token : 1..MaxTokens]

Go(r, next) == req' = [req EXCEPT ![r] = next]
Done(r) == Go(r, Idle)

Taken(e) == \E u \in DOMAIN users : users[u].email = e
FindByEmail(e) == CHOOSE u \in DOMAIN users : users[u].email = e
Token(kind, u) == [kind |-> kind, user |-> u, uses |-> 0, raced |-> FALSE]


\* create: the unique index on the address has the last word
Insert(e, password) ==
  /\ Len(users) < MaxUsers
  /\ users' = Append(users, [email |-> e, password |-> password, deleted |-> FALSE])

-----------------------------------------------------------------------------
(* Mutated forms: what a plausible slip in the code would make of the      *)
(* definition whose name each one carries.  No action uses them; replacing *)
(* the definition by its form must break the property the form is for.     *)

\* usedAt not looked at
UnusedAlways(t) == TRUE

Init ==
  /\ users = <<>> /\ links = [i \in Identity |-> 0]
  /\ tokens = <<>> /\ sessions = {}
  /\ ended = [u \in UserId |-> 0]
  /\ req = [r \in Req |-> Idle]

-----------------------------------------------------------------------------
\* register: the two reads of createLocalUser, the row, the token that is
\* mailed, the session
Register(r, e) ==
  /\ req[r] = Idle
  /\ ~Taken(e)
  /\ Go(r, [pc |-> "register", email |-> e])
  /\ UNCHANGED <<tables, ended>>

CreateLocal(r) ==
  /\ req[r].pc = "register"
  /\ IF Taken(req[r].email)
       THEN Done(r) /\ UNCHANGED users
       ELSE /\ Insert(req[r].email, TRUE)
            /\ Go(r, [pc |-> "mail", user |-> Len(users) + 1, since |-> 0])
  /\ UNCHANGED <<links, tokens, sessions, ended>>

MailToken(r) ==
  LET u == req[r].user IN
  /\ req[r].pc = "mail"
  /\ Len(tokens) < MaxTokens
  /\ tokens' = Append(tokens, Token("verify", u))
  /\ Go(r, [pc |-> "session", user |-> u, by |-> "password", since |-> req[r].since])
  /\ UNCHANGED <<users, links, sessions, ended>>

\* login, once the password has been compared
Login(r, e) ==
  /\ req[r] = Idle
  /\ Taken(e) /\ users[FindByEmail(e)].password
  /\ Go(r, Signing(FindByEmail(e), "password"))
  /\ UNCHANGED <<tables, ended>>

\* issueAuthResponse, whatever has become of the account meanwhile
Issue(r) ==
  LET q == req[r] IN
  /\ q.pc = "session"
  /\ sessions' = sessions \cup {[user |-> q.user, by |-> q.by, since |-> q.since,
                                 late |-> q.since # ended[q.user]]}
  /\ Done(r)
  /\ UNCHANGED <<users, links, tokens, ended>>

-----------------------------------------------------------------------------
(* loginOrCreateWithOAuth: by the identity, by its address, or a new       *)
(* account.                                                                *)

FindIdentity(r, i, e) ==
  /\ req[r] = Idle
  /\ Go(r, IF links[i] # 0 THEN Signing(links[i], "identity")
           ELSE [pc |-> "email", id |-> i, email |-> e])
  /\ UNCHANGED <<tables, ended>>

FindEmail(r) ==
  LET i == req[r].id  e == req[r].email IN
  /\ req[r].pc = "email"
  /\ Go(r, IF Taken(e)
             THEN [pc |-> "link", id |-> i, user |-> FindByEmail(e), since |-> ended[FindByEmail(e)]]
             ELSE [pc |-> "create", id |-> i, email |-> e])
  /\ UNCHANGED <<tables, ended>>

\* createOAuthUser, its handle one that a read has found free
CreateOAuth(r) ==
  LET q == req[r]  u == Len(users) + 1 IN
  /\ q.pc = "create"
  /\ IF Taken(q.email)
       THEN Done(r) /\ UNCHANGED users
       ELSE /\ Insert(q.email, FALSE)
            /\ Go(r, [pc |-> "link", id |-> q.id, user |-> u, since |-> 0])
  /\ UNCHANGED <<links, tokens, sessions, ended>>

\* An identity that another request has linked by now ends the sign-in.
LinkIdentity(r) ==
  LET q == req[r] IN
  /\ q.pc = "link"
  /\ IF links[q.id] = 0
       THEN /\ links' = [links EXCEPT ![q.id] = q.user]
            /\ Go(r, [pc |-> "session", user |-> q.user, by |-> "identity", since |-> q.since])
       ELSE Done(r) /\ UNCHANGED links
  /\ UNCHANGED <<users, tokens, sessions, ended>>

-----------------------------------------------------------------------------
(* Mailed tokens.  resendVerificationEmail and forgotPassword: the read of *)
(* the user and the insert, which nothing that comes between can stop.     *)

SendToken(kind, e) ==
  /\ Taken(e)
  /\ Len(tokens) < MaxTokens
  /\ tokens' = Append(tokens, Token(kind, FindByEmail(e)))
  /\ UNCHANGED <<users, links, sessions, ended, req>>

Unused(t) == tokens[t].uses = 0

\* verifyEmail and resetPassword: the token is unused, and not expired
FindToken(r, t) ==
  /\ req[r] = Idle
  /\ Unused(t)
  /\ Go(r, [pc |-> "use", token |-> t])
  /\ tokens' = [tokens EXCEPT ![t].raced = @ \/ \E s \in Req : req[s] = [pc |-> "use", token |-> t]]
  /\ UNCHANGED <<users, links, sessions, ended>>

Used(t) == [tokens EXCEPT ![t].uses = IF @ = 2 THEN 2 ELSE @ + 1]

\* the unrevoked sessions of a user, all revoked
Close(u) ==
  /\ sessions' = {s \in sessions : s.user # u}
  /\ ended' = [ended EXCEPT ![u] = @ + 1]

VerifyTx(r) ==
  /\ req[r].pc = "use" /\ tokens[req[r].token].kind = "verify"
  /\ tokens' = Used(req[r].token)
  /\ Done(r)
  /\ UNCHANGED <<users, links, sessions, ended>>

ResetTx(r) ==
  LET t == req[r].token  u == tokens[t].user IN
  /\ req[r].pc = "use" /\ tokens[t].kind = "reset"
  /\ tokens' = Used(t)
  /\ users' = [users EXCEPT ![u].password = TRUE]
  /\ Close(u)
  /\ Done(r)
  /\ UNCHANGED links

-----------------------------------------------------------------------------
\* changePassword: the comparison with the current one, then the update, which
\* leaves the sessions alone
CheckPassword(r, u) ==
  /\ req[r] = Idle
  /\ users[u].password
  /\ Go(r, [pc |-> "change", user |-> u])
  /\ UNCHANGED <<tables, ended>>

UpdatePassword(r) ==
  LET u == req[r].user IN
  /\ req[r].pc = "change"
  /\ users' = [users EXCEPT ![u].password = TRUE]
  /\ Done(r)
  /\ UNCHANGED <<links, tokens, sessions, ended>>

\* revokeSession
Revoke(s) ==
  /\ sessions' = sessions \ {s}
  /\ UNCHANGED <<users, links, tokens, ended, req>>

\* what deleteAccount makes of the row; the identities stay linked to it
Scrubbed(u) == [email |-> Tombstone, password |-> FALSE, deleted |-> TRUE]

Delete(u) ==
  /\ ~users[u].deleted
  /\ users' = [users EXCEPT ![u] = Scrubbed(u)]
  /\ Close(u)
  /\ UNCHANGED <<links, tokens, req>>

\* the process dies, the database or the mail server does not answer
Fail(r) == req[r] # Idle /\ Done(r) /\ UNCHANGED <<tables, ended>>

-----------------------------------------------------------------------------
Arrive(r) ==
  \/ \E e \in Email :
       \/ Register(r, e)
       \/ Login(r, e)
       \/ \E i \in Identity : FindIdentity(r, i, e)
  \/ \E t \in DOMAIN tokens : FindToken(r, t)
  \/ \E u \in DOMAIN users : CheckPassword(r, u)

Proceed(r) ==
  \/ CreateLocal(r) \/ MailToken(r) \/ Issue(r)
  \/ FindEmail(r) \/ CreateOAuth(r) \/ LinkIdentity(r)
  \/ VerifyTx(r) \/ ResetTx(r) \/ UpdatePassword(r) \/ Fail(r)

Next ==
  \/ \E r \in Req : Arrive(r) \/ Proceed(r)
  \/ \E kind \in {"verify", "reset"}, e \in Email : SendToken(kind, e)
  \/ \E s \in sessions : Revoke(s)
  \/ \E u \in DOMAIN users : Delete(u)

Spec == Init /\ [][Next]_vars

-----------------------------------------------------------------------------
\* Tables and requests are well-typed, and refer to users there are.
TypeOK ==
  /\ users \in Seq(UserRow) /\ Len(users) <= MaxUsers
  /\ links \in [Identity -> 0..Len(users)]
  /\ tokens \in Seq(TokenRow) /\ \A t \in DOMAIN tokens : tokens[t].user <= Len(users)
  /\ sessions \in SUBSET SessionRow /\ \A s \in sessions : s.user <= Len(users)
  /\ ended \in [UserId -> Nat]
  /\ req \in [Req -> Request]

\* "login already fails naturally once passwordHash is cleared": nobody signs in
\* to a deleted account by its password, nor by one that a token mailed before, or a
\* change under way, still sets; the sessions of a password that it has are of
\* sign-ins that had proved themselves before the deletion and stored them after it.
\* Of its identities this says nothing: deleteAccount leaves them linked, and who
\* signs in by one gets a session of the deleted account with no race at all.
DeletedStaysOut == \A s \in sessions :
  users[s.user].deleted => s.late \/ s.by = "identity"

\* "single-use": a mailed token that has been used does not serve another request
\* that comes after it.  Two requests that both found it unused do use it twice,
\* as neither update looks at usedAt again.
SingleUse == \A t \in DOMAIN tokens : tokens[t].uses > 1 => tokens[t].raced
=============================================================================
