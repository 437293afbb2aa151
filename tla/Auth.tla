-------------------------------- MODULE Auth --------------------------------
(***************************************************************************)
(* AuthService with UsersService, CompaniesService and JwtStrategy: the    *)
(* accounts, and the links that are mailed to confirm an address or to set *)
(* a new password. Each request is split where it awaits:                  *)
(*                                                                         *)
(*   register  BeginRegister -> CreateCompany -> CreateUser -> SendMail    *)
(*   resend    BeginResend -> SetVerificationToken -> SendMail             *)
(*   forgot    BeginForgot -> SetPasswordResetToken -> SendMail, or, for   *)
(*             an unverified account, -> ResendForForgot -> as resend      *)
(*   verify    BeginVerify -> MarkEmailVerified                            *)
(*   reset     BeginReset -> UpdatePassword                                *)
(*   login     Login: all it does depends on the one row it reads          *)
(*                                                                         *)
(* The token and the company that a request may create are told apart by   *)
(* the number of the request; a token and its hash are one value, and a    *)
(* client holds the tokens of the mails that were sent, no others.         *)
(*                                                                         *)
(* A definition marked `Fault' is no part of the model: it is the wrong    *)
(* version of the definition after it that a property has to catch.        *)
(***************************************************************************)
EXTENDS Naturals, FiniteSets

CONSTANTS
  Emails, Passwords, Roles, NoAccount,
  Requests,
  VERIFICATION_TOKEN_EXPIRY_HOURS, PASSWORD_RESET_EXPIRY_HOURS,
  JWT_EXPIRES_IN,           (* in hours too                                *)
  MaxNumber, MaxClock,      (* bounds                                      *)
  MaxSessions               (* bound: no login once so many tokens are     *)
                            (* signed                                      *)

ASSUME AuthAssumption ==
  /\ VERIFICATION_TOKEN_EXPIRY_HOURS \in Nat \ {0}
  /\ PASSWORD_RESET_EXPIRY_HOURS \in Nat \ {0}
  /\ JWT_EXPIRES_IN \in Nat \ {0}
  /\ MaxNumber \in Nat /\ MaxClock \in Nat /\ MaxSessions \in Nat

VARIABLES
  users,         (* email -> its row, or NoAccount                         *)
  companies,
  mailbox,       (* the mails sent                                         *)
  accessTokens,  (* the tokens signed: a payload, and when it expires      *)
  requests,
  numbered,      (* how many requests have a number                        *)
  clock,
  callFailed, overlapped   (* whether a call has failed, and whether two   *)
                 (* requests about one address have run at a time, for the *)
                 (* properties                                             *)

marks == <<callFailed, overlapped>>
vars == <<users, companies, mailbox, accessTokens, requests, numbered, clock,
          marks>>

Null == 0                       (* of tokens, expiry dates and companies   *)

Number == 1 .. MaxNumber
OrNull(S) == S \cup {Null}
LastDate == MaxClock + VERIFICATION_TOKEN_EXPIRY_HOURS
                     + PASSWORD_RESET_EXPIRY_HOURS

User == [password : Passwords, role : Roles, company : OrNull(Number),
         verified : BOOLEAN,
         verificationToken : OrNull(Number), verificationExpires : 0 .. LastDate,
         resetToken : OrNull(Number), resetExpires : 0 .. LastDate]

ASSUME NoAccountAssumption == NoAccount \notin User

Mail == [kind : {"verify-email", "reset-password"}, to : Emails,
         token : Number]

Payload == [email : Emails, role : Roles, company : OrNull(Number)]

AccessToken == [payload : Payload, exp : Nat]

Idle == [pc |-> "idle"]

Registering ==
  [pc : {"createCompany", "createUser"}, email : Emails, password : Passwords,
   role : Roles, company : OrNull(Number), number : Number]
ReadingAgain == [pc : {"readAgain"}, email : Emails, number : Number]
SettingToken ==
  [pc : {"setVerificationToken", "setPasswordResetToken"}, email : Emails,
   number : Number, expires : 1 .. LastDate]
Mailing == [pc : {"mail"}, mail : Mail]
Confirming == [pc : {"markVerified"}, email : Emails, token : Number]
Resetting ==
  [pc : {"updatePassword"}, email : Emails, token : Number,
   password : Passwords]

Request ==
  {Idle} \cup Registering \cup ReadingAgain \cup SettingToken \cup Mailing
    \cup Confirming \cup Resetting

Registered(e) == users[e] # NoAccount
Verified(e) == Registered(e) /\ users[e].verified

(* A token and its date are written, and cleared, together.                 *)
TypeOK ==
  /\ users \in [Emails -> User \cup {NoAccount}]
  /\ \A e \in Emails :
       Registered(e) =>
         /\ users[e].verificationToken = Null
              <=> users[e].verificationExpires = Null
         /\ users[e].resetToken = Null <=> users[e].resetExpires = Null
  /\ companies \subseteq Number
  /\ mailbox \subseteq Mail
  /\ accessTokens \subseteq AccessToken
  /\ requests \in [Requests -> Request]
  /\ numbered \in 0 .. MaxNumber
  /\ clock \in 0 .. MaxClock
  /\ callFailed \in BOOLEAN /\ overlapped \in BOOLEAN

Init ==
  /\ users = [e \in Emails |-> NoAccount]
  /\ companies = {}
  /\ mailbox = {}
  /\ accessTokens = {}
  /\ requests = [r \in Requests |-> Idle]
  /\ numbered = 0
  /\ clock = 0
  /\ callFailed = FALSE /\ overlapped = FALSE

Become(r, state) == requests' = [requests EXCEPT ![r] = state]

About(request) == IF request.pc = "mail" THEN request.mail.to ELSE request.email

(* A request about e begins: are there others?                              *)
MarkOverlap(e) ==
  overlapped' = (overlapped \/ \E q \in Requests :
                   requests[q] # Idle /\ About(requests[q]) = e)

expiresInHours(hours) == clock + hours
Expired(date) == date # Null /\ date < clock

-----------------------------------------------------------------------------

(* UsersService: each method is one query, by id or by a unique column.     *)

findByVerificationToken(t) ==
  {e \in Emails : Registered(e) /\ users[e].verificationToken = t}

findByPasswordResetToken(t) ==
  {e \in Emails : Registered(e) /\ users[e].resetToken = t}

(* Fault: the row of the update forgets to clear the date.                  *)
markEmailVerified_KeepDate(e) ==
  users' = [users EXCEPT ![e].verified = TRUE, ![e].verificationToken = Null]

markEmailVerified(e) ==
  users' = [users EXCEPT ![e] =
              [@ EXCEPT !.verified = TRUE, !.verificationToken = Null,
                        !.verificationExpires = Null]]

(* Fault: a new link asks for a new verification.                           *)
setVerificationToken_Unverify(e, t, expires) ==
  users' = [users EXCEPT ![e].verified = FALSE,
                         ![e].verificationToken = t,
                         ![e].verificationExpires = expires]

setVerificationToken(e, t, expires) ==
  users' = [users EXCEPT ![e] =
              [@ EXCEPT !.verificationToken = t,
                        !.verificationExpires = expires]]

setPasswordResetToken(e, t, expires) ==
  users' = [users EXCEPT ![e] =
              [@ EXCEPT !.resetToken = t, !.resetExpires = expires]]

(* Clears the token, whichever the row holds by then.                       *)
updatePassword(e, password) ==
  users' = [users EXCEPT ![e] =
              [@ EXCEPT !.password = password, !.resetToken = Null,
                        !.resetExpires = Null]]

(* buildAuthResponse: the payload that is signed.                           *)
payloadOf(e) ==
  [email |-> e, role |-> users[e].role, company |-> users[e].company]

(* JwtService.sign adds the date.                                           *)
SignFor(e) ==
  accessTokens' = accessTokens \cup
    {[payload |-> payloadOf(e), exp |-> expiresInHours(JWT_EXPIRES_IN)]}

(* JwtStrategy: passport refuses a token from its date on, and validate     *)
(* reads the row and answers from it alone.                                 *)
Accepted(token) == clock < token.exp /\ Verified(token.payload.email)
validate(payload) == payloadOf(payload.email)

-----------------------------------------------------------------------------

(* A number for a request that will create a token, and perhaps a company.  *)
Numbered == numbered < MaxNumber /\ numbered' = numbered + 1

(* Fault: whether the address is taken is left to the unique column.        *)
BeginRegister_NoCheck(r, e, password, role, companyId, named) ==
  /\ requests[r] = Idle
  /\ MarkOverlap(e)
  /\ Numbered
  /\ Become(r, [pc |-> IF role = "ADMIN" /\ named THEN "createCompany"
                                                  ELSE "createUser",
                email |-> e, password |-> password, role |-> role,
                company |-> companyId, number |-> numbered'])
  /\ UNCHANGED <<users, companies, mailbox, accessTokens, clock, callFailed>>

(* POST /auth/register: the check of the address; a 409 changes nothing.    *)
BeginRegister(r, e, password, role, companyId, named) ==
  /\ requests[r] = Idle
  /\ ~ Registered(e)
  /\ MarkOverlap(e)
  /\ Numbered
  /\ Become(r, [pc |-> IF role = "ADMIN" /\ named THEN "createCompany"
                                                  ELSE "createUser",
                email |-> e, password |-> password, role |-> role,
                company |-> companyId, number |-> numbered'])
  /\ UNCHANGED <<users, companies, mailbox, accessTokens, clock, callFailed>>

(* companiesService.create: its id takes the place of dto.companyId.        *)
CreateCompany(r) ==
  /\ requests[r].pc = "createCompany"
  /\ companies' = companies \cup {requests[r].number}
  /\ Become(r, [requests[r] EXCEPT !.pc = "createUser",
                                   !.company = requests[r].number])
  /\ UNCHANGED <<users, mailbox, accessTokens, numbered, clock, marks>>

NewUser(request) ==
  [password |-> request.password, role |-> request.role,
   company |-> request.company, verified |-> FALSE,
   verificationToken |-> request.number,
   verificationExpires |-> expiresInHours(VERIFICATION_TOKEN_EXPIRY_HOURS),
   resetToken |-> Null, resetExpires |-> Null]

ToMail(kind, request) ==
  [pc |-> "mail", mail |-> [kind |-> kind, to |-> request.email,
                            token |-> request.number]]

(* Fault: the row is written whether or not the address is taken by now.    *)
CreateUser_Upsert(r) ==
  /\ requests[r].pc = "createUser"
  /\ users' = [users EXCEPT ![requests[r].email] = NewUser(requests[r])]
  /\ Become(r, ToMail("verify-email", requests[r]))
  /\ UNCHANGED <<companies, mailbox, accessTokens, numbered, clock, marks>>

(* usersService.create: the address is unique in the schema, so that of two *)
(* requests that found it free one is rejected here. The company it created *)
(* stays.                                                                   *)
CreateUser(r) ==
  /\ requests[r].pc = "createUser"
  /\ IF Registered(requests[r].email)
       THEN Become(r, Idle) /\ UNCHANGED users
       ELSE /\ users' = [users EXCEPT ![requests[r].email] =
                                        NewUser(requests[r])]
            /\ Become(r, ToMail("verify-email", requests[r]))
  /\ UNCHANGED <<companies, mailbox, accessTokens, numbered, clock, marks>>

(* Fault: an address that has had a mail of this kind is not sent another.  *)
SendMail_OncePerAddress(r) ==
  /\ requests[r].pc = "mail"
  /\ LET m == requests[r].mail
     IN  IF \E sent \in mailbox : sent.to = m.to /\ sent.kind = m.kind
           THEN UNCHANGED mailbox
           ELSE mailbox' = mailbox \cup {m}
  /\ Become(r, Idle)
  /\ UNCHANGED <<users, companies, accessTokens, numbered, clock, marks>>

(* sendEmailOrFail; Abort is the mail that is rejected.                     *)
SendMail(r) ==
  /\ requests[r].pc = "mail"
  /\ mailbox' = mailbox \cup {requests[r].mail}
  /\ Become(r, Idle)
  /\ UNCHANGED <<users, companies, accessTokens, numbered, clock, marks>>

-----------------------------------------------------------------------------

(* resendVerification, once it has read the row: an account that is         *)
(* verified, or none, gets the same answer and no mail.                     *)
ReadForResend(r, e, number) ==
  IF Registered(e) /\ ~ Verified(e)
    THEN Become(r, [pc |-> "setVerificationToken", email |-> e,
                    number |-> number,
                    expires |-> expiresInHours(VERIFICATION_TOKEN_EXPIRY_HOURS)])
    ELSE Become(r, Idle)

(* POST /auth/resend-verification.                                          *)
BeginResend(r, e) ==
  /\ requests[r] = Idle
  /\ Registered(e) /\ ~ Verified(e)
  /\ MarkOverlap(e)
  /\ Numbered
  /\ ReadForResend(r, e, numbered')
  /\ UNCHANGED <<users, companies, mailbox, accessTokens, clock, callFailed>>

SetVerificationToken(r) ==
  /\ requests[r].pc = "setVerificationToken"
  /\ setVerificationToken(requests[r].email, requests[r].number,
                          requests[r].expires)
  /\ Become(r, ToMail("verify-email", requests[r]))
  /\ UNCHANGED <<companies, mailbox, accessTokens, numbered, clock, marks>>

(* POST /auth/forgot-password, for an address that has an account.          *)
BeginForgot(r, e) ==
  /\ requests[r] = Idle
  /\ Registered(e)
  /\ MarkOverlap(e)
  /\ Numbered
  /\ IF Verified(e)
       THEN Become(r, [pc |-> "setPasswordResetToken", email |-> e,
                       number |-> numbered',
                       expires |-> expiresInHours(PASSWORD_RESET_EXPIRY_HOURS)])
       ELSE Become(r, [pc |-> "readAgain", email |-> e, number |-> numbered'])
  /\ UNCHANGED <<users, companies, mailbox, accessTokens, clock, callFailed>>

(* forgotPassword calls resendVerification, which reads the row again.      *)
ResendForForgot(r) ==
  /\ requests[r].pc = "readAgain"
  /\ ReadForResend(r, requests[r].email, requests[r].number)
  /\ UNCHANGED <<users, companies, mailbox, accessTokens, numbered, clock,
                 marks>>

SetPasswordResetToken(r) ==
  /\ requests[r].pc = "setPasswordResetToken"
  /\ setPasswordResetToken(requests[r].email, requests[r].number,
                           requests[r].expires)
  /\ Become(r, ToMail("reset-password", requests[r]))
  /\ UNCHANGED <<companies, mailbox, accessTokens, numbered, clock, marks>>

-----------------------------------------------------------------------------

(* GET /auth/verify-email: an expired link, or one of no account, is a 400; *)
(* one that an address verified meanwhile still holds signs in at once.     *)
BeginVerify(r, t) ==
  /\ requests[r] = Idle
  /\ \E e \in findByVerificationToken(t) :
       /\ MarkOverlap(e)
       /\ IF Verified(e)
            THEN SignFor(e) /\ UNCHANGED requests
            ELSE /\ ~ Expired(users[e].verificationExpires)
                 /\ Become(r, [pc |-> "markVerified", email |-> e, token |-> t])
                 /\ UNCHANGED accessTokens
  /\ UNCHANGED <<users, companies, mailbox, numbered, clock, callFailed>>

MarkEmailVerified(r) ==
  /\ requests[r].pc = "markVerified"
  /\ markEmailVerified(requests[r].email)
  /\ SignFor(requests[r].email)
  /\ Become(r, Idle)
  /\ UNCHANGED <<companies, mailbox, numbered, clock, marks>>

(* POST /auth/reset-password, up to the hashing of the password.            *)
BeginReset(r, t, password) ==
  /\ requests[r] = Idle
  /\ \E e \in findByPasswordResetToken(t) :
       /\ Verified(e)
       /\ MarkOverlap(e)
       /\ ~ Expired(users[e].resetExpires)
       /\ Become(r, [pc |-> "updatePassword", email |-> e, token |-> t,
                     password |-> password])
  /\ UNCHANGED <<users, companies, mailbox, accessTokens, numbered, clock,
                 callFailed>>

(* Fault: the row that was read is written back whole, its token with it.   *)
UpdatePassword_WholeRow(r) ==
  /\ requests[r].pc = "updatePassword"
  /\ users' = [users EXCEPT ![requests[r].email].password = requests[r].password,
                            ![requests[r].email].resetToken = requests[r].token,
                            ![requests[r].email].resetExpires = clock + 1]
  /\ SignFor(requests[r].email)
  /\ Become(r, Idle)
  /\ UNCHANGED <<companies, mailbox, numbered, clock, marks>>

UpdatePassword(r) ==
  /\ requests[r].pc = "updatePassword"
  /\ updatePassword(requests[r].email, requests[r].password)
  /\ SignFor(requests[r].email)
  /\ Become(r, Idle)
  /\ UNCHANGED <<companies, mailbox, numbered, clock, marks>>

(* POST /auth/login; every refusal is a 401 that changes nothing.           *)
Login(e, password) ==
  /\ Cardinality(accessTokens) < MaxSessions
  /\ Registered(e) /\ users[e].password = password
  /\ Verified(e)
  /\ SignFor(e)
  /\ UNCHANGED <<users, companies, mailbox, requests, numbered, clock,
                 marks>>

-----------------------------------------------------------------------------

(* An hour passes.                                                          *)
Tick ==
  /\ clock < MaxClock
  /\ clock' = clock + 1
  /\ UNCHANGED <<users, companies, mailbox, accessTokens, requests, numbered,
                 marks>>

(* A query or a mail rejects (a company id that is none's, an SMTP server   *)
(* that is down: a 503), or the process dies. Nothing is undone.            *)
Abort(r) ==
  /\ requests[r] # Idle
  /\ Become(r, Idle)
  /\ callFailed' = TRUE
  /\ UNCHANGED <<users, companies, mailbox, accessTokens, numbered, clock,
                 overlapped>>

Step(r) ==
  \/ CreateCompany(r)
  \/ CreateUser(r)
  \/ SendMail(r)
  \/ SetVerificationToken(r)
  \/ ResendForForgot(r)
  \/ SetPasswordResetToken(r)
  \/ MarkEmailVerified(r)
  \/ UpdatePassword(r)

Held == {m.token : m \in mailbox}

Next ==
  \/ \E r \in Requests :
       \/ \E e \in Emails, password \in Passwords, role \in Roles,
             companyId \in OrNull(companies), named \in BOOLEAN :
            BeginRegister(r, e, password, role, companyId, named)
       \/ \E e \in Emails : BeginResend(r, e) \/ BeginForgot(r, e)
       \/ \E t \in Held : BeginVerify(r, t)
       \/ \E t \in Held, password \in Passwords : BeginReset(r, t, password)
       \/ Step(r)
       \/ Abort(r)
  \/ \E e \in Emails, password \in Passwords : Login(e, password)
  \/ Tick

Spec == Init /\ [][Next]_vars

-----------------------------------------------------------------------------

Mailed(kind, e, t) == [kind |-> kind, to |-> e, token |-> t] \in mailbox

(* Once an address has an account, its password changes, and the address    *)
(* becomes verified ("New accounts must verify email before login",         *)
(* README.md:61), only in a request that came with a link of that kind      *)
(* mailed to that very address, whoever else registers, resends or resets   *)
(* at the same time (auth.service.ts:31, 183).                              *)
AccountsChangeByLink ==
  [][ \A e \in Emails :
        LET by(pc, kind) ==
              \E r \in Requests :
                /\ requests[r].pc = pc /\ requests[r].email = e
                /\ Mailed(kind, e, requests[r].token)
        IN  /\ Registered(e) /\ users'[e].password # users[e].password
                 => by("updatePassword", "reset-password")
            /\ ~ Verified(e) /\ Verified(e)'
                 => by("markVerified", "verify-email") ]_vars

(* Once a mailed link finds no account, because it was used or replaced by  *)
(* a newer one, it finds none in any later request, and the request that    *)
(* uses it up leaves it so, although resends, resets and confirmations of   *)
(* the same row overlap (users.service.ts:56-92): none writes an old token  *)
(* back. A request that has looked the link up already is past this check   *)
(* and takes effect too (auth.service.ts:197-207).                          *)
OldLinksStayDead ==
  [][ \A t \in Held :
        /\ findByVerificationToken(t)' # {} =>
             /\ findByVerificationToken(t) # {}
             /\ \A r \in Requests :
                  MarkEmailVerified(r) => requests[r].token # t
        /\ findByPasswordResetToken(t)' # {} =>
             /\ findByPasswordResetToken(t) # {}
             /\ \A r \in Requests :
                  UpdatePassword(r) => requests[r].token # t ]_vars

(* Until it expires, every access token that was signed is accepted, and    *)
(* validate reads in the row the role and the company that were signed: no  *)
(* session ends early, as a confirmation cannot be lost to a resend that    *)
(* overlaps it (auth.service.ts:142), nor a row to a second registration    *)
(* (auth.service.ts:52).                                                    *)
SessionsStayValid ==
  \A token \in accessTokens :
    clock < token.exp =>
      Accepted(token) /\ validate(token.payload) = token.payload

(* If no call has failed, then between requests the link that each row      *)
(* waits for is in the mailbox of its address, and an account that is not   *)
(* verified has such a link: nobody is locked out by requests that overlap. *)
(* Unless they did overlap, it is the newest of its kind: a user who follows*)
(* the last mail is never turned away for a later one (auth.service.ts:147).*)
LinksAreInTheMailbox ==
  ~ callFailed /\ (\A r \in Requests : requests[r] = Idle)
    => \A e \in Emails :
         LET works(kind, t) ==
               /\ Mailed(kind, e, t)
               /\ ~ overlapped => \A u \in Held : Mailed(kind, e, u) => u <= t
         IN  Registered(e) =>
               /\ users[e].verified
                    \/ works("verify-email", users[e].verificationToken)
               /\ users[e].resetToken = Null
                    \/ works("reset-password", users[e].resetToken)

(* A company that a registration created has an account, or the registration*)
(* is still running (auth.service.ts:40): one that nobody administers takes *)
(* a failed call or another registration of the address at the same time.   *)
CompaniesHaveAnAccount ==
  ~ callFailed /\ ~ overlapped
    => \A c \in companies :
         \/ \E e \in Emails : Registered(e) /\ users[e].company = c
         \/ \E r \in Requests :
              requests[r].pc = "createUser" /\ requests[r].company = c

=============================================================================
