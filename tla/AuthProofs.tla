----------------------------- MODULE AuthProofs -----------------------------
(* Theorems about Auth, for every number of addresses, passwords, roles,     *)
(* requests and links, and any time that a link lasts.                       *)
EXTENDS Auth, TLAPS

(* The requests that change an account or mail a link to it have found it,   *)
(* and those that set a password have found it verified.                     *)
FoundInv ==
  \A r \in Requests :
    /\ requests[r].pc \in {"readAgain", "setVerificationToken",
                           "setPasswordResetToken", "mail", "markVerified",
                           "updatePassword"}
         => Registered(About(requests[r]))
    /\ requests[r].pc = "updatePassword" => Verified(requests[r].email)

(* The account of every access token is there, confirmed, and has the role   *)
(* and the company that were signed.                                         *)
SignedInv ==
  \A token \in accessTokens :
    /\ Verified(token.payload.email)
    /\ validate(token.payload) = token.payload

(* The requests that have made a link and not yet mailed it.                 *)
Making(r) ==
  requests[r].pc \in {"createCompany", "createUser", "readAgain",
                      "setVerificationToken", "setPasswordResetToken", "mail"}

ToSend(request) ==
  IF request.pc = "mail" THEN request.mail
  ELSE [ kind |-> IF request.pc = "setPasswordResetToken" THEN "reset-password"
                  ELSE "verify-email",
         to |-> request.email, token |-> request.number ]

(* The token that the row of m's address holds for links of m's kind.        *)
Awaited(m) ==
  IF m.kind = "verify-email" THEN users[m.to].verificationToken
  ELSE users[m.to].resetToken

(* The links there are: mailed, in the making, or awaited by a row.          *)
Link(m) ==
  \/ m \in mailbox
  \/ \E r \in Requests : Making(r) /\ ToSend(requests[r]) = m
  \/ Registered(m.to) /\ Awaited(m) = m.token

(* A token is of one link, and a link in the making of one request.          *)
LinksInv ==
  /\ \A m \in Mail : Link(m) => m.token <= numbered
  /\ \A m, n \in Mail : Link(m) /\ Link(n) /\ m.token = n.token => m = n
  /\ \A r \in Requests :
       Making(r) =>
         /\ ToSend(requests[r]) \notin mailbox
         /\ \A q \in Requests :
              Making(q) /\ ToSend(requests[q]) = ToSend(requests[r]) => q = r

(* Who confirms an address or sets a password came with a link mailed to it. *)
CameByLinkInv ==
  \A r \in Requests :
    /\ requests[r].pc = "markVerified"
         => Mailed("verify-email", requests[r].email, requests[r].token)
    /\ requests[r].pc = "updatePassword"
         => Mailed("reset-password", requests[r].email, requests[r].token)

(* Until a call fails, a row awaits a link that was mailed or is about to    *)
(* be, and an account that is not verified awaits one.                       *)
Coming(m) ==
  m \in mailbox \/ \E r \in Requests : requests[r].pc = "mail"
                                         /\ requests[r].mail = m
WaitInv ==
  ~ callFailed =>
    /\ \A m \in Mail : Registered(m.to) /\ Awaited(m) = m.token => Coming(m)
    /\ \A e \in Emails :
         Registered(e) /\ ~ Verified(e) => users[e].verificationToken # Null

(* Until two requests about an address overlap, a request is alone with it,  *)
(* the link it makes is the newest, and so is the link that a row awaits.    *)
Alone ==
  /\ \A q, r \in Requests :
       requests[q] # Idle /\ requests[r] # Idle
         /\ About(requests[q]) = About(requests[r]) => q = r
  /\ \A r \in Requests :
       requests[r].pc \in {"createCompany", "createUser"}
         => ~ Registered(requests[r].email)

MakesTheNewest ==
  /\ \A r \in Requests, m \in Mail :
       Making(r) /\ Link(m) /\ m.to = About(requests[r])
         => m.token <= ToSend(requests[r]).token
  /\ \A r \in Requests :
       requests[r].pc = "mail"
         => Awaited(requests[r].mail) = requests[r].mail.token

AwaitsTheNewest ==
  \A m \in mailbox :
    Registered(m.to) /\ Awaited(m) # Null => m.token <= Awaited(m)

AloneInv == ~ overlapped => Alone /\ MakesTheNewest /\ AwaitsTheNewest

-----------------------------------------------------------------------------
(* Types.                                                                    *)

LEMMA RequestTypes ==
  ASSUME TypeOK, NEW r \in Requests
  PROVE  /\ requests[r] \in Request
         /\ requests[r].pc = "idle" <=> requests[r] = Idle
         /\ requests[r].pc \in {"createCompany", "createUser"}
              => requests[r] \in Registering
         /\ requests[r].pc = "readAgain" => requests[r] \in ReadingAgain
         /\ requests[r].pc \in {"setVerificationToken",
                                "setPasswordResetToken"}
              => requests[r] \in SettingToken
         /\ requests[r].pc = "mail" => requests[r] \in Mailing
         /\ requests[r].pc = "markVerified" => requests[r] \in Confirming
         /\ requests[r].pc = "updatePassword" => requests[r] \in Resetting
<1>1. requests[r] \in Request
  BY DEF TypeOK
<1> QED BY <1>1 DEF Request, Idle, Registering, ReadingAgain, SettingToken,
                    Mailing, Confirming, Resetting

(* The state of the requests after a step of one of them.                    *)
LEMMA RequestsAfter ==
  ASSUME TypeOK, NEW r \in Requests, NEW x, Become(r, x)
  PROVE  /\ \A q \in Requests : requests'[q] = IF q = r THEN x ELSE requests[q]
         /\ x \in Request => requests' \in [Requests -> Request]
BY DEF TypeOK, Become

LEMMA RowTypes ==
  ASSUME NEW row \in User, NEW t \in OrNull(Number), NEW d \in 0 .. LastDate
  PROVE  /\ [row EXCEPT !.verificationToken = t, !.verificationExpires = d]
              \in User
         /\ [row EXCEPT !.resetToken = t, !.resetExpires = d] \in User
         /\ [row EXCEPT !.verified = TRUE, !.verificationToken = t,
                         !.verificationExpires = d] \in User
         /\ \A p \in Passwords :
              [row EXCEPT !.password = p, !.resetToken = t, !.resetExpires = d]
                \in User
<1>1. [row EXCEPT !.verificationToken = t, !.verificationExpires = d] \in User
  BY DEF User
<1>2. [row EXCEPT !.resetToken = t, !.resetExpires = d] \in User
  BY DEF User
<1>3. [row EXCEPT !.verified = TRUE, !.verificationToken = t,
                  !.verificationExpires = d] \in User
  BY DEF User
<1>4. \A p \in Passwords :
        [row EXCEPT !.password = p, !.resetToken = t, !.resetExpires = d]
          \in User
  BY DEF User
<1> QED BY <1>1, <1>2, <1>3, <1>4

LEMMA Nulls ==
  /\ Null \in OrNull(Number) /\ Null \in 0 .. LastDate
  /\ Number \subseteq OrNull(Number) /\ 1 .. LastDate \subseteq 0 .. LastDate
BY AuthAssumption DEF Null, OrNull, LastDate

(* The tables after each of the updates of UsersService.                     *)
Changed(e, row) == users' = [users EXCEPT ![e] = row]

LEMMA RowsAfter ==
  ASSUME TypeOK, NEW e \in Emails, NEW row \in User, Changed(e, row)
  PROVE  /\ \A f \in Emails : users'[f] = IF f = e THEN row ELSE users[f]
         /\ users' \in [Emails -> User \cup {NoAccount}]
         /\ \A f \in Emails : Registered(f)' <=> f = e \/ Registered(f)
         /\ row # NoAccount
<1>1. row # NoAccount
  BY NoAccountAssumption
<1> QED BY <1>1 DEF TypeOK, Changed, Registered

LEMMA TokenWritten ==
  ASSUME TypeOK, NEW e \in Emails, Registered(e),
         NEW t \in Number, NEW expires \in 1 .. LastDate,
         setVerificationToken(e, t, expires)
  PROVE  /\ Changed(e, [users[e] EXCEPT !.verificationToken = t,
                                        !.verificationExpires = expires])
         /\ users' \in [Emails -> User \cup {NoAccount}]
<1> DEFINE row == [users[e] EXCEPT !.verificationToken = t,
                !.verificationExpires = expires]
<1>1. users[e] \in User
  BY DEF TypeOK, Registered
<1>2. row \in User
  BY <1>1, RowTypes, Nulls
<1>3. users' = [users EXCEPT ![e] = row]
  BY DEF setVerificationToken
<1> HIDE DEF row
<1>4. Changed(e, row)
  BY <1>3 DEF TypeOK, Changed
<1>5. users' \in [Emails -> User \cup {NoAccount}]
  BY <1>2, <1>3 DEF TypeOK
<1> QED BY <1>4, <1>5 DEF row

LEMMA ResetTokenWritten ==
  ASSUME TypeOK, NEW e \in Emails, Registered(e),
         NEW t \in Number, NEW expires \in 1 .. LastDate,
         setPasswordResetToken(e, t, expires)
  PROVE  /\ Changed(e, [users[e] EXCEPT !.resetToken = t,
                                        !.resetExpires = expires])
         /\ users' \in [Emails -> User \cup {NoAccount}]
<1> DEFINE row == [users[e] EXCEPT !.resetToken = t, !.resetExpires = expires]
<1>1. users[e] \in User
  BY DEF TypeOK, Registered
<1>2. row \in User
  BY <1>1, RowTypes, Nulls
<1>3. users' = [users EXCEPT ![e] = row]
  BY DEF setPasswordResetToken
<1> HIDE DEF row
<1>4. Changed(e, row)
  BY <1>3 DEF TypeOK, Changed
<1>5. users' \in [Emails -> User \cup {NoAccount}]
  BY <1>2, <1>3 DEF TypeOK
<1> QED BY <1>4, <1>5 DEF row

LEMMA Confirmed ==
  ASSUME TypeOK, NEW e \in Emails, Registered(e), markEmailVerified(e)
  PROVE  /\ Changed(e, [users[e] EXCEPT !.verified = TRUE,
                                        !.verificationToken = Null,
                                        !.verificationExpires = Null])
         /\ users' \in [Emails -> User \cup {NoAccount}]
<1> DEFINE row == [users[e] EXCEPT !.verified = TRUE,
                !.verificationToken = Null,
                !.verificationExpires = Null]
<1>1. users[e] \in User
  BY DEF TypeOK, Registered
<1>2. row \in User
  BY <1>1, RowTypes, Nulls
<1>3. users' = [users EXCEPT ![e] = row]
  BY DEF markEmailVerified
<1> HIDE DEF row
<1>4. Changed(e, row)
  BY <1>3 DEF TypeOK, Changed
<1>5. users' \in [Emails -> User \cup {NoAccount}]
  BY <1>2, <1>3 DEF TypeOK
<1> QED BY <1>4, <1>5 DEF row

LEMMA PasswordWritten ==
  ASSUME TypeOK, NEW e \in Emails, Registered(e), NEW p \in Passwords,
         updatePassword(e, p)
  PROVE  /\ Changed(e, [users[e] EXCEPT !.password = p, !.resetToken = Null,
                                        !.resetExpires = Null])
         /\ users' \in [Emails -> User \cup {NoAccount}]
<1> DEFINE row == [users[e] EXCEPT !.password = p, !.resetToken = Null,
                !.resetExpires = Null]
<1>1. users[e] \in User
  BY DEF TypeOK, Registered
<1>2. row \in User
  BY <1>1, RowTypes, Nulls
<1>3. users' = [users EXCEPT ![e] = row]
  BY DEF updatePassword
<1> HIDE DEF row
<1>4. Changed(e, row)
  BY <1>3 DEF TypeOK, Changed
<1>5. users' \in [Emails -> User \cup {NoAccount}]
  BY <1>2, <1>3 DEF TypeOK
<1> QED BY <1>4, <1>5 DEF row

LEMMA PayloadTypes ==
  ASSUME TypeOK, NEW e \in Emails, Registered(e)
  PROVE  payloadOf(e) \in Payload
BY DEF TypeOK, Registered, payloadOf, Payload, User

LEMMA AccessTokenTypes ==
  ASSUME TypeOK, NEW e \in Emails, Registered(e), SignFor(e)
  PROVE  accessTokens' \subseteq AccessToken
<1>1. expiresInHours(JWT_EXPIRES_IN) \in Nat
  BY AuthAssumption DEF TypeOK, expiresInHours
<1>2. accessTokens \subseteq AccessToken
  BY DEF TypeOK
<1> QED BY <1>1, <1>2, PayloadTypes DEF SignFor, AccessToken

LEMMA Dates ==
  ASSUME TypeOK
  PROVE  /\ expiresInHours(VERIFICATION_TOKEN_EXPIRY_HOURS) \in 1 .. LastDate
         /\ expiresInHours(PASSWORD_RESET_EXPIRY_HOURS) \in 1 .. LastDate
BY AuthAssumption DEF TypeOK, expiresInHours, LastDate

LEMMA NewUserTypes ==
  ASSUME TypeOK, NEW request \in Registering
  PROVE  /\ NewUser(request) \in User
         /\ NewUser(request) # NoAccount
<1>1. NewUser(request) \in User
  BY Dates, AuthAssumption DEF TypeOK, NewUser, Registering, User, OrNull,
                               Number, Null, LastDate
<1> QED BY <1>1, NoAccountAssumption

-----------------------------------------------------------------------------
(* What the steps do, as far as the invariants are concerned: the lemmas     *)
(* about them speak of these forms, and not of each action.                  *)

RowOK(row) ==
  /\ row \in User
  /\ row.verificationToken = Null <=> row.verificationExpires = Null
  /\ row.resetToken = Null <=> row.resetExpires = Null

(* A request for a link to e arrives; x = Idle if there is nothing to do.    *)
Asks(r, e, x) ==
  /\ requests[r] = Idle /\ Become(r, x) /\ MarkOverlap(e)
  /\ numbered' = numbered + 1 /\ numbered < MaxNumber
  /\ \/ x = Idle
     \/ x \in Registering /\ ~ Registered(e)
     \/ x \in ReadingAgain \cup SettingToken /\ Registered(e)
  /\ x # Idle => x.email = e /\ x.number = numbered + 1
  /\ UNCHANGED <<users, mailbox, accessTokens, callFailed>>

(* A request arrives with a link to e.                                       *)
Follows(r, e, x) ==
  /\ requests[r] = Idle /\ Become(r, x) /\ MarkOverlap(e)
  /\ Registered(e)
  /\ \/ x = Idle /\ Verified(e) /\ SignFor(e)
     \/ /\ x \in Confirming /\ Mailed("verify-email", e, x.token)
        /\ x.email = e /\ UNCHANGED accessTokens
     \/ /\ x \in Resetting /\ Mailed("reset-password", e, x.token)
        /\ x.email = e /\ Verified(e) /\ UNCHANGED accessTokens
  /\ UNCHANGED <<users, mailbox, numbered, callFailed>>

(* A request ends, or goes on with the link that it makes.                   *)
Goes(r, x) ==
  /\ requests[r] # Idle /\ Become(r, x)
  /\ \/ x = Idle /\ callFailed' = TRUE
     \/ /\ x = Idle /\ callFailed' = callFailed /\ requests[r].pc # "mail"
        /\ requests[r].pc = "createUser" => Registered(requests[r].email)
     \/ /\ callFailed' = callFailed
        /\ Making(r) /\ requests[r].pc # "mail"
        /\ \/ /\ requests[r].pc = "createCompany"
              /\ x \in Registering
           \/ /\ requests[r].pc = "readAgain"
              /\ x \in SettingToken /\ x.pc = "setVerificationToken"
        /\ x.email = requests[r].email /\ x.number = requests[r].number
  /\ UNCHANGED <<users, mailbox, accessTokens, numbered, overlapped>>

(* A request writes the token of its link into the row of the address.       *)
Stores(r, e, row) ==
  /\ Making(r) /\ ToSend(requests[r]).to = e
  /\ Become(r, [pc |-> "mail", mail |-> ToSend(requests[r])])
  /\ Changed(e, row) /\ RowOK(row)
  /\ \/ /\ requests[r].pc = "createUser" /\ ~ Registered(e)
        /\ row.verificationToken = requests[r].number
        /\ row.resetToken = Null /\ row.company = requests[r].company
        /\ ~ row.verified
     \/ /\ requests[r].pc = "setVerificationToken" /\ Registered(e)
        /\ row = [users[e] EXCEPT !.verificationToken = requests[r].number,
                                  !.verificationExpires = requests[r].expires]
     \/ /\ requests[r].pc = "setPasswordResetToken" /\ Registered(e)
        /\ row = [users[e] EXCEPT !.resetToken = requests[r].number,
                                  !.resetExpires = requests[r].expires]
  /\ UNCHANGED <<mailbox, accessTokens, numbered, marks>>

(* A request that came with a link does what the link is for.                *)
Uses(r, e, row) ==
  /\ requests[r].email = e /\ Registered(e)
  /\ Become(r, Idle)
  /\ Changed(e, row) /\ RowOK(row)
  /\ \/ /\ requests[r].pc = "markVerified"
        /\ row = [users[e] EXCEPT !.verified = TRUE,
                                  !.verificationToken = Null,
                                  !.verificationExpires = Null]
     \/ /\ requests[r].pc = "updatePassword" /\ Verified(e)
        /\ row = [users[e] EXCEPT !.password = requests[r].password,
                                  !.resetToken = Null, !.resetExpires = Null]
  /\ SignFor(e)
  /\ UNCHANGED <<mailbox, numbered, marks>>

(* A request mails its link.                                                 *)
Sends(r) ==
  /\ requests[r].pc = "mail"
  /\ mailbox' = mailbox \cup {requests[r].mail}
  /\ Become(r, Idle)
  /\ UNCHANGED <<users, accessTokens, numbered, marks>>

(* At most somebody logs in.                                                 *)
Rests ==
  /\ \/ UNCHANGED accessTokens
     \/ \E e \in Emails : Verified(e) /\ SignFor(e)
  /\ UNCHANGED <<users, mailbox, requests, numbered, marks>>

Forms ==
  \/ \E r \in Requests, e \in Emails, x \in Request :
       Asks(r, e, x) \/ Follows(r, e, x) \/ Goes(r, x)
  \/ \E r \in Requests, e \in Emails, row \in User :
       Stores(r, e, row) \/ Uses(r, e, row)
  \/ \E r \in Requests : Sends(r)
  \/ Rests

LEMMA BeginningForms ==
  ASSUME TypeOK, LinksInv, NEW r \in Requests
  PROVE  /\ \A e \in Emails, password \in Passwords, role \in Roles,
               companyId \in OrNull(companies), named \in BOOLEAN :
              BeginRegister(r, e, password, role, companyId, named) => Forms
         /\ \A e \in Emails : BeginResend(r, e) \/ BeginForgot(r, e) => Forms
         /\ \A t \in Held : BeginVerify(r, t) => Forms
         /\ \A t \in Held, password \in Passwords :
              BeginReset(r, t, password) => Forms
<1>0. /\ numbered < MaxNumber => numbered + 1 \in Number
      /\ Held \subseteq Number
      /\ Idle \in Request
  BY AuthAssumption DEF TypeOK, Number, Held, Mail, Request
<1>1. ASSUME NEW e \in Emails, NEW password \in Passwords, NEW role \in Roles,
             NEW companyId \in OrNull(companies), NEW named \in BOOLEAN,
             BeginRegister(r, e, password, role, companyId, named)
      PROVE  Forms
  <2> DEFINE x == [pc |-> IF role = "ADMIN" /\ named THEN "createCompany"
                                                    ELSE "createUser",
                   email |-> e, password |-> password, role |-> role,
                   company |-> companyId, number |-> numbered + 1]
  <2>1. numbered < MaxNumber /\ numbered' = numbered + 1 /\ Become(r, x)
    BY <1>1 DEF BeginRegister, Numbered
  <2>2. companyId \in OrNull(Number)
    BY DEF TypeOK, OrNull
  <2>3. x \in Registering
    BY <1>0, <2>1, <2>2 DEF Registering
  <2>4. x.email = e /\ x.number = numbered + 1
    OBVIOUS
  <2> HIDE DEF x
  <2>5. Asks(r, e, x)
    BY <1>1, <2>1, <2>3, <2>4 DEF Asks, BeginRegister
  <2> QED BY <2>3, <2>5 DEF Forms, Request
<1>2. ASSUME NEW e \in Emails, BeginResend(r, e) PROVE Forms
  <2> DEFINE x == [pc |-> "setVerificationToken", email |-> e,
                   number |-> numbered + 1,
                   expires |-> expiresInHours(VERIFICATION_TOKEN_EXPIRY_HOURS)]
  <2>1. numbered < MaxNumber /\ numbered' = numbered + 1 /\ Become(r, x)
        /\ Registered(e)
    BY <1>2 DEF BeginResend, Numbered, ReadForResend
  <2>2. x \in SettingToken
    BY <1>0, <2>1, Dates DEF SettingToken
  <2>3. x.email = e /\ x.number = numbered + 1
    OBVIOUS
  <2> HIDE DEF x
  <2>4. Asks(r, e, x)
    BY <1>2, <2>1, <2>2, <2>3 DEF Asks, BeginResend
  <2> QED BY <2>2, <2>4 DEF Forms, Request
<1>3. ASSUME NEW e \in Emails, BeginForgot(r, e) PROVE Forms
  <2> DEFINE x == [pc |-> "setPasswordResetToken", email |-> e,
                   number |-> numbered + 1,
                   expires |-> expiresInHours(PASSWORD_RESET_EXPIRY_HOURS)]
             y == [pc |-> "readAgain", email |-> e, number |-> numbered + 1]
  <2>1. /\ numbered < MaxNumber /\ numbered' = numbered + 1 /\ Registered(e)
        /\ Become(r, x) \/ Become(r, y)
    BY <1>3 DEF BeginForgot, Numbered
  <2>2. x \in SettingToken /\ y \in ReadingAgain
    BY <1>0, <2>1, Dates DEF SettingToken, ReadingAgain
  <2>3. /\ x.email = e /\ x.number = numbered + 1
        /\ y.email = e /\ y.number = numbered + 1
    OBVIOUS
  <2> HIDE DEF x, y
  <2>4. Asks(r, e, x) \/ Asks(r, e, y)
    BY <1>3, <2>1, <2>2, <2>3 DEF Asks, BeginForgot
  <2> QED BY <2>2, <2>4 DEF Forms, Request
<1>4. ASSUME NEW t \in Held, BeginVerify(r, t) PROVE Forms
  <2>1. PICK e \in findByVerificationToken(t) :
               /\ MarkOverlap(e)
               /\ IF Verified(e)
                    THEN SignFor(e) /\ UNCHANGED requests
                    ELSE /\ Become(r, [pc |-> "markVerified", email |-> e,
                                       token |-> t])
                         /\ UNCHANGED accessTokens
    BY <1>4 DEF BeginVerify
  <2>2. e \in Emails /\ Registered(e) /\ users[e].verificationToken = t
    BY <2>1 DEF findByVerificationToken
  <2>3. CASE Verified(e)
    <3>1. Become(r, Idle)
      BY <1>4, <2>1, <2>3 DEF BeginVerify, Become, TypeOK
    <3>2. Follows(r, e, Idle)
      BY <1>4, <2>1, <2>2, <2>3, <3>1 DEF Follows, BeginVerify
    <3> QED BY <1>0, <2>2, <3>2 DEF Forms
  <2>4. CASE ~ Verified(e)
    <3> DEFINE x == [pc |-> "markVerified", email |-> e, token |-> t]
               m == [kind |-> "verify-email", to |-> e, token |-> t]
    <3>1. x \in Confirming /\ x.email = e /\ x.token = t
      BY <1>0, <2>2 DEF Confirming
    <3>2. m \in Mail /\ m.token = t
      BY <1>0, <2>2 DEF Mail
    <3>3. Link(m)
      BY <2>2 DEF Link, Awaited
    <3>4. PICK n \in mailbox : n.token = t
      BY DEF Held
    <3>5. n \in Mail /\ Link(n)
      BY DEF TypeOK, Link
    <3>6. m \in mailbox
      BY <3>2, <3>3, <3>4, <3>5 DEF LinksInv
    <3>7. Become(r, x) /\ UNCHANGED accessTokens
      BY <2>1, <2>4
    <3>8. Mailed("verify-email", e, x.token)
      BY <3>1, <3>6 DEF Mailed
    <3> HIDE DEF x
    <3>9. Follows(r, e, x)
      BY <1>4, <2>1, <2>2, <3>1, <3>7, <3>8 DEF Follows, BeginVerify
    <3> QED BY <2>2, <3>1, <3>9 DEF Forms, Request
  <2> QED BY <2>3, <2>4
<1>5. ASSUME NEW t \in Held, NEW password \in Passwords,
             BeginReset(r, t, password)
      PROVE  Forms
  <2> DEFINE x(e) == [pc |-> "updatePassword", email |-> e, token |-> t,
                      password |-> password]
  <2>1. PICK e \in findByPasswordResetToken(t) :
               MarkOverlap(e) /\ Verified(e) /\ Become(r, x(e))
    BY <1>5 DEF BeginReset
  <2>2. e \in Emails /\ Registered(e) /\ users[e].resetToken = t
    BY <2>1 DEF findByPasswordResetToken
  <2> DEFINE m == [kind |-> "reset-password", to |-> e, token |-> t]
  <2>3. x(e) \in Resetting /\ x(e).email = e /\ x(e).token = t
    BY <1>0, <2>2 DEF Resetting
  <2>4. m \in Mail /\ m.token = t
    BY <1>0, <2>2 DEF Mail
  <2>5. Link(m)
    BY <2>2 DEF Link, Awaited
  <2>6. PICK n \in mailbox : n.token = t
    BY DEF Held
  <2>7. n \in Mail /\ Link(n)
    BY DEF TypeOK, Link
  <2>8. m \in mailbox
    BY <2>4, <2>5, <2>6, <2>7 DEF LinksInv
  <2>9. Mailed("reset-password", e, x(e).token)
    BY <2>3, <2>8 DEF Mailed
  <2> HIDE DEF x
  <2>10. Follows(r, e, x(e))
    BY <1>5, <2>1, <2>2, <2>3, <2>9 DEF Follows, BeginReset
  <2> QED BY <2>2, <2>3, <2>10 DEF Forms, Request
<1> QED BY <1>1, <1>2, <1>3, <1>4, <1>5

LEMMA GoingForms ==
  ASSUME TypeOK, NEW r \in Requests
  PROVE  CreateCompany(r) \/ ResendForForgot(r) \/ Abort(r) \/ SendMail(r)
           => Forms
<1>0. Idle \in Request /\ callFailed \in BOOLEAN
  BY DEF TypeOK, Request
<1>1. ASSUME CreateCompany(r) PROVE Forms
  <2> DEFINE x == [requests[r] EXCEPT !.pc = "createUser",
                                      !.company = requests[r].number]
  <2>1. requests[r] \in Registering /\ requests[r].pc = "createCompany"
    BY <1>1, RequestTypes DEF CreateCompany
  <2>2. requests[r].number \in OrNull(Number)
    BY <2>1 DEF Registering, OrNull
  <2>3. x \in Registering
    BY <2>1, <2>2 DEF Registering
  <2>4. x.email = requests[r].email /\ x.number = requests[r].number
    BY <2>1 DEF Registering
  <2>5. Become(r, x)
    BY <1>1 DEF CreateCompany
  <2>6. requests[r] # Idle
    BY <2>1 DEF Idle
  <2> HIDE DEF x
  <2>7. Goes(r, x)
    BY <1>1, <2>1, <2>3, <2>4, <2>5, <2>6 DEF Goes, CreateCompany, marks, Making
  <2> QED BY <2>1, <2>3, <2>7 DEF Forms, Request, Registering
<1>2. ASSUME ResendForForgot(r) PROVE Forms
  <2> DEFINE e == requests[r].email
             x == [pc |-> "setVerificationToken", email |-> e,
                   number |-> requests[r].number,
                   expires |-> expiresInHours(VERIFICATION_TOKEN_EXPIRY_HOURS)]
  <2>1. requests[r] \in ReadingAgain /\ requests[r].pc = "readAgain"
    BY <1>2, RequestTypes DEF ResendForForgot
  <2>2. requests[r] # Idle
    BY <2>1 DEF Idle
  <2>3. Become(r, x) \/ Become(r, Idle)
    BY <1>2 DEF ResendForForgot, ReadForResend
  <2>4. x \in SettingToken /\ x.pc = "setVerificationToken" /\ e \in Emails
    BY <2>1, Dates DEF SettingToken, ReadingAgain
  <2>5. x.email = e /\ x.number = requests[r].number
    OBVIOUS
  <2> HIDE DEF x
  <2>6. Goes(r, x) \/ Goes(r, Idle)
    BY <1>2, <2>1, <2>2, <2>3, <2>4, <2>5
       DEF Goes, ResendForForgot, marks, Making
  <2> QED BY <1>0, <2>4, <2>6 DEF Forms, Request
<1>3. ASSUME Abort(r) PROVE Forms
  <2>1. Goes(r, Idle)
    BY <1>3 DEF Goes, Abort
  <2>2. requests[r] \in Request
    BY RequestTypes
  <2>3. \E e \in Emails : TRUE
    BY <1>3, <2>2 DEF Abort, Request, Registering, ReadingAgain, SettingToken,
                      Mailing, Confirming, Resetting, Mail
  <2> QED BY <1>0, <2>1, <2>3 DEF Forms
<1>4. ASSUME SendMail(r) PROVE Forms
  <2>1. Sends(r)
    BY <1>4 DEF Sends, SendMail
  <2> QED BY <2>1 DEF Forms
<1> QED BY <1>1, <1>2, <1>3, <1>4

LEMMA StoringForms ==
  ASSUME TypeOK, FoundInv, NEW r \in Requests
  PROVE  CreateUser(r) \/ SetVerificationToken(r) \/ SetPasswordResetToken(r)
           => Forms
<1>1. ASSUME CreateUser(r) PROVE Forms
  <2> DEFINE e == requests[r].email
             row == NewUser(requests[r])
  <2>1. requests[r] \in Registering /\ requests[r].pc = "createUser"
    BY <1>1, RequestTypes DEF CreateUser
  <2>2. e \in Emails /\ row \in User
    BY <2>1, NewUserTypes DEF Registering
  <2>3. CASE Registered(e)
    <3>1. requests[r] # Idle
      BY <2>1 DEF Idle
    <3>2. Goes(r, Idle)
      BY <1>1, <2>1, <2>3, <3>1 DEF Goes, CreateUser, marks
    <3> QED BY <2>2, <3>2 DEF Forms, Request
  <2>4. CASE ~ Registered(e)
    <3>1. /\ row.verificationToken = requests[r].number
          /\ row.verificationToken # Null /\ row.verificationExpires # Null
          /\ row.resetToken = Null /\ row.resetExpires = Null
          /\ row.company = requests[r].company /\ ~ row.verified
      BY <2>1, Dates, AuthAssumption DEF NewUser, Registering, Number, Null
    <3>2. RowOK(row)
      BY <2>2, <3>1 DEF RowOK
    <3>3. ToMail("verify-email", requests[r])
            = [pc |-> "mail", mail |-> ToSend(requests[r])]
      BY <2>1 DEF ToMail, ToSend
    <3>4. Making(r) /\ ToSend(requests[r]).to = e
      BY <2>1 DEF Making, ToSend
    <3>5. users' = [users EXCEPT ![e] = row]
      BY <1>1, <2>4 DEF CreateUser
    <3>6. Changed(e, row)
      BY <2>2, <3>5 DEF Changed, TypeOK
    <3>7. Become(r, [pc |-> "mail", mail |-> ToSend(requests[r])])
      BY <1>1, <2>4, <3>3 DEF CreateUser
    <3> HIDE DEF row, e
    <3>8. Stores(r, e, row)
      BY <1>1, <2>1, <2>4, <3>1, <3>2, <3>4, <3>6, <3>7 DEF Stores, CreateUser
    <3> QED BY <2>2, <3>8 DEF Forms
  <2> QED BY <2>3, <2>4
<1>2. ASSUME SetVerificationToken(r) PROVE Forms
  <2> DEFINE e == requests[r].email
             t == requests[r].number
             d == requests[r].expires
             row == [users[e] EXCEPT !.verificationToken = t,
                                     !.verificationExpires = d]
  <2>1. requests[r] \in SettingToken /\ requests[r].pc = "setVerificationToken"
    BY <1>2, RequestTypes DEF SetVerificationToken
  <2>2. e \in Emails /\ t \in Number /\ d \in 1 .. LastDate
    BY <2>1 DEF SettingToken
  <2>3. Registered(e)
    BY <2>1 DEF FoundInv, About
  <2>4. setVerificationToken(e, t, d)
    BY <1>2 DEF SetVerificationToken
  <2>5. users[e] \in User /\ RowOK(users[e])
    BY <2>2, <2>3 DEF TypeOK, Registered, RowOK
  <2>6. /\ row.verificationToken # Null /\ row.verificationExpires # Null
        /\ row.resetToken = users[e].resetToken
        /\ row.resetExpires = users[e].resetExpires
    BY <2>2, <2>5 DEF User, Number, Null
  <2>7. row \in User
    BY <2>2, <2>5, RowTypes, Nulls
  <2>8. RowOK(row)
    BY <2>5, <2>6, <2>7 DEF RowOK
  <2>9. Changed(e, row)
    BY <2>2, <2>3, <2>4, TokenWritten
  <2>10. ToMail("verify-email", requests[r])
           = [pc |-> "mail", mail |-> ToSend(requests[r])]
    BY <2>1 DEF ToMail, ToSend
  <2>11. Making(r) /\ ToSend(requests[r]).to = e
    BY <2>1 DEF Making, ToSend
  <2>12. Become(r, [pc |-> "mail", mail |-> ToSend(requests[r])])
    BY <1>2, <2>10 DEF SetVerificationToken
  <2>13. Stores(r, e, row)
    BY <1>2, <2>1, <2>3, <2>8, <2>9, <2>11, <2>12
       DEF Stores, SetVerificationToken
  <2> QED BY <2>2, <2>7, <2>13 DEF Forms
<1>3. ASSUME SetPasswordResetToken(r) PROVE Forms
  <2> DEFINE e == requests[r].email
             t == requests[r].number
             d == requests[r].expires
             row == [users[e] EXCEPT !.resetToken = t, !.resetExpires = d]
  <2>1. /\ requests[r] \in SettingToken
        /\ requests[r].pc = "setPasswordResetToken"
    BY <1>3, RequestTypes DEF SetPasswordResetToken
  <2>2. e \in Emails /\ t \in Number /\ d \in 1 .. LastDate
    BY <2>1 DEF SettingToken
  <2>3. Registered(e)
    BY <2>1 DEF FoundInv, About
  <2>4. setPasswordResetToken(e, t, d)
    BY <1>3 DEF SetPasswordResetToken
  <2>5. users[e] \in User /\ RowOK(users[e])
    BY <2>2, <2>3 DEF TypeOK, Registered, RowOK
  <2>6. /\ row.resetToken # Null /\ row.resetExpires # Null
        /\ row.verificationToken = users[e].verificationToken
        /\ row.verificationExpires = users[e].verificationExpires
    BY <2>2, <2>5 DEF User, Number, Null
  <2>7. row \in User
    BY <2>2, <2>5, RowTypes, Nulls
  <2>8. RowOK(row)
    BY <2>5, <2>6, <2>7 DEF RowOK
  <2>9. Changed(e, row)
    BY <2>2, <2>3, <2>4, ResetTokenWritten
  <2>10. ToMail("reset-password", requests[r])
           = [pc |-> "mail", mail |-> ToSend(requests[r])]
    BY <2>1 DEF ToMail, ToSend
  <2>11. Making(r) /\ ToSend(requests[r]).to = e
    BY <2>1 DEF Making, ToSend
  <2>12. Become(r, [pc |-> "mail", mail |-> ToSend(requests[r])])
    BY <1>3, <2>10 DEF SetPasswordResetToken
  <2>13. Stores(r, e, row)
    BY <1>3, <2>1, <2>3, <2>8, <2>9, <2>11, <2>12
       DEF Stores, SetPasswordResetToken
  <2> QED BY <2>2, <2>7, <2>13 DEF Forms
<1> QED BY <1>1, <1>2, <1>3

LEMMA UsingForms ==
  ASSUME TypeOK, FoundInv, NEW r \in Requests
  PROVE  MarkEmailVerified(r) \/ UpdatePassword(r) => Forms
<1>1. ASSUME MarkEmailVerified(r) PROVE Forms
  <2> DEFINE e == requests[r].email
             row == [users[e] EXCEPT !.verified = TRUE,
                                     !.verificationToken = Null,
                                     !.verificationExpires = Null]
  <2>1. e \in Emails /\ requests[r].pc = "markVerified"
    BY <1>1, RequestTypes DEF MarkEmailVerified, Confirming
  <2>2. Registered(e) /\ markEmailVerified(e)
    BY <1>1 DEF FoundInv, MarkEmailVerified, About
  <2>3. users[e] \in User /\ RowOK(users[e])
    BY <2>1, <2>2 DEF TypeOK, Registered, RowOK
  <2>4. /\ row.verificationToken = Null /\ row.verificationExpires = Null
        /\ row.resetToken = users[e].resetToken
        /\ row.resetExpires = users[e].resetExpires
    BY <2>3 DEF User
  <2>5. row \in User
    BY <2>3, RowTypes, Nulls
  <2>6. RowOK(row)
    BY <2>3, <2>4, <2>5 DEF RowOK
  <2>7. Changed(e, row)
    BY <2>1, <2>2, Confirmed
  <2>8. Uses(r, e, row)
    BY <1>1, <2>1, <2>2, <2>6, <2>7 DEF Uses, MarkEmailVerified
  <2> QED BY <2>1, <2>5, <2>8 DEF Forms
<1>2. ASSUME UpdatePassword(r) PROVE Forms
  <2> DEFINE e == requests[r].email
             p == requests[r].password
             row == [users[e] EXCEPT !.password = p, !.resetToken = Null,
                                     !.resetExpires = Null]
  <2>1. /\ e \in Emails /\ p \in Passwords
        /\ requests[r].pc = "updatePassword"
    BY <1>2, RequestTypes DEF UpdatePassword, Resetting
  <2>2. Registered(e) /\ Verified(e) /\ updatePassword(e, p)
    BY <1>2 DEF FoundInv, UpdatePassword, About
  <2>3. users[e] \in User /\ RowOK(users[e])
    BY <2>1, <2>2 DEF TypeOK, Registered, RowOK
  <2>4. /\ row.resetToken = Null /\ row.resetExpires = Null
        /\ row.verificationToken = users[e].verificationToken
        /\ row.verificationExpires = users[e].verificationExpires
    BY <2>3 DEF User
  <2>5. row \in User
    BY <2>1, <2>3, RowTypes, Nulls
  <2>6. RowOK(row)
    BY <2>3, <2>4, <2>5 DEF RowOK
  <2>7. Changed(e, row)
    BY <2>1, <2>2, PasswordWritten
  <2>8. Uses(r, e, row)
    BY <1>2, <2>1, <2>2, <2>6, <2>7 DEF Uses, UpdatePassword
  <2> QED BY <2>1, <2>5, <2>8 DEF Forms
<1> QED BY <1>1, <1>2

LEMMA EveryStepHasAForm ==
  ASSUME TypeOK, FoundInv, LinksInv, [Next]_vars
  PROVE  Forms
<1>1. CASE UNCHANGED vars
  BY <1>1 DEF Forms, Rests, vars
<1>2. ASSUME Tick PROVE Forms
  BY <1>2 DEF Forms, Rests, Tick
<1>3. ASSUME NEW e \in Emails, NEW password \in Passwords, Login(e, password)
      PROVE  Forms
  BY <1>3 DEF Forms, Rests, Login
<1>4. CASE Next
  BY <1>2, <1>3, <1>4, BeginningForms, GoingForms, StoringForms, UsingForms
     DEF Next, Step
<1> QED BY <1>1, <1>4

-----------------------------------------------------------------------------
(* The invariants, form by form.                                             *)

LEMMA RequestFacts ==
  ASSUME TypeOK, NEW r \in Requests
  PROVE  /\ requests[r] # Idle => About(requests[r]) \in Emails
         /\ Making(r) => /\ requests[r] # Idle
                         /\ ToSend(requests[r]) \in Mail
                         /\ ToSend(requests[r]).to = About(requests[r])
         /\ requests[r].pc = "mail" => ToSend(requests[r]) = requests[r].mail
         /\ Making(r) /\ requests[r].pc # "mail"
              => /\ ToSend(requests[r]).token = requests[r].number
                 /\ About(requests[r]) = requests[r].email
<1>1. requests[r] \in Request
  BY RequestTypes
<1>2. requests[r] # Idle => About(requests[r]) \in Emails
  BY <1>1 DEF Request, Registering, ReadingAgain, SettingToken, Mailing,
              Confirming, Resetting, Mail, About
<1>3. Making(r) => ToSend(requests[r]) \in Mail
  BY RequestTypes DEF Making, ToSend, Registering, ReadingAgain, SettingToken,
                      Mailing, Mail
<1>4. Making(r) => requests[r] # Idle
  BY DEF Making, Idle
<1> QED BY <1>2, <1>3, <1>4 DEF ToSend, About, Making

(* The same of a request that is about to be stored.                         *)
LEMMA NewRequestFacts ==
  ASSUME NEW x \in Registering \cup ReadingAgain \cup SettingToken
  PROVE  /\ x \in Request /\ x # Idle /\ x.email \in Emails
         /\ x.pc \in {"createCompany", "createUser", "readAgain",
                      "setVerificationToken", "setPasswordResetToken"}
         /\ ToSend(x) \in Mail /\ ToSend(x).to = x.email /\ About(x) = x.email
         /\ ToSend(x).token = x.number
<1>1. x \in Request /\ x # Idle /\ x.email \in Emails /\ x.number \in Number
  BY DEF Request, Registering, ReadingAgain, SettingToken, Idle
<1>2. x.pc \in {"createCompany", "createUser", "readAgain",
               "setVerificationToken", "setPasswordResetToken"}
  BY DEF Registering, ReadingAgain, SettingToken
<1> QED BY <1>1, <1>2 DEF ToSend, About, Mail

LEMMA TypeInit == Init => TypeOK
<1> SUFFICES ASSUME Init PROVE TypeOK
  OBVIOUS
<1>1. \A e \in Emails : ~ Registered(e)
  BY DEF Init, Registered
<1>2. requests \in [Requests -> Request]
  BY DEF Init, Request
<1>3. numbered \in 0 .. MaxNumber /\ clock \in 0 .. MaxClock
  BY AuthAssumption DEF Init
<1>4. users \in [Emails -> User \cup {NoAccount}]
  BY DEF Init
<1> QED BY <1>1, <1>2, <1>3, <1>4 DEF Init, TypeOK

LEMMA UsersNext ==
  ASSUME TypeOK, Forms
  PROVE  /\ users' \in [Emails -> User \cup {NoAccount}]
         /\ \A e \in Emails : Registered(e)' => RowOK(users'[e])
<1> DEFINE Goal == /\ users' \in [Emails -> User \cup {NoAccount}]
                   /\ \A e \in Emails : Registered(e)' => RowOK(users'[e])
<1>1. \A e \in Emails : Registered(e) => RowOK(users[e])
  BY DEF TypeOK, Registered, RowOK
<1>2. ASSUME UNCHANGED users PROVE Goal
  BY <1>1, <1>2 DEF TypeOK, Registered
<1>3. ASSUME NEW e \in Emails, NEW row \in User, Changed(e, row), RowOK(row)
      PROVE  Goal
  BY <1>1, <1>3, RowsAfter
<1> HIDE DEF Goal
<1>4. ASSUME NEW r \in Requests, NEW e \in Emails, NEW row \in User,
             Stores(r, e, row) \/ Uses(r, e, row)
      PROVE  Goal
  BY <1>3, <1>4 DEF Stores, Uses
<1>5. ASSUME NEW r \in Requests, NEW e \in Emails, NEW x \in Request,
             Asks(r, e, x) \/ Follows(r, e, x) \/ Goes(r, x)
      PROVE  Goal
  BY <1>2, <1>5 DEF Asks, Follows, Goes
<1>6. ASSUME NEW r \in Requests, Sends(r) PROVE Goal
  BY <1>2, <1>6 DEF Sends
<1>7. ASSUME Rests PROVE Goal
  BY <1>2, <1>7 DEF Rests
<1>8. Goal
  BY <1>4, <1>5, <1>6, <1>7 DEF Forms
<1> QED BY <1>8 DEF Goal

LEMMA RequestsNext ==
  ASSUME TypeOK, Forms
  PROVE  requests' \in [Requests -> Request]
<1>0. Idle \in Request
  BY DEF Request
<1>1. ASSUME NEW r \in Requests, NEW x \in Request, Become(r, x)
      PROVE  requests' \in [Requests -> Request]
  BY <1>1, RequestsAfter
<1>2. ASSUME NEW r \in Requests, NEW e \in Emails, NEW row \in User,
             Stores(r, e, row)
      PROVE  requests' \in [Requests -> Request]
  <2>1. [pc |-> "mail", mail |-> ToSend(requests[r])] \in Request
    BY <1>2, RequestFacts DEF Request, Mailing, Stores
  <2>2. Become(r, [pc |-> "mail", mail |-> ToSend(requests[r])])
    BY <1>2 DEF Stores
  <2> QED BY <1>1, <2>1, <2>2
<1>3. ASSUME NEW r \in Requests, NEW e \in Emails, NEW x \in Request,
             Asks(r, e, x) \/ Follows(r, e, x) \/ Goes(r, x)
      PROVE  requests' \in [Requests -> Request]
  BY <1>1, <1>3 DEF Asks, Follows, Goes
<1>4. ASSUME NEW r \in Requests, NEW e \in Emails, NEW row \in User,
             Uses(r, e, row)
      PROVE  requests' \in [Requests -> Request]
  BY <1>0, <1>1, <1>4 DEF Uses
<1>5. ASSUME NEW r \in Requests, Sends(r)
      PROVE  requests' \in [Requests -> Request]
  BY <1>0, <1>1, <1>5 DEF Sends
<1>6. ASSUME Rests PROVE requests' \in [Requests -> Request]
  BY <1>6 DEF Rests, TypeOK
<1> QED BY <1>2, <1>3, <1>4, <1>5, <1>6 DEF Forms

LEMMA TokensAndMailsNext ==
  ASSUME TypeOK, Forms
  PROVE  /\ accessTokens' \subseteq AccessToken /\ mailbox' \subseteq Mail
         /\ numbered' \in 0 .. MaxNumber
         /\ callFailed' \in BOOLEAN /\ overlapped' \in BOOLEAN
<1> DEFINE Goal == /\ accessTokens' \subseteq AccessToken /\ mailbox' \subseteq Mail
                   /\ numbered' \in 0 .. MaxNumber
                   /\ callFailed' \in BOOLEAN /\ overlapped' \in BOOLEAN
<1>1. /\ accessTokens \subseteq AccessToken /\ mailbox \subseteq Mail
      /\ numbered \in 0 .. MaxNumber
      /\ callFailed \in BOOLEAN /\ overlapped \in BOOLEAN
  BY DEF TypeOK
<1>2. numbered < MaxNumber => numbered + 1 \in 0 .. MaxNumber
  BY <1>1, AuthAssumption
<1>3. ASSUME NEW e \in Emails, MarkOverlap(e) PROVE overlapped' \in BOOLEAN
  BY <1>1, <1>3 DEF MarkOverlap
<1>4. ASSUME NEW e \in Emails, Registered(e), SignFor(e)
      PROVE  accessTokens' \subseteq AccessToken
  BY <1>4, AccessTokenTypes
<1>5. ASSUME NEW r \in Requests, NEW e \in Emails, NEW x \in Request,
             Asks(r, e, x)
      PROVE  Goal
  BY <1>1, <1>2, <1>3, <1>5 DEF Asks
<1>6. ASSUME NEW r \in Requests, NEW e \in Emails, NEW x \in Request,
             Follows(r, e, x)
      PROVE  Goal
  BY <1>1, <1>3, <1>4, <1>6 DEF Follows
<1>7. ASSUME NEW r \in Requests, NEW x \in Request, Goes(r, x) PROVE Goal
  BY <1>1, <1>7 DEF Goes
<1>8. ASSUME NEW r \in Requests, NEW e \in Emails, NEW row \in User,
             Stores(r, e, row) \/ Uses(r, e, row)
      PROVE  Goal
  BY <1>1, <1>4, <1>8 DEF Stores, Uses, marks
<1>9. ASSUME NEW r \in Requests, Sends(r) PROVE Goal
  <2>1. requests[r].mail \in Mail
    BY <1>9, RequestTypes DEF Sends, Mailing
  <2> QED BY <1>1, <1>9, <2>1 DEF Sends, marks
<1>10. ASSUME Rests PROVE Goal
  BY <1>1, <1>4, <1>10 DEF Rests, Verified, marks
<1> QED
  <2> HIDE DEF Goal
  <2>1. Goal
    BY <1>5, <1>6, <1>7, <1>8, <1>9, <1>10 DEF Forms
  <2> QED BY <2>1 DEF Goal

LEMMA CompaniesNext ==
  ASSUME [Next]_vars
  PROVE  \/ \E r \in Requests : CreateCompany(r)
         \/ UNCHANGED companies /\ (Tick \/ UNCHANGED clock)
<1>1. ASSUME NEW r \in Requests, Step(r), ~ CreateCompany(r)
      PROVE  companies' = companies /\ clock' = clock
  BY <1>1
     DEF Step, CreateUser, SendMail, SetVerificationToken, ResendForForgot,
         SetPasswordResetToken, MarkEmailVerified, UpdatePassword
<1>2. ASSUME NEW r \in Requests,
             \/ \E e \in Emails, password \in Passwords, role \in Roles,
                  companyId \in OrNull(companies), named \in BOOLEAN :
                 BeginRegister(r, e, password, role, companyId, named)
             \/ \E e \in Emails : BeginResend(r, e) \/ BeginForgot(r, e)
      PROVE  companies' = companies /\ clock' = clock
  BY <1>2 DEF BeginRegister, BeginResend, BeginForgot
<1>3. ASSUME NEW r \in Requests,
             \/ \E t \in Held : BeginVerify(r, t)
             \/ \E t \in Held, password \in Passwords :
                  BeginReset(r, t, password)
             \/ Abort(r)
      PROVE  companies' = companies /\ clock' = clock
  BY <1>3 DEF BeginVerify, BeginReset, Abort
<1>4. ASSUME NEW e \in Emails, NEW password \in Passwords, Login(e, password)
      PROVE  companies' = companies /\ clock' = clock
  BY <1>4 DEF Login
<1>5. CASE UNCHANGED vars
  BY <1>5 DEF vars
<1>6. CASE Next
  BY <1>1, <1>2, <1>3, <1>4, <1>6 DEF Next, Tick
<1> QED BY <1>5, <1>6

LEMMA CompaniesTypeNext ==
  ASSUME TypeOK, [Next]_vars
  PROVE  companies' \subseteq Number /\ clock' \in 0 .. MaxClock
<1>1. companies \subseteq Number /\ clock \in 0 .. MaxClock
  BY DEF TypeOK
<1>2. ASSUME NEW r \in Requests, CreateCompany(r)
      PROVE  companies' \subseteq Number /\ clock' \in 0 .. MaxClock
  <2>1. requests[r].number \in Number
    BY <1>2, RequestTypes DEF CreateCompany, Registering
  <2> QED BY <1>1, <1>2, <2>1 DEF CreateCompany
<1>3. ASSUME UNCHANGED companies, Tick \/ UNCHANGED clock
      PROVE  companies' \subseteq Number /\ clock' \in 0 .. MaxClock
  BY <1>1, <1>3, AuthAssumption DEF Tick
<1> QED BY <1>2, <1>3, CompaniesNext

LEMMA TypeNext ==
  ASSUME TypeOK, FoundInv, LinksInv, [Next]_vars
  PROVE  TypeOK'
<1>1. Forms
  BY EveryStepHasAForm
<1>2. \A e \in Emails :
        Registered(e)' =>
          /\ users'[e].verificationToken = Null
               <=> users'[e].verificationExpires = Null
          /\ users'[e].resetToken = Null <=> users'[e].resetExpires = Null
  BY <1>1, UsersNext DEF RowOK
<1> QED BY <1>1, <1>2, UsersNext, RequestsNext, TokensAndMailsNext,
           CompaniesTypeNext
        DEF TypeOK

(* No account goes, none loses its confirmation, its role or its company.    *)
LEMMA AccountsStay ==
  ASSUME TypeOK, Forms, NEW e \in Emails, Registered(e)
  PROVE  /\ Registered(e)'
         /\ Verified(e) => Verified(e)'
         /\ payloadOf(e)' = payloadOf(e)
<1>1. CASE UNCHANGED users
  BY <1>1 DEF Registered, Verified, payloadOf
<1>2. users[e] \in User
  BY DEF TypeOK, Registered
<1>3. ASSUME NEW r \in Requests, NEW f \in Emails, NEW row \in User,
             Stores(r, f, row) \/ Uses(r, f, row)
      PROVE  /\ Registered(e)'
             /\ Verified(e) => Verified(e)'
             /\ payloadOf(e)' = payloadOf(e)
  <2>1. Changed(f, row)
    BY <1>3 DEF Stores, Uses
  <2>2. CASE e # f
    BY <2>1, <2>2, RowsAfter DEF Verified, payloadOf
  <2>3. CASE e = f
    <3>1. /\ row.verified \in {users[e].verified, TRUE}
          /\ row.role = users[e].role /\ row.company = users[e].company
      BY <1>2, <1>3, <2>3 DEF Stores, Uses, User
    <3>2. users'[e] = row /\ Registered(e)'
      BY <2>1, <2>3, RowsAfter
    <3> QED BY <3>1, <3>2 DEF Verified, payloadOf
  <2> QED BY <2>2, <2>3
<1>4. ASSUME NEW r \in Requests, NEW f \in Emails, NEW x \in Request,
             Asks(r, f, x) \/ Follows(r, f, x) \/ Goes(r, x)
      PROVE  UNCHANGED users
  BY <1>4 DEF Asks, Follows, Goes
<1>5. ASSUME NEW r \in Requests, Sends(r) PROVE UNCHANGED users
  BY <1>5 DEF Sends
<1>6. ASSUME Rests PROVE UNCHANGED users
  BY <1>6 DEF Rests
<1> QED BY <1>1, <1>3, <1>4, <1>5, <1>6 DEF Forms

LEMMA FoundNext ==
  ASSUME TypeOK, FoundInv, Forms
  PROVE  FoundInv'
<1> DEFINE Needs(request) ==
      /\ request.pc \in {"readAgain", "setVerificationToken",
                         "setPasswordResetToken", "mail", "markVerified",
                         "updatePassword"}
           => Registered(About(request))
      /\ request.pc = "updatePassword" => Verified(request.email)
<1>1. \A q \in Requests : Needs(requests[q])
  BY DEF FoundInv
<1>2. ASSUME NEW q \in Requests, requests'[q] = requests[q]
      PROVE  Needs(requests[q])'
  <2>1. requests[q].pc = "updatePassword"
          => About(requests[q]) = requests[q].email
    BY DEF About
  <2>2. About(requests[q])' = About(requests[q])
    BY <1>2 DEF About
  <2>3. requests[q] # Idle => About(requests[q]) \in Emails
    BY RequestFacts
  <2>4. requests[q] = Idle => requests[q].pc = "idle"
    BY RequestTypes
  <2> QED BY <1>1, <1>2, <2>1, <2>2, <2>3, <2>4, AccountsStay
<1>3. ASSUME NEW q \in Requests, requests'[q] = Idle
      PROVE  Needs(requests[q])'
  BY <1>3 DEF Idle
<1>4. ASSUME NEW r \in Requests, NEW x, Become(r, x),
             requests'[r] = x => Needs(requests[r])'
      PROVE  FoundInv'
  <2>1. \A q \in Requests : Needs(requests[q])'
    BY <1>2, <1>4, RequestsAfter
  <2> QED BY <2>1 DEF FoundInv
<1>5. ASSUME NEW r \in Requests, Become(r, Idle) PROVE FoundInv'
  BY <1>3, <1>4, <1>5
<1>6. ASSUME NEW r \in Requests, NEW e \in Emails, NEW x \in Request,
             Asks(r, e, x)
      PROVE  FoundInv'
  <2>1. Become(r, x)
    BY <1>6 DEF Asks
  <2>2. CASE x = Idle
    BY <1>5, <2>1, <2>2
  <2>3. CASE x \in Registering
    BY <1>4, <2>1, <2>3 DEF Registering
  <2>4. CASE x \in ReadingAgain \cup SettingToken /\ Registered(e)
    <3>1. x # Idle /\ About(x) = x.email /\ x.pc # "updatePassword"
      BY <2>4, NewRequestFacts
    <3>2. Registered(x.email)'
      BY <1>6, <2>4, <3>1, AccountsStay DEF Asks
    <3> QED BY <1>4, <2>1, <3>1, <3>2 DEF About
  <2> QED BY <1>6, <2>2, <2>3, <2>4 DEF Asks
<1>7. ASSUME NEW r \in Requests, NEW e \in Emails, NEW x \in Request,
             Follows(r, e, x)
      PROVE  FoundInv'
  <2>1. Become(r, x) /\ Registered(e)' /\ (Verified(e) => Verified(e)')
    BY <1>7, AccountsStay DEF Follows
  <2>2. CASE x = Idle
    BY <1>5, <2>1, <2>2
  <2>3. CASE x # Idle
    <3>1. /\ x.pc = "markVerified" \/ (x.pc = "updatePassword" /\ Verified(e))
          /\ x.email = e
      BY <1>7, <2>3 DEF Follows, Confirming, Resetting
    <3> QED BY <1>4, <2>1, <3>1 DEF About
  <2> QED BY <2>2, <2>3
<1>8. ASSUME NEW r \in Requests, NEW x \in Request, Goes(r, x) PROVE FoundInv'
  <2>1. Become(r, x)
    BY <1>8 DEF Goes
  <2>2. CASE x = Idle
    BY <1>5, <2>1, <2>2
  <2>3. CASE x \in Registering
    BY <1>4, <2>1, <2>3 DEF Registering
  <2>4. CASE /\ x \in SettingToken /\ requests[r].pc = "readAgain"
             /\ x.email = requests[r].email
    <3>1. x # Idle /\ About(x) = x.email /\ x.pc # "updatePassword"
      BY <2>4, NewRequestFacts
    <3>2. About(requests[r]) = x.email /\ x.email \in Emails
      BY <2>4, NewRequestFacts DEF About
    <3>3. Registered(x.email)'
      BY <1>1, <2>4, <3>2, AccountsStay
    <3> QED BY <1>4, <2>1, <3>1, <3>3 DEF About
  <2> QED BY <1>8, <2>2, <2>3, <2>4 DEF Goes
<1>9. ASSUME NEW r \in Requests, NEW e \in Emails, NEW row \in User,
             Stores(r, e, row)
      PROVE  FoundInv'
  <2> DEFINE x == [pc |-> "mail", mail |-> ToSend(requests[r])]
  <2>1. Become(r, x) /\ ToSend(requests[r]).to = e /\ Changed(e, row)
    BY <1>9 DEF Stores
  <2>2. Registered(e)'
    BY <2>1, RowsAfter
  <2>3. x.pc = "mail" /\ About(x) = e
    BY <2>1 DEF About
  <2> QED BY <1>4, <2>1, <2>2, <2>3 DEF About
<1>10. ASSUME NEW r \in Requests, NEW e \in Emails, NEW row \in User,
              Uses(r, e, row)
       PROVE  FoundInv'
  BY <1>5, <1>10 DEF Uses
<1>11. ASSUME NEW r \in Requests, Sends(r) PROVE FoundInv'
  BY <1>5, <1>11 DEF Sends
<1>12. ASSUME Rests PROVE FoundInv'
  BY <1>2, <1>12 DEF Rests, FoundInv
<1> QED BY <1>6, <1>7, <1>8, <1>9, <1>10, <1>11, <1>12 DEF Forms

LEMMA SignedNext ==
  ASSUME TypeOK, FoundInv, SignedInv, Forms
  PROVE  SignedInv'
<1>1. ASSUME NEW token \in accessTokens
      PROVE  /\ Verified(token.payload.email)'
             /\ validate(token.payload)' = token.payload
  <2> DEFINE e == token.payload.email
  <2>1. e \in Emails /\ Verified(e) /\ payloadOf(e) = token.payload
    BY <1>1 DEF SignedInv, TypeOK, AccessToken, Payload, validate
  <2>2. Verified(e)' /\ payloadOf(e)' = payloadOf(e)
    BY <2>1, AccountsStay DEF Verified
  <2> QED BY <2>1, <2>2 DEF validate
<1>2. ASSUME NEW e \in Emails, Verified(e), SignFor(e)
      PROVE  SignedInv'
  <2>1. payloadOf(e)' = payloadOf(e) /\ Verified(e)'
    BY <1>2, AccountsStay DEF Verified
  <2>2. payloadOf(e).email = e
    BY DEF payloadOf
  <2> QED BY <1>1, <1>2, <2>1, <2>2 DEF SignedInv, SignFor, validate
<1>3. ASSUME UNCHANGED accessTokens PROVE SignedInv'
  BY <1>1, <1>3 DEF SignedInv
<1>4. ASSUME NEW r \in Requests, NEW e \in Emails, NEW row \in User,
             Uses(r, e, row)
      PROVE  SignedInv'
  <2>1. Registered(e) /\ Changed(e, row) /\ SignFor(e)
    BY <1>4 DEF Uses
  <2>2. users[e] \in User
    BY <2>1 DEF TypeOK, Registered
  <2>3. row.verified
    BY <1>4, <2>2 DEF Uses, User, Verified
  <2>4. Verified(e)'
    BY <2>1, <2>3, RowsAfter DEF Verified
  <2>5. payloadOf(e)' = payloadOf(e)
    BY <2>1, AccountsStay
  <2>6. payloadOf(e).email = e
    BY DEF payloadOf
  <2> QED BY <1>1, <2>1, <2>4, <2>5, <2>6
          DEF SignedInv, SignFor, validate
<1>5. ASSUME NEW r \in Requests, NEW e \in Emails, NEW x \in Request,
             Asks(r, e, x) \/ Follows(r, e, x) \/ Goes(r, x)
      PROVE  SignedInv'
  BY <1>2, <1>3, <1>5 DEF Asks, Follows, Goes
<1>6. ASSUME NEW r \in Requests, NEW e \in Emails, NEW row \in User,
             Stores(r, e, row)
      PROVE  SignedInv'
  BY <1>3, <1>6 DEF Stores
<1>7. ASSUME NEW r \in Requests, Sends(r) PROVE SignedInv'
  BY <1>3, <1>7 DEF Sends
<1>8. ASSUME Rests PROVE SignedInv'
  BY <1>2, <1>3, <1>8 DEF Rests
<1> QED BY <1>4, <1>5, <1>6, <1>7, <1>8 DEF Forms

-----------------------------------------------------------------------------
(* The links.  Only a new request makes a new one.                           *)

(* What a step may do to the links that there are, and to who makes them.    *)
LEMMA LinksKept ==
  ASSUME TypeOK, LinksInv, numbered' = numbered,
         \A m \in Mail : Link(m)' => Link(m),
         \A r \in Requests :
           Making(r)' => /\ Making(r)
                         /\ ToSend(requests[r])' = ToSend(requests[r])
                         /\ ToSend(requests[r]) \notin mailbox'
  PROVE  LinksInv'
BY DEF LinksInv

(* What a request that is not touched was making, it goes on making.         *)
LEMMA OthersGoOn ==
  ASSUME TypeOK, NEW r \in Requests, NEW x, Become(r, x)
  PROVE  \A q \in Requests \ {r} :
           /\ Making(q)' <=> Making(q)
           /\ ToSend(requests[q])' = ToSend(requests[q])
           /\ About(requests[q])' = About(requests[q])
           /\ requests'[q] = requests[q]
BY RequestsAfter DEF Making, ToSend, About

(* A row awaits after its update what it awaited before, what the request    *)
(* has made, or nothing.                                                     *)
LEMMA AwaitedNext ==
  ASSUME TypeOK, Forms, NEW m \in Mail, Registered(m.to)', Awaited(m)' = m.token
  PROVE  \/ Registered(m.to) /\ Awaited(m) = m.token
         \/ \E r \in Requests, row \in User :
              Stores(r, m.to, row) /\ ToSend(requests[r]) = m
<1>0. /\ m.to \in Emails /\ m.token # Null
      /\ m.kind \in {"verify-email", "reset-password"}
      /\ m = [kind |-> m.kind, to |-> m.to, token |-> m.token]
  BY DEF Mail, Number, Null
<1>1. CASE UNCHANGED users
  BY <1>1 DEF Registered, Awaited
<1>2. ASSUME NEW r \in Requests, NEW e \in Emails, NEW row \in User,
             Changed(e, row), e # m.to
      PROVE  Registered(m.to) /\ Awaited(m) = m.token
  BY <1>0, <1>2, RowsAfter DEF Awaited
<1>3. ASSUME NEW r \in Requests, NEW e \in Emails, NEW row \in User,
             Stores(r, e, row)
      PROVE  \/ Registered(m.to) /\ Awaited(m) = m.token
             \/ ToSend(requests[r]) = m /\ e = m.to
  <2>1. Changed(e, row)
    BY <1>3 DEF Stores
  <2>2. CASE e # m.to
    BY <1>2, <2>1, <2>2
  <2>3. CASE e = m.to
    <3>1. users'[e] = row
      BY <2>1, RowsAfter
    <3>2. Registered(e) => users[e] \in User
      BY DEF TypeOK, Registered
    <3>3. /\ requests[r].email = e
          /\ ToSend(requests[r]).token = requests[r].number
      BY <1>3 DEF Stores, ToSend
    <3>4. CASE requests[r].pc = "createUser"
      <4>1. /\ row.verificationToken = requests[r].number
            /\ row.resetToken = Null
        BY <1>3, <3>4 DEF Stores
      <4>2. m.kind = "verify-email" /\ m.token = requests[r].number
        BY <1>0, <2>3, <3>1, <4>1 DEF Awaited
      <4> QED BY <1>0, <2>3, <3>3, <3>4, <4>2 DEF ToSend
    <3>5. CASE requests[r].pc = "setVerificationToken"
      <4>1. /\ row.verificationToken = requests[r].number
            /\ row.resetToken = users[e].resetToken /\ Registered(e)
        BY <1>3, <3>2, <3>5 DEF Stores, User
      <4>2. CASE m.kind = "verify-email"
        <5>1. m.token = requests[r].number
          BY <2>3, <3>1, <4>1, <4>2 DEF Awaited
        <5> QED BY <1>0, <2>3, <3>3, <3>5, <4>2, <5>1 DEF ToSend
      <4>3. CASE m.kind = "reset-password"
        BY <1>0, <2>3, <3>1, <4>1, <4>3 DEF Awaited
      <4> QED BY <1>0, <4>2, <4>3
    <3>6. CASE requests[r].pc = "setPasswordResetToken"
      <4>1. /\ row.resetToken = requests[r].number
            /\ row.verificationToken = users[e].verificationToken
            /\ Registered(e)
        BY <1>3, <3>2, <3>6 DEF Stores, User
      <4>2. CASE m.kind = "reset-password"
        <5>1. m.token = requests[r].number
          BY <2>3, <3>1, <4>1, <4>2 DEF Awaited
        <5> QED BY <1>0, <2>3, <3>3, <3>6, <4>2, <5>1 DEF ToSend
      <4>3. CASE m.kind = "verify-email"
        BY <1>0, <2>3, <3>1, <4>1, <4>3 DEF Awaited
      <4> QED BY <1>0, <4>2, <4>3
    <3> QED BY <1>3, <3>4, <3>5, <3>6 DEF Stores
  <2> QED BY <2>2, <2>3
<1>4. ASSUME NEW r \in Requests, NEW e \in Emails, NEW row \in User,
             Uses(r, e, row)
      PROVE  Registered(m.to) /\ Awaited(m) = m.token
  <2>1. Changed(e, row) /\ Registered(e)
    BY <1>4 DEF Uses
  <2>2. CASE e # m.to
    BY <1>2, <2>1, <2>2
  <2>3. CASE e = m.to
    <3>1. users'[e] = row
      BY <2>1, RowsAfter
    <3>2. users[e] \in User
      BY <2>1 DEF TypeOK, Registered
    <3>3. /\ row.verificationToken \in {users[e].verificationToken, Null}
          /\ row.resetToken \in {users[e].resetToken, Null}
      BY <1>4, <3>2 DEF Uses, User
    <3> QED BY <1>0, <2>1, <2>3, <3>1, <3>3 DEF Awaited
  <2> QED BY <2>2, <2>3
<1>5. ASSUME NEW r \in Requests, NEW f \in Emails, NEW x \in Request,
             Asks(r, f, x) \/ Follows(r, f, x) \/ Goes(r, x)
      PROVE  UNCHANGED users
  BY <1>5 DEF Asks, Follows, Goes
<1>6. ASSUME NEW r \in Requests, Sends(r) PROVE UNCHANGED users
  BY <1>6 DEF Sends
<1>7. ASSUME Rests PROVE UNCHANGED users
  BY <1>7 DEF Rests
<1> QED BY <1>1, <1>3, <1>4, <1>5, <1>6, <1>7 DEF Forms

LEMMA LinksNext ==
  ASSUME TypeOK, LinksInv, Forms
  PROVE  LinksInv'
<1>1. ASSUME NEW r \in Requests, NEW e \in Emails, NEW x \in Request,
             Asks(r, e, x), x # Idle
      PROVE  LinksInv'
  <2> DEFINE new == ToSend(x)
  <2>1. /\ Become(r, x) /\ numbered' = numbered + 1 /\ numbered \in Nat
        /\ UNCHANGED <<users, mailbox>>
    BY <1>1 DEF Asks, TypeOK
  <2>2. new \in Mail /\ new.token = numbered + 1
    BY <1>1, NewRequestFacts DEF Asks
  <2>3. ToSend(requests[r])' = new
    BY <2>1, RequestsAfter DEF ToSend
  <2>4. \A q \in Requests \ {r} :
          /\ Making(q)' <=> Making(q)
          /\ ToSend(requests[q])' = ToSend(requests[q])
    BY <2>1, OthersGoOn
  <2>5. \A m \in Mail : Registered(m.to)' /\ Awaited(m)' = m.token
          => Registered(m.to) /\ Awaited(m) = m.token
    BY <2>1 DEF Registered, Awaited
  <2> HIDE DEF new
  <2>6. \A m \in Mail : Link(m)' => Link(m) \/ m = new
    BY <2>1, <2>3, <2>4, <2>5 DEF Link
  <2>7. \A m \in Mail : Link(m) => m.token \in Nat /\ m.token <= numbered
    BY DEF LinksInv, Mail, Number
  <2>8. ~ Link(new)
    BY <2>1, <2>2, <2>7
  <2>9. \A m \in Mail : Link(m)' => m.token <= numbered'
    BY <2>1, <2>2, <2>6, <2>7
  <2>10. \A m, n \in Mail : Link(m)' /\ Link(n)' /\ m.token = n.token => m = n
    <3> SUFFICES ASSUME NEW m \in Mail, NEW n \in Mail, Link(m)', Link(n)',
                        m.token = n.token
                 PROVE  m = n
      OBVIOUS
    <3>1. CASE Link(m) /\ Link(n)
      BY <3>1 DEF LinksInv
    <3>2. CASE m = new \/ n = new
      BY <2>1, <2>2, <2>6, <2>7, <3>2
    <3> QED BY <2>6, <3>1, <3>2
  <2>11. ASSUME NEW q \in Requests, Making(q)'
         PROVE  /\ ToSend(requests[q])' \notin mailbox'
                /\ \A p \in Requests :
                     Making(p)' /\ ToSend(requests[p])' = ToSend(requests[q])'
                       => p = q
    <3>1. new \notin mailbox
      BY <2>8 DEF Link
    <3>2. \A p \in Requests : Making(p) => ToSend(requests[p]) # new
      BY <2>8 DEF Link
    <3>3. CASE q = r
      BY <2>1, <2>3, <2>4, <3>1, <3>2, <3>3
    <3>4. CASE q # r
      BY <2>1, <2>3, <2>4, <2>11, <3>2, <3>4 DEF LinksInv
    <3> QED BY <3>3, <3>4
  <2> QED BY <2>9, <2>10, <2>11 DEF LinksInv
<1>2. ASSUME NEW r \in Requests, Become(r, Idle),
             numbered' \in {numbered, numbered + 1},
             \A m \in Mail : Registered(m.to)' /\ Awaited(m)' = m.token
               => Registered(m.to) /\ Awaited(m) = m.token,
             \/ UNCHANGED mailbox
             \/ /\ requests[r].pc = "mail"
                /\ mailbox' = mailbox \cup {requests[r].mail}
      PROVE  LinksInv'
  <2>1. ~ Making(r)'
    BY <1>2, RequestsAfter DEF Making, Idle
  <2>2. \A q \in Requests \ {r} :
          /\ Making(q)' <=> Making(q)
          /\ ToSend(requests[q])' = ToSend(requests[q])
    BY <1>2, OthersGoOn
  <2>3. \A m \in mailbox' :
          m \in mailbox \/ (Making(r) /\ ToSend(requests[r]) = m)
    BY <1>2 DEF Making, ToSend
  <2>4. \A m \in Mail : Link(m)' => Link(m)
    BY <1>2, <2>1, <2>2, <2>3 DEF Link
  <2>5. \A m \in Mail : Link(m) => m.token \in Nat /\ m.token <= numbered
    BY DEF LinksInv, Mail, Number
  <2>6. \A m \in Mail : Link(m)' => m.token <= numbered'
    BY <1>2, <2>4, <2>5 DEF TypeOK
  <2>7. ASSUME NEW q \in Requests, Making(q)'
        PROVE  /\ ToSend(requests[q])' \notin mailbox'
               /\ \A p \in Requests :
                    Making(p)' /\ ToSend(requests[p])' = ToSend(requests[q])'
                      => p = q
    BY <2>1, <2>2, <2>3, <2>7 DEF LinksInv
  <2> QED BY <2>4, <2>6, <2>7 DEF LinksInv
<1>3. ASSUME UNCHANGED users
      PROVE  \A m \in Mail : Registered(m.to)' /\ Awaited(m)' = m.token
               => Registered(m.to) /\ Awaited(m) = m.token
  BY <1>3 DEF Registered, Awaited
<1>4. ASSUME NEW r \in Requests, NEW e \in Emails, NEW x \in Request,
             Asks(r, e, x)
      PROVE  LinksInv'
  <2>1. CASE x = Idle
    BY <1>2, <1>3, <1>4, <2>1 DEF Asks
  <2> QED BY <1>1, <1>4, <2>1
<1>5. ASSUME NEW r \in Requests, NEW x, Become(r, x), ~ Making(r)',
             UNCHANGED <<users, mailbox, numbered>>
      PROVE  LinksInv'
  <2>1. \A q \in Requests \ {r} :
          /\ Making(q)' <=> Making(q)
          /\ ToSend(requests[q])' = ToSend(requests[q])
    BY <1>5, OthersGoOn
  <2>2. \A m \in Mail : Link(m)' => Link(m)
    BY <1>3, <1>5, <2>1 DEF Link
  <2>3. \A q \in Requests : Making(q) => ToSend(requests[q]) \notin mailbox'
    BY <1>5 DEF LinksInv
  <2> QED BY <1>5, <2>1, <2>2, <2>3, LinksKept
<1>6. ASSUME NEW r \in Requests, NEW e \in Emails, NEW x \in Request,
             Follows(r, e, x)
      PROVE  LinksInv'
  <2>1. x.pc \in {"idle", "markVerified", "updatePassword"}
    BY <1>6 DEF Follows, Idle, Confirming, Resetting
  <2>2. ~ Making(r)'
    BY <1>6, <2>1, RequestsAfter DEF Making, Follows
  <2> QED BY <1>5, <1>6, <2>2 DEF Follows
<1>7. ASSUME NEW r \in Requests, NEW x, Become(r, x), Making(r),
             ToSend(x) = ToSend(requests[r]),
             UNCHANGED <<mailbox, numbered>>,
             \A m \in Mail : Registered(m.to)' /\ Awaited(m)' = m.token
               => \/ Registered(m.to) /\ Awaited(m) = m.token
                  \/ m = ToSend(requests[r])
      PROVE  LinksInv'
  <2>1. \A q \in Requests \ {r} :
          /\ Making(q)' <=> Making(q)
          /\ ToSend(requests[q])' = ToSend(requests[q])
    BY <1>7, OthersGoOn
  <2>2. ToSend(requests[r])' = ToSend(requests[r])
    BY <1>7, RequestsAfter DEF ToSend
  <2>3. \A m \in Mail : Link(m)' => Link(m)
    BY <1>7, <2>1, <2>2 DEF Link
  <2>4. \A q \in Requests : Making(q) => ToSend(requests[q]) \notin mailbox'
    BY <1>7 DEF LinksInv
  <2> QED BY <1>7, <2>1, <2>2, <2>3, <2>4, LinksKept
<1>8. ASSUME NEW r \in Requests, NEW x \in Request, Goes(r, x) PROVE LinksInv'
  <2>1. CASE x = Idle
    BY <1>2, <1>3, <1>8, <2>1 DEF Goes
  <2>2. CASE x # Idle
    <3>1. /\ Making(r) /\ x \in Registering \cup SettingToken
          /\ x.pc # "setPasswordResetToken"
          /\ requests[r].pc \in {"createCompany", "readAgain"}
          /\ x.email = requests[r].email /\ x.number = requests[r].number
      BY <1>8, <2>2 DEF Goes, Registering
    <3>2. x.pc # "mail"
      BY <3>1, NewRequestFacts
    <3>3. ToSend(x) = ToSend(requests[r])
      BY <3>1, <3>2 DEF ToSend
    <3> QED BY <1>3, <1>7, <1>8, <3>1, <3>3 DEF Goes
  <2> QED BY <2>1, <2>2
<1>9. ASSUME NEW r \in Requests, NEW e \in Emails, NEW row \in User,
             Stores(r, e, row)
      PROVE  LinksInv'
  <2> DEFINE x == [pc |-> "mail", mail |-> ToSend(requests[r])]
  <2>1. /\ Become(r, x) /\ Making(r) /\ ToSend(requests[r]).to = e
        /\ UNCHANGED <<mailbox, numbered>>
    BY <1>9 DEF Stores
  <2>2. ToSend(x) = ToSend(requests[r])
    BY DEF ToSend
  <2>3. \A m \in Mail, q \in Requests, w \in User :
          Stores(q, m.to, w) => m = ToSend(requests[r])
                                  \/ ToSend(requests[q]) # m
    <3> SUFFICES ASSUME NEW m \in Mail, NEW q \in Requests, NEW w \in User,
                        Stores(q, m.to, w), q # r
                 PROVE  FALSE
      OBVIOUS
    <3>1. requests'[r] = requests[r] /\ requests'[r] = x
      BY <2>1, RequestsAfter DEF Stores
    <3>2. requests'[q] = requests[q]
      BY <2>1, RequestsAfter
    <3>3. requests'[q] = [pc |-> "mail", mail |-> ToSend(requests[q])]
      BY RequestsAfter DEF Stores
    <3>4. requests[q].pc # "mail"
      BY DEF Stores
    <3> QED BY <3>2, <3>3, <3>4
  <2>4. \A m \in Mail : Registered(m.to)' /\ Awaited(m)' = m.token
          => \/ Registered(m.to) /\ Awaited(m) = m.token
             \/ m = ToSend(requests[r])
    BY <2>3, AwaitedNext
  <2> QED BY <1>7, <2>1, <2>2, <2>4
<1>10. ASSUME NEW r \in Requests, NEW e \in Emails, NEW row \in User,
              Uses(r, e, row)
       PROVE  LinksInv'
  <2>1. requests'[r] = Idle
    BY <1>10, RequestsAfter DEF Uses
  <2>2. \A m \in Mail, q \in Requests, w \in User : ~ Stores(q, m.to, w)
    <3> SUFFICES ASSUME NEW m \in Mail, NEW q \in Requests, NEW w \in User,
                        Stores(q, m.to, w)
                 PROVE  FALSE
      OBVIOUS
    <3>1. requests'[q].pc = "mail" /\ requests[q].pc # "mail"
      BY RequestsAfter DEF Stores
    <3>2. requests'[q] \in {Idle, requests[q]}
      BY <1>10, RequestsAfter DEF Uses
    <3> QED BY <3>1, <3>2 DEF Idle
  <2>3. \A m \in Mail : Registered(m.to)' /\ Awaited(m)' = m.token
          => Registered(m.to) /\ Awaited(m) = m.token
    BY <2>2, AwaitedNext
  <2> QED BY <1>2, <1>10, <2>3 DEF Uses
<1>11. ASSUME NEW r \in Requests, Sends(r) PROVE LinksInv'
  BY <1>2, <1>3, <1>11 DEF Sends
<1>12. ASSUME Rests PROVE LinksInv'
  BY <1>12 DEF Rests, LinksInv, Link, Making, Registered, Awaited
<1> QED BY <1>4, <1>6, <1>8, <1>9, <1>10, <1>11, <1>12 DEF Forms

(* A request that came with a link keeps it, and a mail that was sent stays. *)
LEMMA CameByLinkNext ==
  ASSUME TypeOK, CameByLinkInv, Forms
  PROVE  CameByLinkInv'
<1> DEFINE Came(request) ==
      /\ request.pc = "markVerified"
           => Mailed("verify-email", request.email, request.token)
      /\ request.pc = "updatePassword"
           => Mailed("reset-password", request.email, request.token)
<1>1. \A q \in Requests : Came(requests[q])
  BY DEF CameByLinkInv
<1>2. mailbox \subseteq mailbox'
  <2>1. ASSUME NEW r \in Requests, NEW e \in Emails, NEW x \in Request,
               Asks(r, e, x) \/ Follows(r, e, x) \/ Goes(r, x)
        PROVE  mailbox' = mailbox
    BY <2>1 DEF Asks, Follows, Goes
  <2>2. ASSUME NEW r \in Requests, NEW e \in Emails, NEW row \in User,
               Stores(r, e, row) \/ Uses(r, e, row)
        PROVE  mailbox' = mailbox
    BY <2>2 DEF Stores, Uses
  <2>3. ASSUME NEW r \in Requests, Sends(r) PROVE mailbox \subseteq mailbox'
    BY <2>3 DEF Sends
  <2>4. ASSUME Rests PROVE mailbox' = mailbox
    BY <2>4 DEF Rests
  <2> QED BY <2>1, <2>2, <2>3, <2>4 DEF Forms
<1>3. ASSUME NEW r \in Requests, NEW x, Become(r, x),
             \/ x.pc \notin {"markVerified", "updatePassword"}
             \/ /\ x.pc = "markVerified"
                /\ Mailed("verify-email", x.email, x.token)
             \/ /\ x.pc = "updatePassword"
                /\ Mailed("reset-password", x.email, x.token)
      PROVE  CameByLinkInv'
  <2>1. requests'[r] = x
    BY <1>3, RequestsAfter
  <2>2. Came(requests[r])'
    BY <1>2, <1>3, <2>1 DEF Mailed
  <2>3. ASSUME NEW q \in Requests \ {r} PROVE Came(requests[q])'
    <3>1. requests'[q] = requests[q]
      BY <1>3, OthersGoOn
    <3> QED BY <1>1, <1>2, <3>1 DEF Mailed
  <2> QED BY <2>2, <2>3 DEF CameByLinkInv
<1>4. Idle.pc \notin {"markVerified", "updatePassword"}
  BY DEF Idle
<1>5. ASSUME NEW r \in Requests, Become(r, Idle) PROVE CameByLinkInv'
  BY <1>3, <1>4, <1>5
<1>6. ASSUME NEW r \in Requests, NEW x,
             x \in Registering \cup ReadingAgain \cup SettingToken, Become(r, x)
      PROVE  CameByLinkInv'
  <2>1. x.pc \notin {"markVerified", "updatePassword"}
    BY <1>6, NewRequestFacts
  <2> QED BY <1>3, <1>6, <2>1
<1>7. ASSUME NEW r \in Requests, NEW e \in Emails, NEW x \in Request,
             Asks(r, e, x) \/ Goes(r, x)
      PROVE  CameByLinkInv'
  BY <1>5, <1>6, <1>7 DEF Asks, Goes
<1>8. ASSUME NEW r \in Requests, NEW e \in Emails, NEW x \in Request,
             Follows(r, e, x)
      PROVE  CameByLinkInv'
  <2>1. Become(r, x)
    BY <1>8 DEF Follows
  <2>2. CASE x = Idle
    BY <1>5, <2>1, <2>2
  <2>3. CASE /\ x \in Confirming /\ x.email = e
             /\ Mailed("verify-email", e, x.token)
    BY <1>3, <2>1, <2>3 DEF Confirming
  <2>4. CASE /\ x \in Resetting /\ x.email = e
             /\ Mailed("reset-password", e, x.token)
    BY <1>3, <2>1, <2>4 DEF Resetting
  <2> QED BY <1>8, <2>2, <2>3, <2>4 DEF Follows
<1>9. ASSUME NEW r \in Requests, NEW e \in Emails, NEW row \in User,
             Stores(r, e, row)
      PROVE  CameByLinkInv'
  <2> DEFINE x == [pc |-> "mail", mail |-> ToSend(requests[r])]
  <2>1. Become(r, x) /\ x.pc = "mail"
    BY <1>9 DEF Stores
  <2> HIDE DEF x
  <2> QED BY <1>3, <2>1
<1>10. ASSUME NEW r \in Requests, NEW e \in Emails, NEW row \in User,
              Uses(r, e, row)
       PROVE  CameByLinkInv'
  BY <1>5, <1>10 DEF Uses
<1>11. ASSUME NEW r \in Requests, Sends(r) PROVE CameByLinkInv'
  BY <1>5, <1>11 DEF Sends
<1>12. ASSUME Rests PROVE CameByLinkInv'
  BY <1>12 DEF Rests, CameByLinkInv, Mailed
<1> QED BY <1>7, <1>8, <1>9, <1>10, <1>11, <1>12 DEF Forms

LEMMA WaitNext ==
  ASSUME TypeOK, WaitInv, Forms
  PROVE  WaitInv'
<1> SUFFICES ASSUME ~ callFailed'
             PROVE  /\ \A m \in Mail :
                         Registered(m.to)' /\ Awaited(m)' = m.token
                           => Coming(m)'
                    /\ \A e \in Emails :
                         Registered(e)' /\ ~ Verified(e)'
                           => users'[e].verificationToken # Null
  BY DEF WaitInv
<1>1. ~ callFailed
  <2>1. ASSUME NEW r \in Requests, NEW e \in Emails, NEW x \in Request,
               Asks(r, e, x) \/ Follows(r, e, x) \/ Goes(r, x)
        PROVE  callFailed' = callFailed
    BY <2>1 DEF Asks, Follows, Goes
  <2>2. ASSUME NEW r \in Requests, NEW e \in Emails, NEW row \in User,
               Stores(r, e, row) \/ Uses(r, e, row)
        PROVE  callFailed' = callFailed
    BY <2>2 DEF Stores, Uses, marks
  <2>3. ASSUME NEW r \in Requests, Sends(r) PROVE callFailed' = callFailed
    BY <2>3 DEF Sends, marks
  <2>4. ASSUME Rests PROVE callFailed' = callFailed
    BY <2>4 DEF Rests, marks
  <2> QED BY <2>1, <2>2, <2>3, <2>4 DEF Forms
<1>2. ASSUME NEW m \in Mail, Coming(m)
      PROVE  Coming(m)'
  <2>1. ASSUME NEW r \in Requests, NEW x, Become(r, x),
               requests[r].pc # "mail", mailbox' = mailbox
        PROVE  Coming(m)'
    BY <1>2, <2>1, RequestsAfter DEF Coming
  <2>2. ASSUME NEW r \in Requests, NEW e \in Emails, NEW x \in Request,
               Asks(r, e, x) \/ Follows(r, e, x) \/ Goes(r, x)
        PROVE  Coming(m)'
    BY <2>1, <2>2 DEF Asks, Follows, Goes, Idle
  <2>3. ASSUME NEW r \in Requests, NEW e \in Emails, NEW row \in User,
               Stores(r, e, row)
        PROVE  Coming(m)'
    BY <2>1, <2>3 DEF Stores
  <2>4. ASSUME NEW r \in Requests, NEW e \in Emails, NEW row \in User,
               Uses(r, e, row)
        PROVE  Coming(m)'
    BY <2>1, <2>4 DEF Uses
  <2>5. ASSUME NEW r \in Requests, Sends(r) PROVE Coming(m)'
    BY <1>2, <2>5, RequestsAfter DEF Coming, Sends
  <2>6. ASSUME Rests PROVE Coming(m)'
    BY <1>2, <2>6 DEF Coming, Rests
  <2> QED BY <2>2, <2>3, <2>4, <2>5, <2>6 DEF Forms
<1>3. ASSUME NEW m \in Mail, Registered(m.to)', Awaited(m)' = m.token
      PROVE  Coming(m)'
  <2>1. CASE Registered(m.to) /\ Awaited(m) = m.token
    BY <1>1, <1>2, <2>1 DEF WaitInv
  <2>2. ASSUME NEW r \in Requests, NEW row \in User,
               Stores(r, m.to, row), ToSend(requests[r]) = m
        PROVE  Coming(m)'
    <3>1. requests'[r] = [pc |-> "mail", mail |-> m]
      BY <2>2, RequestsAfter DEF Stores
    <3> QED BY <3>1 DEF Coming
  <2> QED BY <1>3, <2>1, <2>2, AwaitedNext
<1>4. ASSUME NEW e \in Emails, Registered(e)', ~ Verified(e)'
      PROVE  users'[e].verificationToken # Null
  <2>1. CASE UNCHANGED users
    BY <1>1, <1>4, <2>1 DEF WaitInv, Registered, Verified
  <2>2. ASSUME NEW r \in Requests, NEW f \in Emails, NEW row \in User,
               Changed(f, row), f # e
        PROVE  users'[e].verificationToken # Null
    <3>1. users'[e] = users[e]
      BY <2>2, RowsAfter
    <3> QED BY <1>1, <1>4, <3>1 DEF WaitInv, Registered, Verified
  <2>3. ASSUME NEW r \in Requests, NEW f \in Emails, NEW row \in User,
               Stores(r, f, row)
        PROVE  users'[e].verificationToken # Null
    <3>1. Changed(f, row)
      BY <2>3 DEF Stores
    <3>2. CASE f # e
      BY <2>2, <3>1, <3>2
    <3>3. CASE f = e
      <4>1. users'[e] = row
        BY <3>1, <3>3, RowsAfter
      <4>2. requests[r].number # Null
        <5>1. ToSend(requests[r]).token \in Number
          BY <2>3, RequestFacts DEF Stores, Mail
        <5>2. ToSend(requests[r]).token = requests[r].number
          BY <2>3 DEF Stores, ToSend
        <5> QED BY <5>1, <5>2 DEF Number, Null
      <4>3. Registered(e) => users[e] \in User
        BY DEF TypeOK, Registered
      <4>4. \/ row.verificationToken = requests[r].number
            \/ /\ row.verificationToken = users[e].verificationToken
               /\ row.verified = users[e].verified /\ Registered(e)
        BY <2>3, <3>3, <4>3 DEF Stores, User
      <4> QED BY <1>1, <1>4, <4>1, <4>2, <4>4 DEF WaitInv, Verified
    <3> QED BY <3>2, <3>3
  <2>4. ASSUME NEW r \in Requests, NEW f \in Emails, NEW row \in User,
               Uses(r, f, row)
        PROVE  users'[e].verificationToken # Null
    <3>1. Changed(f, row) /\ Registered(f)
      BY <2>4 DEF Uses
    <3>2. CASE f # e
      BY <2>2, <3>1, <3>2, <2>4
    <3>3. CASE f = e
      <4>1. users'[e] = row
        BY <3>1, <3>3, RowsAfter
      <4>2. users[e] \in User
        BY <3>1, <3>3 DEF TypeOK, Registered
      <4>3. row.verified
        BY <2>4, <3>3, <4>2 DEF Uses, User, Verified
      <4> QED BY <1>4, <4>1, <4>3 DEF Verified
    <3> QED BY <3>2, <3>3
  <2>5. ASSUME NEW r \in Requests, NEW f \in Emails, NEW x \in Request,
               Asks(r, f, x) \/ Follows(r, f, x) \/ Goes(r, x)
        PROVE  UNCHANGED users
    BY <2>5 DEF Asks, Follows, Goes
  <2>6. ASSUME NEW r \in Requests, Sends(r) PROVE UNCHANGED users
    BY <2>6 DEF Sends
  <2>7. ASSUME Rests PROVE UNCHANGED users
    BY <2>7 DEF Rests
  <2> QED BY <2>1, <2>3, <2>4, <2>5, <2>6, <2>7 DEF Forms
<1> QED BY <1>3, <1>4

(* A request that makes a link made it before the step, or has just arrived. *)
LEMMA MakersGoOn ==
  ASSUME TypeOK, Forms, NEW q \in Requests, Making(q)'
  PROVE  \/ Making(q) /\ ToSend(requests[q])' = ToSend(requests[q])
         \/ \E e \in Emails, x \in Request :
              Asks(q, e, x) /\ x # Idle /\ requests'[q] = x
<1> SUFFICES ASSUME ~ (Making(q) /\ ToSend(requests[q])' = ToSend(requests[q]))
             PROVE  \E e \in Emails, x \in Request :
                      Asks(q, e, x) /\ x # Idle /\ requests'[q] = x
  OBVIOUS
<1>1. ASSUME NEW r \in Requests, NEW x, Become(r, x)
      PROVE  q = r /\ requests'[r] = x /\ Making(r)'
  <2>1. q = r
    BY <1>1, OthersGoOn
  <2>2. requests'[r] = x
    BY <1>1, RequestsAfter
  <2> QED BY <2>1, <2>2
<1>2. ASSUME NEW r \in Requests, Become(r, Idle) PROVE FALSE
  BY <1>1, <1>2 DEF Making, Idle
<1>3. ASSUME NEW r \in Requests, NEW e \in Emails, NEW x \in Request,
             Asks(r, e, x)
      PROVE  \E f \in Emails, y \in Request :
               Asks(q, f, y) /\ y # Idle /\ requests'[q] = y
  <2>1. Become(r, x) /\ x # Idle
    BY <1>2, <1>3 DEF Asks
  <2>2. q = r /\ requests'[r] = x
    BY <1>1, <2>1
  <2> QED BY <1>3, <2>1, <2>2
<1>4. ASSUME NEW r \in Requests, NEW e \in Emails, NEW x \in Request,
             Follows(r, e, x)
      PROVE  FALSE
  <2>1. Become(r, x) /\ x.pc \in {"idle", "markVerified", "updatePassword"}
    BY <1>4 DEF Follows, Idle, Confirming, Resetting
  <2> QED BY <1>1, <2>1 DEF Making
<1>5. ASSUME NEW r \in Requests, NEW x \in Request, Goes(r, x) PROVE FALSE
  <2>1. Become(r, x) /\ x # Idle
    BY <1>2, <1>5 DEF Goes
  <2>2. /\ Making(r) /\ x \in Registering \cup SettingToken
        /\ x.pc # "setPasswordResetToken"
        /\ requests[r].pc \in {"createCompany", "readAgain"}
        /\ x.email = requests[r].email /\ x.number = requests[r].number
    BY <1>5, <2>1 DEF Goes, Registering
  <2>3. x.pc # "mail"
    BY <2>2, NewRequestFacts
  <2>4. ToSend(x) = ToSend(requests[r])
    BY <2>2, <2>3 DEF ToSend
  <2>5. q = r /\ requests'[r] = x
    BY <1>1, <2>1
  <2>6. ToSend(requests[r])' = ToSend(x)
    BY <2>5 DEF ToSend
  <2> QED BY <2>2, <2>4, <2>5, <2>6
<1>6. ASSUME NEW r \in Requests, NEW e \in Emails, NEW row \in User,
             Stores(r, e, row)
      PROVE  FALSE
  <2> DEFINE x == [pc |-> "mail", mail |-> ToSend(requests[r])]
  <2>1. Become(r, x) /\ Making(r)
    BY <1>6 DEF Stores
  <2>2. q = r /\ requests'[r] = x
    BY <1>1, <2>1
  <2>3. ToSend(requests[r])' = ToSend(requests[r])
    BY <2>2 DEF ToSend
  <2> QED BY <2>1, <2>2, <2>3
<1>7. ASSUME NEW r \in Requests, NEW e \in Emails, NEW row \in User,
             Uses(r, e, row)
      PROVE  FALSE
  BY <1>2, <1>7 DEF Uses
<1>8. ASSUME NEW r \in Requests, Sends(r) PROVE FALSE
  BY <1>2, <1>8 DEF Sends
<1>9. ASSUME Rests PROVE FALSE
  BY <1>9 DEF Rests, Making, ToSend
<1> QED BY <1>3, <1>4, <1>5, <1>6, <1>7, <1>8, <1>9 DEF Forms

(* A link that is new is that of a request that has just arrived.            *)
LEMMA LinkNext ==
  ASSUME TypeOK, Forms, NEW m \in Mail, Link(m)'
  PROVE  \/ Link(m)
         \/ \E r \in Requests, e \in Emails, x \in Request :
              Asks(r, e, x) /\ x # Idle /\ m = ToSend(x)
<1>1. CASE Registered(m.to)' /\ Awaited(m)' = m.token
  BY <1>1, AwaitedNext DEF Link, Stores
<1>2. CASE m \in mailbox'
  <2>1. ASSUME NEW r \in Requests, NEW e \in Emails, NEW x \in Request,
               Asks(r, e, x) \/ Follows(r, e, x) \/ Goes(r, x)
        PROVE  m \in mailbox
    BY <1>2, <2>1 DEF Asks, Follows, Goes
  <2>2. ASSUME NEW r \in Requests, NEW e \in Emails, NEW row \in User,
               Stores(r, e, row) \/ Uses(r, e, row)
        PROVE  m \in mailbox
    BY <1>2, <2>2 DEF Stores, Uses
  <2>3. ASSUME NEW r \in Requests, Sends(r) PROVE Link(m)
    BY <1>2, <2>3 DEF Sends, Link, Making, ToSend
  <2>4. ASSUME Rests PROVE m \in mailbox
    BY <1>2, <2>4 DEF Rests
  <2> QED BY <2>1, <2>2, <2>3, <2>4 DEF Forms, Link
<1>3. ASSUME NEW q \in Requests, Making(q)', ToSend(requests[q])' = m
      PROVE  \/ Link(m)
             \/ \E r \in Requests, e \in Emails, x \in Request :
                  Asks(r, e, x) /\ x # Idle /\ m = ToSend(x)
  <2>1. CASE Making(q) /\ ToSend(requests[q])' = ToSend(requests[q])
    BY <1>3, <2>1 DEF Link
  <2>2. ASSUME NEW e \in Emails, NEW x \in Request,
               Asks(q, e, x), x # Idle, requests'[q] = x
        PROVE  \E r \in Requests, f \in Emails, y \in Request :
                 Asks(r, f, y) /\ y # Idle /\ m = ToSend(y)
    <3>1. m = ToSend(x)
      BY <1>3, <2>2 DEF ToSend
    <3> QED BY <2>2, <3>1
  <2> QED BY <1>3, <2>1, <2>2, MakersGoOn
<1> QED BY <1>1, <1>2, <1>3 DEF Link

(* As long as no requests overlap, nobody else is at work on the address of  *)
(* a request that acts.                                                      *)
LEMMA NoOverlapYet ==
  ASSUME TypeOK, Forms, ~ overlapped'
  PROVE  /\ ~ overlapped
         /\ \A r \in Requests, e \in Emails, x \in Request :
              Asks(r, e, x) \/ Follows(r, e, x)
                => \A q \in Requests :
                     requests[q] # Idle => About(requests[q]) # e
<1>1. ASSUME NEW r \in Requests, NEW e \in Emails, NEW x \in Request,
             Asks(r, e, x) \/ Follows(r, e, x)
      PROVE  /\ ~ overlapped
             /\ \A q \in Requests :
                  requests[q] # Idle => About(requests[q]) # e
  BY <1>1 DEF Asks, Follows, MarkOverlap
<1>2. ASSUME NEW r \in Requests, NEW x \in Request, Goes(r, x)
      PROVE  ~ overlapped
  BY <1>2 DEF Goes
<1>3. ASSUME NEW r \in Requests, NEW e \in Emails, NEW row \in User,
             Stores(r, e, row) \/ Uses(r, e, row)
      PROVE  ~ overlapped
  BY <1>3 DEF Stores, Uses, marks
<1>4. ASSUME NEW r \in Requests, Sends(r) PROVE ~ overlapped
  BY <1>4 DEF Sends, marks
<1>5. ASSUME Rests PROVE ~ overlapped
  BY <1>5 DEF Rests, marks
<1> QED BY <1>1, <1>2, <1>3, <1>4, <1>5 DEF Forms

LEMMA AloneNext ==
  ASSUME TypeOK, FoundInv, Alone, Forms, ~ overlapped'
  PROVE  Alone'
<1> DEFINE Taken(request) ==
      request.pc \in {"createCompany", "createUser"}
        => ~ Registered(request.email)
(* A request that goes on stays with its address, and a new one is alone.    *)
<1>1. ASSUME NEW r \in Requests, NEW x, Become(r, x),
             x = Idle \/ \A q \in Requests \ {r} :
                           requests[q] # Idle => About(requests[q]) # About(x),
             Taken(requests[r])',
             \A q \in Requests \ {r} : Taken(requests[q])'
      PROVE  Alone'
  <2>1. requests'[r] = x /\ About(requests[r])' = About(x)
    BY <1>1, RequestsAfter DEF About
  <2>2. \A q \in Requests \ {r} :
          /\ requests'[q] = requests[q]
          /\ About(requests[q])' = About(requests[q])
    BY <1>1, OthersGoOn
  <2>3. ASSUME NEW p \in Requests, NEW q \in Requests,
               requests'[p] # Idle, requests'[q] # Idle,
               About(requests[p])' = About(requests[q])'
        PROVE  p = q
    <3>1. CASE p # r /\ q # r
      BY <2>2, <2>3, <3>1 DEF Alone
    <3>2. CASE p = r /\ q # r
      BY <1>1, <2>1, <2>2, <2>3, <3>2
    <3>3. CASE p # r /\ q = r
      BY <1>1, <2>1, <2>2, <2>3, <3>3
    <3> QED BY <3>1, <3>2, <3>3
  <2> QED BY <1>1, <2>3 DEF Alone
<1>2. ASSUME NEW r \in Requests, NEW x, Become(r, x), UNCHANGED users
      PROVE  \A q \in Requests \ {r} : Taken(requests[q])'
  BY <1>2, OthersGoOn DEF Alone, Registered
<1>3. ASSUME NEW r \in Requests, Become(r, Idle)
      PROVE  Taken(requests[r])'
  BY <1>3, RequestsAfter DEF Idle
<1>4. ASSUME NEW r \in Requests, requests[r] # Idle
      PROVE  \A q \in Requests \ {r} :
               requests[q] # Idle => About(requests[q]) # About(requests[r])
  BY <1>4 DEF Alone
<1>5. ASSUME NEW r \in Requests, NEW e \in Emails, NEW x \in Request,
             Asks(r, e, x)
      PROVE  Alone'
  <2>1. Become(r, x) /\ UNCHANGED users
    BY <1>5 DEF Asks
  <2>2. CASE x = Idle
    BY <1>1, <1>2, <1>3, <2>1, <2>2
  <2>3. CASE x # Idle
    <3>1. /\ \/ x \in Registering /\ ~ Registered(e)
             \/ x \in ReadingAgain \cup SettingToken
          /\ x.email = e
      BY <1>5, <2>3 DEF Asks
    <3>2. About(x) = e
      BY <3>1, NewRequestFacts
    <3>3. \A q \in Requests \ {r} :
            requests[q] # Idle => About(requests[q]) # About(x)
      BY <1>5, <3>2, NoOverlapYet
    <3>4. x \in ReadingAgain \cup SettingToken
            => x.pc \notin {"createCompany", "createUser"}
      BY DEF ReadingAgain, SettingToken
    <3>5. Taken(requests[r])'
      BY <2>1, <3>1, <3>4, RequestsAfter DEF Registered
    <3> QED BY <1>1, <1>2, <2>1, <3>3, <3>5
  <2> QED BY <2>2, <2>3
<1>6. ASSUME NEW r \in Requests, NEW e \in Emails, NEW x \in Request,
             Follows(r, e, x)
      PROVE  Alone'
  <2>1. Become(r, x) /\ UNCHANGED users
    BY <1>6 DEF Follows
  <2>2. CASE x = Idle
    BY <1>1, <1>2, <1>3, <2>1, <2>2
  <2>3. CASE x # Idle
    <3>1. x.pc \in {"markVerified", "updatePassword"} /\ About(x) = e
      BY <1>6, <2>3 DEF Follows, Confirming, Resetting, About
    <3>2. \A q \in Requests \ {r} :
            requests[q] # Idle => About(requests[q]) # About(x)
      BY <1>6, <3>1, NoOverlapYet
    <3>3. Taken(requests[r])'
      BY <2>1, <3>1, RequestsAfter
    <3> QED BY <1>1, <1>2, <2>1, <3>2, <3>3
  <2> QED BY <2>2, <2>3
<1>7. ASSUME NEW r \in Requests, NEW x \in Request, Goes(r, x) PROVE Alone'
  <2>1. Become(r, x) /\ UNCHANGED users /\ requests[r] # Idle
    BY <1>7 DEF Goes
  <2>2. CASE x = Idle
    BY <1>1, <1>2, <1>3, <2>1, <2>2
  <2>3. CASE x # Idle
    <3>1. /\ \/ requests[r].pc = "createCompany" /\ x \in Registering
             \/ requests[r].pc = "readAgain" /\ x \in SettingToken
          /\ x.email = requests[r].email
      BY <1>7, <2>3 DEF Goes
    <3>2. About(x) = About(requests[r])
      BY <3>1, NewRequestFacts DEF About
    <3>3. x \in SettingToken => x.pc \notin {"createCompany", "createUser"}
      BY DEF SettingToken
    <3>4. Taken(requests[r])'
      BY <2>1, <3>1, <3>3, RequestsAfter DEF Registered, Alone
    <3> QED BY <1>1, <1>2, <1>4, <2>1, <3>2, <3>4
  <2> QED BY <2>2, <2>3
<1>8. ASSUME NEW r \in Requests, NEW e \in Emails, NEW row \in User,
             Stores(r, e, row)
      PROVE  Alone'
  <2> DEFINE x == [pc |-> "mail", mail |-> ToSend(requests[r])]
  <2>1. /\ Become(r, x) /\ Changed(e, row) /\ requests[r] # Idle
        /\ About(requests[r]) = e
    BY <1>8, RequestFacts DEF Stores
  <2>2. x.pc = "mail" /\ About(x) = e
    BY <1>8 DEF Stores, About
  <2>3. Taken(requests[r])'
    BY <2>1, <2>2, RequestsAfter
  <2>4. ASSUME NEW q \in Requests \ {r} PROVE Taken(requests[q])'
    <3>1. requests'[q] = requests[q]
      BY <2>1, OthersGoOn
    <3>2. ASSUME requests[q].pc \in {"createCompany", "createUser"}
          PROVE  users'[requests[q].email] = NoAccount
      <4>1. requests[q] # Idle /\ About(requests[q]) = requests[q].email
            /\ requests[q].email \in Emails
        BY <3>2, RequestFacts DEF About, Making
      <4>2. requests[q].email # e
        BY <1>4, <2>1, <4>1
      <4>3. users[requests[q].email] = NoAccount
        BY <3>2 DEF Alone, Registered
      <4>4. users'[requests[q].email] = users[requests[q].email]
        BY <2>1, <4>1, <4>2, RowsAfter
      <4> QED BY <4>3, <4>4
    <3> QED BY <3>1, <3>2 DEF Registered
  <2> HIDE DEF x
  <2> QED BY <1>1, <1>4, <2>1, <2>2, <2>3, <2>4
<1>9. ASSUME NEW r \in Requests, NEW e \in Emails, NEW row \in User,
             Uses(r, e, row)
      PROVE  Alone'
  <2>1. Become(r, Idle) /\ Changed(e, row) /\ Registered(e)
    BY <1>9 DEF Uses
  <2>2. ASSUME NEW q \in Requests \ {r} PROVE Taken(requests[q])'
    <3>1. requests'[q] = requests[q]
      BY <2>1, OthersGoOn
    <3>2. ASSUME requests[q].pc \in {"createCompany", "createUser"}
          PROVE  users'[requests[q].email] = NoAccount
      <4>1. requests[q].email \in Emails
        BY <3>2, RequestTypes DEF Registering
      <4>2. users[requests[q].email] = NoAccount
        BY <3>2 DEF Alone, Registered
      <4>3. users'[requests[q].email] = users[requests[q].email]
        BY <2>1, <4>1, <4>2, RowsAfter DEF Registered
      <4> QED BY <4>2, <4>3
    <3> QED BY <3>1, <3>2 DEF Registered
  <2> QED BY <1>1, <1>3, <2>1, <2>2
<1>10. ASSUME NEW r \in Requests, Sends(r) PROVE Alone'
  BY <1>1, <1>2, <1>3, <1>10 DEF Sends
<1>11. ASSUME Rests PROVE Alone'
  BY <1>11 DEF Rests, Alone, About, Registered
<1> QED BY <1>5, <1>6, <1>7, <1>8, <1>9, <1>10, <1>11 DEF Forms

(* The link that a request makes stays the newest of its address ...         *)
LEMMA NewestMadeNext ==
  ASSUME TypeOK, LinksInv, MakesTheNewest, Forms, ~ overlapped',
         NEW q \in Requests, NEW m \in Mail,
         Making(q)', Link(m)', m.to = About(requests[q])'
  PROVE  m.token <= ToSend(requests[q]).token'
<1>0. m.token \in Number
  BY DEF Mail
<1>1. ASSUME NEW r \in Requests, NEW e \in Emails, NEW x \in Request,
             Asks(r, e, x), x # Idle
      PROVE  /\ ToSend(x).token = numbered + 1 /\ ToSend(x).to = e
             /\ About(x) = e /\ requests'[r] = x
             /\ \A p \in Requests \ {r} : Making(p)' => About(requests[p])' # e
  <2>1. /\ x \in Registering \cup ReadingAgain \cup SettingToken
        /\ x.email = e /\ x.number = numbered + 1 /\ Become(r, x)
    BY <1>1 DEF Asks
  <2>2. /\ ToSend(x).token = numbered + 1 /\ ToSend(x).to = e /\ About(x) = e
    BY <2>1, NewRequestFacts
  <2>3. requests'[r] = x
    BY <2>1, RequestsAfter
  <2>4. ASSUME NEW p \in Requests \ {r}, Making(p)'
        PROVE  About(requests[p])' # e
    <3>1. Making(p) /\ About(requests[p])' = About(requests[p])
      BY <2>1, <2>4, OthersGoOn
    <3> QED BY <1>1, <3>1, NoOverlapYet, RequestFacts
  <2> QED BY <2>2, <2>3, <2>4
<1>2. ASSUME NEW r \in Requests, NEW e \in Emails, NEW x \in Request,
             Asks(r, e, x), x # Idle, m = ToSend(x)
      PROVE  m.token <= ToSend(requests[q]).token'
  <2>1. q = r
    BY <1>1, <1>2
  <2>2. ToSend(requests[q])' = m
    BY <1>1, <1>2, <2>1 DEF ToSend
  <2> QED BY <1>0, <2>2 DEF Number
<1>3. ASSUME Link(m), NEW e \in Emails, NEW x \in Request,
             Asks(q, e, x), x # Idle
      PROVE  m.token <= ToSend(requests[q]).token'
  <2>1. m.token <= numbered
    BY <1>3 DEF LinksInv
  <2>2. requests'[q] = x /\ ToSend(x).token = numbered + 1
    BY <1>1, <1>3
  <2>3. ToSend(requests[q]).token' = numbered + 1
    BY <2>2 DEF ToSend
  <2> QED BY <1>0, <2>1, <2>3 DEF TypeOK, Number
<1>4. ASSUME Link(m), Making(q), ToSend(requests[q])' = ToSend(requests[q])
      PROVE  m.token <= ToSend(requests[q]).token'
  <2>1. About(requests[q]) = ToSend(requests[q]).to
    BY <1>4, RequestFacts
  <2>2. About(requests[q])' = ToSend(requests[q])'.to
    BY DEF Making, About, ToSend
  <2> QED BY <1>4, <2>1, <2>2 DEF MakesTheNewest
<1> QED BY <1>2, <1>3, <1>4, LinkNext, MakersGoOn

(* ... and the row awaits it from the moment that it is stored.              *)
LEMMA StoredIsAwaitedNext ==
  ASSUME TypeOK, Alone, MakesTheNewest, Forms,
         NEW q \in Requests, requests'[q].pc = "mail"
  PROVE  Awaited(requests[q].mail)' = requests[q].mail.token'
<1>1. ASSUME requests'[q] = requests[q],
             users'[requests[q].mail.to] = users[requests[q].mail.to]
      PROVE  Awaited(requests[q].mail)' = requests[q].mail.token'
  BY <1>1 DEF MakesTheNewest, Awaited
<1>2. ASSUME NEW r \in Requests, NEW x, Become(r, x), x.pc # "mail"
      PROVE  q # r /\ requests'[q] = requests[q]
  BY <1>2, RequestsAfter
<1>3. ASSUME NEW r \in Requests, NEW e \in Emails, NEW row \in User,
             Changed(e, row), requests[r] # Idle, About(requests[r]) = e,
             q # r, requests'[q] = requests[q]
      PROVE  Awaited(requests[q].mail)' = requests[q].mail.token'
  <2>1. /\ requests[q] # Idle /\ About(requests[q]) = requests[q].mail.to
        /\ About(requests[q]) \in Emails
    BY <1>3, RequestFacts DEF About, Idle
  <2>2. requests[q].mail.to # e
    BY <1>3, <2>1 DEF Alone
  <2>3. users'[requests[q].mail.to] = users[requests[q].mail.to]
    BY <1>3, <2>1, <2>2, RowsAfter
  <2> QED BY <1>1, <1>3, <2>3
<1>4. ASSUME NEW r \in Requests, NEW e \in Emails, NEW x \in Request,
             Asks(r, e, x) \/ Follows(r, e, x) \/ Goes(r, x)
      PROVE  Awaited(requests[q].mail)' = requests[q].mail.token'
  <2>1. Become(r, x) /\ UNCHANGED users
    BY <1>4 DEF Asks, Follows, Goes
  <2>2. x \in {Idle} \cup Registering \cup ReadingAgain \cup SettingToken
              \cup Confirming \cup Resetting
    BY <1>4 DEF Asks, Follows, Goes
  <2>3. x.pc # "mail"
    BY <2>2 DEF Idle, Registering, ReadingAgain, SettingToken, Confirming,
                Resetting
  <2> QED BY <1>1, <1>2, <2>1, <2>3
<1>5. ASSUME NEW r \in Requests, NEW e \in Emails, NEW row \in User,
             Stores(r, e, row)
      PROVE  Awaited(requests[q].mail)' = requests[q].mail.token'
  <2> DEFINE n == ToSend(requests[r])
  <2>1. /\ Become(r, [pc |-> "mail", mail |-> n]) /\ Changed(e, row)
        /\ requests[r] # Idle /\ About(requests[r]) = e /\ n.to = e
    BY <1>5, RequestFacts DEF Stores
  <2>2. CASE q # r
    BY <1>3, <2>1, <2>2, OthersGoOn
  <2>3. CASE q = r
    <3>1. users'[e] = row
      BY <2>1, RowsAfter
    <3>2. requests'[q].mail = n
      BY <2>1, <2>3, RequestsAfter
    <3>3. /\ n.token = requests[r].number
          /\ n.kind = IF requests[r].pc = "setPasswordResetToken"
                        THEN "reset-password" ELSE "verify-email"
      BY <1>5 DEF Stores, ToSend
    <3>4. Registered(e) => users[e] \in User
      BY DEF TypeOK, Registered
    <3>5. IF requests[r].pc = "setPasswordResetToken"
            THEN row.resetToken = requests[r].number
            ELSE row.verificationToken = requests[r].number
      BY <1>5, <3>4 DEF Stores, User
    <3>6. n.token = IF n.kind = "verify-email"
                      THEN users'[n.to].verificationToken
                      ELSE users'[n.to].resetToken
      BY <2>1, <3>1, <3>3, <3>5
    <3> QED BY <3>2, <3>6 DEF Awaited
  <2> QED BY <2>2, <2>3
<1>6. ASSUME NEW r \in Requests, NEW e \in Emails, NEW row \in User,
             Uses(r, e, row)
      PROVE  Awaited(requests[q].mail)' = requests[q].mail.token'
  <2>1. /\ Become(r, Idle) /\ Changed(e, row) /\ requests[r] # Idle
        /\ About(requests[r]) = e
    BY <1>6 DEF Uses, About, Idle
  <2>2. q # r /\ requests'[q] = requests[q]
    BY <1>2, <2>1 DEF Idle
  <2> QED BY <1>3, <2>1, <2>2
<1>7. ASSUME NEW r \in Requests, Sends(r)
      PROVE  Awaited(requests[q].mail)' = requests[q].mail.token'
  <2>1. Become(r, Idle) /\ UNCHANGED users
    BY <1>7 DEF Sends
  <2> QED BY <1>1, <1>2, <2>1 DEF Idle
<1>8. ASSUME Rests
      PROVE  Awaited(requests[q].mail)' = requests[q].mail.token'
  BY <1>1, <1>8 DEF Rests
<1> QED BY <1>4, <1>5, <1>6, <1>7, <1>8 DEF Forms
LEMMA MailboxNext ==
  ASSUME Forms
  PROVE  UNCHANGED mailbox \/ \E r \in Requests : Sends(r)
<1>1. ASSUME NEW r \in Requests, NEW e \in Emails, NEW x \in Request,
             Asks(r, e, x) \/ Follows(r, e, x) \/ Goes(r, x)
      PROVE  UNCHANGED mailbox
  BY <1>1 DEF Asks, Follows, Goes
<1>2. ASSUME NEW r \in Requests, NEW e \in Emails, NEW row \in User,
             Stores(r, e, row) \/ Uses(r, e, row)
      PROVE  UNCHANGED mailbox
  BY <1>2 DEF Stores, Uses
<1>3. ASSUME Rests PROVE UNCHANGED mailbox
  BY <1>3 DEF Rests
<1> QED BY <1>1, <1>2, <1>3 DEF Forms

(* A row that awaits another link than before awaits the one that has just   *)
(* been stored, which is newer than every link that was mailed.              *)
LEMMA AwaitsTheNewestNext ==
  ASSUME TypeOK, MakesTheNewest, AwaitsTheNewest, Forms
  PROVE  AwaitsTheNewest'
<1> SUFFICES ASSUME NEW m \in mailbox', Registered(m.to)', Awaited(m)' # Null
             PROVE  m.token <= Awaited(m)'
  BY DEF AwaitsTheNewest
<1>1. mailbox' \subseteq Mail
  <2>1. ASSUME NEW r \in Requests, Sends(r) PROVE mailbox' \subseteq Mail
    BY <2>1, RequestTypes DEF Sends, Mailing, TypeOK
  <2> QED BY <2>1, MailboxNext DEF TypeOK
<1>2. m \in Mail /\ m.to \in Emails
  BY <1>1 DEF Mail
<1>3. users'[m.to] \in User
  BY <1>2, UsersNext DEF Registered
<1>4. Awaited(m)' \in Number
  BY <1>3 DEF Awaited, User, OrNull
<1>5. PICK n \in Mail : n.to = m.to /\ n.kind = m.kind /\ n.token = Awaited(m)'
  <2>1. [m EXCEPT !.token = Awaited(m)'] \in Mail
    BY <1>2, <1>4 DEF Mail
  <2> QED BY <1>2, <2>1 DEF Mail
<1>6. Awaited(n)' = n.token /\ Awaited(n) = Awaited(m)
  BY <1>5 DEF Awaited
<1>7. CASE m \in mailbox
  <2>1. CASE Registered(n.to) /\ Awaited(n) = n.token
    BY <1>4, <1>5, <1>6, <1>7, <2>1 DEF AwaitsTheNewest, Number, Null
  <2>2. ASSUME NEW r \in Requests, NEW row \in User,
               Stores(r, n.to, row), ToSend(requests[r]) = n
        PROVE  m.token <= Awaited(m)'
    <3>1. Making(r) /\ m.to = About(requests[r])
      BY <1>5, <2>2, RequestFacts DEF Stores
    <3>2. Link(m)
      BY <1>7 DEF Link
    <3>3. m.token <= ToSend(requests[r]).token
      BY <1>2, <3>1, <3>2 DEF MakesTheNewest
    <3> QED BY <1>5, <2>2, <3>3
  <2> QED BY <1>5, <1>6, <2>1, <2>2, AwaitedNext
<1>8. CASE m \notin mailbox
  <2>1. PICK r \in Requests : Sends(r)
    BY <1>8, MailboxNext
  <2>2. m = requests[r].mail /\ requests[r].pc = "mail" /\ UNCHANGED users
    BY <1>8, <2>1 DEF Sends
  <2>3. Awaited(m) = m.token /\ Awaited(m)' = Awaited(m)
    BY <2>2 DEF MakesTheNewest, Awaited
  <2> QED BY <1>4, <2>3 DEF Number
<1> QED BY <1>7, <1>8

LEMMA AloneInvNext ==
  ASSUME TypeOK, FoundInv, LinksInv, AloneInv, Forms
  PROVE  AloneInv'
<1> SUFFICES ASSUME ~ overlapped'
             PROVE  Alone' /\ MakesTheNewest' /\ AwaitsTheNewest'
  BY DEF AloneInv
<1>1. Alone /\ MakesTheNewest /\ AwaitsTheNewest
  BY NoOverlapYet DEF AloneInv
<1>2. Alone'
  BY <1>1, AloneNext
<1>3. MakesTheNewest'
  BY <1>1, NewestMadeNext, StoredIsAwaitedNext DEF MakesTheNewest
<1> QED BY <1>1, <1>2, <1>3, AwaitsTheNewestNext

(* A company keeps its account, or the registration that will give it one.   *)
LEMMA CompaniesHaveAnAccountNext ==
  ASSUME TypeOK, FoundInv, AloneInv, CompaniesHaveAnAccount, Forms, [Next]_vars
  PROVE  CompaniesHaveAnAccount'
<1> DEFINE ByAccount(c) ==
             \E e \in Emails : Registered(e) /\ users[e].company = c
           ByRequest(c) ==
             \E r \in Requests : /\ requests[r].pc = "createUser"
                                 /\ requests[r].company = c
<1> SUFFICES ASSUME ~ callFailed', ~ overlapped', NEW c \in companies'
             PROVE  ByAccount(c)' \/ ByRequest(c)'
  BY DEF CompaniesHaveAnAccount
<1>1. ~ overlapped /\ Alone
  BY NoOverlapYet DEF AloneInv
<1>2. ASSUME NEW e \in Emails, Registered(e), users[e].company = c
      PROVE  ByAccount(c)'
  <2>1. Registered(e)' /\ payloadOf(e)' = payloadOf(e)
    BY <1>2, AccountsStay
  <2> QED BY <1>2, <2>1 DEF payloadOf
<1>3. ASSUME NEW q \in Requests, requests[q].pc = "createUser",
             requests[q].company = c
      PROVE  ByAccount(c)' \/ ByRequest(c)'
  <2>1. requests[q] # Idle
    BY <1>3 DEF Idle
  <2>2. requests[q] \in Registering /\ requests[q].email \in Emails
        /\ ~ Registered(requests[q].email)
    BY <1>1, <1>3, RequestTypes DEF Alone, Registering
  <2>3. ASSUME NEW r \in Requests, NEW x, Become(r, x), r # q
        PROVE  ByRequest(c)'
    BY <1>3, <2>3, OthersGoOn
  <2>4. ASSUME NEW r \in Requests, NEW e \in Emails, NEW x \in Request,
               Asks(r, e, x) \/ Follows(r, e, x)
        PROVE  ByRequest(c)'
    BY <2>1, <2>3, <2>4 DEF Asks, Follows
  <2>5. ASSUME NEW r \in Requests, NEW x \in Request, Goes(r, x)
        PROVE  ByRequest(c)'
    <3>1. Become(r, x)
      BY <2>5 DEF Goes
    <3>2. r # q
      BY <1>3, <2>2, <2>5 DEF Goes
    <3> QED BY <2>3, <3>1, <3>2
  <2>6. ASSUME NEW r \in Requests, NEW e \in Emails, NEW row \in User,
               Stores(r, e, row)
        PROVE  ByAccount(c)' \/ ByRequest(c)'
    <3>1. /\ Become(r, [pc |-> "mail", mail |-> ToSend(requests[r])])
          /\ Changed(e, row)
      BY <2>6 DEF Stores
    <3>2. CASE r # q
      BY <2>3, <3>1, <3>2
    <3>3. CASE r = q
      <4>1. row.company = c
        BY <1>3, <2>6, <3>3 DEF Stores
      <4>2. users'[e] = row /\ Registered(e)'
        BY <3>1, RowsAfter
      <4> QED BY <4>1, <4>2
    <3> QED BY <3>2, <3>3
  <2>7. ASSUME NEW r \in Requests, NEW e \in Emails, NEW row \in User,
               Uses(r, e, row)
        PROVE  ByRequest(c)'
    <3>1. Become(r, Idle) /\ r # q
      BY <1>3, <2>7 DEF Uses
    <3> QED BY <2>3, <3>1
  <2>8. ASSUME NEW r \in Requests, Sends(r) PROVE ByRequest(c)'
    <3>1. Become(r, Idle) /\ r # q
      BY <1>3, <2>8 DEF Sends
    <3> QED BY <2>3, <3>1
  <2>9. ASSUME Rests PROVE ByRequest(c)'
    BY <1>3, <2>9 DEF Rests
  <2> HIDE DEF ByAccount, ByRequest
  <2> QED BY <2>4, <2>5, <2>6, <2>7, <2>8, <2>9 DEF Forms
<1>4. ASSUME NEW r \in Requests, CreateCompany(r), c \notin companies
      PROVE  ByRequest(c)'
  <2> DEFINE x == [requests[r] EXCEPT !.pc = "createUser",
                                      !.company = requests[r].number]
  <2>1. requests[r] \in Registering
    BY <1>4, RequestTypes DEF CreateCompany
  <2>2. c = requests[r].number /\ Become(r, x)
    BY <1>4 DEF CreateCompany
  <2>3. x.pc = "createUser" /\ x.company = c
    BY <2>1, <2>2 DEF Registering
  <2> HIDE DEF x
  <2>4. requests'[r] = x
    BY <2>2, RequestsAfter
  <2> QED BY <2>3, <2>4
<1>5. c \in companies => ~ callFailed
  <2>1. ASSUME callFailed PROVE callFailed'
    <3>1. ASSUME NEW r \in Requests, NEW e \in Emails, NEW x \in Request,
                 Asks(r, e, x) \/ Follows(r, e, x) \/ Goes(r, x)
          PROVE  callFailed'
      BY <2>1, <3>1 DEF Asks, Follows, Goes
    <3>2. ASSUME NEW r \in Requests, NEW e \in Emails, NEW row \in User,
                 Stores(r, e, row) \/ Uses(r, e, row)
          PROVE  callFailed'
      BY <2>1, <3>2 DEF Stores, Uses, marks
    <3>3. ASSUME NEW r \in Requests, Sends(r) PROVE callFailed'
      BY <2>1, <3>3 DEF Sends, marks
    <3>4. ASSUME Rests PROVE callFailed'
      BY <2>1, <3>4 DEF Rests, marks
    <3> QED BY <3>1, <3>2, <3>3, <3>4 DEF Forms
  <2> QED BY <2>1
<1>6. CASE c \in companies
  BY <1>1, <1>2, <1>3, <1>5, <1>6 DEF CompaniesHaveAnAccount
<1>7. CASE c \notin companies
  BY <1>4, <1>7, CompaniesNext
<1> QED BY <1>6, <1>7

-----------------------------------------------------------------------------
(* The invariant, and what follows from it.                                  *)

AuthInv ==
  /\ TypeOK
  /\ FoundInv
  /\ SignedInv
  /\ LinksInv
  /\ CameByLinkInv
  /\ WaitInv
  /\ AloneInv
  /\ CompaniesHaveAnAccount

LEMMA InvInit == Init => AuthInv
<1> SUFFICES ASSUME Init PROVE AuthInv
  OBVIOUS
<1>1. TypeOK
  BY TypeInit
<1>2. /\ \A r \in Requests : requests[r] = Idle /\ requests[r].pc = "idle"
      /\ \A e \in Emails : ~ Registered(e)
  BY DEF Init, Idle, Registered
<1>3. \A m \in Mail : ~ Link(m)
  BY <1>2 DEF Init, Link, Making, Mail
<1>4. FoundInv /\ CameByLinkInv
  BY <1>2 DEF FoundInv, CameByLinkInv
<1>5. LinksInv
  BY <1>2, <1>3 DEF LinksInv, Making
<1>6. WaitInv
  BY <1>2 DEF WaitInv, Mail
<1>7. AloneInv
  BY <1>2 DEF Init, AloneInv, Alone, MakesTheNewest, AwaitsTheNewest, Making
<1>8. SignedInv /\ CompaniesHaveAnAccount
  BY DEF Init, SignedInv, CompaniesHaveAnAccount
<1> QED BY <1>1, <1>4, <1>5, <1>6, <1>7, <1>8 DEF AuthInv

LEMMA InvNext == AuthInv /\ [Next]_vars => AuthInv' /\ Forms
<1> SUFFICES ASSUME AuthInv, [Next]_vars PROVE AuthInv' /\ Forms
  OBVIOUS
<1>1. /\ TypeOK /\ FoundInv /\ SignedInv /\ LinksInv /\ CameByLinkInv
      /\ WaitInv /\ AloneInv /\ CompaniesHaveAnAccount
  BY DEF AuthInv
<1>2. Forms
  BY <1>1, EveryStepHasAForm
<1>3. TypeOK' /\ FoundInv' /\ SignedInv' /\ LinksInv'
  BY <1>1, <1>2, TypeNext, FoundNext, SignedNext, LinksNext
<1>4. CameByLinkInv' /\ WaitInv' /\ AloneInv' /\ CompaniesHaveAnAccount'
  BY <1>1, <1>2, CameByLinkNext, WaitNext, AloneInvNext,
     CompaniesHaveAnAccountNext
<1> QED BY <1>2, <1>3, <1>4 DEF AuthInv

THEOREM AuthInvariant == Spec => []AuthInv
<1>1. AuthInv /\ [Next]_vars => AuthInv'
  BY InvNext
<1> QED BY <1>1, InvInit, PTL DEF Spec

(* The types: the rows, the tokens with their dates, the requests.           *)
THEOREM AuthTypeCorrect == Spec => []TypeOK
<1>1. AuthInv => TypeOK
  BY DEF AuthInv
<1> QED BY <1>1, AuthInvariant, PTL

(* Every access token is accepted until it expires, and reads what was       *)
(* signed.                                                                   *)
THEOREM SessionsAlwaysValid == Spec => []SessionsStayValid
<1>1. AuthInv => SessionsStayValid
  BY DEF AuthInv, SignedInv, SessionsStayValid, Accepted
<1> QED BY <1>1, AuthInvariant, PTL

(* Without failing calls, the link a row awaits is in the mailbox and, unless*)
(* requests overlapped, it is the newest.                                    *)
THEOREM LinksAlwaysInTheMailbox == Spec => []LinksAreInTheMailbox
<1>1. AuthInv => LinksAreInTheMailbox
  <2> DEFINE Newest(kind, e, t) ==
        ~ overlapped => \A u \in Held : Mailed(kind, e, u) => u <= t
  <2> SUFFICES ASSUME AuthInv, ~ callFailed,
                      \A r \in Requests : requests[r] = Idle,
                      NEW e \in Emails, Registered(e)
               PROVE  /\ \/ users[e].verified
                         \/ /\ Mailed("verify-email", e,
                                      users[e].verificationToken)
                            /\ Newest("verify-email", e,
                                      users[e].verificationToken)
                      /\ \/ users[e].resetToken = Null
                         \/ /\ Mailed("reset-password", e, users[e].resetToken)
                            /\ Newest("reset-password", e, users[e].resetToken)
    BY DEF LinksAreInTheMailbox
  <2>1. TypeOK /\ WaitInv /\ AloneInv
    BY DEF AuthInv
  <2>2. users[e] \in User
    BY <2>1 DEF TypeOK, Registered
  <2>3. ASSUME NEW m \in Mail, m.to = e, Awaited(m) = m.token
        PROVE  Mailed(m.kind, e, m.token) /\ Newest(m.kind, e, m.token)
    <3>1. m \in mailbox
      BY <2>1, <2>3 DEF WaitInv, Coming, Idle
    <3>2. m = [kind |-> m.kind, to |-> e, token |-> m.token]
      BY <2>3 DEF Mail
    <3>3. ASSUME ~ overlapped, NEW u \in Held, Mailed(m.kind, e, u)
          PROVE  u <= m.token
      <4> DEFINE n == [kind |-> m.kind, to |-> e, token |-> u]
      <4>1. n \in mailbox /\ n.to = e /\ n.kind = m.kind /\ n.token = u
        BY <3>3 DEF Mailed
      <4> HIDE DEF n
      <4>2. Awaited(n) = m.token
        BY <2>3, <4>1 DEF Awaited
      <4>3. m.token # Null
        BY DEF Mail, Number, Null
      <4> QED BY <2>1, <3>3, <4>1, <4>2, <4>3 DEF AloneInv, AwaitsTheNewest
    <3> QED BY <3>1, <3>2, <3>3 DEF Mailed
  <2>4. ASSUME ~ users[e].verified
        PROVE  /\ Mailed("verify-email", e, users[e].verificationToken)
               /\ Newest("verify-email", e, users[e].verificationToken)
    <3> DEFINE m == [kind |-> "verify-email", to |-> e,
                     token |-> users[e].verificationToken]
    <3>1. users[e].verificationToken \in Number
      BY <2>1, <2>2, <2>4 DEF WaitInv, Verified, User, OrNull
    <3>2. m \in Mail /\ m.to = e /\ Awaited(m) = m.token
      BY <3>1 DEF Mail, Awaited
    <3>3. /\ m.kind = "verify-email"
          /\ m.token = users[e].verificationToken
      OBVIOUS
    <3> HIDE DEF m, Newest
    <3>4. Mailed(m.kind, e, m.token) /\ Newest(m.kind, e, m.token)
      BY <2>3, <3>2
    <3> QED BY <3>3, <3>4
  <2>5. ASSUME users[e].resetToken # Null
        PROVE  /\ Mailed("reset-password", e, users[e].resetToken)
               /\ Newest("reset-password", e, users[e].resetToken)
    <3> DEFINE m == [kind |-> "reset-password", to |-> e,
                     token |-> users[e].resetToken]
    <3>1. users[e].resetToken \in Number
      BY <2>2, <2>5 DEF User, OrNull
    <3>2. m \in Mail /\ m.to = e /\ Awaited(m) = m.token
      BY <3>1 DEF Mail, Awaited
    <3>3. m.kind = "reset-password" /\ m.token = users[e].resetToken
      OBVIOUS
    <3> HIDE DEF m, Newest
    <3>4. Mailed(m.kind, e, m.token) /\ Newest(m.kind, e, m.token)
      BY <2>3, <3>2
    <3> QED BY <3>3, <3>4
  <2> QED BY <2>4, <2>5
<1> QED BY <1>1, AuthInvariant, PTL

(* A company that a registration created is somebody's, or soon will be.     *)
THEOREM CompaniesAlwaysHaveAnAccount == Spec => []CompaniesHaveAnAccount
<1>1. AuthInv => CompaniesHaveAnAccount
  BY DEF AuthInv
<1> QED BY <1>1, AuthInvariant, PTL

(* Passwords change, and addresses become verified, only for who came with a *)
(* link that was mailed to the address.                                      *)
THEOREM AccountsOnlyChangeByLink == Spec => AccountsChangeByLink
<1> DEFINE By(e, pc, kind) ==
             \E r \in Requests :
               /\ requests[r].pc = pc /\ requests[r].email = e
               /\ Mailed(kind, e, requests[r].token)
           Changes(e) ==
             /\ Registered(e) /\ users'[e].password # users[e].password
                  => By(e, "updatePassword", "reset-password")
             /\ ~ Verified(e) /\ Verified(e)'
                  => By(e, "markVerified", "verify-email")
<1>1. AuthInv /\ [Next]_vars => [ \A e \in Emails : Changes(e) ]_vars
  <2> SUFFICES ASSUME AuthInv, [Next]_vars, NEW e \in Emails
               PROVE  Changes(e)
    OBVIOUS
  <2>1. TypeOK /\ CameByLinkInv /\ Forms
    BY InvNext DEF AuthInv
  <2>2. Registered(e) => users[e] \in User
    BY <2>1 DEF TypeOK, Registered
  <2>3. CASE UNCHANGED users
    BY <2>3 DEF Registered, Verified
  <2>4. ASSUME NEW f \in Emails, NEW row \in User, Changed(f, row), f # e
        PROVE  Changes(e)
    BY <2>1, <2>4, RowsAfter DEF Verified
  <2>5. ASSUME NEW r \in Requests, NEW row \in User, Stores(r, e, row)
        PROVE  Changes(e)
    <3>1. users'[e] = row
      BY <2>1, <2>5, RowsAfter DEF Stores
    <3>2. Registered(e) => row.password = users[e].password
      BY <2>2, <2>5 DEF Stores, User
    <3>3. row.verified => Verified(e)
      BY <2>2, <2>5 DEF Stores, User, Verified
    <3> QED BY <3>1, <3>2, <3>3 DEF Verified
  <2>6. ASSUME NEW r \in Requests, NEW row \in User, Uses(r, e, row)
        PROVE  Changes(e)
    <3>1. users'[e] = row /\ requests[r].email = e /\ Registered(e)
      BY <2>1, <2>6, RowsAfter DEF Uses
    <3>2. row.password # users[e].password
            => /\ requests[r].pc = "updatePassword"
               /\ Mailed("reset-password", e, requests[r].token)
      <4>1. requests[r].pc = "markVerified"
              => row.password = users[e].password
        <5>1. SUFFICES ASSUME requests[r].pc = "markVerified"
                       PROVE  row.password = users[e].password
          OBVIOUS
        <5>2. row = [users[e] EXCEPT !.verified = TRUE,
                                     !.verificationToken = Null,
                                     !.verificationExpires = Null]
          BY <2>6, <5>1 DEF Uses
        <5> QED BY <2>2, <3>1, <5>2 DEF User
      <4> QED BY <2>1, <2>6, <3>1, <4>1 DEF Uses, CameByLinkInv
    <3>3. row.verified /\ ~ Verified(e)
            => /\ requests[r].pc = "markVerified"
               /\ Mailed("verify-email", e, requests[r].token)
      BY <2>1, <2>2, <2>6, <3>1 DEF Uses, User, CameByLinkInv, Verified
    <3> QED BY <3>1, <3>2, <3>3 DEF Verified
  <2>7. ASSUME NEW r \in Requests, NEW f \in Emails, NEW row \in User,
               Stores(r, f, row) \/ Uses(r, f, row)
        PROVE  Changes(e)
    <3>1. Changed(f, row)
      BY <2>7 DEF Stores, Uses
    <3> HIDE DEF Changes
    <3> QED BY <2>4, <2>5, <2>6, <2>7, <3>1
  <2>8. ASSUME NEW r \in Requests, NEW f \in Emails, NEW x \in Request,
               Asks(r, f, x) \/ Follows(r, f, x) \/ Goes(r, x)
        PROVE  UNCHANGED users
    BY <2>8 DEF Asks, Follows, Goes
  <2>9. ASSUME NEW r \in Requests, Sends(r) PROVE UNCHANGED users
    BY <2>9 DEF Sends
  <2>10. ASSUME Rests PROVE UNCHANGED users
    BY <2>10 DEF Rests
  <2> HIDE DEF Changes
  <2> QED BY <2>1, <2>3, <2>7, <2>8, <2>9, <2>10 DEF Forms
<1> QED BY <1>1, AuthInvariant, PTL DEF Spec, AccountsChangeByLink

(* The token that a row takes on is one that no mail has carried.            *)
Fresh(e) ==
  /\ \/ users'[e].resetToken = Null
     \/ Registered(e) /\ users'[e].resetToken = users[e].resetToken
     \/ users'[e].resetToken \notin Held
  /\ \/ users'[e].verificationToken = Null
     \/ Registered(e)
          /\ users'[e].verificationToken = users[e].verificationToken
     \/ users'[e].verificationToken \notin Held

LEMMA TokensAreFresh ==
  ASSUME AuthInv, [Next]_vars, NEW e \in Emails, Registered(e)'
  PROVE  Fresh(e)
<1>1. TypeOK /\ LinksInv /\ Forms
  BY InvNext DEF AuthInv
<1>2. users'[e] \in User
  BY <1>1, UsersNext DEF Registered
<1>3. ASSUME NEW m \in Mail, m.to = e, Awaited(m)' = m.token
      PROVE  \/ Registered(e) /\ Awaited(m) = m.token
             \/ m.token \notin Held
  <2>1. CASE Registered(e) /\ Awaited(m) = m.token
    BY <2>1
  <2>2. ASSUME NEW r \in Requests, Making(r), ToSend(requests[r]) = m,
               m.token \in Held
        PROVE  FALSE
    <3>1. PICK n \in mailbox : n.token = m.token
      BY <2>2 DEF Held
    <3>2. n \in Mail /\ Link(n) /\ Link(m)
      BY <1>1, <2>2, <3>1 DEF TypeOK, Link
    <3>3. n = m
      BY <1>1, <3>1, <3>2 DEF LinksInv
    <3> QED BY <1>1, <2>2, <3>1, <3>3 DEF LinksInv
  <2> QED BY <1>1, <1>3, <2>1, <2>2, AwaitedNext DEF Stores
<1>4. \/ users'[e].resetToken = Null
      \/ Registered(e) /\ users'[e].resetToken = users[e].resetToken
      \/ users'[e].resetToken \notin Held
  <2> SUFFICES ASSUME users'[e].resetToken # Null
               PROVE  \/ Registered(e)
                           /\ users'[e].resetToken = users[e].resetToken
                      \/ users'[e].resetToken \notin Held
    OBVIOUS
  <2>1. [kind |-> "reset-password", to |-> e,
         token |-> users'[e].resetToken] \in Mail
    BY <1>2 DEF Mail, User, OrNull
  <2>2. PICK m \in Mail : /\ m.to = e /\ m.kind = "reset-password"
                          /\ m.token = users'[e].resetToken
    BY <2>1
  <2>3. Awaited(m)' = m.token /\ Awaited(m) = users[e].resetToken
    BY <2>2 DEF Awaited
  <2> QED BY <1>3, <2>2, <2>3
<1>5. \/ users'[e].verificationToken = Null
      \/ /\ Registered(e)
         /\ users'[e].verificationToken = users[e].verificationToken
      \/ users'[e].verificationToken \notin Held
  <2> SUFFICES ASSUME users'[e].verificationToken # Null
               PROVE  \/ /\ Registered(e)
                         /\ users'[e].verificationToken
                              = users[e].verificationToken
                      \/ users'[e].verificationToken \notin Held
    OBVIOUS
  <2>1. [kind |-> "verify-email", to |-> e,
         token |-> users'[e].verificationToken] \in Mail
    BY <1>2 DEF Mail, User, OrNull
  <2>2. PICK m \in Mail : /\ m.to = e /\ m.kind = "verify-email"
                          /\ m.token = users'[e].verificationToken
    BY <2>1
  <2>3. Awaited(m)' = m.token /\ Awaited(m) = users[e].verificationToken
    BY <2>2 DEF Awaited
  <2> QED BY <1>3, <2>2, <2>3
<1> QED BY <1>4, <1>5 DEF Fresh

LEMMA TokensUsedUp ==
  ASSUME AuthInv, NEW r \in Requests, NEW t \in Held, requests[r].token = t
  PROVE  /\ MarkEmailVerified(r) => findByVerificationToken(t)' = {}
         /\ UpdatePassword(r) => findByPasswordResetToken(t)' = {}
<1>1. TypeOK /\ FoundInv /\ LinksInv /\ CameByLinkInv
  BY DEF AuthInv
<1>2. t \in Number /\ t # Null
  BY <1>1 DEF TypeOK, Held, Mail, Number, Null
<1> DEFINE e == requests[r].email
<1>3. ASSUME NEW f \in Emails, NEW m \in Mail, NEW n \in Mail,
             Link(m), Link(n), m.to = e, n.to = f, m.token = t, n.token = t
      PROVE  f = e
  BY <1>1, <1>3 DEF LinksInv
<1>4. ASSUME MarkEmailVerified(r) PROVE findByVerificationToken(t)' = {}
  <2>1. e \in Emails /\ Registered(e) /\ Mailed("verify-email", e, t)
    BY <1>1, <1>4, RequestTypes
       DEF MarkEmailVerified, Confirming, FoundInv, CameByLinkInv, About
  <2>2. PICK row \in User : Changed(e, row) /\ row.verificationToken = Null
    <3>1. users[e] \in User
      BY <1>1, <2>1 DEF TypeOK, Registered
    <3>2. [users[e] EXCEPT !.verified = TRUE, !.verificationToken = Null,
                           !.verificationExpires = Null] \in User
      BY <3>1, RowTypes, Nulls
    <3>3. Changed(e, [users[e] EXCEPT !.verified = TRUE,
                                      !.verificationToken = Null,
                                      !.verificationExpires = Null])
      BY <1>1, <1>4, <2>1, Confirmed DEF MarkEmailVerified
    <3> QED BY <3>1, <3>2, <3>3 DEF User
  <2>3. ASSUME NEW f \in Emails, Registered(f)', users'[f].verificationToken = t
        PROVE  FALSE
    <3>1. f # e /\ users'[f] = users[f] /\ Registered(f)
      BY <1>1, <1>2, <2>1, <2>2, <2>3, RowsAfter
    <3>2. PICK m \in Mail, n \in Mail :
            /\ m = [kind |-> "verify-email", to |-> e, token |-> t]
            /\ n = [kind |-> "verify-email", to |-> f, token |-> t]
      BY <1>2, <2>1 DEF Mail
    <3>3. Link(m) /\ Link(n)
      BY <2>1, <2>3, <3>1, <3>2 DEF Link, Mailed, Awaited
    <3> QED BY <1>3, <3>1, <3>2, <3>3
  <2> QED BY <2>3 DEF findByVerificationToken
<1>5. ASSUME UpdatePassword(r) PROVE findByPasswordResetToken(t)' = {}
  <2>1. e \in Emails /\ Registered(e) /\ Mailed("reset-password", e, t)
          /\ requests[r].password \in Passwords
    BY <1>1, <1>5, RequestTypes
       DEF UpdatePassword, Resetting, FoundInv, CameByLinkInv, About
  <2>2. PICK row \in User : Changed(e, row) /\ row.resetToken = Null
    <3>1. users[e] \in User
      BY <1>1, <2>1 DEF TypeOK, Registered
    <3>2. [users[e] EXCEPT !.password = requests[r].password,
                           !.resetToken = Null, !.resetExpires = Null] \in User
      BY <2>1, <3>1, RowTypes, Nulls
    <3>3. Changed(e, [users[e] EXCEPT !.password = requests[r].password,
                                      !.resetToken = Null,
                                      !.resetExpires = Null])
      BY <1>1, <1>5, <2>1, PasswordWritten DEF UpdatePassword
    <3> QED BY <3>1, <3>2, <3>3 DEF User
  <2>3. ASSUME NEW f \in Emails, Registered(f)', users'[f].resetToken = t
        PROVE  FALSE
    <3>1. f # e /\ users'[f] = users[f] /\ Registered(f)
      BY <1>1, <1>2, <2>1, <2>2, <2>3, RowsAfter
    <3>2. PICK m \in Mail, n \in Mail :
            /\ m = [kind |-> "reset-password", to |-> e, token |-> t]
            /\ n = [kind |-> "reset-password", to |-> f, token |-> t]
      BY <1>2, <2>1 DEF Mail
    <3>3. Link(m) /\ Link(n)
      BY <2>1, <2>3, <3>1, <3>2 DEF Link, Mailed, Awaited
    <3> QED BY <1>3, <3>1, <3>2, <3>3
  <2> QED BY <2>3 DEF findByPasswordResetToken
<1> QED BY <1>4, <1>5

(* A mailed link that finds no account never finds one again, and the        *)
(* request that uses it up leaves it in no row.                              *)
THEOREM DeadLinksStayDead == Spec => OldLinksStayDead
<1> DEFINE Dead(t) ==
      /\ findByVerificationToken(t)' # {} =>
           /\ findByVerificationToken(t) # {}
           /\ \A r \in Requests :
                MarkEmailVerified(r) => requests[r].token # t
      /\ findByPasswordResetToken(t)' # {} =>
           /\ findByPasswordResetToken(t) # {}
           /\ \A r \in Requests :
                UpdatePassword(r) => requests[r].token # t
<1>1. AuthInv /\ [Next]_vars => [ \A t \in Held : Dead(t) ]_vars
  <2> SUFFICES ASSUME AuthInv, [Next]_vars, NEW t \in Held
               PROVE  Dead(t)
    OBVIOUS
  <2>1. t # Null
    BY DEF AuthInv, TypeOK, Held, Mail, Number, Null
  <2>2. ASSUME findByVerificationToken(t) = {}
        PROVE  findByVerificationToken(t)' = {}
    <3>1. ASSUME NEW e \in Emails, Registered(e)',
                 users'[e].verificationToken = t
          PROVE  FALSE
      BY <2>1, <2>2, <3>1, TokensAreFresh DEF Fresh, findByVerificationToken
    <3> QED BY <3>1 DEF findByVerificationToken
  <2>3. ASSUME findByPasswordResetToken(t) = {}
        PROVE  findByPasswordResetToken(t)' = {}
    <3>1. ASSUME NEW e \in Emails, Registered(e)', users'[e].resetToken = t
          PROVE  FALSE
      BY <2>1, <2>3, <3>1, TokensAreFresh DEF Fresh, findByPasswordResetToken
    <3> QED BY <3>1 DEF findByPasswordResetToken
  <2> QED BY <2>2, <2>3, TokensUsedUp
<1> QED BY <1>1, AuthInvariant, PTL DEF Spec, OldLinksStayDead

=============================================================================
