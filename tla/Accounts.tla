------------------------------ MODULE Accounts ------------------------------
(***************************************************************************)
(* The five components an account passes through: SignIn, Sessions, Team,  *)
(* McpOAuth and Credentials.  They share no row with each other (what they *)
(* exchange is in their own actions), so each behaviour is about one of    *)
(* them, `focus`, and leaves the others at their initial state.            *)
(***************************************************************************)
EXTENDS Naturals, FiniteSets, FiniteSetTheorems, TLC, TLAPS

CONSTANTS
    Email, UserId, Nobody, OTP_MAX_ATTEMPTS, MaxCodes,          \* SignIn
    Ttl, VerifyTtl, Jti, MaxTime, MaxTokens,                    \* Sessions
    Colleague, Org, Nowhere, Founder, Invite,                   \* Team
    Approval, MaxPairs, MaxLogouts,                             \* McpOAuth
    Person, Record, Member, MaxLinks, MaxKeys,                  \* Credentials
    MaxRequests

ASSUME CodesAssumption == OTP_MAX_ATTEMPTS \in Nat /\ MaxCodes \in Nat
\* Platform tokens are records of requests that were made: finitely many.
ASSUME SessionsAssumption == Ttl \in Nat \ {0} /\ VerifyTtl \in Nat \ {0} /\ IsFiniteSet(Jti)
\* An organization is created with its owner, who is in no other.
ASSUME FounderAssumption ==
    Founder \in [Org -> Colleague] /\ \A o, p \in Org : Founder[o] = Founder[p] => o = p
ASSUME PairsAssumption == MaxPairs \in Nat /\ MaxLogouts \in Nat
\* Somebody for each organization to begin with.
SomeFounder == CHOOSE f \in [Org -> Colleague] : \A o, p \in Org : f[o] = f[p] => o = p

VARIABLES
    focus,
    otps, account, signing, codes, guesses, signIns, rewritten,
    now, tokens, cutoff, sessionRequests, claimed, survivors,
    user, invite, teamRequests, joined, revoked, displaced,
    code, pairs, era, oauthRequests, began, rotating,
    known, links, portalRequests, session, portal, keys, token, calls

S == INSTANCE SignIn WITH User <- UserId, requests <- signing
T == INSTANCE Sessions WITH requests <- sessionRequests
M == INSTANCE Team WITH User <- Colleague, requests <- teamRequests
O == INSTANCE McpOAuth WITH Code <- Approval, requests <- oauthRequests
C == INSTANCE Credentials WITH account <- known, requests <- portalRequests

\* Addresses and user ids are alike in SignIn, invite ids in Team; nothing else uses these.
Symmetry == Permutations(Email) \cup Permutations(UserId) \cup Permutations(Invite)

signInVars == <<otps, account, signing, codes, guesses, signIns, rewritten>>
sessionVars == <<now, tokens, cutoff, sessionRequests, claimed, survivors>>
teamVars == <<user, invite, teamRequests, joined, revoked, displaced>>
oauthVars == <<code, pairs, era, oauthRequests, began, rotating>>
credentialVars == <<known, links, portalRequests, session, portal, keys, token, calls>>
vars == <<focus, signInVars, sessionVars, teamVars, oauthVars, credentialVars>>

Init ==
    /\ focus \in {"sign-in", "sessions", "team", "assistants", "credentials"}
    /\ S!Init /\ T!Init /\ M!Init /\ O!Init /\ C!Init

Next ==
    \/ focus = "sign-in" /\ S!Next /\ UNCHANGED <<focus, sessionVars, teamVars, oauthVars, credentialVars>>
    \/ focus = "sessions" /\ T!Next /\ UNCHANGED <<focus, signInVars, teamVars, oauthVars, credentialVars>>
    \/ focus = "team" /\ M!Next /\ UNCHANGED <<focus, signInVars, sessionVars, oauthVars, credentialVars>>
    \/ focus = "assistants" /\ O!Next /\ UNCHANGED <<focus, signInVars, sessionVars, teamVars, credentialVars>>
    \/ focus = "credentials" /\ C!Next /\ UNCHANGED <<focus, signInVars, sessionVars, teamVars, oauthVars>>

Spec == Init /\ [][Next]_vars

\* verify-otp compares a bounded number of guesses with a code, however many
\* arrive together, and of parallel requests with the right one a single one signs
\* in (SignIn).
CodesHold == S!GuessesBounded /\ S!CodeSignsInOnce
\* No session from before a logout-all survives it by being renewed, and a
\* verification session never becomes one that can write (Sessions).
SessionsHold == T!LogoutAllHolds /\ T!VerificationStaysReadOnly
\* Of parallel clicks and a revocation of an invite one wins, and concurrent
\* transfers leave an organization one owner (Team).
TeamHolds == M!InviteAdmitsOnce /\ M!OneOwner
\* A code or a refresh used twice never forks a token chain, and logout-all ends
\* the chains that began before it (McpOAuth).
AssistantsHold == O!OneChainPerApproval /\ O!LogoutDisconnects
\* A fresh portal link retires the ones before it (Credentials).
RotationRetires == C!RotationRetires

-----------------------------------------------------------------------------
(* One-time codes, for any number of addresses, requests and tries. *)

RequestsTyped(requests) == S!IsABag(requests) /\ S!BagToSet(requests) \subseteq S!Request

\* The rows are those of codes generated and not yet used, each counts at least
\* the guesses compared with it, and a code still to come has none.
CodesInv ==
    /\ \A o, p \in otps : o.id = p.id => o = p
    /\ \A o \in otps : /\ o.id <= codes /\ signIns[o.id] = 0
                       /\ o.id \in rewritten \/ guesses[o.id] <= o.attempts
    /\ \A c \in S!Code : c > codes => guesses[c] = 0 /\ signIns[c] = 0
    /\ CodesHold

\* What a handler's step does to the requests in progress.
LEMMA SignInRequests ==
    ASSUME RequestsTyped(signing), NEW r \in S!Request, NEW s \in S!Request,
           S!Begin(r) \/ S!Move(r, s) \/ S!End(r)
    PROVE  RequestsTyped(signing')
<1> USE DEF RequestsTyped, S!IsABag, S!BagToSet, S!SetToBag
<1>1. CASE S!Begin(r)
  BY <1>1 DEF S!Begin, S!\oplus
<1>2. CASE S!End(r)
  BY <1>2 DEF S!End, S!\ominus
<1>3. CASE S!Move(r, s)
  <2> DEFINE B == S!\ominus(signing, S!SetToBag({r}))
  <2>1. RequestsTyped(B)
    BY DEF S!\ominus
  <2>2. signing' = S!\oplus(B, S!SetToBag({s}))
    BY <1>3 DEF S!Move
  <2> HIDE DEF B
  <2> QED BY <2>1, <2>2 DEF S!\oplus
<1> QED BY <1>1, <1>2, <1>3

\* A row that is updated stays a row, and only the column written changes.
LEMMA RowUpdates ==
    ASSUME NEW o \in S!Row
    PROVE  /\ o.id \in S!Code /\ o.attempts \in 0 .. OTP_MAX_ATTEMPTS
           /\ \A b \in BOOLEAN : /\ [o EXCEPT !.live = b] \in S!Row
                                /\ [o EXCEPT !.live = b].id = o.id /\ [o EXCEPT !.live = b].attempts = o.attempts
           /\ \A n \in 0 .. OTP_MAX_ATTEMPTS : /\ [o EXCEPT !.attempts = n] \in S!Row
                                               /\ [o EXCEPT !.attempts = n].id = o.id
                                               /\ [o EXCEPT !.attempts = n].attempts = n
  BY DEF S!Row

\* The claiming UPDATE adds a try to each row it finds, and a guess to its code.
LEMMA ClaimDoes ==
    ASSUME S!TypeOK, CodesInv, NEW e \in Email, S!Claim(e)
    PROVE  /\ otps' = {IF o \in S!Claimable(e) THEN [o EXCEPT !.attempts = o.attempts + 1] ELSE o : o \in otps}
           /\ \A o \in S!Claimable(e) : o \in otps /\ o.attempts + 1 \in 0 .. OTP_MAX_ATTEMPTS
           /\ guesses' \in [S!Code -> Nat]
           /\ \A c \in S!Code : guesses'[c] = IF \E o \in S!Claimable(e) : o.id = c THEN guesses[c] + 1 ELSE guesses[c]
<1>1. \A o \in S!Claimable(e) : o \in otps /\ o.attempts + 1 \in 0 .. OTP_MAX_ATTEMPTS
  <2> SUFFICES ASSUME NEW o \in S!Claimable(e) PROVE o \in otps /\ o.attempts + 1 \in 0 .. OTP_MAX_ATTEMPTS
    OBVIOUS
  <2>1. o \in otps /\ o \in S!Row /\ o.attempts < OTP_MAX_ATTEMPTS
    BY DEF S!Claimable, S!Of, S!TypeOK
  <2>2. o.attempts \in Nat
    BY <2>1, RowUpdates
  <2> QED BY <2>1, <2>2, CodesAssumption
<1>2. guesses' \in [S!Code -> Nat]
  BY DEF S!TypeOK, S!Claim
<1> QED BY <1>1, <1>2 DEF S!Claim, S!TypeOK

\* One step keeps the types of the tables of sign-in and email change.
LEMMA SignInTypes == S!TypeOK /\ CodesInv /\ [S!Next]_(S!vars) => S!TypeOK'
<1> SUFFICES ASSUME S!TypeOK, CodesInv, [S!Next]_(S!vars) PROVE S!TypeOK'
  OBVIOUS
<1> USE CodesAssumption DEF S!TypeOK, RequestsTyped, S!Row, S!Code
<1>1. ASSUME NEW e \in Email, S!SendOtp(e) PROVE S!TypeOK'
  <2>1. S!Handler("fresh", e, Nobody, 0, 0) \in S!Request
    BY DEF S!Handler, S!Request
  <2>2. \A o \in otps : S!Handler("resend", e, Nobody, o.id, 0) \in S!Request
    BY DEF S!Handler, S!Request
  <2>3. RequestsTyped(signing')
    BY <1>1, <2>1, <2>2, SignInRequests DEF S!SendOtp, S!Of
  <2> QED BY <1>1, <2>3 DEF S!SendOtp
<1>2. ASSUME NEW e \in Email, S!GuessWrong(e) \/ \E c \in S!Code : S!GuessRight(e, c) PROVE S!TypeOK'
  <2>1. S!Claim(e)
    BY <1>2 DEF S!GuessWrong, S!GuessRight
  <2>2. \A o \in S!Claimable(e) : [o EXCEPT !.attempts = o.attempts + 1] \in S!Row
    BY <2>1, ClaimDoes, RowUpdates
  <2>3. otps' \subseteq S!Row
    BY <2>1, <2>2, ClaimDoes
  <2>4. guesses' \in [S!Code -> Nat]
    BY <2>1, ClaimDoes
  <2>5. RequestsTyped(signing')
    <3>1. CASE S!GuessWrong(e)
      BY <3>1 DEF S!GuessWrong
    <3>2. ASSUME NEW c \in S!Code, S!GuessRight(e, c) PROVE RequestsTyped(signing')
      <4>1. S!Handler("matched", e, Nobody, c, 0) \in S!Request
        BY DEF S!Handler, S!Request
      <4> QED BY <3>2, <4>1, SignInRequests DEF S!GuessRight
    <3> QED BY <1>2, <3>1, <3>2
  <2> QED BY <1>2, <2>3, <2>4, <2>5 DEF S!GuessWrong, S!GuessRight
<1>3. ASSUME NEW e \in Email, S!OAuthCallback(e) PROVE S!TypeOK'
  <2>1. S!Handler("create", e, Nobody, 0, 0) \in S!Request
    BY DEF S!Handler, S!Request
  <2> QED BY <1>3, <2>1, SignInRequests DEF S!OAuthCallback
<1>4. ASSUME NEW u \in UserId, NEW e \in Email, S!RequestEmailChange(u, e) PROVE S!TypeOK'
  <2>1. S!Handler("insert", e, u, 0, 0) \in S!Request
    BY DEF S!Handler, S!Request
  <2> QED BY <1>4, <2>1, SignInRequests DEF S!RequestEmailChange
<1>5. ASSUME NEW u \in UserId, NEW e \in Email, NEW o \in otps, S!ConfirmReads(u, e, o) PROVE S!TypeOK'
  <2>1. S!Handler("confirm", e, u, o.id, o.attempts) \in S!Request
    BY DEF S!Handler, S!Request
  <2> QED BY <1>5, <2>1, SignInRequests DEF S!ConfirmReads
<1>6. ASSUME NEW o \in otps, S!Expire(o) PROVE S!TypeOK'
  BY <1>6 DEF S!Expire
<1>7. ASSUME NEW r \in S!BagToSet(signing),
             \/ S!Resend(r) \/ S!DropSpent(r) \/ S!InsertCode(r) \/ S!Consume(r) \/ S!FindUser(r) \/ S!CreateUser(r)
             \/ S!ConfirmSpent(r) \/ S!ConfirmWrong(r) \/ S!ConfirmRight(r) \/ S!MoveAccount(r) \/ S!Stops(r)
      PROVE  S!TypeOK'
  <2>1. r \in S!Request /\ \A at \in {"insert", "consumed", "create", "claim"} : [r EXCEPT !.at = at] \in S!Request
    BY DEF S!Request
  <2>2. RequestsTyped(signing')
    BY <1>7, <2>1, SignInRequests DEF S!Resend, S!DropSpent, S!InsertCode, S!Consume, S!FindUser, S!CreateUser,
       S!ConfirmSpent, S!ConfirmWrong, S!ConfirmRight, S!MoveAccount, S!Stops
  <2>3. r.email \in Email /\ r.code \in S!Code \cup {0} /\ r.attempts \in 0 .. OTP_MAX_ATTEMPTS
    BY <2>1 DEF S!Request
  <2>4. CASE S!Resend(r)
    BY <2>2, <2>4 DEF S!Resend
  <2>5. CASE S!InsertCode(r)
    <3>1. codes \in Nat /\ codes + 1 \in S!Code /\ codes' \in 0 .. MaxCodes
      BY <2>5 DEF S!InsertCode, S!Fresh
    <3>2. S!Insert(r.email) \in S!Row
      BY <2>3, <3>1 DEF S!Insert
    <3> QED BY <2>2, <2>5, <3>1, <3>2 DEF S!InsertCode
  <2>6. CASE S!ConfirmWrong(r)
    <3>0. r.attempts + 1 \in 0 .. OTP_MAX_ATTEMPTS
      BY <2>3, <2>6 DEF S!ConfirmWrong
    <3>1. otps' \subseteq S!Row
      BY <2>6, <3>0, RowUpdates DEF S!ConfirmWrong
    <3>2. rewritten' \subseteq S!Code
      BY <2>6 DEF S!ConfirmWrong
    <3> QED BY <2>2, <2>6, <3>1, <3>2 DEF S!ConfirmWrong
  <2>7. CASE S!Consume(r)
    <3>1. otps' \subseteq S!Row /\ signIns' \in [S!Code -> Nat]
      BY <2>7, SMTT(30) DEF S!Consume
    <3> QED BY <2>2, <2>7, <3>1 DEF S!Consume
  <2>8. CASE S!CreateUser(r) \/ S!MoveAccount(r)
    <3>1. account' \in [UserId -> Email \cup {Nobody}]
      BY <2>3, <2>8 DEF S!CreateUser, S!MoveAccount
    <3> QED BY <2>2, <2>8, <3>1 DEF S!CreateUser, S!MoveAccount
  <2>9. CASE S!DropSpent(r) \/ S!FindUser(r) \/ S!ConfirmSpent(r) \/ S!ConfirmRight(r) \/ S!Stops(r)
    BY <2>2, <2>9 DEF S!DropSpent, S!FindUser, S!ConfirmSpent, S!ConfirmRight, S!Stops
  <2> QED BY <1>7, <2>4, <2>5, <2>6, <2>7, <2>8, <2>9
<1>8. CASE UNCHANGED S!vars
  BY <1>8 DEF S!vars
<1> QED BY <1>1, <1>2, <1>3, <1>4, <1>5, <1>6, <1>7, <1>8 DEF S!Next

\* Deleting rows is safe: a code that is gone is compared with no more guesses.
LEMMA RowsRemoved ==
    ASSUME CodesInv, otps' \subseteq otps, UNCHANGED <<codes, guesses, signIns, rewritten>>
    PROVE  CodesInv'
  BY DEF CodesInv, CodesHold, S!GuessesBounded, S!CodeSignsInOnce, S!Code

\* Rows that are rewritten without their codes or their counts changing.
LEMMA RowsRelabelled ==
    ASSUME CodesInv, UNCHANGED <<codes, guesses, signIns, rewritten>>,
           \A q \in otps' : \E o \in otps : q.id = o.id /\ q.attempts = o.attempts,
           \A p, q \in otps' : p.id = q.id => p = q
    PROVE  CodesInv'
  BY DEF CodesInv, CodesHold, S!GuessesBounded, S!CodeSignsInOnce, S!Code

\* A try, right or wrong, counts on the row before it is compared.
LEMMA ClaimKeepsCodes ==
    ASSUME S!TypeOK, CodesInv, NEW e \in Email, S!Claim(e), UNCHANGED <<codes, signIns, rewritten>>
    PROVE  CodesInv'
<1> DEFINE Up(o) == IF o \in S!Claimable(e) THEN [o EXCEPT !.attempts = o.attempts + 1] ELSE o
<1>1. otps' = {Up(o) : o \in otps}
  BY ClaimDoes
<1>2. ASSUME NEW o \in otps
      PROVE  /\ Up(o).id = o.id /\ o.id \in S!Code /\ guesses[o.id] \in Nat /\ o.attempts \in Nat
             /\ \/ Up(o).attempts = o.attempts /\ guesses'[o.id] = guesses[o.id]
                \/ Up(o).attempts = o.attempts + 1 /\ guesses'[o.id] = guesses[o.id] + 1
             /\ Up(o).attempts <= OTP_MAX_ATTEMPTS
  <2>1. o \in S!Row /\ o.id \in S!Code /\ guesses[o.id] \in Nat /\ o.attempts \in 0 .. OTP_MAX_ATTEMPTS
    BY RowUpdates DEF S!TypeOK
  <2>2. CASE o \in S!Claimable(e)
    <3>1. o.attempts + 1 \in 0 .. OTP_MAX_ATTEMPTS /\ guesses'[o.id] = guesses[o.id] + 1
      BY <2>1, <2>2, ClaimDoes
    <3>2. Up(o) = [o EXCEPT !.attempts = o.attempts + 1]
      BY <2>2
    <3>3. Up(o).id = o.id /\ Up(o).attempts = o.attempts + 1
      BY <2>1, <3>1, <3>2, RowUpdates, ZenonT(60)
    <3> QED BY <2>1, <3>1, <3>3, CodesAssumption
  <2>3. CASE o \notin S!Claimable(e)
    <3>1. \A p \in S!Claimable(e) : p.id # o.id
      BY <2>3, ClaimDoes DEF CodesInv
    <3> QED BY <2>1, <2>3, <3>1, ClaimDoes, CodesAssumption
  <2> QED BY <2>2, <2>3
<1> HIDE DEF Up
<1>3. \A p, q \in otps' : p.id = q.id => p = q
  BY <1>1, <1>2 DEF CodesInv
<1>4. ASSUME NEW q \in otps'
      PROVE  q.id <= codes' /\ signIns'[q.id] = 0 /\ (q.id \in rewritten' \/ guesses'[q.id] <= q.attempts)
  <2>1. PICK o \in otps : q = Up(o)
    BY <1>1
  <2> QED BY <1>2, <2>1 DEF CodesInv
<1>5. ASSUME NEW c \in S!Code
      PROVE  /\ c > codes => guesses'[c] = 0 /\ signIns'[c] = 0
             /\ c \notin rewritten => guesses'[c] <= OTP_MAX_ATTEMPTS
  <2>1. CASE \E o \in S!Claimable(e) : o.id = c
    <3>1. PICK o \in otps : o.id = c
      BY <2>1, ClaimDoes
    <3>2. o.id <= codes /\ codes \in Nat /\ c \in Nat
      BY <3>1 DEF CodesInv, S!TypeOK, S!Code
    <3>3. Up(o) \in otps'
      BY <1>1
    <3>4. c \notin rewritten => guesses'[c] <= Up(o).attempts /\ Up(o).attempts <= OTP_MAX_ATTEMPTS
      BY <1>2, <1>4, <3>1, <3>3
    <3>5. guesses'[c] \in Nat /\ Up(o).attempts \in Nat
      BY <1>2, <3>1, ClaimDoes
    <3> QED BY <3>1, <3>2, <3>4, <3>5, CodesAssumption
  <2>2. CASE ~ \E o \in S!Claimable(e) : o.id = c
    BY <2>2, ClaimDoes DEF CodesInv, CodesHold, S!GuessesBounded
  <2> QED BY <2>1, <2>2
<1> QED BY <1>3, <1>4, <1>5 DEF CodesInv, CodesHold, S!GuessesBounded, S!CodeSignsInOnce, S!Code

\* A wrong try at an email change writes the count it read, plus one: no less than
\* the guesses compared so far, unless the row had moved on.
LEMMA ConfirmWrongKeepsCodes ==
    ASSUME S!TypeOK, CodesInv, NEW r \in S!Request, S!ConfirmWrong(r)
    PROVE  CodesInv'
<1> DEFINE Up(o) == IF o.id = r.code THEN [o EXCEPT !.attempts = r.attempts + 1] ELSE o
<1>1. otps' = {Up(o) : o \in otps}
  BY DEF S!ConfirmWrong
<1>2. ASSUME NEW o \in otps
      PROVE  /\ Up(o).id = o.id /\ o.id \in S!Code /\ guesses[o.id] \in Nat /\ o.attempts \in Nat /\ Up(o).attempts \in Nat
             /\ o.id # r.code => Up(o) = o
             /\ Up(o).attempts >= o.attempts \/ o.id \in rewritten'
  <2>1. o \in S!Row /\ o.id \in S!Code /\ guesses[o.id] \in Nat /\ o.attempts \in 0 .. OTP_MAX_ATTEMPTS
    BY RowUpdates DEF S!TypeOK
  <2>2. CASE o.id = r.code
    <3>1. r.attempts \in Nat /\ r.attempts + 1 \in 0 .. OTP_MAX_ATTEMPTS
      BY CodesAssumption DEF S!ConfirmWrong, S!Request
    <3>2. Up(o) = [o EXCEPT !.attempts = r.attempts + 1]
      BY <2>2
    <3>3. Up(o).id = o.id /\ Up(o).attempts = r.attempts + 1
      BY <2>1, <3>1, <3>2, RowUpdates, ZenonT(60)
    <3>4. o.attempts > r.attempts => o.id \in rewritten'
      BY <2>2 DEF S!ConfirmWrong
    <3> QED BY <2>1, <2>2, <3>1, <3>3, <3>4
  <2>3. CASE o.id # r.code
    BY <2>1, <2>3
  <2> QED BY <2>2, <2>3
<1> HIDE DEF Up
<1>3. UNCHANGED <<codes, guesses, signIns>> /\ rewritten \subseteq rewritten'
  BY DEF S!ConfirmWrong
<1>4. \A p, q \in otps' : p.id = q.id => p = q
  BY <1>1, <1>2 DEF CodesInv
<1>5. ASSUME NEW q \in otps'
      PROVE  q.id <= codes' /\ signIns'[q.id] = 0 /\ (q.id \in rewritten' \/ guesses'[q.id] <= q.attempts)
  <2>1. PICK o \in otps : q = Up(o)
    BY <1>1
  <2> QED BY <1>2, <1>3, <2>1 DEF CodesInv
<1> QED BY <1>3, <1>4, <1>5 DEF CodesInv, CodesHold, S!GuessesBounded, S!CodeSignsInOnce, S!Code

\* One step of any handler keeps the invariant of the codes.
LEMMA CodesStep == S!TypeOK /\ CodesInv /\ [S!Next]_(S!vars) => CodesInv'
<1> SUFFICES ASSUME S!TypeOK, CodesInv, [S!Next]_(S!vars) PROVE CodesInv'
  OBVIOUS
<1>1. ASSUME NEW e \in Email,
             \/ S!SendOtp(e) \/ S!OAuthCallback(e)
             \/ \E u \in UserId : S!RequestEmailChange(u, e) \/ \E o \in otps : S!ConfirmReads(u, e, o)
      PROVE  CodesInv'
  BY <1>1, RowsRemoved DEF S!SendOtp, S!OAuthCallback, S!RequestEmailChange, S!ConfirmReads
<1>2. ASSUME NEW e \in Email, S!GuessWrong(e) \/ \E c \in S!Code : S!GuessRight(e, c) PROVE CodesInv'
  BY <1>2, ClaimKeepsCodes DEF S!GuessWrong, S!GuessRight
<1>3. ASSUME NEW o \in otps, S!Expire(o) PROVE CodesInv'
  <2> DEFINE new == [o EXCEPT !.live = FALSE]
  <2>1. new.id = o.id /\ new.attempts = o.attempts
    BY RowUpdates DEF S!TypeOK
  <2>2. otps' = (otps \ {o}) \cup {new} /\ UNCHANGED <<codes, guesses, signIns, rewritten>>
    BY <1>3 DEF S!Expire
  <2> HIDE DEF new
  <2>3. \A p, q \in otps' : p.id = q.id => p = q
    BY <2>1, <2>2 DEF CodesInv
  <2> QED BY <2>1, <2>2, <2>3, RowsRelabelled
<1>4. ASSUME NEW r \in S!BagToSet(signing),
             \/ S!Resend(r) \/ S!DropSpent(r) \/ S!InsertCode(r) \/ S!Consume(r) \/ S!FindUser(r) \/ S!CreateUser(r)
             \/ S!ConfirmSpent(r) \/ S!ConfirmWrong(r) \/ S!ConfirmRight(r) \/ S!MoveAccount(r) \/ S!Stops(r)
      PROVE  CodesInv'
  <2>1. CASE S!Resend(r)
    <3> DEFINE Up(o) == IF o.id = r.code THEN [o EXCEPT !.live = TRUE] ELSE o
    <3>1. otps' = {Up(o) : o \in otps} /\ UNCHANGED <<codes, guesses, signIns, rewritten>>
      BY <2>1 DEF S!Resend
    <3>2. \A o \in otps : Up(o).id = o.id /\ Up(o).attempts = o.attempts
      BY RowUpdates DEF S!TypeOK
    <3> HIDE DEF Up
    <3>3. \A p, q \in otps' : p.id = q.id => p = q
      BY <3>1, <3>2 DEF CodesInv
    <3> QED BY <3>1, <3>2, <3>3, RowsRelabelled
  <2>2. CASE S!InsertCode(r)
    <3> DEFINE new == S!Insert(r.email)
    <3>1. new.id = codes + 1 /\ new.attempts = 0
      BY DEF S!Insert
    <3>2. codes' = codes + 1 /\ codes + 1 \in S!Code /\ otps' = otps \cup {new} /\ UNCHANGED <<guesses, signIns, rewritten>>
      BY <2>2, CodesAssumption DEF S!InsertCode, S!Fresh, S!TypeOK, S!Code
    <3> HIDE DEF new
    <3>3. codes \in Nat /\ \A o \in otps : o.id \in Nat /\ o.id <= codes
      BY RowUpdates, CodesAssumption DEF S!TypeOK, S!Code, CodesInv
    <3>4. \A p, q \in otps' : p.id = q.id => p = q
      BY <3>1, <3>2, <3>3 DEF CodesInv
    <3>5. guesses[new.id] = 0 /\ signIns[new.id] = 0
      BY <3>1, <3>2, <3>3 DEF CodesInv
    <3>6. \A o \in otps' : o.id <= codes' /\ signIns'[o.id] = 0 /\ (o.id \in rewritten' \/ guesses'[o.id] <= o.attempts)
      BY <3>1, <3>2, <3>3, <3>5 DEF CodesInv
    <3>7. \A c \in S!Code : c > codes' => guesses'[c] = 0 /\ signIns'[c] = 0
      BY <3>2, <3>3 DEF CodesInv, S!Code
    <3> QED BY <3>2, <3>4, <3>6, <3>7 DEF CodesInv, CodesHold, S!GuessesBounded, S!CodeSignsInOnce, S!Code
  <2>3. CASE S!Consume(r)
    <3>1. CASE otps' = otps
      BY <2>3, <3>1, RowsRemoved DEF S!Consume
    <3>2. CASE otps' # otps
      <4>1. PICK o \in otps : o.id = r.code
        BY <2>3, <3>2 DEF S!Consume
      <4>2. r.code \in S!Code /\ r.code <= codes /\ codes \in Nat /\ signIns[r.code] = 0
        BY <4>1, RowUpdates DEF CodesInv, S!TypeOK
      <4>3. /\ \A c \in S!Code : signIns'[c] = IF c = r.code THEN 1 ELSE signIns[c]
            /\ otps' = {p \in otps : p.id # r.code} /\ UNCHANGED <<codes, guesses, rewritten>>
        BY <2>3, <3>2, <4>2 DEF S!Consume, S!TypeOK
      <4>4. \A p \in otps' : p \in otps /\ p.id \in S!Code /\ signIns'[p.id] = 0
        BY <4>3, RowUpdates DEF CodesInv, S!TypeOK
      <4>5. \A c \in S!Code : (c > codes => signIns'[c] = 0) /\ signIns'[c] <= 1
        BY <4>2, <4>3 DEF CodesInv, CodesHold, S!CodeSignsInOnce, S!Code
      <4> QED BY <4>3, <4>4, <4>5 DEF CodesInv, CodesHold, S!GuessesBounded, S!CodeSignsInOnce, S!Code
    <3> QED BY <3>1, <3>2
  <2>4. CASE S!ConfirmWrong(r)
    BY <2>4, ConfirmWrongKeepsCodes DEF S!TypeOK
  <2>5. CASE \/ S!DropSpent(r) \/ S!FindUser(r) \/ S!CreateUser(r) \/ S!ConfirmSpent(r) \/ S!ConfirmRight(r)
             \/ S!MoveAccount(r) \/ S!Stops(r)
    BY <2>5, RowsRemoved DEF S!DropSpent, S!FindUser, S!CreateUser, S!ConfirmSpent, S!ConfirmRight, S!MoveAccount, S!Stops
  <2> QED BY <1>4, <2>1, <2>2, <2>3, <2>4, <2>5
<1>5. CASE UNCHANGED S!vars
  BY <1>5, RowsRemoved DEF S!vars
<1> QED BY <1>1, <1>2, <1>3, <1>4, <1>5 DEF S!Next

\* Both are kept by every step of a sign-in.
LEMMA SignInInvariants == S!Spec => [](S!TypeOK /\ CodesInv)
<1>1. S!Init => S!TypeOK /\ CodesInv
  BY CodesAssumption DEF S!Init, S!TypeOK, S!Code, S!EmptyBag, S!SetToBag, S!IsABag, S!BagToSet,
     CodesInv, CodesHold, S!GuessesBounded, S!CodeSignsInOnce
<1> QED BY <1>1, SignInTypes, CodesStep, PTL DEF S!Spec

\* The tables of sign-in and email change keep their types, whatever requests are
\* in progress (src/api/routes/auth/index.ts).
THEOREM SignInTypeCorrect == S!Spec => []S!TypeOK
  BY SignInInvariants, PTL

\* CodesHold for every instance: however many guesses arrive together, through
\* resends, expiry and email changes, verify-otp compares at most OTP_MAX_ATTEMPTS
\* of them with a code, and one request signs in with it (POST /verify-otp).
THEOREM CodesAreKept == S!Spec => []CodesHold
<1>1. CodesInv => CodesHold
  BY DEF CodesInv
<1> QED BY <1>1, SignInInvariants, PTL

-----------------------------------------------------------------------------
(* Invites and owners, for any number of people, organizations and requests. *)

TeamRequest == [kind : {"invite", "resolved", "claimed", "role", "remove", "leave", "transfer"},
                org : Org \cup {Nowhere}, by : Colleague \cup Invite \cup {Nowhere}, target : Colleague, role : M!Role]

InviteRow == [org : Org \cup {Nowhere}, email : Colleague \cup {Nowhere}, role : M!Granted,
              status : {"free", "pending", "expired", "accepted", "revoked"}]

\* What a request in progress carries, by its kind.
TeamRequestOK(r) ==
    /\ r \in TeamRequest
    /\ r.kind # "transfer" => r.role \in M!Granted
    /\ r.kind \in {"resolved", "claimed"} => r.by \in Invite
    /\ r.kind = "transfer" => r.by \in Colleague /\ r.org \in Org /\ r.target # r.by

Owns(u, o) == user[u] = [org |-> o, role |-> "owner"]

\* An owner has an organization, and an organization that no stale write has hit
\* one owner.
OwnersInv ==
    /\ \A u \in Colleague : user[u].role = "owner" => user[u].org \in Org
    /\ \A o \in Org \ displaced : \E u \in Colleague : Owns(u, o)
    /\ \A o \in Org \ displaced : \A u, v \in Colleague : Owns(u, o) /\ Owns(v, o) => u = v

\* A claim that was won is held by one request, for an invite that has admitted
\* nobody yet; an invite that has is accepted and no longer claimed.
InvitesInv ==
    /\ \A i \in Invite : joined[i] # 0 => joined[i] = 1 /\ invite[i].status = "accepted"
    /\ \A i \in revoked : invite[i].status = "revoked"
    /\ \A r \in DOMAIN teamRequests : r.kind = "claimed" =>
           teamRequests[r] = 1 /\ joined[r.by] = 0 /\ invite[r.by].status = "accepted"
    /\ \A r, s \in DOMAIN teamRequests : r.kind = "claimed" /\ s.kind = "claimed" /\ r.by = s.by => r = s

TeamInv ==
    /\ M!TypeOK /\ OwnersInv /\ InvitesInv
    /\ M!IsABag(teamRequests) /\ \A r \in DOMAIN teamRequests : TeamRequestOK(r)

\* A request comes into the bag...
LEMMA TeamBegins ==
    ASSUME M!IsABag(teamRequests), NEW r, M!Begin(r)
    PROVE  /\ M!IsABag(teamRequests') /\ DOMAIN teamRequests' = DOMAIN teamRequests \cup {r}
           /\ \A s \in DOMAIN teamRequests : s # r => teamRequests'[s] = teamRequests[s]
  BY DEF M!IsABag, M!Begin, M!SetToBag, M!\oplus

\* ... leaves it...
LEMMA TeamEnds ==
    ASSUME M!IsABag(teamRequests), NEW r \in DOMAIN teamRequests, M!End(r)
    PROVE  /\ M!IsABag(teamRequests') /\ DOMAIN teamRequests' \subseteq DOMAIN teamRequests
           /\ \A s \in DOMAIN teamRequests : s # r => s \in DOMAIN teamRequests' /\ teamRequests'[s] = teamRequests[s]
           /\ teamRequests[r] = 1 => r \notin DOMAIN teamRequests'
           /\ \A s \in DOMAIN teamRequests' : teamRequests'[s] <= teamRequests[s]
  BY DEF M!IsABag, M!End, M!SetToBag, M!\ominus

\* ... or takes its next step there.
LEMMA TeamMoves ==
    ASSUME M!IsABag(teamRequests), NEW r \in DOMAIN teamRequests, NEW s, s \notin DOMAIN teamRequests,
           teamRequests' = M!\oplus(M!\ominus(teamRequests, M!SetToBag({r})), M!SetToBag({s}))
    PROVE  /\ M!IsABag(teamRequests') /\ DOMAIN teamRequests' \subseteq DOMAIN teamRequests \cup {s}
           /\ teamRequests'[s] = 1
           /\ \A q \in DOMAIN teamRequests : q # r /\ q \in DOMAIN teamRequests' => teamRequests'[q] = teamRequests[q]
<1> USE DEF M!IsABag, M!SetToBag
<1> DEFINE B == M!\ominus(teamRequests, M!SetToBag({r}))
<1>1. /\ M!IsABag(B) /\ DOMAIN B \subseteq DOMAIN teamRequests
      /\ \A q \in DOMAIN teamRequests : q # r => q \in DOMAIN B /\ B[q] = teamRequests[q]
  BY DEF M!\ominus
<1>2. teamRequests' = M!\oplus(B, M!SetToBag({s}))
  OBVIOUS
<1> HIDE DEF B
<1> QED BY <1>1, <1>2 DEF M!\oplus

\* A write that makes nobody an owner, and is counted when it hits one.
LEMMA NobodyPromoted ==
    ASSUME M!TypeOK, OwnersInv, NEW t \in Colleague, NEW v \in [org : Org \cup {Nowhere}, role : M!Granted],
           user' = [user EXCEPT ![t] = v], displaced' = M!Hits(t)
    PROVE  /\ OwnersInv' /\ displaced' \subseteq Org
           /\ user' \in [Colleague -> [org : Org \cup {Nowhere}, role : M!Role]]
<1>1. v \in [org : Org \cup {Nowhere}, role : M!Role] /\ v.role # "owner"
  BY DEF M!Granted, M!Role
<1>2. \A o \in Org : v # [org |-> o, role |-> "owner"]
  BY <1>1
<1>3. \A u \in Colleague : user'[u] = IF u = t THEN v ELSE user[u]
  BY DEF M!TypeOK
<1>4. displaced' = IF user[t].role = "owner" THEN displaced \cup {user[t].org} ELSE displaced
  BY DEF M!Hits
<1>5. \A o \in Org \ displaced' : o \in Org \ displaced /\ ~ Owns(t, o)
  BY <1>4 DEF Owns
<1>6. \A o \in Org \ displaced', u \in Colleague : Owns(u, o)' <=> Owns(u, o)
  BY <1>2, <1>3, <1>5 DEF Owns
<1>7. \A u \in Colleague : user'[u].role = "owner" => user'[u].org \in Org
  BY <1>1, <1>3 DEF OwnersInv
<1>8. displaced' \subseteq Org
  BY <1>4 DEF OwnersInv, M!TypeOK
<1>9. \A o \in Org \ displaced' : \E u \in Colleague : Owns(u, o)'
  BY <1>5, <1>6 DEF OwnersInv
<1>10. \A o \in Org \ displaced' : \A u, w \in Colleague : Owns(u, o)' /\ Owns(w, o)' => u = w
  BY <1>5, <1>6 DEF OwnersInv
<1>11. user' \in [Colleague -> [org : Org \cup {Nowhere}, role : M!Role]]
  BY <1>1 DEF M!TypeOK
<1> QED BY <1>7, <1>8, <1>9, <1>10, <1>11 DEF OwnersInv

\* A request that has only been read leaves everything as it was.
LEMMA ReadKeepsTeam ==
    ASSUME TeamInv, NEW r, TeamRequestOK(r), r.kind # "claimed", M!Begin(r),
           UNCHANGED <<user, invite, joined, revoked, displaced>>
    PROVE  TeamInv'
<1>1. /\ M!IsABag(teamRequests') /\ DOMAIN teamRequests' = DOMAIN teamRequests \cup {r}
      /\ \A s \in DOMAIN teamRequests : s # r => teamRequests'[s] = teamRequests[s]
  BY TeamBegins DEF TeamInv
<1>2. InvitesInv'
  BY <1>1 DEF TeamInv, InvitesInv
<1>3. OwnersInv' /\ M!TypeOK'
  BY DEF TeamInv, OwnersInv, Owns, M!TypeOK
<1> QED BY <1>1, <1>2, <1>3 DEF TeamInv, TeamRequestOK

\* A request that ends takes no claim from another.
LEMMA EndKeepsClaims ==
    ASSUME TeamInv, NEW r \in DOMAIN teamRequests, M!End(r)
    PROVE  /\ M!IsABag(teamRequests') /\ \A s \in DOMAIN teamRequests' : TeamRequestOK(s)
           /\ DOMAIN teamRequests' \subseteq DOMAIN teamRequests
           /\ \A s \in DOMAIN teamRequests' : s.kind = "claimed" => s # r /\ teamRequests'[s] = 1
<1>1. /\ M!IsABag(teamRequests') /\ DOMAIN teamRequests' \subseteq DOMAIN teamRequests
      /\ \A s \in DOMAIN teamRequests : s # r => teamRequests'[s] = teamRequests[s]
      /\ teamRequests[r] = 1 => r \notin DOMAIN teamRequests'
  BY TeamEnds DEF TeamInv
<1>2. \A s \in DOMAIN teamRequests' : TeamRequestOK(s)
  BY <1>1 DEF TeamInv
<1>3. \A s \in DOMAIN teamRequests : s.kind = "claimed" => teamRequests[s] = 1
  BY DEF TeamInv, InvitesInv
<1> QED BY <1>1, <1>2, <1>3

\* Invites change their status without touching one that is accepted or revoked.
LEMMA InvitesMoveOn ==
    ASSUME TeamInv, M!TypeOK', joined' = joined,
           M!IsABag(teamRequests'), DOMAIN teamRequests' \subseteq DOMAIN teamRequests,
           \A s \in DOMAIN teamRequests' : s.kind = "claimed" => teamRequests'[s] = 1,
           \A i \in Invite : invite[i].status \in {"accepted", "revoked"} => invite'[i].status = invite[i].status,
           \A i \in revoked' : i \in revoked \/ invite'[i].status = "revoked"
    PROVE  InvitesInv'
<1>1. \A s \in DOMAIN teamRequests : s.kind = "claimed" => s.by \in Invite
  BY DEF TeamInv, TeamRequestOK
<1>2. revoked \subseteq Invite
  BY DEF TeamInv, M!TypeOK
<1> QED BY <1>1, <1>2 DEF TeamInv, InvitesInv

\* Who acts and whom they name, in the requests that begin with a read.
LEMMA TeamReads ==
    ASSUME TeamInv, NEW u \in Colleague,
           \/ \E e \in Colleague, role \in M!Granted : M!CheckInvite(u, e, role)
           \/ \E i \in Invite : M!ResolveInvite(i, u)
           \/ \E t \in Colleague, kind \in {"role", "remove"}, role \in M!Granted : M!ReadTarget(u, t, kind, role)
           \/ \E t \in Colleague : M!ReadSuccessor(u, t)
           \/ M!Leave(u)
    PROVE  TeamInv'
<1>1. /\ user[u].org \in Org \cup {Nowhere}
      /\ \A i \in Invite : invite[i].org \in Org \cup {Nowhere} /\ invite[i].role \in M!Granted
      /\ M!Granted \subseteq M!Role /\ "viewer" \in M!Granted /\ "owner" \in M!Role
  BY DEF TeamInv, M!TypeOK, M!Granted, M!Role
<1>2. ASSUME NEW e \in Colleague, NEW role \in M!Granted, M!CheckInvite(u, e, role) PROVE TeamInv'
  <2>1. PICK old \in Invite \cup {Nowhere} : M!Begin(M!Handler("invite", user[u].org, old, e, role))
    BY <1>2 DEF M!CheckInvite
  <2> DEFINE r == M!Handler("invite", user[u].org, old, e, role)
  <2>2. TeamRequestOK(r) /\ r.kind # "claimed"
    BY <1>1 DEF M!Handler, TeamRequestOK, TeamRequest
  <2> HIDE DEF r
  <2> QED BY <1>2, <2>1, <2>2, ReadKeepsTeam DEF M!CheckInvite, r
<1>3. ASSUME NEW i \in Invite, M!ResolveInvite(i, u) PROVE TeamInv'
  <2> DEFINE r == M!Handler("resolved", invite[i].org, i, u, invite[i].role)
  <2>1. TeamRequestOK(r) /\ r.kind # "claimed"
    BY <1>1 DEF M!Handler, TeamRequestOK, TeamRequest
  <2> HIDE DEF r
  <2> QED BY <1>3, <2>1, ReadKeepsTeam DEF M!ResolveInvite, r
<1>4. ASSUME NEW t \in Colleague, NEW kind \in {"role", "remove"}, NEW role \in M!Granted, M!ReadTarget(u, t, kind, role)
      PROVE  TeamInv'
  <2> DEFINE r == M!Handler(kind, user[u].org, u, t, role)
  <2>1. TeamRequestOK(r) /\ r.kind # "claimed"
    BY <1>1 DEF M!Handler, TeamRequestOK, TeamRequest
  <2> HIDE DEF r
  <2> QED BY <1>4, <2>1, ReadKeepsTeam DEF M!ReadTarget, r
<1>5. ASSUME NEW t \in Colleague, M!ReadSuccessor(u, t) PROVE TeamInv'
  <2> DEFINE r == M!Handler("transfer", user[u].org, u, t, "owner")
  <2>1. user[u].org \in Org /\ t # u
    BY <1>1, <1>5 DEF M!ReadSuccessor, M!Can
  <2>2. TeamRequestOK(r) /\ r.kind # "claimed"
    BY <1>1, <2>1 DEF M!Handler, TeamRequestOK, TeamRequest
  <2> HIDE DEF r
  <2> QED BY <1>5, <2>2, ReadKeepsTeam DEF M!ReadSuccessor, r
<1>6. CASE M!Leave(u)
  <2> DEFINE r == M!Handler("leave", user[u].org, u, u, "viewer")
  <2>1. TeamRequestOK(r) /\ r.kind # "claimed"
    BY <1>1 DEF M!Handler, TeamRequestOK, TeamRequest
  <2> HIDE DEF r
  <2> QED BY <1>6, <2>1, ReadKeepsTeam DEF M!Leave, r
<1> QED BY <1>2, <1>3, <1>4, <1>5, <1>6

\* The statements that change an invite and nobody's membership.
LEMMA InviteWrites ==
    ASSUME TeamInv, UNCHANGED <<user, joined, displaced>>,
           M!IsABag(teamRequests'), DOMAIN teamRequests' \subseteq DOMAIN teamRequests,
           \A s \in DOMAIN teamRequests' : s.kind = "claimed" => teamRequests'[s] = 1,
           invite' \in [Invite -> InviteRow], revoked' \subseteq Invite,
           \A i \in Invite : invite[i].status \in {"accepted", "revoked"} => invite'[i].status = invite[i].status,
           \A i \in revoked' : i \in revoked \/ invite'[i].status = "revoked"
    PROVE  TeamInv'
<1>1. M!TypeOK'
  BY DEF TeamInv, M!TypeOK, InviteRow
<1>2. InvitesInv'
  BY <1>1, InvitesMoveOn
<1>3. OwnersInv'
  BY DEF TeamInv, OwnersInv, Owns
<1>4. \A s \in DOMAIN teamRequests' : TeamRequestOK(s)
  BY DEF TeamInv
<1> QED BY <1>1, <1>2, <1>3, <1>4 DEF TeamInv, TeamRequestOK

\* A row whose status is written keeps the rest of its columns.
LEMMA StatusUpdates ==
    ASSUME NEW v \in InviteRow, NEW status \in {"free", "pending", "expired", "accepted", "revoked"}
    PROVE  [v EXCEPT !.status = status] \in InviteRow /\ [v EXCEPT !.status = status].status = status
  BY DEF InviteRow

\* The statements that are about the invite alone: an insert, a revocation, the
\* end of its term.
LEMMA InviteSteps ==
    ASSUME TeamInv,
           \/ \E u \in Colleague, i \in Invite : M!RevokeInvite(u, i)
           \/ \E i \in Invite : M!ExpireInvite(i)
           \/ \E r \in DOMAIN teamRequests : M!CreateInvite(r)
    PROVE  TeamInv'
<1>0. invite \in [Invite -> InviteRow] /\ revoked \subseteq Invite
  BY DEF TeamInv, M!TypeOK, InviteRow
<1>1. ASSUME NEW i \in Invite, NEW status \in {"expired", "revoked"}, invite[i].status \notin {"accepted", "revoked"},
             invite' = [invite EXCEPT ![i].status = status],
             revoked' = IF status = "revoked" THEN revoked \cup {i} ELSE revoked,
             UNCHANGED <<user, joined, displaced, teamRequests>>
      PROVE  TeamInv'
  <2> DEFINE new == [invite[i] EXCEPT !.status = status]
  <2>0. invite[i] \in InviteRow /\ status \in {"free", "pending", "expired", "accepted", "revoked"}
    BY <1>0
  <2>1. new \in InviteRow /\ new.status = status
    BY <2>0, StatusUpdates
  <2>2. invite' = [invite EXCEPT ![i] = new]
    BY <1>1
  <2> HIDE DEF new
  <2>3. invite' \in [Invite -> InviteRow] /\ \A j \in Invite : invite'[j] = IF j = i THEN new ELSE invite[j]
    BY <1>0, <2>1, <2>2
  <2>4. /\ M!IsABag(teamRequests') /\ DOMAIN teamRequests' \subseteq DOMAIN teamRequests
        /\ \A s \in DOMAIN teamRequests' : s.kind = "claimed" => teamRequests'[s] = 1
    BY <1>1 DEF TeamInv, InvitesInv
  <2>5. revoked' \subseteq Invite /\ \A j \in revoked' : j \in revoked \/ invite'[j].status = "revoked"
    BY <1>0, <1>1, <2>1, <2>3
  <2>6. \A j \in Invite : invite[j].status \in {"accepted", "revoked"} => invite'[j].status = invite[j].status
    BY <1>1, <2>3
  <2> QED BY <1>1, <2>3, <2>4, <2>5, <2>6, InviteWrites
<1>2. ASSUME NEW u \in Colleague, NEW i \in Invite, M!RevokeInvite(u, i) PROVE TeamInv'
  BY <1>1, <1>2 DEF M!RevokeInvite
<1>3. ASSUME NEW i \in Invite, M!ExpireInvite(i) PROVE TeamInv'
  BY <1>1, <1>3 DEF M!ExpireInvite
<1>4. ASSUME NEW r \in DOMAIN teamRequests, M!CreateInvite(r) PROVE TeamInv'
  <2> DEFINE new == [org |-> r.org, email |-> r.target, role |-> r.role, status |-> "pending"]
             Gone(j) == [invite[j] EXCEPT !.status = "revoked"]
  <2>1. TeamRequestOK(r) /\ r.kind = "invite" /\ M!End(r)
    BY <1>4 DEF TeamInv, M!CreateInvite
  <2>2. new \in InviteRow
    BY <2>1 DEF TeamRequestOK, TeamRequest, InviteRow
  <2>3. \A j \in Invite : Gone(j) \in InviteRow /\ Gone(j).status = "revoked"
    BY <1>0, StatusUpdates
  <2>4. PICK i \in Invite : /\ invite[i].status = "free"
                            /\ invite' = [j \in Invite |->
                                   IF j = r.by /\ invite[j].status # "accepted" THEN Gone(j)
                                   ELSE IF j = i /\ {k \in M!Pending(r.org, r.target) : k # r.by} = {} THEN new
                                   ELSE invite[j]]
    BY <1>4 DEF M!CreateInvite
  <2>5. /\ revoked' = revoked \cup {j \in Invite : j = r.by /\ invite[j].status # "accepted"}
        /\ UNCHANGED <<user, joined, displaced>>
    BY <1>4 DEF M!CreateInvite
  <2> HIDE DEF new, Gone
  <2>6. invite' \in [Invite -> InviteRow]
    BY <1>0, <2>2, <2>3, <2>4
  <2>7. \A j \in Invite : /\ invite[j].status \in {"accepted", "revoked"} => invite'[j].status = invite[j].status
                          /\ j = r.by /\ invite[j].status # "accepted" => invite'[j].status = "revoked"
    BY <2>3, <2>4
  <2>8. /\ M!IsABag(teamRequests') /\ DOMAIN teamRequests' \subseteq DOMAIN teamRequests
        /\ \A s \in DOMAIN teamRequests' : s.kind = "claimed" => teamRequests'[s] = 1
    BY <2>1, EndKeepsClaims
  <2>9. revoked' \subseteq Invite /\ \A j \in revoked' : j \in revoked \/ invite'[j].status = "revoked"
    BY <1>0, <2>5, <2>7
  <2> QED BY <2>5, <2>6, <2>7, <2>8, <2>9, InviteWrites
<1> QED BY <1>2, <1>3, <1>4

\* The atomic claim: one request wins an invite that nobody has.
LEMMA ClaimWinsOnce ==
    ASSUME TeamInv, NEW r \in DOMAIN teamRequests, M!ClaimInvite(r)
    PROVE  TeamInv'
<1> DEFINE i == r.by
           won == [r EXCEPT !.kind = "claimed"]
<1>0. TeamRequestOK(r) /\ r.kind = "resolved" /\ i \in Invite /\ invite \in [Invite -> InviteRow]
  BY DEF TeamInv, M!TypeOK, M!ClaimInvite, TeamRequestOK, InviteRow
<1>1. CASE invite[i].status \notin {"pending", "expired"}
  <2>1. M!End(r) /\ UNCHANGED <<user, invite, joined, revoked, displaced>>
    BY <1>1 DEF M!ClaimInvite
  <2> QED BY <1>0, <2>1, EndKeepsClaims, InviteWrites DEF TeamInv, M!TypeOK, InvitesInv
<1>2. CASE invite[i].status \in {"pending", "expired"}
  <2>1. TeamRequestOK(won) /\ won.kind = "claimed" /\ won.by = i
    BY <1>0 DEF TeamRequestOK, TeamRequest
  <2>2. \A s \in DOMAIN teamRequests : s.kind = "claimed" => s.by \in Invite /\ s.by # i
    BY <1>0, <1>2 DEF TeamInv, InvitesInv, TeamRequestOK
  <2>3. won \notin DOMAIN teamRequests
    BY <2>1, <2>2
  <2> DEFINE row == [invite[i] EXCEPT !.status = "accepted"]
  <2>4. row \in InviteRow /\ row.status = "accepted"
    BY <1>0, StatusUpdates
  <2>5. /\ teamRequests' = M!\oplus(M!\ominus(teamRequests, M!SetToBag({r})), M!SetToBag({won}))
        /\ invite' = [invite EXCEPT ![i] = row] /\ UNCHANGED <<user, joined, revoked, displaced>>
    BY <1>2 DEF M!ClaimInvite
  <2> HIDE DEF won, row, i
  <2>6. /\ M!IsABag(teamRequests') /\ DOMAIN teamRequests' \subseteq DOMAIN teamRequests \cup {won}
        /\ teamRequests'[won] = 1
        /\ \A q \in DOMAIN teamRequests : q # r /\ q \in DOMAIN teamRequests' => teamRequests'[q] = teamRequests[q]
    BY <2>3, <2>5, TeamMoves DEF TeamInv
  <2>7. invite' \in [Invite -> InviteRow] /\ \A j \in Invite : invite'[j] = IF j = i THEN row ELSE invite[j]
    BY <1>0, <2>4, <2>5
  <2>8. M!TypeOK' /\ OwnersInv'
    BY <2>5, <2>7 DEF TeamInv, M!TypeOK, OwnersInv, Owns, InviteRow
  <2>9. joined[i] = 0 /\ i \notin revoked
    BY <1>0, <1>2 DEF TeamInv, InvitesInv
  <2>10. /\ \A j \in Invite : joined'[j] # 0 => joined'[j] = 1 /\ invite'[j].status = "accepted"
         /\ \A j \in revoked' : invite'[j].status = "revoked"
    BY <2>5, <2>7, <2>9 DEF TeamInv, InvitesInv, M!TypeOK
  <2>11. ASSUME NEW s \in DOMAIN teamRequests', s.kind = "claimed"
         PROVE  teamRequests'[s] = 1 /\ joined'[s.by] = 0 /\ invite'[s.by].status = "accepted"
    <3>1. CASE s = won
      BY <1>0, <2>1, <2>4, <2>5, <2>6, <2>7, <2>9, <3>1
    <3>2. CASE s # won
      BY <1>0, <2>2, <2>5, <2>6, <2>7, <2>11, <3>2 DEF TeamInv, InvitesInv
    <3> QED BY <3>1, <3>2
  <2>12. ASSUME NEW q \in DOMAIN teamRequests', NEW s \in DOMAIN teamRequests', q.kind = "claimed", s.kind = "claimed", q.by = s.by
         PROVE  q = s
    BY <2>1, <2>2, <2>6, <2>12 DEF TeamInv, InvitesInv
  <2>13. \A s \in DOMAIN teamRequests' : TeamRequestOK(s)
    BY <2>1, <2>6 DEF TeamInv
  <2> QED BY <2>6, <2>8, <2>10, <2>11, <2>12, <2>13 DEF TeamInv, InvitesInv, TeamRequestOK
<1> QED BY <1>1, <1>2

\* The winner's second statement puts the addressee in the organization, once.
LEMMA JoinsOnce ==
    ASSUME TeamInv, NEW r \in DOMAIN teamRequests, M!JoinOrg(r)
    PROVE  TeamInv'
<1> DEFINE v == [org |-> r.org, role |-> r.role]
<1>1. /\ r.by \in Invite /\ r.target \in Colleague /\ r.kind = "claimed"
      /\ v \in [org : Org \cup {Nowhere}, role : M!Granted]
  BY DEF TeamInv, TeamRequestOK, TeamRequest, M!JoinOrg
<1>2. /\ M!End(r) /\ user' = [user EXCEPT ![r.target] = v] /\ displaced' = M!Hits(r.target)
      /\ joined' = [joined EXCEPT ![r.by] = @ + 1] /\ UNCHANGED <<invite, revoked>>
  BY DEF M!JoinOrg, M!Hits
<1> HIDE DEF v
<1>3. joined[r.by] = 0 /\ invite[r.by].status = "accepted"
  BY <1>1 DEF TeamInv, InvitesInv
<1>4. /\ OwnersInv' /\ displaced' \subseteq Org
      /\ user' \in [Colleague -> [org : Org \cup {Nowhere}, role : M!Role]]
  BY <1>1, <1>2, NobodyPromoted DEF TeamInv
<1>5. \A i \in Invite : joined'[i] = IF i = r.by THEN 1 ELSE joined[i]
  BY <1>1, <1>2, <1>3 DEF TeamInv, M!TypeOK
<1>6. joined' \in [Invite -> Nat]
  BY <1>1, <1>2, <1>3 DEF TeamInv, M!TypeOK
<1>7. M!TypeOK'
  BY <1>2, <1>4, <1>6 DEF TeamInv, M!TypeOK
<1>8. /\ M!IsABag(teamRequests') /\ \A s \in DOMAIN teamRequests' : TeamRequestOK(s)
      /\ DOMAIN teamRequests' \subseteq DOMAIN teamRequests
      /\ \A s \in DOMAIN teamRequests' : s.kind = "claimed" => s # r /\ teamRequests'[s] = 1
  BY <1>2, EndKeepsClaims
<1>9. \A s \in DOMAIN teamRequests' : s.kind = "claimed" => s.by \in Invite /\ s.by # r.by
  BY <1>1, <1>8 DEF TeamInv, InvitesInv, TeamRequestOK
<1>10. InvitesInv'
  BY <1>2, <1>3, <1>5, <1>8, <1>9 DEF TeamInv, InvitesInv
<1> QED BY <1>4, <1>7, <1>8, <1>10 DEF TeamInv, TeamRequestOK

\* The transaction that moves the owner role, from what was read before it.
LEMMA OwnershipMoves ==
    ASSUME TeamInv, NEW r \in DOMAIN teamRequests, M!TransferOwnership(r)
    PROVE  TeamInv'
<1> DEFINE a == r.by
           t == r.target
           down == [user[a] EXCEPT !.role = "admin"]
           up == [user[t] EXCEPT !.role = "owner"]
<1>1. a \in Colleague /\ t \in Colleague /\ r.org \in Org /\ t # a /\ user[a].role = "owner" /\ user[a].org \in Org
  BY DEF TeamInv, OwnersInv, TeamRequestOK, TeamRequest, M!TransferOwnership
<1>2. user \in [Colleague -> [org : Org \cup {Nowhere}, role : M!Role]] /\ displaced \subseteq Org
  BY DEF TeamInv, M!TypeOK
<1>3. /\ down \in [org : Org \cup {Nowhere}, role : M!Role] /\ down.role = "admin" /\ down.org = user[a].org
      /\ up \in [org : Org \cup {Nowhere}, role : M!Role] /\ up = [org |-> user[t].org, role |-> "owner"]
  BY <1>1, <1>2 DEF M!Role
<1>4. user' = [u \in Colleague |-> IF u = a THEN down ELSE IF u = t /\ user[t].org = r.org THEN up ELSE user[u]]
  BY <1>1, <1>2 DEF M!TransferOwnership
<1>5. /\ M!End(r) /\ UNCHANGED <<invite, joined, revoked>>
      /\ displaced' = IF user[a].org # r.org \/ user[t].org # r.org THEN displaced \cup {user[a].org, r.org} ELSE displaced
  BY DEF M!TransferOwnership
<1> HIDE DEF a, t, down, up
<1>6. /\ user' \in [Colleague -> [org : Org \cup {Nowhere}, role : M!Role]]
      /\ \A u \in Colleague : user'[u] = IF u = a THEN down ELSE IF u = t /\ user[t].org = r.org THEN up ELSE user[u]
  BY <1>2, <1>3, <1>4
<1>7. displaced' \subseteq Org /\ displaced \subseteq displaced'
  BY <1>1, <1>2, <1>5
<1>8. \A u \in Colleague : user'[u].role = "owner" => user'[u].org \in Org
  BY <1>1, <1>3, <1>6 DEF TeamInv, OwnersInv
<1>9. \A o \in Org : down # [org |-> o, role |-> "owner"]
  BY <1>3
<1>10. ASSUME NEW o \in Org \ displaced'
       PROVE  /\ \E u \in Colleague : Owns(u, o)'
              /\ \A u, v \in Colleague : Owns(u, o)' /\ Owns(v, o)' => u = v
  <2>1. o \in Org \ displaced
    BY <1>7
  <2>2. CASE o = r.org
    <3>1. user[a].org = o /\ user[t].org = o
      BY <1>5, <2>2
    <3>2. \A u \in Colleague : Owns(u, o) => u = a
      <4>1. Owns(a, o)
        BY <1>1, <1>2, <3>1 DEF Owns
      <4> QED BY <1>1, <2>1, <4>1 DEF TeamInv, OwnersInv
    <3>3. user'[t] = [org |-> o, role |-> "owner"]
      BY <1>1, <1>3, <1>6, <2>2, <3>1
    <3>4. \A u \in Colleague : Owns(u, o)' => u = t
      BY <1>6, <1>9, <3>2 DEF Owns
    <3> QED BY <1>1, <3>3, <3>4 DEF Owns
  <2>3. CASE o # r.org
    <3>1. user[a].org # o
      BY <1>5, <2>3
    <3>2. ~ Owns(a, o)
      BY <3>1 DEF Owns
    <3>3. ~ Owns(a, o)'
      BY <1>1, <1>6, <1>9 DEF Owns
    <3>4. ASSUME NEW u \in Colleague, u # a PROVE Owns(u, o)' <=> Owns(u, o)
      <4>1. CASE u = t /\ user[t].org = r.org
        BY <1>3, <1>6, <2>3, <3>4, <4>1 DEF Owns
      <4>2. CASE ~(u = t /\ user[t].org = r.org)
        BY <1>6, <3>4, <4>2 DEF Owns
      <4> QED BY <4>1, <4>2
    <3>5. \A u \in Colleague : Owns(u, o)' <=> Owns(u, o)
      BY <3>2, <3>3, <3>4
    <3> QED BY <2>1, <3>5 DEF TeamInv, OwnersInv
  <2> QED BY <2>2, <2>3
<1>11. OwnersInv'
  BY <1>8, <1>10 DEF OwnersInv
<1>12. M!TypeOK'
  BY <1>5, <1>6, <1>7 DEF TeamInv, M!TypeOK
<1>13. /\ M!IsABag(teamRequests') /\ \A s \in DOMAIN teamRequests' : TeamRequestOK(s)
       /\ DOMAIN teamRequests' \subseteq DOMAIN teamRequests
       /\ \A s \in DOMAIN teamRequests' : s.kind = "claimed" => s # r /\ teamRequests'[s] = 1
  BY <1>5, EndKeepsClaims
<1>14. InvitesInv'
  BY <1>5, <1>12, <1>13, InvitesMoveOn DEF TeamInv, InvitesInv
<1> QED BY <1>11, <1>12, <1>13, <1>14 DEF TeamInv, TeamRequestOK

\* A role change, a removal or a leave, by user id alone; and a request that stops.
LEMMA MemberWrites ==
    ASSUME TeamInv, NEW r \in DOMAIN teamRequests, M!UpdateRole(r) \/ M!RemoveMember(r) \/ M!Stops(r)
    PROVE  TeamInv'
<1>1. M!End(r) /\ UNCHANGED <<invite, joined, revoked>>
  BY DEF M!UpdateRole, M!RemoveMember, M!Stops
<1>2. TeamRequestOK(r) /\ r.target \in Colleague /\ user[r.target] \in [org : Org \cup {Nowhere}, role : M!Role]
  BY DEF TeamInv, TeamRequestOK, TeamRequest, M!TypeOK
<1>3. OwnersInv' /\ M!TypeOK'
  <2>1. ASSUME NEW v \in [org : Org \cup {Nowhere}, role : M!Granted],
               user' = [user EXCEPT ![r.target] = v], displaced' = M!Hits(r.target)
        PROVE  OwnersInv' /\ M!TypeOK'
    <3>1. /\ OwnersInv' /\ displaced' \subseteq Org
          /\ user' \in [Colleague -> [org : Org \cup {Nowhere}, role : M!Role]]
      BY <1>2, <2>1, NobodyPromoted DEF TeamInv
    <3> QED BY <1>1, <3>1 DEF TeamInv, M!TypeOK
  <2>2. CASE M!UpdateRole(r)
    <3> DEFINE v == [user[r.target] EXCEPT !.role = r.role]
    <3>1. v \in [org : Org \cup {Nowhere}, role : M!Granted]
      BY <1>2, <2>2 DEF M!UpdateRole, TeamRequestOK
    <3>2. user' = [user EXCEPT ![r.target] = v] /\ displaced' = M!Hits(r.target)
      BY <2>2 DEF M!UpdateRole
    <3> HIDE DEF v
    <3> QED BY <2>1, <3>1, <3>2
  <2>3. CASE M!RemoveMember(r)
    <3> DEFINE v == [org |-> Nowhere, role |-> "viewer"]
    <3>1. v \in [org : Org \cup {Nowhere}, role : M!Granted]
      BY DEF M!Granted
    <3>2. user' = [user EXCEPT ![r.target] = v] /\ displaced' = M!Hits(r.target)
      BY <2>3 DEF M!RemoveMember
    <3> HIDE DEF v
    <3> QED BY <2>1, <3>1, <3>2
  <2>4. CASE M!Stops(r)
    BY <2>4 DEF M!Stops, TeamInv, OwnersInv, Owns, M!TypeOK
  <2> QED BY <2>2, <2>3, <2>4
<1>4. /\ M!IsABag(teamRequests') /\ \A s \in DOMAIN teamRequests' : TeamRequestOK(s)
      /\ DOMAIN teamRequests' \subseteq DOMAIN teamRequests
      /\ \A s \in DOMAIN teamRequests' : s.kind = "claimed" => s # r /\ teamRequests'[s] = 1
  BY <1>1, EndKeepsClaims
<1>5. InvitesInv'
  BY <1>1, <1>3, <1>4, InvitesMoveOn DEF TeamInv, InvitesInv
<1> QED BY <1>3, <1>4, <1>5 DEF TeamInv, TeamRequestOK

\* Every step of a team keeps it.
LEMMA TeamInvariant == M!Spec => []TeamInv
<1>1. M!Init => TeamInv
  <2> SUFFICES ASSUME M!Init PROVE TeamInv
    OBVIOUS
  <2> DEFINE org(u) == CHOOSE o \in Org : Founder[o] = u
  <2>1. \A u \in Colleague : (\E o \in Org : Founder[o] = u) => org(u) \in Org /\ Founder[org(u)] = u
    OBVIOUS
  <2>2. user = [u \in Colleague |-> IF \E o \in Org : Founder[o] = u THEN [org |-> org(u), role |-> "owner"]
                                    ELSE [org |-> Nowhere, role |-> "viewer"]]
    BY DEF M!Init
  <2> HIDE DEF org
  <2>3. \A u \in Colleague, o \in Org : Owns(u, o) <=> Founder[o] = u
    BY <2>1, <2>2, FounderAssumption DEF Owns
  <2>4. OwnersInv
    BY <2>1, <2>2, <2>3, FounderAssumption DEF OwnersInv
  <2>5. user \in [Colleague -> [org : Org \cup {Nowhere}, role : M!Role]]
    BY <2>1, <2>2 DEF M!Role
  <2>6. invite \in [Invite -> InviteRow] /\ joined = [i \in Invite |-> 0] /\ revoked = {} /\ displaced = {}
    BY DEF M!Init, M!Blank, InviteRow, M!Granted
  <2>7. M!TypeOK
    BY <2>5, <2>6 DEF M!TypeOK, InviteRow
  <2>8. DOMAIN teamRequests = {} /\ M!IsABag(teamRequests)
    BY DEF M!Init, M!EmptyBag, M!SetToBag, M!IsABag
  <2> QED BY <2>4, <2>6, <2>7, <2>8 DEF TeamInv, InvitesInv
<1>2. TeamInv /\ [M!Next]_(M!vars) => TeamInv'
  <2> SUFFICES ASSUME TeamInv, [M!Next]_(M!vars) PROVE TeamInv'
    OBVIOUS
  <2>1. CASE UNCHANGED M!vars
    BY <2>1 DEF M!vars, TeamInv, M!TypeOK, OwnersInv, Owns, InvitesInv, TeamRequestOK
  <2>2. CASE M!Next
    BY <2>2, TeamReads, InviteSteps, ClaimWinsOnce, JoinsOnce, MemberWrites, OwnershipMoves DEF M!Next, M!BagToSet
  <2> QED BY <2>1, <2>2
<1> QED BY <1>1, <1>2, PTL DEF M!Spec

\* TeamHolds for every instance: an invite admits its addressee once, and not after
\* its revocation was committed (claimInvite in src/services/invite.service.ts); and
\* through transfers, role changes, removals and moves in flight an organization
\* has exactly one owner until a write from an older read hits one
\* (src/api/routes/org/index.ts).
THEOREM TeamsAreKept == M!Spec => []TeamHolds
<1>1. TeamInv => TeamHolds
  <2> SUFFICES ASSUME TeamInv PROVE M!InviteAdmitsOnce /\ M!OneOwner
    BY DEF TeamHolds
  <2>1. M!InviteAdmitsOnce
    BY DEF TeamInv, InvitesInv, M!TypeOK, M!InviteAdmitsOnce
  <2>2. \A X : M!Cardinality(X) = Cardinality(X)
    BY DEF Cardinality, M!Cardinality
  <2>3. ASSUME NEW o \in Org \ displaced
        PROVE  M!Cardinality({u \in Colleague : user[u] = [org |-> o, role |-> "owner"]}) = 1
    <3>1. PICK u \in Colleague : Owns(u, o)
      BY DEF TeamInv, OwnersInv
    <3>2. {v \in Colleague : user[v] = [org |-> o, role |-> "owner"]} = {u}
      BY <3>1 DEF TeamInv, OwnersInv, Owns
    <3> QED BY <2>2, <3>2, FS_Singleton
  <2> QED BY <2>1, <2>3 DEF M!OneOwner
<1> QED BY <1>1, TeamInvariant, PTL

-----------------------------------------------------------------------------
(* Sessions, for any durations and any number of tokens and requests. *)

\* A token outlives the second it was issued in, a verifier's is read-only, and
\* one that a cutoff lets pass goes back to a sign-in after it or is a survivor.
TokenOK(t) ==
    /\ t \in T!Token /\ t.iat <= T!Sec(now) /\ t.iat < t.exp
    /\ t.of = "verifier" => t.vrf /\ t.exp <= T!Sec(t.born) + VerifyTtl
    /\ t \notin survivors /\ t.iat >= T!Sec(cutoff[t.of]) => t.born >= cutoff[t.of]

\* A request that may write holds a token that could, still listed or expired by now.
MayAct(t) == TokenOK(t) /\ ~t.vrf /\ (t \in tokens \/ t.exp <= T!Sec(now))
SessionRequestOK(r) ==
    \/ \E j \in Jti : r = T!Minting(j)
    \/ \E kind \in {"touch", "logout-all"}, t \in T!Token : r = T!Authed(kind, t) /\ MayAct(t)

Verification == {t \in tokens : t.vrf}
Issued == {j \in Jti : claimed[j] = "issued"}

SessionsInv ==
    /\ now \in Nat /\ cutoff \in [T!Account -> Nat] /\ claimed \in [Jti -> {"none", "claimed", "failed", "issued"}]
    /\ \A a \in T!Account : cutoff[a] <= now
    /\ \A t \in tokens : TokenOK(t)
    /\ T!IsABag(sessionRequests) /\ \A r \in DOMAIN sessionRequests : SessionRequestOK(r)
    /\ \A j \in Jti : T!Minting(j) \in DOMAIN sessionRequests =>
           claimed[j] = "claimed" /\ sessionRequests[T!Minting(j)] = 1
    /\ IsFiniteSet(Verification) /\ Cardinality(Verification) <= Cardinality(Issued)

\* Whole seconds are numbers, in the order of the times they are of.
LEMMA Seconds ==
    /\ \A n \in Nat : T!Sec(n) \in Nat
    /\ \A m, n \in Nat : m <= n => T!Sec(m) <= T!Sec(n)
  BY DEF T!Sec

\* A request begins: it alone is added.
LEMMA SessionBegins ==
    ASSUME T!IsABag(sessionRequests), NEW r, T!Begin(r)
    PROVE  /\ T!IsABag(sessionRequests') /\ DOMAIN sessionRequests' = DOMAIN sessionRequests \cup {r}
           /\ \A s \in DOMAIN sessionRequests : s # r => sessionRequests'[s] = sessionRequests[s]
           /\ r \notin DOMAIN sessionRequests => sessionRequests'[r] = 1
  BY DEF T!IsABag, T!Begin, T!SetToBag, T!\oplus

\* A request ends: nothing is added.
LEMMA SessionEnds ==
    ASSUME T!IsABag(sessionRequests), NEW r, T!End(r)
    PROVE  /\ T!IsABag(sessionRequests') /\ DOMAIN sessionRequests' \subseteq DOMAIN sessionRequests
           /\ r \in DOMAIN sessionRequests /\ (sessionRequests[r] = 1 => r \notin DOMAIN sessionRequests')
           /\ \A s \in DOMAIN sessionRequests' : s # r => sessionRequests'[s] = sessionRequests[s]
           /\ \A s \in DOMAIN sessionRequests : s # r => s \in DOMAIN sessionRequests'
  BY DEF T!IsABag, T!End, T!SetToBag, T!\ominus, T!BagToSet

\* The fields of the two kinds of request.
LEMMA RequestFields ==
    /\ \A kind, t : T!Authed(kind, t).kind = kind /\ T!Authed(kind, t).token = t
    /\ \A j : T!Minting(j).kind = "mint" /\ T!Minting(j).jti = j
  BY DEF T!Authed, T!Minting

\* The request behind a touch or a logout-all may act.
LEMMA ActsWithLeave ==
    ASSUME SessionsInv, NEW kind \in {"touch", "logout-all"}, NEW t, T!Authed(kind, t) \in DOMAIN sessionRequests
    PROVE  t \in T!Token /\ MayAct(t)
<1>1. SessionRequestOK(T!Authed(kind, t))
  BY DEF SessionsInv
<1> QED BY <1>1, RequestFields DEF SessionRequestOK

\* Time and later survivors take nothing from what a token says of itself.
LEMMA TokensAge ==
    ASSUME SessionsInv, now' \in Nat, now <= now', cutoff' = cutoff, survivors \subseteq survivors', NEW t, TokenOK(t)
    PROVE  TokenOK(t)'
<1>1. T!Sec(now) \in Nat /\ T!Sec(now') \in Nat /\ T!Sec(now) <= T!Sec(now')
  BY Seconds DEF SessionsInv
<1>2. T!Sec(now)' = T!Sec(now')
  BY DEF T!Sec
<1> QED BY <1>1, <1>2 DEF TokenOK, T!Token, T!Sec

\* A second later every request in progress is still in order.
LEMMA RequestsAge ==
    ASSUME SessionsInv, now' \in Nat, now <= now', cutoff' = cutoff, survivors \subseteq survivors',
           \A t \in tokens : t \in tokens' \/ t.exp <= T!Sec(now'), NEW r, SessionRequestOK(r)
    PROVE  SessionRequestOK(r)'
<1>1. CASE \E j \in Jti : r = T!Minting(j)
  BY <1>1 DEF SessionRequestOK, T!Minting
<1>2. ASSUME NEW kind \in {"touch", "logout-all"}, NEW t \in T!Token, r = T!Authed(kind, t), MayAct(t)
      PROVE  SessionRequestOK(r)'
  <2>1. TokenOK(t)'
    BY <1>2, TokensAge DEF MayAct
  <2>2. T!Sec(now) \in Nat /\ T!Sec(now') \in Nat /\ T!Sec(now) <= T!Sec(now') /\ T!Sec(now)' = T!Sec(now') /\ t.exp \in Nat
    BY Seconds DEF SessionsInv, T!Token, T!Sec
  <2>3. MayAct(t)'
    BY <1>2, <2>1, <2>2 DEF MayAct
  <2> QED BY <1>2, <2>3 DEF SessionRequestOK, T!Authed, T!Token
<1> QED BY <1>1, <1>2 DEF SessionRequestOK

\* Nothing is minted: the claims and the verification sessions stay within bounds.
LEMMA NothingMinted ==
    ASSUME SessionsInv, claimed' = claimed, T!IsABag(sessionRequests'),
           Verification' \subseteq Verification,
           \A j \in Jti : T!Minting(j) \in DOMAIN sessionRequests' =>
               T!Minting(j) \in DOMAIN sessionRequests /\ sessionRequests'[T!Minting(j)] = 1
    PROVE  /\ \A j \in Jti : T!Minting(j) \in DOMAIN sessionRequests' =>
                  claimed'[j] = "claimed" /\ sessionRequests'[T!Minting(j)] = 1
           /\ IsFiniteSet(Verification') /\ Cardinality(Verification') <= Cardinality(Issued')
<1>1. \A j \in Jti : T!Minting(j) \in DOMAIN sessionRequests' =>
          claimed'[j] = "claimed" /\ sessionRequests'[T!Minting(j)] = 1
  BY DEF SessionsInv
<1>2. IsFiniteSet(Verification') /\ Cardinality(Verification') <= Cardinality(Verification)
  BY FS_Subset DEF SessionsInv
<1>3. Issued' = Issued
  BY DEF Issued
<1>4. Cardinality(Verification) \in Nat /\ Cardinality(Verification') \in Nat /\ IsFiniteSet(Issued)
  BY <1>2, FS_CardinalityType, FS_Subset, SessionsAssumption DEF SessionsInv, Issued
<1>5. Cardinality(Issued) \in Nat
  BY <1>4, FS_CardinalityType
<1> QED BY <1>1, <1>2, <1>3, <1>4, <1>5 DEF SessionsInv

\* A token is issued with these columns.
LEMMA IssuedToken ==
    ASSUME SessionsInv, NEW a \in T!Account, NEW vrf \in BOOLEAN, NEW born \in Nat
    PROVE  LET t == T!Issue(a, vrf, born)
           IN  /\ t \in T!Token /\ t.of = a /\ t.iat = T!Sec(now) /\ t.vrf = vrf /\ t.born = born
               /\ t.exp = T!Sec(now) + (IF vrf THEN VerifyTtl ELSE Ttl) /\ t.iat < t.exp
<1>1. T!Sec(now) \in Nat
  BY Seconds DEF SessionsInv
<1> QED BY <1>1, SessionsAssumption DEF T!Issue, T!Token

\* A sign-in, a renewal or a minted session adds one good token.
LEMMA TokenAdded ==
    ASSUME SessionsInv, NEW fresh, tokens' = tokens \cup {fresh}, survivors \subseteq survivors', UNCHANGED <<now, cutoff>>,
           TokenOK(fresh)', DOMAIN sessionRequests' \subseteq DOMAIN sessionRequests
    PROVE  /\ \A t \in tokens' : TokenOK(t)'
           /\ \A r \in DOMAIN sessionRequests' : SessionRequestOK(r)'
<1>1. now' \in Nat /\ now <= now'
  BY DEF SessionsInv
<1>2. \A t \in tokens : TokenOK(t)'
  BY <1>1, TokensAge DEF SessionsInv
<1>3. \A r \in DOMAIN sessionRequests : SessionRequestOK(r)'
  BY <1>1, RequestsAge DEF SessionsInv
<1> QED BY <1>2, <1>3

\* A sign-in or a fresh token adds a session no cutoff is after.
LEMMA SessionSignsIn == SessionsInv /\ T!SignsIn => SessionsInv'
<1> SUFFICES ASSUME SessionsInv, T!SignsIn PROVE SessionsInv'
  OBVIOUS
<1>0. PICK fresh : fresh = T!Issue("user", FALSE, now)
  OBVIOUS
<1>1. tokens' = tokens \cup {fresh} /\ UNCHANGED <<now, cutoff, sessionRequests, claimed, survivors>>
  BY <1>0 DEF T!SignsIn
<1>2. /\ fresh \in T!Token /\ fresh.of = "user" /\ fresh.iat = T!Sec(now) /\ fresh.vrf = FALSE /\ fresh.born = now
      /\ fresh.iat < fresh.exp
  BY <1>0, IssuedToken DEF SessionsInv, T!Account
<1>3. TokenOK(fresh)'
  <2>1. T!Sec(now)' = T!Sec(now) /\ T!Sec(now) \in Nat /\ cutoff["user"] \in Nat /\ cutoff["user"] <= now
    BY <1>1, Seconds DEF T!Sec, SessionsInv, T!Account
  <2> QED BY <1>1, <1>2, <2>1 DEF TokenOK
<1>4. Verification' \subseteq Verification
  BY <1>1, <1>2 DEF Verification
<1>5. \A t \in tokens' : TokenOK(t)'
  BY <1>1, <1>3, TokenAdded
<1>6. \A r \in DOMAIN sessionRequests' : SessionRequestOK(r)'
  BY <1>1, <1>3, TokenAdded
<1>7. /\ \A j \in Jti : T!Minting(j) \in DOMAIN sessionRequests' =>
             claimed'[j] = "claimed" /\ sessionRequests'[T!Minting(j)] = 1
      /\ IsFiniteSet(Verification') /\ Cardinality(Verification') <= Cardinality(Issued')
  BY <1>1, <1>4, NothingMinted DEF SessionsInv
<1> QED BY <1>1, <1>5, <1>6, <1>7 DEF SessionsInv, T!Minting

\* requireAuth: the request may act from here on, whatever happens before it does.
LEMMA SessionAuthenticates ==
    ASSUME SessionsInv, NEW t \in tokens, NEW kind \in {"touch", "logout-all"}, T!Authenticate(t, kind)
    PROVE  SessionsInv'
<1>1. PICK r : r = T!Authed(kind, t)
  OBVIOUS
<1>2. /\ T!Begin(r) /\ UNCHANGED <<now, tokens, cutoff, claimed, survivors>> /\ ~t.vrf /\ TokenOK(t) /\ t \in T!Token
      /\ r.kind # "mint"
  BY <1>1, RequestFields DEF T!Authenticate, T!ReadOnlyGuard, SessionsInv, TokenOK
<1>3. /\ T!IsABag(sessionRequests') /\ DOMAIN sessionRequests' = DOMAIN sessionRequests \cup {r}
      /\ \A s \in DOMAIN sessionRequests : s # r => sessionRequests'[s] = sessionRequests[s]
  BY <1>2, SessionBegins DEF SessionsInv
<1>4. now' \in Nat /\ now <= now' /\ survivors \subseteq survivors' /\ \A u \in tokens : u \in tokens'
  BY <1>2 DEF SessionsInv
<1>5. \A u \in tokens' : TokenOK(u)'
  BY <1>2, <1>4, TokensAge DEF SessionsInv
<1>6. SessionRequestOK(r)
  BY <1>1, <1>2 DEF SessionRequestOK, MayAct
<1>7. \A s \in DOMAIN sessionRequests' : SessionRequestOK(s)'
  BY <1>2, <1>3, <1>4, <1>6, RequestsAge DEF SessionsInv
<1>8. \A j \in Jti : T!Minting(j) # r
  BY <1>2, RequestFields
<1>9. /\ \A j \in Jti : T!Minting(j) \in DOMAIN sessionRequests' =>
             claimed'[j] = "claimed" /\ sessionRequests'[T!Minting(j)] = 1
      /\ IsFiniteSet(Verification') /\ Cardinality(Verification') <= Cardinality(Issued')
  BY <1>2, <1>3, <1>8, NothingMinted DEF SessionsInv, Verification
<1> QED BY <1>2, <1>3, <1>5, <1>7, <1>9 DEF SessionsInv, T!Minting

\* The requests after one that is no mint has ended.
LEMMA ActedRequests ==
    ASSUME SessionsInv, NEW kind \in {"touch", "logout-all"}, NEW t, T!End(T!Authed(kind, t))
    PROVE  /\ T!IsABag(sessionRequests') /\ DOMAIN sessionRequests' \subseteq DOMAIN sessionRequests
           /\ t \in T!Token /\ MayAct(t)
           /\ \A j \in Jti : T!Minting(j) \in DOMAIN sessionRequests' =>
                  T!Minting(j) \in DOMAIN sessionRequests /\ sessionRequests'[T!Minting(j)] = 1
<1>1. PICK r : r = T!Authed(kind, t)
  OBVIOUS
<1>2. /\ T!IsABag(sessionRequests') /\ DOMAIN sessionRequests' \subseteq DOMAIN sessionRequests /\ r \in DOMAIN sessionRequests
      /\ \A s \in DOMAIN sessionRequests' : s # r => sessionRequests'[s] = sessionRequests[s]
  BY <1>1, SessionEnds DEF SessionsInv
<1>3. t \in T!Token /\ MayAct(t)
  BY <1>1, <1>2, ActsWithLeave
<1>4. \A j \in Jti : T!Minting(j) # r
  BY <1>1, RequestFields
<1> QED BY <1>2, <1>3, <1>4 DEF SessionsInv

\* A renewal passes on what its token was: a survivor's is a survivor.
LEMMA SessionTouches ==
    ASSUME SessionsInv, NEW t, T!Touch(t)
    PROVE  SessionsInv'
<1>1. PICK fresh : fresh = T!Issue(t.of, FALSE, t.born)
  OBVIOUS
<1>2. /\ T!End(T!Authed("touch", t)) /\ tokens' = tokens \cup {fresh} /\ UNCHANGED <<now, cutoff, claimed>>
      /\ survivors' = IF t.iat < T!Sec(cutoff[t.of]) \/ t \in survivors THEN survivors \cup {fresh} ELSE survivors
  BY <1>1 DEF T!Touch
<1>3. /\ T!IsABag(sessionRequests') /\ DOMAIN sessionRequests' \subseteq DOMAIN sessionRequests
      /\ t \in T!Token /\ MayAct(t)
      /\ \A j \in Jti : T!Minting(j) \in DOMAIN sessionRequests' =>
             T!Minting(j) \in DOMAIN sessionRequests /\ sessionRequests'[T!Minting(j)] = 1
  BY <1>2, ActedRequests
<1>4. t.of \in T!Account /\ t.born \in Nat /\ t.iat \in Nat /\ t.of # "verifier"
  BY <1>3 DEF T!Token, MayAct, TokenOK
<1>5. /\ fresh \in T!Token /\ fresh.of = t.of /\ fresh.iat = T!Sec(now) /\ fresh.vrf = FALSE /\ fresh.born = t.born
      /\ fresh.iat < fresh.exp
  <2>1. LET f == T!Issue(t.of, FALSE, t.born)
        IN  /\ f \in T!Token /\ f.of = t.of /\ f.iat = T!Sec(now) /\ f.vrf = FALSE /\ f.born = t.born
            /\ f.exp = T!Sec(now) + (IF FALSE THEN VerifyTtl ELSE Ttl) /\ f.iat < f.exp
    BY <1>4, IssuedToken
  <2> QED BY <1>1, <2>1
<1>6. TokenOK(fresh)'
  <2>1. T!Sec(now)' = T!Sec(now) /\ T!Sec(now) \in Nat /\ cutoff[t.of] \in Nat /\ T!Sec(cutoff[t.of]) \in Nat
    BY <1>2, <1>4, Seconds DEF T!Sec, SessionsInv
  <2>2. fresh \notin survivors' => t.born >= cutoff[t.of]
    BY <1>2, <1>3, <1>4, <2>1 DEF MayAct, TokenOK
  <2> QED BY <1>2, <1>4, <1>5, <2>1, <2>2 DEF TokenOK
<1>7. Verification' \subseteq Verification
  BY <1>2, <1>5 DEF Verification
<1>8. survivors \subseteq survivors'
  BY <1>2
<1>9. \A u \in tokens' : TokenOK(u)'
  BY <1>2, <1>3, <1>6, <1>8, TokenAdded
<1>10. \A r \in DOMAIN sessionRequests' : SessionRequestOK(r)'
  BY <1>2, <1>3, <1>6, <1>8, TokenAdded
<1>11. /\ \A j \in Jti : T!Minting(j) \in DOMAIN sessionRequests' =>
              claimed'[j] = "claimed" /\ sessionRequests'[T!Minting(j)] = 1
       /\ IsFiniteSet(Verification') /\ Cardinality(Verification') <= Cardinality(Issued')
  BY <1>2, <1>3, <1>7, NothingMinted
<1> QED BY <1>2, <1>3, <1>9, <1>10, <1>11 DEF SessionsInv, T!Minting

\* The cutoff leaves only tokens of its own second, which are the survivors: a token
\* of that second has not expired, so it is still listed.
LEMMA CutoffSorts ==
    ASSUME SessionsInv, NEW x \in T!Token, T!LogoutAll(x), NEW t, TokenOK(t), t \in tokens \/ t.exp <= T!Sec(now)
    PROVE  TokenOK(t)'
<1>1. /\ cutoff' = [cutoff EXCEPT ![x.of] = now] /\ UNCHANGED <<now, tokens>>
      /\ survivors' = survivors \cup {u \in tokens : u.of = x.of /\ u.iat = T!Sec(now)}
  BY DEF T!LogoutAll
<1>2. t \in T!Token /\ t.of \in T!Account /\ t.iat \in Nat /\ t.exp \in Nat /\ t.born \in Nat /\ x.of \in T!Account
  BY DEF TokenOK, T!Token
<1>3. T!Sec(now)' = T!Sec(now) /\ T!Sec(now) \in Nat
  BY <1>1, Seconds DEF T!Sec, SessionsInv
<1>4. CASE t.of = x.of
  <2>1. cutoff'[t.of] = now
    BY <1>1, <1>2, <1>4 DEF SessionsInv
  <2>2. t.iat >= T!Sec(now) => t \in survivors'
    BY <1>1, <1>2, <1>3, <1>4 DEF TokenOK
  <2> QED BY <1>1, <1>2, <1>3, <2>1, <2>2 DEF TokenOK, T!Sec
<1>5. CASE t.of # x.of
  <2>1. cutoff'[t.of] = cutoff[t.of]
    BY <1>1, <1>2, <1>5 DEF SessionsInv
  <2> QED BY <1>1, <1>2, <1>3, <2>1 DEF TokenOK, T!Sec
<1> QED BY <1>4, <1>5

\* Logout-all moves the cutoff, and what is not after it is dead or accounted for.
LEMMA SessionLogsOut ==
    ASSUME SessionsInv, NEW x, T!LogoutAll(x)
    PROVE  SessionsInv'
<1>1. /\ T!End(T!Authed("logout-all", x)) /\ UNCHANGED <<now, tokens, claimed>> /\ cutoff' = [cutoff EXCEPT ![x.of] = now]
  BY DEF T!LogoutAll
<1>2. /\ T!IsABag(sessionRequests') /\ DOMAIN sessionRequests' \subseteq DOMAIN sessionRequests
      /\ x \in T!Token /\ MayAct(x)
      /\ \A j \in Jti : T!Minting(j) \in DOMAIN sessionRequests' =>
             T!Minting(j) \in DOMAIN sessionRequests /\ sessionRequests'[T!Minting(j)] = 1
  BY <1>1, ActedRequests
<1>3. \A t \in tokens' : TokenOK(t)'
  BY <1>1, <1>2, CutoffSorts DEF SessionsInv
<1>4. ASSUME NEW r \in DOMAIN sessionRequests' PROVE SessionRequestOK(r)'
  <2>1. SessionRequestOK(r)
    BY <1>2 DEF SessionsInv
  <2>2. CASE \E j \in Jti : r = T!Minting(j)
    BY <2>2 DEF SessionRequestOK, T!Minting
  <2>3. ASSUME NEW kind \in {"touch", "logout-all"}, NEW t \in T!Token, r = T!Authed(kind, t), MayAct(t)
        PROVE  SessionRequestOK(r)'
    <3>1. TokenOK(t)'
      BY <1>2, <2>3, CutoffSorts DEF MayAct
    <3>2. MayAct(t)'
      BY <1>1, <2>3, <3>1 DEF MayAct, T!Sec
    <3> QED BY <2>3, <3>2 DEF SessionRequestOK, T!Authed, T!Token
  <2> QED BY <2>1, <2>2, <2>3 DEF SessionRequestOK
<1>5. Verification' = Verification
  BY <1>1 DEF Verification
<1>6. /\ \A j \in Jti : T!Minting(j) \in DOMAIN sessionRequests' =>
             claimed'[j] = "claimed" /\ sessionRequests'[T!Minting(j)] = 1
      /\ IsFiniteSet(Verification') /\ Cardinality(Verification') <= Cardinality(Issued')
  BY <1>1, <1>2, <1>5, NothingMinted
<1>7. x.of \in T!Account
  BY <1>2 DEF T!Token
<1>8. cutoff' \in [T!Account -> Nat] /\ \A a \in T!Account : cutoff'[a] <= now'
  BY <1>1, <1>7 DEF SessionsInv
<1> QED BY <1>1, <1>2, <1>3, <1>4, <1>6, <1>8 DEF SessionsInv, T!Minting

\* The insert that claims a platform token is won once, so one request mints for it.
LEMMA SessionClaims ==
    ASSUME SessionsInv, NEW j \in Jti, T!ClaimJti(j)
    PROVE  SessionsInv'
<1>1. PICK r : r = T!Minting(j)
  OBVIOUS
<1>2. /\ T!Begin(r) /\ claimed[j] = "none" /\ claimed' = [claimed EXCEPT ![j] = "claimed"]
      /\ UNCHANGED <<now, tokens, cutoff, survivors>>
  BY <1>1 DEF T!ClaimJti
<1>3. r \notin DOMAIN sessionRequests
  BY <1>1, <1>2 DEF SessionsInv
<1>4. /\ T!IsABag(sessionRequests') /\ DOMAIN sessionRequests' = DOMAIN sessionRequests \cup {r}
      /\ \A s \in DOMAIN sessionRequests : s # r => sessionRequests'[s] = sessionRequests[s]
      /\ sessionRequests'[r] = 1
  BY <1>2, <1>3, SessionBegins DEF SessionsInv
<1>5. now' \in Nat /\ now <= now' /\ survivors \subseteq survivors' /\ \A u \in tokens : u \in tokens'
  BY <1>2 DEF SessionsInv
<1>6. \A u \in tokens' : TokenOK(u)'
  BY <1>2, <1>5, TokensAge DEF SessionsInv
<1>7. SessionRequestOK(r)
  BY <1>1 DEF SessionRequestOK
<1>8. \A s \in DOMAIN sessionRequests' : SessionRequestOK(s)'
  BY <1>2, <1>4, <1>5, <1>7, RequestsAge DEF SessionsInv
<1>9. \A i \in Jti : T!Minting(i) = r => i = j
  BY <1>1, RequestFields
<1>10. /\ claimed' \in [Jti -> {"none", "claimed", "failed", "issued"}]
       /\ \A i \in Jti : claimed'[i] = IF i = j THEN "claimed" ELSE claimed[i]
  BY <1>2 DEF SessionsInv
<1>11. \A i \in Jti : T!Minting(i) \in DOMAIN sessionRequests' =>
           claimed'[i] = "claimed" /\ sessionRequests'[T!Minting(i)] = 1
  BY <1>1, <1>4, <1>9, <1>10 DEF SessionsInv
<1>12. Issued' = Issued /\ Verification' = Verification
  BY <1>2, <1>10 DEF Issued, Verification
<1>13. IsFiniteSet(Verification') /\ Cardinality(Verification') <= Cardinality(Issued')
  BY <1>12 DEF SessionsInv
<1> QED BY <1>2, <1>4, <1>6, <1>8, <1>10, <1>11, <1>13 DEF SessionsInv, T!Minting

\* A claim ends: with a session, without one, or with its request.
LEMMA MintedRequests ==
    ASSUME SessionsInv, NEW j \in Jti, T!End(T!Minting(j))
    PROVE  /\ T!IsABag(sessionRequests') /\ DOMAIN sessionRequests' \subseteq DOMAIN sessionRequests
           /\ claimed[j] = "claimed"
           /\ \A i \in Jti : T!Minting(i) \in DOMAIN sessionRequests' =>
                  i # j /\ claimed[i] = "claimed" /\ sessionRequests'[T!Minting(i)] = 1
<1>1. PICK r : r = T!Minting(j)
  OBVIOUS
<1>2. /\ T!IsABag(sessionRequests') /\ DOMAIN sessionRequests' \subseteq DOMAIN sessionRequests /\ r \in DOMAIN sessionRequests
      /\ \A s \in DOMAIN sessionRequests' : s # r => sessionRequests'[s] = sessionRequests[s]
      /\ sessionRequests[r] = 1 => r \notin DOMAIN sessionRequests'
  BY <1>1, SessionEnds DEF SessionsInv
<1>3. sessionRequests[r] = 1 /\ claimed[j] = "claimed"
  BY <1>1, <1>2 DEF SessionsInv
<1> QED BY <1>1, <1>2, <1>3 DEF SessionsInv

\* The verification session of a platform token: minted once, or given up.
LEMMA SessionProvisioning ==
    ASSUME SessionsInv, NEW j \in Jti, T!MintVerification(j) \/ T!ProvisioningFails(j)
    PROVE  SessionsInv'
<1>0. T!End(T!Minting(j)) /\ UNCHANGED <<now, cutoff, survivors>> /\ now' \in Nat /\ now <= now'
  <2>1. now \in Nat
    BY DEF SessionsInv
  <2>2. T!End(T!Minting(j)) /\ UNCHANGED <<now, cutoff, survivors>>
    BY Zenon DEF T!MintVerification, T!ProvisioningFails
  <2> QED BY <2>1, <2>2
<1>1. /\ T!IsABag(sessionRequests') /\ DOMAIN sessionRequests' \subseteq DOMAIN sessionRequests
      /\ claimed[j] = "claimed"
      /\ \A i \in Jti : T!Minting(i) \in DOMAIN sessionRequests' =>
             i # j /\ claimed[i] = "claimed" /\ sessionRequests'[T!Minting(i)] = 1
  BY <1>0, MintedRequests
<1>2. PICK outcome \in {"failed", "issued"} : claimed' = [claimed EXCEPT ![j] = outcome]
  BY DEF T!MintVerification, T!ProvisioningFails
<1>3. /\ claimed' \in [Jti -> {"none", "claimed", "failed", "issued"}]
      /\ \A i \in Jti : claimed'[i] = IF i = j THEN outcome ELSE claimed[i]
  BY <1>2 DEF SessionsInv
<1>4. \A i \in Jti : T!Minting(i) \in DOMAIN sessionRequests' =>
          claimed'[i] = "claimed" /\ sessionRequests'[T!Minting(i)] = 1
  BY <1>1, <1>3
<1>5. IsFiniteSet(Issued) /\ IsFiniteSet(Issued') /\ j \notin Issued
  BY <1>1, <1>3, FS_Subset, SessionsAssumption DEF Issued
<1>6. CASE T!ProvisioningFails(j)
  <2>1. tokens' = tokens /\ claimed' = [claimed EXCEPT ![j] = "failed"]
    BY <1>6 DEF T!ProvisioningFails
  <2>2. Issued' = Issued /\ Verification' = Verification
    BY <1>1, <2>1 DEF Issued, Verification, SessionsInv
  <2>3. \A t \in tokens' : TokenOK(t)'
    BY <1>0, <2>1, TokensAge DEF SessionsInv
  <2>4. \A r \in DOMAIN sessionRequests' : SessionRequestOK(r)'
    BY <1>0, <1>1, <2>1, RequestsAge DEF SessionsInv
  <2> QED BY <1>0, <1>1, <1>3, <1>4, <2>2, <2>3, <2>4 DEF SessionsInv, T!Minting
<1>7. CASE T!MintVerification(j)
  <2>1. PICK fresh : fresh = T!Issue("verifier", TRUE, now)
    OBVIOUS
  <2>2. tokens' = tokens \cup {fresh} /\ claimed' = [claimed EXCEPT ![j] = "issued"]
    BY <1>7, <2>1 DEF T!MintVerification
  <2>3. /\ fresh \in T!Token /\ fresh.of = "verifier" /\ fresh.iat = T!Sec(now) /\ fresh.vrf = TRUE /\ fresh.born = now
        /\ fresh.exp = T!Sec(now) + VerifyTtl /\ fresh.iat < fresh.exp
    BY <2>1, IssuedToken DEF SessionsInv, T!Account
  <2>4. TokenOK(fresh)'
    <3>1. /\ T!Sec(now)' = T!Sec(now) /\ T!Sec(now) \in Nat /\ cutoff["verifier"] \in Nat /\ cutoff["verifier"] <= now
          /\ now \in Nat
      BY <1>0, Seconds DEF T!Sec, SessionsInv, T!Account
    <3> QED BY <1>0, <2>3, <3>1, SessionsAssumption DEF TokenOK
  <2>5. \A t \in tokens' : TokenOK(t)'
    BY <1>0, <1>1, <2>2, <2>4, TokenAdded
  <2>6. \A r \in DOMAIN sessionRequests' : SessionRequestOK(r)'
    BY <1>0, <1>1, <2>2, <2>4, TokenAdded
  <2>7. Issued' = Issued \cup {j} /\ Verification' = Verification \cup {fresh}
    BY <2>2, <2>3 DEF Issued, Verification, SessionsInv
  <2>8. Cardinality(Issued') = Cardinality(Issued) + 1
    BY <1>5, <2>7, FS_AddElement
  <2>9. /\ IsFiniteSet(Verification')
        /\ Cardinality(Verification') = Cardinality(Verification) \/ Cardinality(Verification') = Cardinality(Verification) + 1
    BY <2>7, FS_AddElement DEF SessionsInv
  <2>10. Cardinality(Issued) \in Nat /\ Cardinality(Verification) \in Nat
    BY <1>5, FS_CardinalityType DEF SessionsInv
  <2>11. Cardinality(Verification') <= Cardinality(Issued')
    BY <2>8, <2>9, <2>10 DEF SessionsInv
  <2> QED BY <1>0, <1>1, <1>3, <1>4, <2>5, <2>6, <2>9, <2>11 DEF SessionsInv, T!Minting
<1> QED BY <1>6, <1>7

\* A request stops, or time passes and expired tokens are forgotten.
LEMMA SessionStopsOrTicks ==
    ASSUME SessionsInv, (\E r : T!Stops(r)) \/ T!Tick \/ UNCHANGED T!vars
    PROVE  SessionsInv'
<1>1. /\ UNCHANGED <<cutoff, claimed, survivors>> /\ now' \in Nat /\ now <= now' /\ tokens' \subseteq tokens
      /\ \A t \in tokens : t \in tokens' \/ t.exp <= T!Sec(now')
      /\ (\E r : T!End(r)) \/ sessionRequests' = sessionRequests
  <2>1. CASE T!Tick
    <3>1. \A t \in tokens : t.exp \in Nat
      BY DEF SessionsInv, TokenOK, T!Token
    <3>2. now' = now + 1 /\ tokens' = {t \in tokens : t.exp > T!Sec(now')} /\ UNCHANGED <<cutoff, sessionRequests, claimed, survivors>>
      BY <2>1 DEF T!Tick
    <3>3. now' \in Nat /\ now <= now' /\ T!Sec(now') \in Nat
      BY <3>2, Seconds DEF SessionsInv
    <3> QED BY <3>1, <3>2, <3>3
  <2>2. CASE (\E r : T!Stops(r)) \/ UNCHANGED T!vars
    BY <2>2 DEF T!Stops, T!vars, SessionsInv
  <2> QED BY <2>1, <2>2
<1>2. \A t \in tokens' : TokenOK(t)'
  BY <1>1, TokensAge DEF SessionsInv
<1>3. /\ T!IsABag(sessionRequests') /\ DOMAIN sessionRequests' \subseteq DOMAIN sessionRequests
      /\ \A s \in DOMAIN sessionRequests' : sessionRequests[s] = 1 => sessionRequests'[s] = 1
  <2>1. ASSUME NEW r, T!End(r)
        PROVE  /\ T!IsABag(sessionRequests') /\ DOMAIN sessionRequests' \subseteq DOMAIN sessionRequests
               /\ \A s \in DOMAIN sessionRequests' : sessionRequests[s] = 1 => sessionRequests'[s] = 1
    BY <2>1, SessionEnds DEF SessionsInv
  <2> QED BY <1>1, <2>1 DEF SessionsInv
<1>4. \A r \in DOMAIN sessionRequests' : SessionRequestOK(r)'
  BY <1>1, <1>3, RequestsAge DEF SessionsInv
<1>5. Verification' \subseteq Verification
  BY <1>1 DEF Verification
<1>6. /\ \A j \in Jti : T!Minting(j) \in DOMAIN sessionRequests' =>
             claimed'[j] = "claimed" /\ sessionRequests'[T!Minting(j)] = 1
      /\ IsFiniteSet(Verification') /\ Cardinality(Verification') <= Cardinality(Issued')
  BY <1>1, <1>3, <1>5, NothingMinted DEF SessionsInv
<1>7. \A a \in T!Account : cutoff'[a] <= now'
  BY <1>1 DEF SessionsInv
<1> QED BY <1>1, <1>2, <1>3, <1>4, <1>6, <1>7 DEF SessionsInv, T!Minting

\* Every step of the sessions keeps the invariant.
LEMMA SessionsInvariant == T!Spec => []SessionsInv
<1>1. T!Init => SessionsInv
  <2> SUFFICES ASSUME T!Init PROVE SessionsInv
    OBVIOUS
  <2>1. DOMAIN sessionRequests = {} /\ T!IsABag(sessionRequests)
    BY DEF T!Init, T!EmptyBag, T!SetToBag, T!IsABag
  <2>2. Verification = {} /\ IsFiniteSet(Issued)
    BY FS_Subset, SessionsAssumption DEF T!Init, Verification, Issued
  <2>3. IsFiniteSet(Verification) /\ Cardinality(Verification) <= Cardinality(Issued)
    BY <2>2, FS_EmptySet, FS_CardinalityType
  <2> QED BY <2>1, <2>3 DEF T!Init, SessionsInv
<1>2. SessionsInv /\ [T!Next]_(T!vars) => SessionsInv'
  BY SessionSignsIn, SessionAuthenticates, SessionTouches, SessionLogsOut, SessionClaims, SessionProvisioning,
     SessionStopsOrTicks DEF T!Next
<1> QED BY <1>1, <1>2, PTL DEF T!Spec

\* SessionsHold for every instance: no session from before a logout-all outlives it
\* by being renewed, but for those of its second and those renewed by a touch past
\* its check (resolveUser and POST /logout-all in src/api/routes/auth/index.ts); and
\* each platform token buys at most one verification session, which stays read-only
\* (src/api/routes/auth/verification-session.ts).
THEOREM SessionsAreKept == T!Spec => []SessionsHold
<1>1. SessionsInv => SessionsHold
  <2> SUFFICES ASSUME SessionsInv PROVE T!LogoutAllHolds /\ T!VerificationStaysReadOnly
    BY DEF SessionsHold
  <2>1. T!LogoutAllHolds
    BY DEF SessionsInv, TokenOK, T!LogoutAllHolds, T!ResolveUser
  <2>2. \A X : T!Cardinality(X) = Cardinality(X)
    BY DEF Cardinality, T!Cardinality
  <2>3. T!VerificationStaysReadOnly
    BY <2>2 DEF SessionsInv, TokenOK, T!VerificationStaysReadOnly, Verification, Issued
  <2> QED BY <2>1, <2>3
<1> QED BY <1>1, SessionsInvariant, PTL

-----------------------------------------------------------------------------
(* Token chains of assistants, for any number of approvals, pairs and logouts. *)

Consumed(c) == O!Copies(O!Handler("consumed", c))
Rotated(c) == O!Copies(O!Handler("rotated", c))
Works(c) == {p \in pairs : p.code = c /\ O!RefreshWorks(p)}

PairOK(p) ==
    /\ p = [id |-> p.id, code |-> p.code, era |-> p.era, revoked |-> p.revoked, expired |-> p.expired]
    /\ p.code \in Approval /\ p.era \in Nat /\ p.era <= era /\ code[p.code] = "used"

\* A chain has one working pair or one being issued; before its code is used it has
\* neither, and what it has goes back to the current era unless a rotation was
\* under way at a logout-all.
ChainOK(c) ==
    /\ Consumed(c) + Rotated(c) <= 1
    /\ Consumed(c) + Rotated(c) = 1 => Works(c) = {}
    /\ \A p, q \in Works(c) : p = q
    /\ code[c] # "used" => Consumed(c) = 0 /\ Rotated(c) = 0 /\ began[c] = 0
    /\ Consumed(c) # 0 => began[c] = 0
    /\ Rotated(c) # 0 \/ Works(c) # {} => began[c] = era \/ c \in rotating

ChainsInv ==
    /\ era \in Nat /\ code \in [Approval -> {"none", "live", "used", "expired"}] /\ began \in [Approval -> Nat]
    /\ O!IsABag(oauthRequests) /\ \A p \in pairs : PairOK(p)
    /\ \A c \in Approval : ChainOK(c)

\* Beginning and ending a request counts its copies up and down by one.
LEMMA CopiesCount ==
    ASSUME O!IsABag(oauthRequests), NEW x
    PROVE  /\ O!Copies(x) \in Nat /\ (O!Copies(x) = 0 <=> x \notin DOMAIN oauthRequests)
           /\ \A r : O!Begin(r) => O!IsABag(oauthRequests') /\ O!Copies(x)' = O!Copies(x) + (IF x = r THEN 1 ELSE 0)
           /\ \A r : O!End(r) => /\ O!IsABag(oauthRequests') /\ O!Copies(r) # 0
                                 /\ O!Copies(x)' = O!Copies(x) - (IF x = r THEN 1 ELSE 0)
<1> USE DEF O!IsABag, O!Copies, O!BagToSet, O!SetToBag
<1>1. O!Copies(x) \in Nat /\ (O!Copies(x) = 0 <=> x \notin DOMAIN oauthRequests)
  OBVIOUS
<1>2. ASSUME NEW r, O!Begin(r)
      PROVE  O!IsABag(oauthRequests') /\ O!Copies(x)' = O!Copies(x) + (IF x = r THEN 1 ELSE 0)
  BY <1>2 DEF O!Begin, O!\oplus
<1>3. ASSUME NEW r, O!End(r)
      PROVE  O!IsABag(oauthRequests') /\ O!Copies(r) # 0 /\ O!Copies(x)' = O!Copies(x) - (IF x = r THEN 1 ELSE 0)
  BY <1>3 DEF O!End, O!\ominus
<1> QED BY <1>1, <1>2, <1>3

\* Handlers of different kinds or chains are different requests.
LEMMA HandlersDiffer ==
    \A k, l, c, d : O!Handler(k, c) = O!Handler(l, d) <=> k = l /\ c = d
  BY DEF O!Handler

\* What beginning or ending a handler does to the pending requests of a chain.
LEMMA PendingCounts ==
    ASSUME O!IsABag(oauthRequests), NEW c
    PROVE  /\ Consumed(c) \in Nat /\ Rotated(c) \in Nat
           /\ \A k, d : O!Begin(O!Handler(k, d)) =>
                  /\ O!IsABag(oauthRequests')
                  /\ Consumed(c)' = Consumed(c) + (IF k = "consumed" /\ d = c THEN 1 ELSE 0)
                  /\ Rotated(c)' = Rotated(c) + (IF k = "rotated" /\ d = c THEN 1 ELSE 0)
           /\ \A k, d : O!End(O!Handler(k, d)) =>
                  /\ O!IsABag(oauthRequests')
                  /\ Consumed(c)' = Consumed(c) - (IF k = "consumed" /\ d = c THEN 1 ELSE 0)
                  /\ Rotated(c)' = Rotated(c) - (IF k = "rotated" /\ d = c THEN 1 ELSE 0)
                  /\ k = "consumed" /\ d = c => Consumed(c) # 0
                  /\ k = "rotated" /\ d = c => Rotated(c) # 0
  BY CopiesCount, HandlersDiffer DEF Consumed, Rotated

\* A pair that is replaced keeps its chain and its era, and does not work again.
LEMMA PairUpdates ==
    ASSUME NEW p, PairOK(p)
    PROVE  /\ \A b : LET q == [p EXCEPT !.revoked = b] IN
                  /\ PairOK(q) /\ q.code = p.code /\ q.era = p.era /\ q.revoked = b /\ q.expired = p.expired
           /\ \A x : LET q == [p EXCEPT !.expired = x] IN
                  /\ PairOK(q) /\ q.code = p.code /\ q.era = p.era /\ q.revoked = p.revoked /\ q.expired = x
  BY DEF PairOK

\* A step that leaves a chain's requests, code and beginning alone, and no pair of
\* it working that did not, keeps the chain.
LEMMA ChainKept ==
    ASSUME ChainsInv, NEW c \in Approval, ChainOK(c),
           Consumed(c)' = Consumed(c), Rotated(c)' = Rotated(c), code'[c] = code[c] \/ code'[c] = "used" \/ code[c] # "used",
           began'[c] = began[c], era' = era, rotating' = rotating,
           \/ \A p \in Works(c)' : p \in Works(c)
           \/ Works(c) # {} /\ \E r : \A p \in Works(c)' : p = r
    PROVE  ChainOK(c)'
  BY DEF ChainOK

\* A code changes hands and no pair does.
LEMMA CodeSteps ==
    ASSUME ChainsInv, NEW c \in Approval, O!Approve(c) \/ O!ExpireCode(c) \/ O!Consume(c)
    PROVE  ChainsInv'
<1>1. /\ code[c] \in {"none", "live"} /\ pairs' = pairs /\ era' = era /\ began' = began /\ rotating' = rotating
      /\ code' \in [Approval -> {"none", "live", "used", "expired"}]
      /\ \A d \in Approval : d # c => code'[d] = code[d]
  BY DEF ChainsInv, O!Approve, O!ExpireCode, O!Consume
<1>2. \A d : Works(d)' = Works(d)
  BY <1>1 DEF Works, O!RefreshWorks, O!Live, O!IssuedAfterLogoutAll
<1>3. (\A p \in pairs : PairOK(p))' /\ Works(c) = {}
  BY <1>1 DEF PairOK, ChainsInv, Works
<1>4. CASE O!Approve(c) \/ O!ExpireCode(c)
  <2>1. oauthRequests' = oauthRequests /\ code'[c] # "used"
    BY <1>4 DEF O!Approve, O!ExpireCode, ChainsInv
  <2>2. \A d : Consumed(d)' = Consumed(d) /\ Rotated(d)' = Rotated(d)
    BY <2>1 DEF Consumed, Rotated, O!Copies, O!BagToSet
  <2>3. \A d \in Approval : ChainOK(d)'
    BY <1>1, <1>2, <2>1, <2>2, ChainKept DEF ChainsInv
  <2> QED BY <1>1, <1>3, <2>1, <2>3 DEF ChainsInv
<1>5. CASE O!Consume(c)
  <2>1. O!Begin(O!Handler("consumed", c)) /\ code'[c] = "used"
    BY <1>5 DEF O!Consume, ChainsInv
  <2>2. \A d \in Approval : d # c => ChainOK(d)'
    BY <1>1, <1>2, <2>1, PendingCounts, ChainKept DEF ChainsInv
  <2>3. Consumed(c) = 0 /\ Rotated(c) = 0 /\ began[c] = 0
    BY <1>1 DEF ChainsInv, ChainOK
  <2>4. O!IsABag(oauthRequests') /\ Consumed(c)' = 1 /\ Rotated(c)' = 0
    BY <2>1, <2>3, PendingCounts DEF ChainsInv
  <2>5. ChainOK(c)'
    BY <1>1, <1>2, <1>3, <2>1, <2>3, <2>4 DEF ChainOK
  <2> QED BY <1>1, <1>3, <2>2, <2>4, <2>5 DEF ChainsInv
<1> QED BY <1>4, <1>5

\* One pair is replaced by another of its chain that works only if it did.
LEMMA PairReplaced ==
    ASSUME ChainsInv, NEW p \in pairs, NEW q, pairs' = (pairs \ {p}) \cup {q},
           PairOK(q), q.code = p.code, O!RefreshWorks(q) => O!RefreshWorks(p), UNCHANGED <<code, era, began, rotating>>
    PROVE  /\ (\A r \in pairs : PairOK(r))'
           /\ \A c : c # p.code => Works(c)' = Works(c)
           /\ O!RefreshWorks(q) => p \in Works(p.code) /\ \A r \in Works(p.code)' : r = q
           /\ ~O!RefreshWorks(q) => Works(p.code)' = Works(p.code) \ {p}
<1>1. (\A r \in pairs : PairOK(r))'
  BY DEF ChainsInv, PairOK
<1>2. \A r : O!RefreshWorks(r)' = O!RefreshWorks(r)
  BY DEF O!RefreshWorks, O!Live, O!IssuedAfterLogoutAll
<1>3. p.code \in Approval
  BY DEF ChainsInv, PairOK
<1>4. \A c : c # p.code => Works(c)' = Works(c)
  BY <1>2 DEF Works
<1>5. ~O!RefreshWorks(q) => Works(p.code)' = Works(p.code) \ {p}
  BY <1>2 DEF Works
<1>6. O!RefreshWorks(q) => p \in Works(p.code) /\ \A r \in Works(p.code)' : r = q
  <2> SUFFICES ASSUME O!RefreshWorks(q) PROVE p \in Works(p.code) /\ \A r \in Works(p.code)' : r = q
    OBVIOUS
  <2>1. p \in Works(p.code)
    BY DEF Works
  <2>2. \A r \in Works(p.code) : r = p
    BY <1>3, <2>1 DEF ChainsInv, ChainOK
  <2> QED BY <1>2, <2>1, <2>2 DEF Works
<1> QED BY <1>1, <1>4, <1>5, <1>6

\* A rotation, an expiry or a revocation replaces one pair.
LEMMA PairSteps ==
    ASSUME ChainsInv, NEW p \in pairs, O!Rotate(p) \/ O!ExpirePair(p) \/ O!RevokeToken(p)
    PROVE  ChainsInv'
<1>1. p.code \in Approval /\ PairOK(p)
  BY DEF ChainsInv, PairOK
<1>2. UNCHANGED <<code, era, began, rotating>>
  BY DEF O!Rotate, O!ExpirePair, O!RevokeToken
<1>3. PICK q : /\ pairs' = (pairs \ {p}) \cup {q} /\ PairOK(q) /\ q.code = p.code
               /\ O!RefreshWorks(q) => O!RefreshWorks(p)
               /\ O!RefreshWorks(q) => UNCHANGED oauthRequests
  <2>1. CASE O!Rotate(p) \/ O!RevokeToken(p)
    <3>1. pairs' = (pairs \ {p}) \cup {[p EXCEPT !.revoked = TRUE]}
      BY <2>1 DEF O!Rotate, O!RevokeToken
    <3> DEFINE q == [p EXCEPT !.revoked = TRUE]
    <3>2. PairOK(q) /\ q.code = p.code /\ ~O!RefreshWorks(q)
      BY <1>1, PairUpdates DEF O!RefreshWorks, O!Live
    <3> HIDE DEF q
    <3> QED BY <3>1, <3>2 DEF q
  <2>2. CASE O!ExpirePair(p)
    <3>1. PICK x : pairs' = (pairs \ {p}) \cup {[p EXCEPT !.expired = x]}
      BY <2>2 DEF O!ExpirePair
    <3>2. p.expired # "both" /\ UNCHANGED oauthRequests
      BY <2>2 DEF O!ExpirePair
    <3> QED BY <1>1, <3>1, <3>2, PairUpdates, ZenonT(60) DEF O!RefreshWorks, O!Live, O!IssuedAfterLogoutAll
  <2> QED BY <2>1, <2>2
<1>4. /\ (\A r \in pairs : PairOK(r))'
      /\ \A c : c # p.code => Works(c)' = Works(c)
      /\ O!RefreshWorks(q) => p \in Works(p.code) /\ \A r \in Works(p.code)' : r = q
      /\ ~O!RefreshWorks(q) => Works(p.code)' = Works(p.code) \ {p}
  BY <1>2, <1>3, PairReplaced
<1>5. CASE O!Rotate(p)
  <2>1. O!Begin(O!Handler("rotated", p.code)) /\ O!RefreshWorks(p)
    BY <1>5 DEF O!Rotate
  <2>2. /\ O!IsABag(oauthRequests')
        /\ \A c : c # p.code => Consumed(c)' = Consumed(c) /\ Rotated(c)' = Rotated(c)
        /\ Consumed(p.code)' = Consumed(p.code) /\ Rotated(p.code)' = Rotated(p.code) + 1
        /\ Consumed(p.code) \in Nat /\ Rotated(p.code) \in Nat
    BY <2>1, PendingCounts DEF ChainsInv
  <2>3. \A c \in Approval : c # p.code => ChainOK(c)'
    BY <1>2, <1>4, <2>2, ChainKept DEF ChainsInv
  <2>4. p \in Works(p.code) /\ ChainOK(p.code)
    BY <1>1, <2>1 DEF Works, ChainsInv
  <2>5. Consumed(p.code) = 0 /\ Rotated(p.code) = 0 /\ \A r \in Works(p.code) : r = p
    BY <2>2, <2>4 DEF ChainOK
  <2>6. Works(p.code)' = {}
    <3>1. CASE O!RefreshWorks(q)
      <4>1. UNCHANGED oauthRequests
        BY <1>3, <3>1
      <4>2. Rotated(p.code)' = Rotated(p.code)
        BY <4>1 DEF Rotated, O!Copies, O!BagToSet
      <4> QED BY <2>2, <4>2
    <3>2. CASE ~O!RefreshWorks(q)
      BY <1>4, <2>5, <3>2
    <3> QED BY <3>1, <3>2
  <2>7. ChainOK(p.code)'
    BY <1>1, <1>2, <2>2, <2>4, <2>5, <2>6 DEF ChainOK, PairOK
  <2> QED BY <1>2, <1>4, <2>2, <2>3, <2>7 DEF ChainsInv
<1>6. CASE O!ExpirePair(p) \/ O!RevokeToken(p)
  <2>1. oauthRequests' = oauthRequests
    BY <1>6 DEF O!ExpirePair, O!RevokeToken
  <2>2. \A c : Consumed(c)' = Consumed(c) /\ Rotated(c)' = Rotated(c)
    BY <2>1 DEF Consumed, Rotated, O!Copies, O!BagToSet
  <2>3. \A c \in Approval : c # p.code => ChainOK(c)'
    BY <1>2, <1>4, <2>2, ChainKept DEF ChainsInv
  <2>4. ChainOK(p.code)'
    BY <1>1, <1>2, <1>4, <2>2, ChainKept DEF ChainsInv
  <2> QED BY <1>2, <1>4, <2>1, <2>3, <2>4 DEF ChainsInv
<1> QED BY <1>5, <1>6

\* The new pair is the only working one of its chain, and takes the request's place.
LEMMA ChainIssues ==
    ASSUME ChainsInv, NEW c \in Approval, O!IssueTokens(c)
    PROVE  ChainsInv'
<1>1. PICK new : /\ new = [id |-> new.id, code |-> c, era |-> era, revoked |-> FALSE, expired |-> "no"]
                 /\ pairs' = pairs \cup {new}
  BY DEF O!IssueTokens
<1>2. PICK k \in {"consumed", "rotated"} : O!End(O!Handler(k, c))
  BY DEF O!IssueTokens
<1>3. UNCHANGED <<code, era, rotating>> /\ began' = [began EXCEPT ![c] = IF @ = 0 THEN era ELSE @]
  BY DEF O!IssueTokens
<1>4. began' \in [Approval -> Nat] /\ (\A d \in Approval : d # c => began'[d] = began[d])
      /\ began'[c] = (IF began[c] = 0 THEN era ELSE began[c])
  BY <1>3 DEF ChainsInv
<1>5. /\ O!IsABag(oauthRequests')
      /\ \A d : d # c => Consumed(d)' = Consumed(d) /\ Rotated(d)' = Rotated(d)
      /\ Consumed(c) \in Nat /\ Rotated(c) \in Nat /\ Consumed(c)' \in Nat /\ Rotated(c)' \in Nat
      /\ Consumed(c)' + Rotated(c)' = Consumed(c) + Rotated(c) - 1
      /\ k = "consumed" => Consumed(c) # 0
      /\ k = "rotated" => Rotated(c) # 0
  BY <1>2, PendingCounts DEF ChainsInv
<1>6. ChainOK(c)
  BY DEF ChainsInv
<1>7. Works(c) = {} /\ code[c] = "used" /\ Consumed(c)' = 0 /\ Rotated(c)' = 0 /\ Consumed(c) + Rotated(c) = 1
  BY <1>5, <1>6 DEF ChainOK
<1>8. \A r : O!RefreshWorks(r)' = O!RefreshWorks(r)
  BY <1>3 DEF O!RefreshWorks, O!Live, O!IssuedAfterLogoutAll
<1>9. (\A d : d # c => Works(d)' = Works(d)) /\ \A r \in Works(c)' : r = new
  BY <1>1, <1>7, <1>8 DEF Works
<1>10. (\A p \in pairs : PairOK(p))'
  <2>1. PairOK(new)'
    BY <1>1, <1>3, <1>7 DEF PairOK, ChainsInv
  <2> QED BY <1>1, <1>3, <2>1 DEF PairOK, ChainsInv
<1>11. began'[c] = era \/ c \in rotating
  BY <1>4, <1>5, <1>6 DEF ChainOK
<1>12. ChainOK(c)'
  BY <1>3, <1>7, <1>9, <1>11 DEF ChainOK
<1>13. \A d \in Approval : d # c => ChainOK(d)'
  BY <1>3, <1>4, <1>5, <1>9, ChainKept DEF ChainsInv
<1> QED BY <1>3, <1>4, <1>5, <1>10, <1>12, <1>13 DEF ChainsInv

\* No pair works once the cutoff moves past its era, and every rotation under way
\* is noted.
LEMMA ChainsCutOff ==
    ASSUME ChainsInv, O!SetCutoff
    PROVE  ChainsInv'
<1>1. /\ UNCHANGED <<code, pairs, began>> /\ era' = era + 1 /\ O!Begin(O!Handler("logout", "none"))
      /\ era \in Nat /\ rotating \subseteq rotating'
  BY DEF O!SetCutoff, ChainsInv
<1>2. O!IsABag(oauthRequests') /\ \A c : Consumed(c)' = Consumed(c) /\ Rotated(c)' = Rotated(c)
  BY <1>1, PendingCounts DEF ChainsInv
<1>3. \A c : Works(c)' = {}
  BY <1>1 DEF Works, O!RefreshWorks, O!Live, O!IssuedAfterLogoutAll, ChainsInv, PairOK
<1>4. (\A p \in pairs : PairOK(p))'
  BY <1>1 DEF ChainsInv, PairOK
<1>5. ASSUME NEW c \in Approval, Rotated(c) # 0 PROVE c \in rotating'
  <2>1. O!Handler("rotated", c) \in O!BagToSet(oauthRequests)
    BY <1>5, CopiesCount DEF Rotated, ChainsInv, O!BagToSet
  <2>2. O!Handler("rotated", c).kind = "rotated" /\ O!Handler("rotated", c).code = c
    BY DEF O!Handler
  <2>3. rotating' = rotating \cup {r.code : r \in {q \in O!BagToSet(oauthRequests) : q.kind = "rotated"}}
    BY DEF O!SetCutoff
  <2> QED BY <2>1, <2>2, <2>3
<1>6. \A c \in Approval : ChainOK(c)'
  BY <1>1, <1>2, <1>3, <1>5 DEF ChainsInv, ChainOK
<1> QED BY <1>1, <1>2, <1>4, <1>6 DEF ChainsInv

\* A request that ends without a pair, and pairs revoked, leave less of a chain.
LEMMA ChainsEnd ==
    ASSUME ChainsInv, O!RevokeAllForUser \/ (\E r : O!Stops(r))
    PROVE  ChainsInv'
<1>1. PICK r : O!End(r)
  BY DEF O!RevokeAllForUser, O!Stops
<1>2. UNCHANGED <<code, era, began, rotating>>
  BY DEF O!RevokeAllForUser, O!Stops
<1>3. /\ O!IsABag(oauthRequests')
      /\ \A c : /\ Consumed(c) \in Nat /\ Rotated(c) \in Nat /\ Consumed(c)' \in Nat /\ Rotated(c)' \in Nat
                /\ Consumed(c)' <= Consumed(c) /\ Rotated(c)' <= Rotated(c)
  BY <1>1, CopiesCount DEF ChainsInv, Consumed, Rotated
<1>4. (\A p \in pairs : PairOK(p))' /\ \A c : Works(c)' \subseteq Works(c)
  <2>1. CASE O!RevokeAllForUser
    <3>1. pairs' = {[p EXCEPT !.revoked = TRUE] : p \in pairs}
      BY <2>1 DEF O!RevokeAllForUser
    <3>2. \A p \in pairs : PairOK(p)
      BY DEF ChainsInv
    <3>3. ASSUME NEW q \in pairs' PROVE PairOK(q) /\ q.revoked
      <4>1. PICK p \in pairs : q = [p EXCEPT !.revoked = TRUE]
        BY <3>1
      <4>2. PairOK([p EXCEPT !.revoked = TRUE]) /\ [p EXCEPT !.revoked = TRUE].revoked = TRUE
        BY <3>2, PairUpdates
      <4> QED BY <4>1, <4>2
    <3>4. (\A p \in pairs : PairOK(p))'
      BY <1>2, <3>3 DEF PairOK
    <3>5. \A c : Works(c)' = {}
      BY <3>3 DEF Works, O!RefreshWorks, O!Live
    <3> QED BY <3>4, <3>5
  <2>2. CASE \E s : O!Stops(s)
    <3>1. pairs' = pairs
      BY <2>2 DEF O!Stops
    <3> QED BY <1>2, <3>1 DEF PairOK, ChainsInv, Works, O!RefreshWorks, O!Live, O!IssuedAfterLogoutAll
  <2> QED BY <2>1, <2>2
<1>5. ASSUME NEW c \in Approval PROVE ChainOK(c)'
  <2>1. ChainOK(c)
    BY DEF ChainsInv
  <2>2. Works(c) = {} => Works(c)' = {}
    BY <1>4
  <2> QED BY <1>2, <1>3, <1>4, <2>1, <2>2 DEF ChainOK
<1> QED BY <1>2, <1>3, <1>4, <1>5 DEF ChainsInv

\* Every step of the OAuth server keeps the invariant.
LEMMA ChainsInvariant == O!Spec => []ChainsInv
<1>1. O!Init => ChainsInv
  <2> SUFFICES ASSUME O!Init PROVE ChainsInv
    OBVIOUS
  <2>1. O!IsABag(oauthRequests) /\ DOMAIN oauthRequests = {}
    BY DEF O!Init, O!EmptyBag, O!SetToBag, O!IsABag
  <2>2. \A c : Consumed(c) = 0 /\ Rotated(c) = 0 /\ Works(c) = {}
    BY <2>1, CopiesCount DEF Consumed, Rotated, Works, O!Init
  <2>3. \A c \in Approval : ChainOK(c)
    BY <2>2 DEF O!Init, ChainOK
  <2> QED BY <2>1, <2>3 DEF O!Init, ChainsInv
<1>2. ChainsInv /\ [O!Next]_(O!vars) => ChainsInv'
  <2>1. ASSUME ChainsInv, UNCHANGED O!vars PROVE ChainsInv'
    <3>1. \A c : Consumed(c)' = Consumed(c) /\ Rotated(c)' = Rotated(c)
      BY <2>1 DEF O!vars, Consumed, Rotated, O!Copies, O!BagToSet
    <3>2. \A c : Works(c)' = Works(c)
      BY <2>1 DEF O!vars, Works, O!RefreshWorks, O!Live, O!IssuedAfterLogoutAll
    <3>3. \A c \in Approval : ChainOK(c)'
      BY <2>1, <3>1, <3>2, ChainKept DEF O!vars, ChainsInv
    <3> QED BY <2>1, <3>3 DEF O!vars, ChainsInv, PairOK
  <2> QED BY <2>1, CodeSteps, PairSteps, ChainIssues, ChainsCutOff, ChainsEnd DEF O!Next
<1> QED BY <1>1, <1>2, PTL DEF O!Spec

\* AssistantsHold for every instance: however often a code is redeemed and a refresh
\* retried, an approval has one working pair or one being issued
\* (consumeAuthorizationCode, refreshTokens and issueTokens in
\* src/services/mcp-oauth/service.ts); and a chain from before a logout-all works on
\* only if it was between the two transactions of a rotation.
THEOREM AssistantsAreKept == O!Spec => []AssistantsHold
<1>1. ChainsInv => AssistantsHold
  <2> SUFFICES ASSUME ChainsInv PROVE O!OneChainPerApproval /\ O!LogoutDisconnects
    BY DEF AssistantsHold
  <2>1. \A X : O!Cardinality(X) = Cardinality(X)
    BY DEF Cardinality, O!Cardinality
  <2>2. ASSUME NEW c \in Approval PROVE Cardinality(Works(c)) + Consumed(c) + Rotated(c) <= 1
    <3>1. ChainOK(c) /\ Consumed(c) \in Nat /\ Rotated(c) \in Nat
      BY PendingCounts DEF ChainsInv
    <3>2. CASE Works(c) = {}
      <4>1. Cardinality(Works(c)) = 0
        BY <3>2, FS_EmptySet
      <4> QED BY <3>1, <4>1 DEF ChainOK
    <3>3. CASE Works(c) # {}
      <4>1. PICK p : Works(c) = {p}
        BY <3>1, <3>3 DEF ChainOK
      <4>2. Cardinality(Works(c)) = 1
        BY <4>1, FS_Singleton
      <4> QED BY <3>1, <3>3, <4>2 DEF ChainOK
    <3> QED BY <3>2, <3>3
  <2>3. O!OneChainPerApproval
    BY <2>1, <2>2 DEF O!OneChainPerApproval, Works, Consumed, Rotated
  <2>4. O!LogoutDisconnects
    BY DEF O!LogoutDisconnects, ChainsInv, PairOK, ChainOK, Works
  <2> QED BY <2>3, <2>4
<1> QED BY <1>1, ChainsInvariant, PTL

-----------------------------------------------------------------------------
(* Portal links, for any number of people, records, links and requests. *)

IsLink(v) == v = [who |-> v.who, what |-> v.what, live |-> v.live] /\ v.live \in BOOLEAN

\* A request that has still to retire remembers links of its person and record;
\* once it has, all of them are dead.
IssueOK(r) ==
    /\ r = [step |-> r.step, who |-> r.who, what |-> r.what, before |-> r.before]
    /\ r.before \subseteq DOMAIN links
    /\ r.step = "retire" => \A l \in r.before : links[l].who = r.who /\ links[l].what = r.what
    /\ r.step = "insert" => \A l \in r.before : ~links[l].live

LinksInv ==
    /\ \E k \in Nat : DOMAIN links = 1 .. k
    /\ \A l \in DOMAIN links : IsLink(links[l])
    /\ C!IsABag(portalRequests)
    /\ \A r \in DOMAIN portalRequests : IssueOK(r)

\* Links are never deleted, given away or brought back to life.
LinksLast ==
    \A l \in DOMAIN links :
        /\ l \in DOMAIN links' /\ links'[l].who = links[l].who /\ links'[l].what = links[l].what
        /\ links[l].live \/ ~links'[l].live

\* What a request remembers stays true of it while links last.
LEMMA IssueLasts ==
    ASSUME NEW r, IssueOK(r), LinksLast
    PROVE  IssueOK(r)'
  BY DEF IssueOK, LinksLast

\* A request begins, moves on or ends: nothing else comes into the bag.
LEMMA PortalRequests ==
    ASSUME C!IsABag(portalRequests), NEW r, NEW s,
           \/ portalRequests' = C!\oplus(portalRequests, C!SetToBag({s}))
           \/ portalRequests' = C!\ominus(portalRequests, C!SetToBag({r}))
           \/ portalRequests' = C!\oplus(C!\ominus(portalRequests, C!SetToBag({r})), C!SetToBag({s}))
           \/ portalRequests' = portalRequests
    PROVE  C!IsABag(portalRequests') /\ DOMAIN portalRequests' \subseteq DOMAIN portalRequests \cup {s}
<1> DEFINE B == C!\ominus(portalRequests, C!SetToBag({r}))
<1> USE DEF C!IsABag, C!SetToBag
<1>1. C!IsABag(B) /\ DOMAIN B \subseteq DOMAIN portalRequests
  BY DEF C!\ominus
<1> HIDE DEF B
<1> QED BY <1>1 DEF C!\oplus, B

\* Steps that write no link: a request begins, or links are only read.
LEMMA LinksRead ==
    ASSUME LinksInv, UNCHANGED links,
           UNCHANGED portalRequests \/ \E u, d : C!Issue(u, d)
    PROVE  LinksInv'
<1>1. \A r : IssueOK(r) => IssueOK(r)'
  BY IssueLasts DEF LinksLast
<1>2. CASE UNCHANGED portalRequests
  BY <1>1, <1>2 DEF LinksInv, IsLink
<1>3. CASE \E u, d : C!Issue(u, d)
  <2>1. PICK u, d : C!Issue(u, d)
    BY <1>3
  <2>2. PICK s : s = [step |-> "retire", who |-> u, what |-> d, before |-> C!Bound(u, d)]
    OBVIOUS
  <2>3. IssueOK(s) /\ portalRequests' = C!\oplus(portalRequests, C!SetToBag({s}))
    BY <2>1, <2>2 DEF IssueOK, C!Bound, C!Issue
  <2>4. C!IsABag(portalRequests') /\ DOMAIN portalRequests' \subseteq DOMAIN portalRequests \cup {s}
    BY <2>3, PortalRequests DEF LinksInv
  <2> QED BY <1>1, <2>3, <2>4 DEF LinksInv, IsLink
<1> QED BY <1>2, <1>3

\* Ending a link writes one column of its row.
LEMMA LinkUpdates ==
    ASSUME NEW v, IsLink(v)
    PROVE  LET w == [v EXCEPT !.live = FALSE] IN IsLink(w) /\ w.who = v.who /\ w.what = v.what /\ ~w.live
<1>1. \A b \in BOOLEAN : LET w == [v EXCEPT !.live = b] IN IsLink(w) /\ w.who = v.who /\ w.what = v.what /\ w.live = b
  BY DEF IsLink
<1> QED BY <1>1

\* revokePortalAccess and the first UPDATE of issuePortalAccess only end links.
LEMMA LinksRetire ==
    ASSUME LinksInv, NEW r \in DOMAIN portalRequests, C!Retire(r)
    PROVE  LinksInv'
<1>1. PICK s : s = [r EXCEPT !.step = "insert"]
  OBVIOUS
<1>2. portalRequests' = C!\oplus(C!\ominus(portalRequests, C!SetToBag({r})), C!SetToBag({s})) /\ r.step = "retire"
  BY <1>1 DEF C!Retire, C!Advance
<1>3. C!IsABag(portalRequests') /\ DOMAIN portalRequests' \subseteq DOMAIN portalRequests \cup {s}
  BY <1>2, PortalRequests DEF LinksInv
<1>4. links' = [l \in DOMAIN links |->
          IF l \in C!Bound(r.who, r.what) THEN [links[l] EXCEPT !.live = FALSE] ELSE links[l]]
  BY DEF C!Retire, C!Retired
<1>5. DOMAIN links' = DOMAIN links
  BY <1>4
<1>6. ASSUME NEW l \in DOMAIN links
      PROVE  /\ links'[l].who = links[l].who /\ links'[l].what = links[l].what
             /\ links[l].live \/ ~links'[l].live
             /\ l \in C!Bound(r.who, r.what) => ~links'[l].live
             /\ IsLink(links'[l])
  <2>1. IsLink(links[l])
    BY <1>6 DEF LinksInv
  <2>2. CASE l \in C!Bound(r.who, r.what)
    <3>1. links'[l] = [links[l] EXCEPT !.live = FALSE]
      BY <1>4, <1>6, <2>2
    <3> QED BY <2>1, <3>1, LinkUpdates
  <2>3. CASE l \notin C!Bound(r.who, r.what)
    BY <1>4, <1>6, <2>1, <2>3 DEF IsLink
  <2> QED BY <2>2, <2>3
<1>7. LinksLast /\ (\A l \in DOMAIN links : IsLink(links[l]))'
  BY <1>5, <1>6 DEF LinksLast, IsLink
<1>8. IssueOK(r)
  BY DEF LinksInv
<1>9. s = [step |-> "insert", who |-> r.who, what |-> r.what, before |-> r.before]
  BY <1>1, <1>8 DEF IssueOK
<1>10. \A l \in r.before : l \in C!Bound(r.who, r.what)
  BY <1>2, <1>8 DEF IssueOK, C!Bound
<1>11. IssueOK(s)'
  BY <1>5, <1>6, <1>8, <1>9, <1>10 DEF IssueOK
<1>12. \A q \in DOMAIN portalRequests : IssueOK(q)'
  BY <1>7, IssueLasts DEF LinksInv
<1> QED BY <1>3, <1>5, <1>7, <1>11, <1>12 DEF LinksInv

\* revokePortalAccess, or the day a link expires.
LEMMA LinkEnds ==
    ASSUME LinksInv, NEW k \in DOMAIN links, C!EndLink(k)
    PROVE  LinksInv'
<1>1. links' = [links EXCEPT ![k].live = FALSE] /\ UNCHANGED portalRequests
  BY DEF C!EndLink
<1>2. DOMAIN links' = DOMAIN links
  BY <1>1
<1>3. ASSUME NEW l \in DOMAIN links
      PROVE  /\ links'[l].who = links[l].who /\ links'[l].what = links[l].what
             /\ links[l].live \/ ~links'[l].live
             /\ IsLink(links'[l])
  <2>1. IsLink(links[l])
    BY <1>3 DEF LinksInv
  <2>2. CASE l = k
    <3>1. links'[l] = [links[l] EXCEPT !.live = FALSE]
      BY <1>1, <1>3, <2>2
    <3> QED BY <2>1, <3>1, LinkUpdates
  <2>3. CASE l # k
    BY <1>1, <1>3, <2>1, <2>3 DEF IsLink
  <2> QED BY <2>2, <2>3
<1>4. LinksLast /\ (\A l \in DOMAIN links : IsLink(links[l]))'
  BY <1>2, <1>3 DEF LinksLast, IsLink
<1>5. \A q \in DOMAIN portalRequests : IssueOK(q)'
  BY <1>4, IssueLasts DEF LinksInv
<1> QED BY <1>1, <1>2, <1>4, <1>5 DEF LinksInv

\* A new link takes the next number.
LEMMA LinkInserted ==
    ASSUME LinksInv, NEW r \in DOMAIN portalRequests, C!InsertLink(r)
    PROVE  LinksInv'
<1>1. PICK k \in Nat : DOMAIN links = 1 .. k
  BY DEF LinksInv
<1>2. C!Cardinality(DOMAIN links) = k
  <2>1. \A X : C!Cardinality(X) = Cardinality(X)
    BY DEF Cardinality, C!Cardinality
  <2>2. Cardinality(1 .. k) = k
    BY FS_Interval
  <2> QED BY <1>1, <2>1, <2>2
<1>3. /\ links' = [l \in 1 .. k + 1 |-> IF l = k + 1 THEN [who |-> r.who, what |-> r.what, live |-> TRUE] ELSE links[l]]
      /\ portalRequests' = C!\ominus(portalRequests, C!SetToBag({r}))
  BY <1>2 DEF C!InsertLink
<1>4. DOMAIN links' = 1 .. k + 1 /\ k + 1 \in Nat /\ \A l \in DOMAIN links : l \in DOMAIN links' /\ links'[l] = links[l]
  BY <1>1, <1>3
<1>5. LinksLast
  BY <1>4 DEF LinksLast
<1>6. (\A l \in DOMAIN links : IsLink(links[l]))'
  <2>1. \A l \in DOMAIN links' : l = k + 1 \/ l \in DOMAIN links
    BY <1>1, <1>4
  <2> QED BY <1>3, <1>4, <2>1 DEF LinksInv, IsLink
<1>7. C!IsABag(portalRequests') /\ DOMAIN portalRequests' \subseteq DOMAIN portalRequests \cup {r}
  BY <1>3, PortalRequests DEF LinksInv
<1>8. \A q \in DOMAIN portalRequests : IssueOK(q)'
  BY <1>5, IssueLasts DEF LinksInv
<1> QED BY <1>4, <1>6, <1>7, <1>8 DEF LinksInv

\* RotationRetires for every instance: whatever other issues, resends, claims and
\* revocations run beside it, when issuePortalAccess inserts its link every link the
\* person had for the record when it began is dead
\* (src/services/portal-access.service.ts).
THEOREM RotationIsKept == C!Spec => []RotationRetires
<1>1. C!Init => LinksInv
  <2> SUFFICES ASSUME C!Init PROVE LinksInv
    OBVIOUS
  <2>1. C!IsABag(portalRequests) /\ DOMAIN portalRequests = {}
    BY DEF C!Init, C!EmptyBag, C!SetToBag, C!IsABag
  <2>2. DOMAIN links = 1 .. 0
    BY DEF C!Init
  <2> QED BY <2>1, <2>2 DEF LinksInv
<1>2. LinksInv /\ [C!Next]_(C!vars) => LinksInv'
  <2> SUFFICES ASSUME LinksInv, [C!Next]_(C!vars) PROVE LinksInv'
    OBVIOUS
  <2>1. \/ UNCHANGED links /\ (UNCHANGED portalRequests \/ \E u, d : C!Issue(u, d))
        \/ \E r \in DOMAIN portalRequests : C!Retire(r) \/ C!InsertLink(r)
        \/ \E l \in DOMAIN links : C!EndLink(l)
    BY DEF C!Next, C!vars, C!BagToSet, C!Issue, C!Resend, C!Claim, C!MintAgentToken, C!TokenExpires, C!CallTool,
           C!Mint, C!Revoke, C!RunTool
  <2> QED BY <2>1, LinksRead, LinksRetire, LinkInserted, LinkEnds
<1>3. LinksInv => RotationRetires
  BY DEF LinksInv, IssueOK, RotationRetires, C!RotationRetires, C!BagToSet
<1> QED BY <1>1, <1>2, <1>3, PTL DEF C!Spec

-----------------------------------------------------------------------------
(* The five components together. *)

\* A step of one component leaves the others as they are: each of them runs its
\* own specification.
LEMMA Projections == Spec => S!Spec /\ T!Spec /\ M!Spec /\ O!Spec /\ C!Spec
<1>1. Init => S!Init /\ T!Init /\ M!Init /\ O!Init /\ C!Init
  BY DEF Init
<1> USE DEF Next, vars, signInVars, sessionVars, teamVars, oauthVars, credentialVars
<1>2. [Next]_vars => [S!Next]_(S!vars)
  BY DEF S!vars
<1>3. [Next]_vars => [T!Next]_(T!vars)
  BY DEF T!vars
<1>4. [Next]_vars => [M!Next]_(M!vars)
  BY DEF M!vars
<1>5. [Next]_vars => [O!Next]_(O!vars)
  BY DEF O!vars
<1>6. [Next]_vars => [C!Next]_(C!vars)
  BY DEF C!vars
<1> QED BY <1>1, <1>2, <1>3, <1>4, <1>5, <1>6, PTL DEF Spec, S!Spec, T!Spec, M!Spec, O!Spec, C!Spec

\* What the run checks of the five components on one instance holds of every one:
\* codes, sessions, teams, assistants' chains and portal links keep their promises.
THEOREM AccountsAreKept ==
    Spec => [](CodesHold /\ SessionsHold /\ TeamHolds /\ AssistantsHold /\ RotationRetires)
  BY Projections, CodesAreKept, SessionsAreKept, TeamsAreKept, AssistantsAreKept, RotationIsKept, PTL
=============================================================================
