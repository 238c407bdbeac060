------------------------------- MODULE SignIn -------------------------------
(***************************************************************************)
(* Signing in and changing an address (src/api/routes/auth/index.ts):      *)
(* one-time codes in the otps table, shared by sign-in and email change,   *)
(* and the users they create.  Every statement is a step: a handler is in  *)
(* `requests` between two of them and may stop there.                      *)
(***************************************************************************)
EXTENDS Naturals, Bags

CONSTANTS
    Email, User, Nobody,
    OTP_MAX_ATTEMPTS,
    MaxCodes,      \* bound: codes ever generated
    MaxRequests    \* bound: requests in progress together

VARIABLES
    otps,       \* rows: id (stands for the code), email, attempts, live (not expired)
    account,    \* users.email by user id
    requests,   \* handlers between two statements
    codes,      \* codes generated so far
    guesses,    \* guesses compared with a code by verify-otp
    signIns,    \* sign-ins a code was consumed for
    rewritten   \* codes whose attempts email-change wrote back from a read

vars == <<otps, account, requests, codes, guesses, signIns, rewritten>>

Code == 1 .. MaxCodes
Row == [id : Code, email : Email, attempts : 0 .. OTP_MAX_ATTEMPTS, live : BOOLEAN]
Request == [at : {"resend", "fresh", "insert", "matched", "consumed", "create", "change", "confirm", "claim"},
            email : Email, user : User \cup {Nobody}, code : Code \cup {0}, attempts : 0 .. OTP_MAX_ATTEMPTS]

TypeOK ==
    /\ otps \subseteq Row /\ account \in [User -> Email \cup {Nobody}]
    /\ IsABag(requests) /\ BagToSet(requests) \subseteq Request /\ codes \in 0 .. MaxCodes
    /\ guesses \in [Code -> Nat] /\ signIns \in [Code -> Nat] /\ rewritten \subseteq Code

Init ==
    /\ otps = {} /\ requests = EmptyBag /\ codes = 0 /\ rewritten = {}
    /\ account = [u \in User |-> Nobody]
    /\ guesses = [c \in Code |-> 0] /\ signIns = [c \in Code |-> 0]

Handler(at, e, u, c, n) == [at |-> at, email |-> e, user |-> u, code |-> c, attempts |-> n]
Begin(r) == BagCardinality(requests) < MaxRequests /\ requests' = requests (+) SetToBag({r})
Move(r, s) == requests' = (requests (-) SetToBag({r})) (+) SetToBag({s})
End(r) == requests' = requests (-) SetToBag({r})

Of(e) == {o \in otps : o.email = e}
Taken(e) == \E u \in User : account[u] = e
Fresh == codes < MaxCodes /\ codes' = codes + 1
Insert(e) == [id |-> codes + 1, email |-> e, attempts |-> 0, live |-> TRUE]

-----------------------------------------------------------------------------
\* POST /send-otp: expired codes go, and a code with tries left is found, or
\* none is.  (The throttle before it fails open and never has to refuse.)
SendOtp(e) ==
    LET kept == {o \in Of(e) : o.live}
        unspent == {o \in kept : o.attempts < OTP_MAX_ATTEMPTS}
    IN  /\ otps' = otps \ {o \in Of(e) : ~o.live}
        /\ IF unspent = {} THEN Begin(Handler("fresh", e, Nobody, 0, 0))
           ELSE \E o \in unspent : /\ \A p \in unspent : p.id <= o.id
                                   /\ Begin(Handler("resend", e, Nobody, o.id, 0))
        /\ UNCHANGED <<account, codes, guesses, signIns, rewritten>>

\* The same code is mailed again: its row, if it is still there, lives longer.
Resend(r) ==
    /\ r.at = "resend" /\ End(r)
    /\ otps' = {IF o.id = r.code THEN [o EXCEPT !.live = TRUE] ELSE o : o \in otps}
    /\ UNCHANGED <<account, codes, guesses, signIns, rewritten>>

\* Otherwise the spent codes go, and a new one is inserted and mailed.
DropSpent(r) ==
    /\ r.at = "fresh" /\ Move(r, [r EXCEPT !.at = "insert"])
    /\ otps' = otps \ Of(r.email)
    /\ UNCHANGED <<account, codes, guesses, signIns, rewritten>>

InsertCode(r) ==
    /\ r.at = "insert" /\ End(r) /\ Fresh
    /\ otps' = otps \cup {Insert(r.email)}
    /\ UNCHANGED <<account, guesses, signIns, rewritten>>

\* OTP_TTL_MINUTES pass.
Expire(o) ==
    /\ o \in otps /\ o.live
    /\ otps' = (otps \ {o}) \cup {[o EXCEPT !.live = FALSE]}
    /\ UNCHANGED <<account, requests, codes, guesses, signIns, rewritten>>

Claimable(e) == {o \in Of(e) : o.live /\ o.attempts < OTP_MAX_ATTEMPTS}

\* Mutant of Claim: the limit is only checked by the caller.
ClaimLive(e) ==
    /\ \E o \in Of(e) : o.live
    /\ otps' = {IF o.email = e /\ o.live /\ o.attempts < OTP_MAX_ATTEMPTS
                THEN [o EXCEPT !.attempts = @ + 1] ELSE o : o \in otps}
    /\ guesses' = [c \in Code |-> IF \E o \in Of(e) : o.live /\ o.id = c THEN guesses[c] + 1 ELSE guesses[c]]

\* The claiming UPDATE of verify-otp: a try on each live, unspent code.
Claim(e) ==
    /\ Claimable(e) # {}
    /\ otps' = {IF o \in Claimable(e) THEN [o EXCEPT !.attempts = @ + 1] ELSE o : o \in otps}
    /\ guesses' = [c \in Code |-> IF \E o \in Claimable(e) : o.id = c THEN guesses[c] + 1 ELSE guesses[c]]

\* POST /verify-otp with a wrong code, and with the code of row c.
GuessWrong(e) ==
    /\ Claim(e)
    /\ UNCHANGED <<account, requests, codes, signIns, rewritten>>

GuessRight(e, c) ==
    /\ Claim(e) /\ \E o \in Claimable(e) : o.id = c
    /\ Begin(Handler("matched", e, Nobody, c, 0))
    /\ UNCHANGED <<account, codes, signIns, rewritten>>

\* Mutant of Consume: nobody looks at what the delete returned.
ConsumeUnchecked(r) ==
    /\ r.at = "matched"
    /\ otps' = {o \in otps : o.id # r.code}
    /\ Move(r, [r EXCEPT !.at = "consumed"]) /\ signIns' = [signIns EXCEPT ![r.code] = @ + 1]
    /\ UNCHANGED <<account, codes, guesses, rewritten>>

\* The row is deleted; the request that deleted it goes on.
Consume(r) ==
    /\ r.at = "matched"
    /\ otps' = {o \in otps : o.id # r.code}
    /\ IF otps' # otps
       THEN Move(r, [r EXCEPT !.at = "consumed"]) /\ signIns' = [signIns EXCEPT ![r.code] = @ + 1]
       ELSE End(r) /\ UNCHANGED signIns
    /\ UNCHANGED <<account, codes, guesses, rewritten>>

\* Every other code of the address goes; the user is looked up, and signed in
\* or about to be created.
FindUser(r) ==
    /\ r.at = "consumed"
    /\ otps' = otps \ Of(r.email)
    /\ IF Taken(r.email) THEN End(r) ELSE Move(r, [r EXCEPT !.at = "create"])
    /\ UNCHANGED <<account, codes, guesses, signIns, rewritten>>

\* The organization and its owner, in one transaction: users.email is unique.
CreateUser(r) ==
    /\ r.at = "create" /\ End(r)
    /\ IF Taken(r.email) THEN UNCHANGED account
       ELSE \E u \in User : account[u] = Nobody /\ account' = [account EXCEPT ![u] = r.email]
    /\ UNCHANGED <<otps, codes, guesses, signIns, rewritten>>

\* GET /:provider/callback: the provider vouches for the address.
OAuthCallback(e) ==
    /\ ~Taken(e)
    /\ Begin(Handler("create", e, Nobody, 0, 0))
    /\ UNCHANGED <<otps, account, codes, guesses, signIns, rewritten>>

-----------------------------------------------------------------------------
\* POST /me/email-change: no other account has the address, its codes are
\* replaced by a new one.
RequestEmailChange(u, e) ==
    /\ account[u] \notin {Nobody, e} /\ ~Taken(e)
    /\ Begin(Handler("insert", e, u, 0, 0))
    /\ otps' = otps \ Of(e)
    /\ UNCHANGED <<account, codes, guesses, signIns, rewritten>>

\* POST /me/email-change/confirm reads one live code of the address...
ConfirmReads(u, e, o) ==
    /\ account[u] \notin {Nobody, e} /\ o \in Of(e) /\ o.live
    /\ Begin(Handler("confirm", e, u, o.id, o.attempts))
    /\ UNCHANGED <<otps, account, codes, guesses, signIns, rewritten>>

\* ... deletes a spent one...
ConfirmSpent(r) ==
    /\ r.at = "confirm" /\ r.attempts >= OTP_MAX_ATTEMPTS /\ End(r)
    /\ otps' = {o \in otps : o.id # r.code}
    /\ UNCHANGED <<account, codes, guesses, signIns, rewritten>>

\* ... counts a wrong try from the value it read...
ConfirmWrong(r) ==
    /\ r.at = "confirm" /\ r.attempts < OTP_MAX_ATTEMPTS /\ End(r)
    /\ otps' = {IF o.id = r.code THEN [o EXCEPT !.attempts = r.attempts + 1] ELSE o : o \in otps}
    /\ rewritten' = IF \E o \in otps : o.id = r.code /\ o.attempts > r.attempts
                    THEN rewritten \cup {r.code} ELSE rewritten
    /\ UNCHANGED <<account, codes, guesses, signIns>>

\* ... or deletes the right one, checks the address again...
ConfirmRight(r) ==
    /\ r.at = "confirm" /\ r.attempts < OTP_MAX_ATTEMPTS
    /\ otps' = {o \in otps : o.id # r.code}
    /\ IF Taken(r.email) THEN End(r) ELSE Move(r, [r EXCEPT !.at = "claim"])
    /\ UNCHANGED <<account, codes, guesses, signIns, rewritten>>

\* ... and moves the account (unique index).
MoveAccount(r) ==
    /\ r.at = "claim" /\ End(r)
    /\ account' = IF Taken(r.email) THEN account ELSE [account EXCEPT ![r.user] = r.email]
    /\ UNCHANGED <<otps, codes, guesses, signIns, rewritten>>

\* A process dies, or a statement fails, between two statements.
Stops(r) ==
    /\ End(r)
    /\ UNCHANGED <<otps, account, codes, guesses, signIns, rewritten>>

Next ==
    \/ \E e \in Email :
        \/ SendOtp(e) \/ GuessWrong(e) \/ OAuthCallback(e)
        \/ \E c \in Code : GuessRight(e, c)
        \/ \E u \in User : RequestEmailChange(u, e) \/ \E o \in otps : ConfirmReads(u, e, o)
    \/ \E o \in otps : Expire(o)
    \/ \E r \in BagToSet(requests) :
        \/ Resend(r) \/ DropSpent(r) \/ InsertCode(r) \/ Consume(r) \/ FindUser(r) \/ CreateUser(r)
        \/ ConfirmSpent(r) \/ ConfirmWrong(r) \/ ConfirmRight(r) \/ MoveAccount(r) \/ Stops(r)

Spec == Init /\ [][Next]_vars

-----------------------------------------------------------------------------
(* Properties. *)

\* However many guesses arrive together, verify-otp compares at most
\* OTP_MAX_ATTEMPTS of them with one code, resends and expiry included.  Codes
\* whose count email-change has written back are set apart.
GuessesBounded == \A c \in Code \ rewritten : guesses[c] <= OTP_MAX_ATTEMPTS

\* A code signs in once: of parallel requests with the right code one wins.
CodeSignsInOnce == \A c \in Code : signIns[c] <= 1

-----------------------------------------------------------------------------
(* What the repository says and the code does not do. *)

\* email-change/confirm: "Same verification semantics as POST /verify-otp: ...
\* 5-attempt cap".  Its count is read and written back, so parallel tries count
\* once, and it can lower the count verify-otp keeps.
AttemptsOnlyGrow == rewritten = {}

\* send-otp: "With one live code per address, every email in the inbox works."
\* Two first sends that both found no code leave two rows, or the second
\* deletes the first one's code after it was mailed.
OneCodePerAddress == \A o, p \in otps : o.email = p.email => o = p
=============================================================================
