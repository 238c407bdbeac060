----------------------------- MODULE IdleTimeout -----------------------------
(***************************************************************************)
(* The automatic sign-out of an idle user                                  *)
(* (web/src/stores/sessionTimeout.svelte.ts, armed by App.svelte): each    *)
(* tab has its timers, a channel tells the tabs of activity in the others, *)
(* and a touch, at most one in a while, renews the session at the server.  *)
(***************************************************************************)
EXTENDS Integers

CONSTANTS
    Tab,
    Ttl, Warning, Throttle  \* sessionDurationMs, WARNING_BEFORE_TIMEOUT_MS, TOUCH_THROTTLE_MS, in one unit

VARIABLES
    user,      \* user[t]: the tab's authStore holds a user
    active,    \* active[t]: the store is armed
    listens,   \* listens[t]: the tab reacts to activity and to the channel
    stale,     \* stale[t]: a listener of an earlier arming was never removed
    left,      \* left[t]: time until the logout timer fires, Off when there is none
    warns,     \* warns[t]: the warning is shown
    leaving,   \* leaving[t]: a forced logout's request is under way
    touched,   \* touched[t]: time since the tab's last touch, at most Throttle
    inbox,     \* inbox[t]: activity of another tab, not yet heard of
    idle,      \* time since the user did anything, in any tab
    token      \* what is left of the session's life at the server

vars == <<user, active, listens, stale, left, warns, leaving, touched, inbox, idle, token>>
Off == -1

TypeOK ==
    /\ user \in [Tab -> BOOLEAN] /\ active \in [Tab -> BOOLEAN] /\ listens \in [Tab -> BOOLEAN]
    /\ stale \in [Tab -> BOOLEAN] /\ left \in [Tab -> Off..Ttl] /\ warns \in [Tab -> BOOLEAN]
    /\ leaving \in [Tab -> BOOLEAN] /\ touched \in [Tab -> 0..Throttle] /\ inbox \in [Tab -> BOOLEAN]
    /\ idle \in 0..(Ttl + 1) /\ token \in 0..Ttl

Init ==
    /\ user = [t \in Tab |-> FALSE] /\ active = [t \in Tab |-> FALSE] /\ listens = [t \in Tab |-> FALSE]
    /\ stale = [t \in Tab |-> FALSE] /\ left = [t \in Tab |-> Off] /\ warns = [t \in Tab |-> FALSE]
    /\ leaving = [t \in Tab |-> FALSE] /\ touched = [t \in Tab |-> Throttle] /\ inbox = [t \in Tab |-> FALSE]
    /\ idle = 0 /\ token = 0

Hears(t) == listens[t] \/ stale[t]

-----------------------------------------------------------------------------
\* Mutant of StartTimers: the warning is armed and the logout is not.
StartWarning(t) == left' = [left EXCEPT ![t] = Off] /\ warns' = [warns EXCEPT ![t] = FALSE]

\* startTimers: what was armed is cleared first.
StartTimers(t) == left' = [left EXCEPT ![t] = Ttl] /\ warns' = [warns EXCEPT ![t] = FALSE]
ClearTimers(t) == left' = [left EXCEPT ![t] = Off] /\ warns' = [warns EXCEPT ![t] = FALSE]

\* touchServer, unless one was sent a moment ago; it may be lost, and renews no expired session.
TouchServer(t, asks, arrives) ==
    /\ touched' = IF asks THEN [touched EXCEPT ![t] = 0] ELSE touched
    /\ token' = IF asks /\ arrives /\ token > 0 THEN Ttl ELSE token
Broadcast(t) == inbox' = [o \in Tab |-> inbox[o] \/ (o # t /\ Hears(o))]

\* onActivity: the user does something in the tab.
OnActivity(t, arrives) ==
    /\ Hears(t) /\ StartTimers(t) /\ TouchServer(t, touched[t] = Throttle, arrives) /\ Broadcast(t) /\ idle' = 0
    /\ UNCHANGED <<user, active, listens, stale, leaving>>
\* stayActive: the button of the warning.
StayActive(t, arrives) ==
    /\ warns[t] /\ StartTimers(t) /\ TouchServer(t, TRUE, arrives) /\ Broadcast(t) /\ idle' = 0
    /\ UNCHANGED <<user, active, listens, stale, leaving>>
\* onBroadcast: the timers restart; the server is not told.
OnBroadcast(t) ==
    /\ inbox[t] /\ inbox' = [inbox EXCEPT ![t] = FALSE]
    /\ IF Hears(t) THEN StartTimers(t) ELSE UNCHANGED <<left, warns>>
    /\ UNCHANGED <<user, active, listens, stale, leaving, touched, idle, token>>

WarningFires(t) ==
    /\ left[t] = Warning /\ ~ warns[t] /\ warns' = [warns EXCEPT ![t] = TRUE]
    /\ UNCHANGED <<user, active, listens, stale, left, leaving, touched, inbox, idle, token>>

\* forceLogout, by the timer or the warning's other button: the timers are cleared, the listeners stay; the logout's request, which may be lost.
ForceLogout(t, arrives) ==
    /\ left[t] = 0 \/ warns[t]
    /\ ClearTimers(t)
    /\ active' = [active EXCEPT ![t] = FALSE] /\ leaving' = [leaving EXCEPT ![t] = TRUE]
    /\ token' = IF arrives THEN 0 ELSE token
    /\ UNCHANGED <<user, listens, stale, touched, inbox, idle>>
\* A logout of the user's own, and the end of either.
Logout(t, arrives) ==
    /\ user[t] /\ ~ leaving[t] /\ leaving' = [leaving EXCEPT ![t] = TRUE] /\ token' = IF arrives THEN 0 ELSE token
    /\ idle' = 0 /\ UNCHANGED <<user, active, listens, stale, left, warns, touched, inbox>>
LogoutEnds(t) ==
    /\ leaving[t] /\ leaving' = [leaving EXCEPT ![t] = FALSE] /\ user' = [user EXCEPT ![t] = FALSE]
    /\ UNCHANGED <<active, listens, stale, left, warns, touched, inbox, idle, token>>

\* The effect of App.svelte: init where a user is and the store is not armed ...
Arm(t) ==
    /\ user[t] /\ ~ active[t] /\ active' = [active EXCEPT ![t] = TRUE]
    /\ stale' = [stale EXCEPT ![t] = @ \/ listens[t]] /\ listens' = [listens EXCEPT ![t] = TRUE]
    /\ StartTimers(t)
    /\ UNCHANGED <<user, leaving, touched, inbox, idle, token>>
\* ... and destroy where it is armed and no user is.
Destroy(t) ==
    /\ ~ user[t] /\ active[t] /\ active' = [active EXCEPT ![t] = FALSE]
    /\ listens' = [listens EXCEPT ![t] = FALSE] /\ ClearTimers(t) /\ touched' = [touched EXCEPT ![t] = Throttle]
    /\ UNCHANGED <<user, stale, leaving, inbox, idle, token>>

\* The user signs in in a tab, or opens one while signed in.
SignIn(t) ==
    /\ ~ user[t] /\ ~ leaving[t] /\ user' = [user EXCEPT ![t] = TRUE] /\ token' = IF token > 0 THEN token ELSE Ttl
    /\ idle' = 0 /\ UNCHANGED <<active, listens, stale, left, warns, leaving, touched, inbox>>

\* Timers that are due, messages and effects come before the next unit of time.
Due(t) ==
    \/ left[t] = 0 \/ (left[t] = Warning /\ ~ warns[t]) \/ inbox[t] \/ leaving[t] \/ user[t] # active[t]
Tick ==
    /\ \A t \in Tab : ~ Due(t)
    /\ idle <= Ttl /\ idle' = idle + 1 /\ token' = IF token > 0 THEN token - 1 ELSE 0
    /\ left' = [t \in Tab |-> IF left[t] = Off THEN Off ELSE left[t] - 1]
    /\ touched' = [t \in Tab |-> IF touched[t] < Throttle THEN touched[t] + 1 ELSE Throttle]
    /\ UNCHANGED <<user, active, listens, stale, warns, leaving, inbox>>

Next ==
    \/ Tick
    \/ \E t \in Tab : OnBroadcast(t) \/ WarningFires(t) \/ LogoutEnds(t) \/ Arm(t) \/ Destroy(t) \/ SignIn(t)
    \/ \E t \in Tab, arrives \in BOOLEAN :
        OnActivity(t, arrives) \/ StayActive(t, arrives) \/ ForceLogout(t, arrives) \/ Logout(t, arrives)
Spec == Init /\ [][Next]_vars

-----------------------------------------------------------------------------
\* "force-logs-out at the timeout boundary": no tab keeps its user longer than the
\* session's duration after the last thing the user did in any of them, and the
\* warning comes first.
AutomaticLogoff ==
    \A t \in Tab : user[t] /\ ~ Due(t) => left[t] # Off /\ left[t] + idle <= Ttl /\ (left[t] < Warning => warns[t])

\* What keeps it so: an armed tab has its timers, of the last activity it heard of, and
\* one it has not heard of is no time ago; nor is one that is not armed yet.
InTime(t) ==
    /\ active[t] => left[t] # Off /\ (left[t] < Warning => warns[t])
    /\ user[t] /\ active[t] /\ ~ leaving[t] => left[t] + idle <= Ttl
    /\ user[t] /\ ~ active[t] /\ ~ leaving[t] => idle = 0
    /\ inbox[t] => idle = 0
TimerInv == TypeOK /\ \A t \in Tab : InTime(t)

\* The warning's button keeps the session.  Does not hold: activity inside the
\* throttle restarts the timers and not the token, which expires under the warning.
WarnedInTime == \A t \in Tab : warns[t] /\ (\A o \in Tab : user[o] /\ ~ leaving[o]) => token > 0
\* A tab without a user has no timers.  Does not hold: forceLogout leaves its
\* listeners, and the next arming forgets them.
DestroyStops == \A t \in Tab : ~ user[t] /\ ~ Due(t) => left[t] = Off
=============================================================================
