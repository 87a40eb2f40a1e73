------------------------------- MODULE SignIn -------------------------------
(***************************************************************************)
(* Sign-in (auth/manager.go, with web/static/js/login.js as its client):   *)
(* the password, the challenge it earns, the second factor that answers    *)
(* the challenge, and the sessions.  A password and the code of an         *)
(* authenticator are compared outside the lock of the manager, so such a   *)
(* request is two steps with those of others between them; a page has one  *)
(* request per form.                                                       *)
(*                                                                         *)
(* Time is counted in periods of the authenticator, from 1.  A code is the *)
(* period it is made for, or Wrong when the authenticator never made it.   *)
(***************************************************************************)
EXTENDS Integers, FiniteSets

CONSTANTS
    Accounts,        \* local accounts
    Guest,           \* the identity of guest sessions
    Pages,           \* login pages, one per browser
    HostOf,          \* the client address of a page, as remoteHost groups it
    RecoveryCodes,   \* the recovery codes of an enrollment
    MaxLoginAttempts, MaxChallengeTries, MaxGuests, MaxGuestsPerHost,
    ChallengeLife, AttemptWindow, SessionLife, PruneInterval,
    Lockout, MaxLockout, FailureTTL,
    MaxTime,         \* bound: the clock
    MaxTokens,       \* bound: challenges and sessions made
    MaxRequests,     \* bound: requests sent
    MaxMishaps       \* bound: failed saves, lost answers, unreadable hashes, restarts

ASSUME SignInAssumption ==
    /\ Guest \notin Accounts /\ {"ip", "guest"} \cap Accounts = {}
    /\ IsFiniteSet(Pages)
    /\ IsFiniteSet(RecoveryCodes) /\ RecoveryCodes \cap Nat = {}
    /\ {MaxLoginAttempts, MaxChallengeTries, MaxGuests, MaxGuestsPerHost, ChallengeLife,
        AttemptWindow, SessionLife, PruneInterval, Lockout, MaxLockout, FailureTTL}
          \subseteq Nat \ {0}
    /\ {MaxTime, MaxTokens, MaxRequests, MaxMishaps} \subseteq Nat

VARIABLES
    now,            \* the clock
    users,          \* Manager.state: the accounts
    saved,          \* what the database holds of them
    challenges,     \* Manager.challenges
    attempts,       \* Manager.loginAttempts
    second,         \* Manager.secondFactor
    sessions,       \* Manager.sessions
    guestSessions,  \* Manager.guestSessions
    lastPrune,      \* Manager.lastPrune
    tokens,         \* tokens drawn so far: none is drawn twice
    page,           \* the step a page shows, its challenge and its cookie
    form,           \* the request of each form of a page
    left,           \* the requests and mishaps the bounds leave
    opened,         \* history: the sessions each code opened
    compared        \* history: the codes compared for each challenge

sessionVars == <<sessions, guestSessions>>
history == <<opened, compared>>
vars == <<now, users, saved, challenges, attempts, second, sessionVars, lastPrune, tokens,
          page, form, left, history>>

Hosts == {HostOf[p] : p \in Pages}
Forms == {"login", "totp", "setup"}
NoToken == 0
Wrong == 0
Tokens == 1..MaxTokens
Codes == 0..(MaxTime + 1) \cup RecoveryCodes

\* The keys of the throttle: an account from a client, a client, a guest from a client.
Keys == {<<a, h>> : a \in Accounts, h \in Hosts} \cup {<<kind, h>> : kind \in {"ip", "guest"}, h \in Hosts}

NoAttempt == [since |-> 0, failures |-> 0, inFlight |-> 0]
NoFailure == [failures |-> 0, last |-> 0, until |-> 0]
Idle == [stage |-> "idle", who |-> Guest, good |-> FALSE, at |-> 0, token |-> NoToken,
         last |-> 0, code |-> Wrong, cookie |-> NoToken]

Spend(requests, mishaps) ==
    /\ left.requests >= requests /\ left.mishaps >= mishaps
    /\ left' = [requests |-> left.requests - requests, mishaps |-> left.mishaps - mishaps]

Init ==
    /\ now = 1
    /\ \E enrolled \in SUBSET Accounts :
          users = [a \in Accounts |->
                     [enrolled |-> a \in enrolled, last |-> 0, disabled |-> FALSE,
                      codes |-> IF a \in enrolled THEN RecoveryCodes ELSE {}]]
    /\ saved = users
    /\ challenges = {} /\ sessions = {} /\ guestSessions = 0
    /\ attempts = [k \in Keys |-> NoAttempt]
    /\ second = [a \in Accounts |-> NoFailure]
    /\ lastPrune = 0 /\ tokens = 0
    /\ page = [p \in Pages |-> [step |-> "login", token |-> NoToken, cookie |-> NoToken]]
    /\ form = [p \in Pages |-> [f \in Forms |-> Idle]]
    /\ left = [requests |-> MaxRequests, mishaps |-> MaxMishaps]
    /\ opened = [a \in Accounts |-> [c \in Codes |-> 0]]
    /\ compared = [t \in Tokens |-> 0]

-----------------------------------------------------------------------------
(* The throttle, the sessions and the sweep.                                *)

ActiveAttempt(at, k) ==
    IF at[k].since = 0 \/ now >= at[k].since + AttemptWindow THEN NoAttempt ELSE at[k]

Spent(at, k) == LET a == ActiveAttempt(at, k) IN a.failures + a.inFlight

Reserved(at, k) ==
    LET a == ActiveAttempt(at, k) IN
    [at EXCEPT ![k] = [a EXCEPT !.since = IF @ = 0 THEN now ELSE @, !.inFlight = @ + 1]]

\* Mutant: a reservation is given back only by a failure.
FinishedKept(at, k, failed) ==
    IF failed THEN [at EXCEPT ![k] = [@ EXCEPT !.inFlight = IF @ > 0 THEN @ - 1 ELSE 0, !.failures = @ + 1]]
    ELSE at

Finished(at, k, failed) ==
    LET a == [at[k] EXCEPT !.inFlight = IF @ > 0 THEN @ - 1 ELSE 0,
                           !.failures = IF failed THEN @ + 1 ELSE @]
    IN  IF at[k] = NoAttempt THEN at
        ELSE [at EXCEPT ![k] = IF a.failures = 0 /\ a.inFlight = 0 THEN NoAttempt ELSE a]

Guests(ss) == {s \in ss : s.who = Guest}

\* Mutant: a deleted guest still counts.
ChangeSessionsUncounted(gone, new) ==
    /\ sessions' = (sessions \ gone) \cup new
    /\ guestSessions' = guestSessions + Cardinality(Guests(new))

\* Sessions deleted and stored, with the count of guests that follows them.
ChangeSessions(gone, new) ==
    /\ sessions' = (sessions \ gone) \cup new
    /\ guestSessions' = (guestSessions - Cardinality(Guests(sessions \cap gone))) + Cardinality(Guests(new))

SessionsOf(who) == {s \in sessions : s.who = who}
Named(t) == {s \in sessions : s.token = t}
Expired(things) == {x \in things : x.expires <= now}

PruneDue == lastPrune = 0 \/ now >= lastPrune + PruneInterval

SweptAttempts(due) ==
    [k \in Keys |-> IF due /\ now >= attempts[k].since + AttemptWindow THEN NoAttempt
                    ELSE attempts[k]]

SweptSessions(due) == IF due THEN Expired(sessions) ELSE {}

\* pruneLocked, but for what its callers go on to change: attempts and sessions.
Prune(due) ==
    /\ lastPrune' = IF due THEN now ELSE lastPrune
    /\ challenges' = IF due THEN challenges \ Expired(challenges) ELSE challenges
    /\ second' = [a \in Accounts |->
                    IF due /\ now >= second[a].until /\ now >= second[a].last + FailureTTL
                    THEN NoFailure ELSE second[a]]

\* commitLocked fails: the database may have the new accounts, the manager has the old.
SaveFails(next, asked) == saved' \in {saved, next} /\ UNCHANGED users /\ Spend(asked, 1)
Saves(next) == saved' = next /\ users' = next

\* A new session takes the place of the one the request's cookie names; an
\* answer that is lost leaves the page where it was, with the old cookie.
OpenSession(p, who, at, cookie, gone, step, asked) ==
    /\ tokens < MaxTokens /\ tokens' = tokens + 1
    /\ ChangeSessions(gone \cup Named(cookie),
                      {[token |-> tokens + 1, who |-> who, expires |-> at + SessionLife]})
    /\ \/ /\ page' = [page EXCEPT ![p] = [@ EXCEPT !.step = step, !.cookie = tokens + 1]]
          /\ Spend(asked, 0)
       \/ UNCHANGED page /\ Spend(asked, 1)

Count(a, c) == opened' = [opened EXCEPT ![a][c] = @ + 1]

-----------------------------------------------------------------------------
(* The password.                                                            *)

AttemptKeys(p, a) == {<<a, HostOf[p]>>, <<"ip", HostOf[p]>>}

Done(p, f) == form' = [form EXCEPT ![p][f] = Idle]

\* StartLogin up to the comparison; "good" is whether the password is right.
StartLogin(p, a, good) ==
    LET kept == SweptAttempts(PruneDue) IN
    /\ page[p].step = "login" /\ form[p]["login"] = Idle /\ Spend(1, 0)
    /\ Prune(PruneDue) /\ ChangeSessions(SweptSessions(PruneDue), {})
    /\ \/ /\ \E k \in AttemptKeys(p, a) : Spent(kept, k) >= MaxLoginAttempts
          /\ attempts' = kept
          /\ UNCHANGED form
       \/ /\ \A k \in AttemptKeys(p, a) : Spent(kept, k) < MaxLoginAttempts
          /\ attempts' = Reserved(Reserved(kept, <<a, HostOf[p]>>), <<"ip", HostOf[p]>>)
          /\ form' = [form EXCEPT ![p]["login"] =
                        [Idle EXCEPT !.stage = "comparing", !.who = a, !.at = now,
                                     !.good = good /\ ~users[a].disabled]]
    /\ UNCHANGED <<now, users, saved, tokens, page, history>>

Finish(p, a, failed) ==
    Finished(Finished(attempts, <<a, HostOf[p]>>, failed), <<"ip", HostOf[p]>>, failed)

\* ... and after it: a hash that cannot be read, a refusal, or a challenge,
\* which the page shows a step for unless the answer is lost.
FinishLogin(p) ==
    LET q == form[p]["login"] a == q.who IN
    /\ q.stage = "comparing"
    /\ Done(p, "login")
    /\ \/ /\ attempts' = Finish(p, a, FALSE) /\ Spend(0, 1)
          /\ UNCHANGED <<challenges, tokens, page>>
       \/ /\ ~q.good \/ users[a].disabled
          /\ attempts' = Finish(p, a, TRUE)
          /\ UNCHANGED <<challenges, tokens, page, left>>
       \/ /\ q.good /\ ~users[a].disabled
          /\ tokens < MaxTokens /\ tokens' = tokens + 1
          /\ attempts' = [Finish(p, a, FALSE) EXCEPT ![<<a, HostOf[p]>>] = NoAttempt]
          /\ challenges' = challenges \cup
                {[token |-> tokens + 1, who |-> a, expires |-> q.at + ChallengeLife, checks |-> 0,
                  setup |-> ~users[a].enrolled]}
          /\ \/ /\ page' = [page EXCEPT ![p] =
                              [@ EXCEPT !.token = tokens + 1,
                                        !.step = IF users[a].enrolled THEN "totp" ELSE "setup"]]
                /\ UNCHANGED left
             \/ UNCHANGED page /\ Spend(0, 1)
    /\ UNCHANGED <<now, users, saved, second, sessionVars, lastPrune, history>>

-----------------------------------------------------------------------------
(* The second factor.                                                       *)

Held(t) == {c \in challenges : c.token = t}

\* Mutant: the account is read when the challenge is made, never again.
UsableThen(c, at) == c.expires > at

\* reservedChallengeUserLocked: it deletes the challenge it refuses.
Usable(c, at) == c.expires > at /\ ~users[c.who].disabled
Untired(c) == c.checks < MaxChallengeTries

\* The form fits the challenge and what the account has.
Fits(c, f) == c.setup = (f = "setup") /\ users[c.who].enrolled = (f # "setup")

Locked(a) == now < second[a].until

Lesser(m, n) == IF m < n THEN m ELSE n

\* reserveSecondFactorLocked: the attempt counts as failed before it is compared.
Failed(a) ==
    LET s == IF second[a].last # 0 /\ now >= second[a].last + FailureTTL THEN NoFailure ELSE second[a]
        n == s.failures + 1
        k == n \div MaxChallengeTries
    IN  [failures |-> n, last |-> now,
         until |-> IF n % MaxChallengeTries = 0
                   THEN now + Lesser(Lockout * <<1, 2, 4, 8, 16, 32, 64>>[Lesser(k, 7)], MaxLockout)
                   ELSE s.until]

\* Mutant: an attempt counts only for the account.
CheckedNot(c) == challenges

Checked(c) == (challenges \ {c}) \cup {[c EXCEPT !.checks = @ + 1]}

Refused(p) ==
    /\ \A c \in Held(page[p].token) : ~Usable(c, now) \/ ~Untired(c)
    /\ challenges' = challenges \ Held(page[p].token)
    /\ UNCHANGED <<second, form, compared>>

\* completeAuthenticator and CompleteSetup up to the comparison.
SubmitCode(p, f, code) ==
    /\ page[p].step = f /\ form[p][f] = Idle /\ Spend(1, 0)
    /\ \/ Refused(p)
       \/ \E c \in Held(page[p].token) :
            /\ Usable(c, now) /\ Untired(c)
            /\ ~Fits(c, f) \/ Locked(c.who)
            /\ UNCHANGED <<challenges, second, form, compared>>
       \/ \E c \in Held(page[p].token) :
            /\ Usable(c, now) /\ Untired(c) /\ Fits(c, f) /\ ~Locked(c.who)
            /\ second' = [second EXCEPT ![c.who] = Failed(c.who)]
            /\ challenges' = Checked(c)
            /\ compared' = [compared EXCEPT ![c.token] = @ + 1]
            /\ form' = [form EXCEPT ![p][f] =
                          [Idle EXCEPT !.stage = "comparing", !.who = c.who, !.at = now, !.token = c.token,
                                       !.last = IF f = "setup" THEN 0 ELSE users[c.who].last,
                                       !.code = code, !.cookie = page[p].cookie]]
    /\ UNCHANGED <<now, users, saved, attempts, sessionVars, lastPrune, tokens, page, opened>>

\* verifyTOTP: a code of this period or the ones around it, after the last one taken.
Verified(q) == q.code \in {q.at - 1, q.at, q.at + 1} /\ q.code > q.last

\* Mutant: the code was verified already.
StillFitsAnyway(c, f, code) ==
    /\ c.setup = (f = "setup")
    /\ f = "setup" => ~users[c.who].enrolled

\* The last test before the save.
StillFits(c, f, code) ==
    /\ c.setup = (f = "setup")
    /\ IF f = "setup" THEN ~users[c.who].enrolled ELSE users[c.who].last < code

Enrolling(a, f, code) ==
    [users EXCEPT ![a].last = code, ![a].enrolled = TRUE,
                  ![a].codes = IF f = "setup" THEN RecoveryCodes ELSE @]

\* ... and after it.
FinishCode(p, f) ==
    LET q == form[p][f] held == {c \in Held(q.token) : Usable(c, q.at)} IN
    /\ q.stage = "comparing"
    /\ Done(p, f)
    /\ \/ /\ ~Verified(q)
          /\ UNCHANGED <<users, saved, challenges, second, sessionVars, tokens, page, left, opened>>
       \/ /\ Verified(q) /\ held = {}
          /\ challenges' = challenges \ Held(q.token)
          /\ UNCHANGED <<users, saved, second, sessionVars, tokens, page, left, opened>>
       \/ /\ Verified(q) /\ held # {} /\ \A c \in held : ~StillFits(c, f, q.code)
          /\ UNCHANGED <<users, saved, challenges, second, sessionVars, tokens, page, left, opened>>
       \/ /\ Verified(q) /\ \E c \in held : StillFits(c, f, q.code)
          /\ \/ /\ SaveFails(Enrolling(q.who, f, q.code), 0)
                /\ UNCHANGED <<challenges, second, sessionVars, tokens, page, opened>>
             \/ /\ Saves(Enrolling(q.who, f, q.code))
                /\ challenges' = challenges \ Held(q.token)
                /\ second' = [second EXCEPT ![q.who] = NoFailure]
                /\ OpenSession(p, q.who, q.at, q.cookie, {},
                               IF f = "setup" THEN "codes" ELSE "in", 0)
                /\ Count(q.who, q.code)
    /\ UNCHANGED <<now, attempts, lastPrune, compared>>

\* CompleteRecovery holds the lock throughout.
Recover(p, code) ==
    /\ page[p].step = "recovery"
    /\ \/ /\ Refused(p) /\ Spend(1, 0)
          /\ UNCHANGED <<users, saved, sessionVars, tokens, page, opened>>
       \/ \E c \in Held(page[p].token) :
            /\ Usable(c, now) /\ Untired(c)
            /\ ~Fits(c, "recovery") \/ Locked(c.who)
            /\ Spend(1, 0)
            /\ UNCHANGED <<users, saved, challenges, second, sessionVars, tokens, page, form, history>>
       \/ \E c \in Held(page[p].token) :
            LET next == [users EXCEPT ![c.who].codes = @ \ {code}] IN
            /\ Usable(c, now) /\ Untired(c) /\ Fits(c, "recovery") /\ ~Locked(c.who)
            /\ compared' = [compared EXCEPT ![c.token] = @ + 1]
            /\ UNCHANGED form
            /\ \/ /\ IF code \in users[c.who].codes THEN SaveFails(next, 1)
                     ELSE UNCHANGED <<users, saved>> /\ Spend(1, 0)
                  /\ second' = [second EXCEPT ![c.who] = Failed(c.who)]
                  /\ challenges' = Checked(c)
                  /\ UNCHANGED <<sessionVars, tokens, page, opened>>
               \/ /\ code \in users[c.who].codes /\ Saves(next)
                  /\ second' = [second EXCEPT ![c.who] = NoFailure]
                  /\ challenges' = challenges \ {c}
                  /\ OpenSession(p, c.who, now, page[p].cookie, {}, "in", 1)
                  /\ Count(c.who, code)
    /\ UNCHANGED <<now, attempts, lastPrune>>

-----------------------------------------------------------------------------
(* Guests, sessions and accounts.                                           *)

\* NewGuestSession: every attempt takes from the budget of the client, and a
\* full house is swept early.
NewGuest(p) ==
    LET k == <<"guest", HostOf[p]>>
        allowed == ActiveAttempt(SweptAttempts(PruneDue), k).failures < MaxGuestsPerHost
        full == guestSessions - Cardinality(Guests(SweptSessions(PruneDue))) >= MaxGuests
        due == PruneDue \/ (allowed /\ full /\ now > lastPrune)
        gone == SweptSessions(due)
        room == guestSessions - Cardinality(Guests(gone)) < MaxGuests
    IN  /\ page[p].step # "in"
        /\ Prune(due)
        /\ attempts' = IF allowed THEN Finished(Reserved(SweptAttempts(due), k), k, TRUE)
                       ELSE SweptAttempts(due)
        /\ \/ /\ ~(allowed /\ room)
              /\ ChangeSessions(gone, {}) /\ Spend(1, 0)
              /\ UNCHANGED <<tokens, page>>
           \/ /\ allowed /\ room
              /\ OpenSession(p, Guest, now, page[p].cookie, gone, "in", 1)
        /\ UNCHANGED <<now, users, saved, form, history>>

Quiet(p) == \A f \in Forms : form[p][f] = Idle

\* A page is opened: Session looks its cookie up, and login.js or the session
\* guard of the application shows what the answer calls for.
Visit(p) ==
    LET gone == SweptSessions(PruneDue)
        live == Named(page[p].cookie) \ Expired(sessions)
    IN  /\ Quiet(p) /\ Spend(1, 0)
        /\ Prune(PruneDue) /\ attempts' = SweptAttempts(PruneDue)
        /\ ChangeSessions(gone \cup (Named(page[p].cookie) \ live), {})
        /\ page' = [page EXCEPT ![p] = [@ EXCEPT !.step = IF live # {} THEN "in" ELSE "login",
                                                 !.token = NoToken]]
        /\ UNCHANGED <<now, users, saved, tokens, form, history>>

Logout(p) ==
    /\ page[p].step = "in" /\ Quiet(p) /\ Spend(1, 0)
    /\ ChangeSessions(Named(page[p].cookie), {})
    /\ page' = [page EXCEPT ![p] = [step |-> "login", token |-> NoToken, cookie |-> NoToken]]
    /\ UNCHANGED <<now, users, saved, challenges, attempts, second, lastPrune, tokens, form, history>>

\* showStep and resetLogin; the requests in flight go on.
ShowStep(p) ==
    /\ \/ page[p].step = "totp" /\ page' = [page EXCEPT ![p].step = "recovery"]
       \/ page[p].step = "recovery" /\ page' = [page EXCEPT ![p].step = "totp"]
       \/ /\ page[p].step \in {"totp", "recovery", "setup"}
          /\ page' = [page EXCEPT ![p] = [@ EXCEPT !.step = "login", !.token = NoToken]]
    /\ UNCHANGED <<now, users, saved, challenges, attempts, second, sessionVars, lastPrune, tokens,
                   form, left, history>>

\* UpdateUser disables or enables an account, and ends its sessions.
SetDisabled(a, disabled) ==
    LET next == [users EXCEPT ![a].disabled = disabled] IN
    /\ users[a].disabled # disabled
    /\ \/ SaveFails(next, 1) /\ UNCHANGED sessionVars
       \/ Saves(next) /\ ChangeSessions(SessionsOf(a), {}) /\ Spend(1, 0)
    /\ UNCHANGED <<now, challenges, attempts, second, lastPrune, tokens, page, form, history>>

Tick ==
    /\ now < MaxTime /\ now' = now + 1
    /\ UNCHANGED <<users, saved, challenges, attempts, second, sessionVars, lastPrune, tokens, page,
                   form, left, history>>

\* The server starts again: only the database is left of it.
Restart ==
    /\ Spend(0, 1)
    /\ users' = saved
    /\ challenges' = {} /\ sessions' = {} /\ guestSessions' = 0 /\ lastPrune' = 0
    /\ attempts' = [k \in Keys |-> NoAttempt]
    /\ second' = [a \in Accounts |-> NoFailure]
    /\ form' = [p \in Pages |-> [f \in Forms |-> Idle]]
    /\ UNCHANGED <<now, saved, tokens, page, history>>

Next ==
    \/ \E p \in Pages, a \in Accounts, good \in BOOLEAN : StartLogin(p, a, good)
    \/ \E p \in Pages : FinishLogin(p)
    \/ \E p \in Pages, f \in {"totp", "setup"}, code \in {Wrong, now - 1, now, now + 1} :
          SubmitCode(p, f, code)
    \/ \E p \in Pages, f \in {"totp", "setup"} : FinishCode(p, f)
    \/ \E p \in Pages, code \in RecoveryCodes \cup {Wrong} : Recover(p, code)
    \/ \E p \in Pages : NewGuest(p) \/ Visit(p) \/ Logout(p) \/ ShowStep(p)
    \/ \E a \in Accounts, disabled \in BOOLEAN : SetDisabled(a, disabled)
    \/ Tick
    \/ Restart

Spec == Init /\ [][Next]_vars

-----------------------------------------------------------------------------
(* Properties.                                                              *)

Stages == {"idle", "comparing"}
Steps == {"login", "totp", "setup", "recovery", "codes", "in"}
Account == [enrolled : BOOLEAN, last : Nat, disabled : BOOLEAN, codes : SUBSET RecoveryCodes]

\* The type invariant.
TypeOK ==
    /\ now \in Nat \ {0} /\ lastPrune \in Nat /\ tokens \in 0..MaxTokens
    /\ users \in [Accounts -> Account] /\ saved \in [Accounts -> Account]
    /\ challenges \subseteq [token : Tokens, who : Accounts, expires : Nat, checks : Nat,
                             setup : BOOLEAN]
    /\ sessions \subseteq [token : Tokens, who : Accounts \cup {Guest}, expires : Nat]
    /\ guestSessions \in Int
    /\ attempts \in [Keys -> [since : Nat, failures : Nat, inFlight : Nat]]
    /\ second \in [Accounts -> [failures : Nat, last : Nat, until : Nat]]
    /\ page \in [Pages -> [step : Steps, token : 0..MaxTokens, cookie : 0..MaxTokens]]
    /\ form \in [Pages -> [Forms ->
          [stage : Stages, who : Accounts \cup {Guest}, good : BOOLEAN, at : Nat,
           token : 0..MaxTokens, last : Nat, code : Nat, cookie : 0..MaxTokens]]]
    /\ left \in [requests : Nat, mishaps : Nat]
    /\ opened \in [Accounts -> [Codes -> Nat]] /\ compared \in [Tokens -> Nat]

\* A code of the authenticator and a recovery code open one session at most,
\* whatever requests compare them at the same time and whatever was saved when
\* the server stopped (completeAuthenticator, CompleteSetup, CompleteRecovery).
CodesOnce == \A a \in Accounts, c \in Codes : opened[a][c] <= 1

\* No session belongs to a disabled account, though it was disabled while a
\* password or a code of it was compared (UpdateUser against the logins).
SessionsOfEnabled == \A s \in sessions : s.who # Guest => ~users[s.who].disabled

\* The count of guests is the number of guest sessions, however they ended,
\* and never exceeds the cap (storeSessionLocked, deleteSessionLocked).
GuestCountExact == guestSessions = Cardinality(Guests(sessions)) /\ guestSessions <= MaxGuests

\* A challenge has no more than its share of codes compared, by however many
\* requests at once and of whatever kind (reserveSecondFactorLocked).
TriesBounded == \A t \in Tokens : compared[t] <= MaxChallengeTries

\* The requests whose password is being compared, by key of the throttle.
Comparing(k) == {p \in Pages : /\ form[p]["login"].stage = "comparing"
                               /\ k \in AttemptKeys(p, form[p]["login"].who)}

\* The throttle never holds a reservation that no request will give back: not
\* after a success removed the record, a sweep took it or a hash was unreadable
\* (reserveLoginAttemptLocked, finishLoginAttemptLocked).
NoReservationLeaks == \A k \in Keys : attempts[k].inFlight <= Cardinality(Comparing(k))
=============================================================================
