---------------------------- MODULE SignInProofs ----------------------------
(***************************************************************************)
(* Signing in opens a session only once for each code, only for an account *)
(* that is enabled, and within the tries of its challenge: the invariants  *)
(* of SignIn for any number of accounts, pages, codes, requests and        *)
(* mishaps, whatever the limits and lifetimes.                             *)
(*                                                                         *)
(* A code is compared outside the lock, so all of it rests on what the     *)
(* second test under the lock reads again, and on tokens: a challenge and  *)
(* the form that answers it mean the same account for as long as both are. *)
(***************************************************************************)
EXTENDS SignIn, FiniteSetTheorems, TLAPS

SecondFactor == {"totp", "setup"}

\* The challenge of a form whose code is being compared.
Answering(p, f) == form[p][f].stage = "comparing"

\* A token is drawn once: it names one challenge, and one account for as long as a
\* form compares a code for it.
TokensInv ==
    /\ \A c \in challenges : c.token <= tokens
    /\ \A c, d \in challenges : c.token = d.token => c = d
    /\ \A s \in sessions : s.token <= tokens
    /\ \A p \in Pages : Answering(p, "login") => form[p]["login"].who \in Accounts
    /\ \A p \in Pages, f \in SecondFactor : Answering(p, f) =>
          /\ form[p][f].who \in Accounts /\ form[p][f].token <= tokens
          /\ \A c \in Held(form[p][f].token) : c.who = form[p][f].who

\* A code that opened a session is used up in memory and in the database.
UsedUp(account, c) ==
    /\ account.enrolled
    /\ IF c \in RecoveryCodes THEN c \notin account.codes ELSE account.last >= c

CodesInv ==
    \A a \in Accounts, c \in Codes :
        /\ opened[a][c] <= 1
        /\ opened[a][c] > 0 => UsedUp(users[a], c) /\ UsedUp(saved[a], c)

\* A challenge counts every code compared for it, and one that is gone never returns.
TriesInv ==
    /\ TriesBounded
    /\ \A c \in challenges : compared[c.token] = c.checks
    /\ \A t \in Tokens : t > tokens => compared[t] = 0

SignInInv ==
    /\ TypeOK
    /\ IsFiniteSet(sessions) /\ GuestCountExact
    /\ TokensInv
    /\ CodesInv
    /\ SessionsOfEnabled
    /\ TriesInv

-----------------------------------------------------------------------------
(* Types.                                                                   *)

LEMMA FailedTyped ==
    ASSUME TypeOK, NEW a \in Accounts
    PROVE  Failed(a) \in [failures : Nat, last : Nat, until : Nat]
<1> DEFINE s == IF second[a].last # 0 /\ now >= second[a].last + FailureTTL THEN NoFailure ELSE second[a]
           n == s.failures + 1
           k == n \div MaxChallengeTries
           doubled == <<1, 2, 4, 8, 16, 32, 64>>
<1>1. s.failures \in Nat /\ s.last \in Nat /\ s.until \in Nat
  BY DEF TypeOK, NoFailure
<1>2. MaxChallengeTries \in Nat \ {0} /\ Lockout \in Nat /\ MaxLockout \in Nat /\ now \in Nat
  BY SignInAssumption DEF TypeOK
<1>3. n \in Nat /\ n > 0
  BY <1>1
<1> HIDE DEF s, n
<1>4. n % MaxChallengeTries = 0 => k >= 1 /\ k \in Nat
  BY <1>2, <1>3 DEF k
<1> HIDE DEF k
<1>5. n % MaxChallengeTries = 0 => Lesser(k, 7) \in 1..7
  BY <1>4 DEF Lesser
<1>6. \A i \in 1..7 : doubled[i] \in Nat
  OBVIOUS
<1> HIDE DEF doubled
<1>7. n % MaxChallengeTries = 0 => Lockout * doubled[Lesser(k, 7)] \in Nat
  BY <1>2, <1>5, <1>6
<1>8. n % MaxChallengeTries = 0 => now + Lesser(Lockout * doubled[Lesser(k, 7)], MaxLockout) \in Nat
  BY <1>2, <1>7 DEF Lesser
<1> QED
  BY <1>1, <1>2, <1>3, <1>8 DEF Failed, s, n, k, doubled

LEMMA BoundsTyped ==
    /\ {MaxTime, MaxTokens, MaxRequests, MaxMishaps, SessionLife, ChallengeLife, MaxGuests} \subseteq Nat
    /\ MaxChallengeTries \in Nat \ {0}
BY SignInAssumption

LEMMA OpenSessionTyped ==
    ASSUME TypeOK, NEW p \in Pages, NEW who \in Accounts \cup {Guest}, NEW at \in Nat, NEW cookie, NEW gone,
           NEW step \in Steps, NEW asked \in {0, 1}, OpenSession(p, who, at, cookie, gone, step, asked)
    PROVE  /\ tokens' \in 0..MaxTokens
           /\ sessions' \subseteq [token : Tokens, who : Accounts \cup {Guest}, expires : Nat]
           /\ page' \in [Pages -> [step : Steps, token : 0..MaxTokens, cookie : 0..MaxTokens]]
           /\ left' \in [requests : Nat, mishaps : Nat]
<1>0. tokens \in 0..MaxTokens /\ MaxTokens \in Nat
  BY BoundsTyped DEF TypeOK
<1>1. tokens' = tokens + 1 /\ tokens + 1 \in Tokens /\ tokens' \in 0..MaxTokens
  BY <1>0 DEF OpenSession, Tokens
<1>2. at + SessionLife \in Nat
  BY SignInAssumption
<1>3. sessions' \subseteq [token : Tokens, who : Accounts \cup {Guest}, expires : Nat]
  BY <1>1, <1>2 DEF OpenSession, ChangeSessions, TypeOK
<1>4. page' \in [Pages -> [step : Steps, token : 0..MaxTokens, cookie : 0..MaxTokens]]
  <2>1. page \in [Pages -> [step : Steps, token : 0..MaxTokens, cookie : 0..MaxTokens]]
    BY DEF TypeOK
  <2>2. page' = page \/ page' = [page EXCEPT ![p] = [@ EXCEPT !.step = step, !.cookie = tokens + 1]]
    BY DEF OpenSession
  <2>3. tokens + 1 \in 0..MaxTokens
    BY <1>1
  <2> QED
    BY <2>1, <2>2, <2>3
<1>5. left' \in [requests : Nat, mishaps : Nat]
  BY DEF OpenSession, Spend, TypeOK
<1> QED
  BY <1>1, <1>3, <1>4, <1>5

LEMMA SpendTyped ==
    ASSUME TypeOK, NEW r \in {0, 1}, NEW m \in {0, 1}, Spend(r, m)
    PROVE  left' \in [requests : Nat, mishaps : Nat]
BY DEF Spend, TypeOK

LEMMA PruneTyped ==
    ASSUME TypeOK, NEW due \in BOOLEAN, Prune(due)
    PROVE  /\ lastPrune' \in Nat /\ challenges' \subseteq challenges
           /\ second' \in [Accounts -> [failures : Nat, last : Nat, until : Nat]]
BY DEF Prune, TypeOK, NoFailure, Expired

LEMMA AttemptsTyped ==
    ASSUME TypeOK, NEW due \in BOOLEAN
    PROVE  SweptAttempts(due) \in [Keys -> [since : Nat, failures : Nat, inFlight : Nat]]
BY DEF SweptAttempts, TypeOK, NoAttempt

LEMMA ReservedTyped ==
    ASSUME TypeOK, NEW at \in [Keys -> [since : Nat, failures : Nat, inFlight : Nat]], NEW k \in Keys
    PROVE  Reserved(at, k) \in [Keys -> [since : Nat, failures : Nat, inFlight : Nat]]
<1> DEFINE a == ActiveAttempt(at, k)
           r == [a EXCEPT !.since = IF @ = 0 THEN now ELSE @, !.inFlight = @ + 1]
<1>1. a \in [since : Nat, failures : Nat, inFlight : Nat]
  BY DEF ActiveAttempt, NoAttempt
<1>2. now \in Nat
  BY DEF TypeOK
<1>3. Reserved(at, k) = [at EXCEPT ![k] = r]
  BY DEF Reserved
<1> HIDE DEF a
<1>4. a.since \in Nat /\ a.inFlight + 1 \in Nat
  BY <1>1
<1>5. (IF a.since = 0 THEN now ELSE a.since) \in Nat
  BY <1>2, <1>4
<1>6. r \in [since : Nat, failures : Nat, inFlight : Nat]
  BY <1>1, <1>4, <1>5
<1> QED
  BY <1>3, <1>6

LEMMA FinishedTyped ==
    ASSUME NEW at \in [Keys -> [since : Nat, failures : Nat, inFlight : Nat]], NEW k \in Keys, NEW failed \in BOOLEAN
    PROVE  Finished(at, k, failed) \in [Keys -> [since : Nat, failures : Nat, inFlight : Nat]]
<1> DEFINE a == [at[k] EXCEPT !.inFlight = IF @ > 0 THEN @ - 1 ELSE 0, !.failures = IF failed THEN @ + 1 ELSE @]
<1>0. at[k] \in [since : Nat, failures : Nat, inFlight : Nat]
  OBVIOUS
<1>1. a \in [since : Nat, failures : Nat, inFlight : Nat]
  <2>1. at[k].failures \in Nat /\ at[k].inFlight \in Nat
    BY <1>0
  <2>2. (IF at[k].inFlight > 0 THEN at[k].inFlight - 1 ELSE 0) \in Nat
    BY <2>1
  <2>3. (IF failed THEN at[k].failures + 1 ELSE at[k].failures) \in Nat
    BY <2>1
  <2> QED
    BY <1>0, <2>2, <2>3
<1> QED
  BY <1>1 DEF Finished, NoAttempt

LEMMA KeysOfPage ==
    ASSUME NEW p \in Pages, NEW a \in Accounts
    PROVE  <<a, HostOf[p]>> \in Keys /\ <<"ip", HostOf[p]>> \in Keys /\ <<"guest", HostOf[p]>> \in Keys
BY DEF Keys, Hosts

LEMMA FinishTyped ==
    ASSUME TypeOK, NEW p \in Pages, NEW a \in Accounts, NEW failed \in BOOLEAN
    PROVE  Finish(p, a, failed) \in [Keys -> [since : Nat, failures : Nat, inFlight : Nat]]
<1>1. Finished(attempts, <<a, HostOf[p]>>, failed) \in [Keys -> [since : Nat, failures : Nat, inFlight : Nat]]
  BY KeysOfPage, FinishedTyped DEF TypeOK
<1> QED
  BY <1>1, KeysOfPage, FinishedTyped DEF Finish

-----------------------------------------------------------------------------
(* The count of guests.                                                     *)

LEMMA ChangedSessions ==
    ASSUME IsFiniteSet(sessions), guestSessions = Cardinality(Guests(sessions)),
           NEW gone, NEW new, IsFiniteSet(new), new \cap (sessions \ gone) = {}, ChangeSessions(gone, new)
    PROVE  /\ IsFiniteSet(sessions') /\ guestSessions' = Cardinality(Guests(sessions'))
           /\ guestSessions' \in Nat /\ Cardinality(Guests(sessions \cap gone)) \in Nat
           /\ guestSessions' = (guestSessions - Cardinality(Guests(sessions \cap gone))) + Cardinality(Guests(new))
<1> DEFINE G == Guests(sessions) H == Guests(sessions \cap gone) N == Guests(new)
<1>1. IsFiniteSet(G) /\ IsFiniteSet(N)
  BY FS_Subset DEF Guests
<1>2. Guests(sessions') = (G \ H) \cup N /\ (G \ H) \cap N = {} /\ G \cap H = H /\ H \subseteq G
  BY DEF ChangeSessions, Guests
<1>3. sessions' = (sessions \ gone) \cup new
  BY DEF ChangeSessions
<1>4. guestSessions' = (guestSessions - Cardinality(H)) + Cardinality(N)
  BY DEF ChangeSessions
<1>5. IsFiniteSet(sessions')
  BY <1>3, FS_Difference, FS_Union
<1> HIDE DEF G, H, N
<1>6. IsFiniteSet(H) /\ IsFiniteSet(G \ H) /\ Cardinality(G \ H) = Cardinality(G) - Cardinality(H)
  <2>1. IsFiniteSet(H)
    BY <1>1, <1>2, FS_Subset
  <2>2. IsFiniteSet(G \ H) /\ Cardinality(G \ H) = Cardinality(G) - Cardinality(G \cap H)
    BY <1>1, FS_Difference
  <2> QED
    BY <1>2, <2>1, <2>2
<1>7. Cardinality((G \ H) \cup N) = Cardinality(G \ H) + Cardinality(N)
  <2>1. Cardinality((G \ H) \cup N) = Cardinality(G \ H) + Cardinality(N) - Cardinality((G \ H) \cap N)
    BY <1>1, <1>6, FS_Union
  <2>2. Cardinality((G \ H) \cap N) = 0
    BY <1>2, FS_EmptySet
  <2>3. Cardinality(G \ H) \in Nat /\ Cardinality(N) \in Nat
    BY <1>1, <1>6, FS_CardinalityType
  <2> QED
    BY <2>1, <2>2, <2>3
<1>8. Cardinality(H) \in Nat /\ IsFiniteSet((G \ H) \cup N) /\ Cardinality((G \ H) \cup N) \in Nat
  BY <1>1, <1>6, FS_Union, FS_CardinalityType
<1>9. guestSessions = Cardinality(G)
  BY DEF G
<1> QED
  BY <1>2, <1>4, <1>5, <1>6, <1>7, <1>8, <1>9 DEF H, N

LEMMA NewSession ==
    ASSUME SignInInv, NEW s, s.token = tokens + 1
    PROVE  /\ {s} \cap sessions = {} /\ IsFiniteSet({s})
           /\ Cardinality(Guests({s})) = IF s.who = Guest THEN 1 ELSE 0
<1>1. \A r \in sessions : r.token \in Nat /\ r.token <= tokens
  BY DEF SignInInv, TokensInv, TypeOK, Tokens
<1>2. tokens \in Nat
  BY BoundsTyped DEF SignInInv, TypeOK
<1>3. s \notin sessions
  BY <1>1, <1>2
<1>4. Guests({s}) = IF s.who = Guest THEN {s} ELSE {}
  BY DEF Guests
<1> QED
  BY <1>3, <1>4, FS_Singleton, FS_EmptySet

\* Sessions only go, or one is opened that no session counts yet.
LEMMA SessionsGone ==
    ASSUME SignInInv, NEW gone, ChangeSessions(gone, {})
    PROVE  IsFiniteSet(sessions') /\ GuestCountExact'
<1>1. Cardinality(Guests({})) = 0
  BY FS_EmptySet DEF Guests
<1>2. /\ IsFiniteSet(sessions') /\ guestSessions' = Cardinality(Guests(sessions'))
      /\ guestSessions' \in Nat /\ Cardinality(Guests(sessions \cap gone)) \in Nat
      /\ guestSessions' = (guestSessions - Cardinality(Guests(sessions \cap gone))) + Cardinality(Guests({}))
  BY ChangedSessions, FS_EmptySet DEF SignInInv, GuestCountExact
<1>3. guestSessions \in Int /\ guestSessions <= MaxGuests /\ MaxGuests \in Nat
  BY BoundsTyped DEF SignInInv, TypeOK, GuestCountExact
<1>4. guestSessions' <= MaxGuests
  BY <1>1, <1>2, <1>3
<1> QED
  BY <1>2, <1>4 DEF GuestCountExact, Guests

LEMMA SessionOpened ==
    ASSUME SignInInv, NEW p \in Pages, NEW who, NEW at, NEW cookie, NEW gone, NEW step, NEW asked,
           OpenSession(p, who, at, cookie, gone, step, asked),
           who = Guest => guestSessions - Cardinality(Guests(sessions \cap (gone \cup Named(cookie)))) < MaxGuests
    PROVE  IsFiniteSet(sessions') /\ GuestCountExact'
<1> DEFINE s == [token |-> tokens + 1, who |-> who, expires |-> at + SessionLife]
           out == gone \cup Named(cookie)
<1>1. ChangeSessions(out, {s})
  BY DEF OpenSession
<1>2. {s} \cap sessions = {} /\ IsFiniteSet({s}) /\ Cardinality(Guests({s})) = IF who = Guest THEN 1 ELSE 0
  <2>1. s.token = tokens + 1 /\ s.who = who
    OBVIOUS
  <2> HIDE DEF s
  <2> QED
    BY <2>1, NewSession
<1> HIDE DEF s
<1>3. guestSessions \in Int /\ guestSessions <= MaxGuests /\ MaxGuests \in Nat
  BY BoundsTyped DEF SignInInv, TypeOK, GuestCountExact
<1>4. who = Guest => guestSessions - Cardinality(Guests(sessions \cap out)) < MaxGuests
  OBVIOUS
<1> HIDE DEF out
<1>5. /\ IsFiniteSet(sessions') /\ guestSessions' = Cardinality(Guests(sessions'))
      /\ guestSessions' \in Nat /\ Cardinality(Guests(sessions \cap out)) \in Nat
      /\ guestSessions' = (guestSessions - Cardinality(Guests(sessions \cap out))) + Cardinality(Guests({s}))
  BY <1>1, <1>2, ChangedSessions DEF SignInInv, GuestCountExact
<1>6. guestSessions' <= MaxGuests
  BY <1>2, <1>3, <1>4, <1>5
<1> QED
  BY <1>5, <1>6 DEF GuestCountExact, Guests

\* The count of guests after each action.
LEMMA GuestsStep ==
    ASSUME SignInInv, [Next]_vars
    PROVE  IsFiniteSet(sessions') /\ GuestCountExact'
<1>0. ASSUME UNCHANGED sessionVars PROVE IsFiniteSet(sessions') /\ GuestCountExact'
  BY <1>0 DEF SignInInv, GuestCountExact, Guests, sessionVars
<1>1. ASSUME NEW p \in Pages, NEW a \in Accounts, NEW good \in BOOLEAN, StartLogin(p, a, good)
      PROVE  IsFiniteSet(sessions') /\ GuestCountExact'
  <2>1. ChangeSessions(SweptSessions(PruneDue), {})
    BY <1>1 DEF StartLogin
  <2> QED
    BY <2>1, SessionsGone
<1>2. ASSUME NEW p \in Pages, FinishLogin(p) PROVE IsFiniteSet(sessions') /\ GuestCountExact'
  BY <1>0, <1>2 DEF FinishLogin
<1>3. ASSUME NEW p \in Pages, NEW f \in SecondFactor, NEW code, SubmitCode(p, f, code)
      PROVE  IsFiniteSet(sessions') /\ GuestCountExact'
  BY <1>0, <1>3 DEF SubmitCode
<1>4. ASSUME NEW p \in Pages, NEW f \in SecondFactor, FinishCode(p, f)
      PROVE  IsFiniteSet(sessions') /\ GuestCountExact'
  <2>1. CASE UNCHANGED sessionVars
    BY <1>0, <2>1
  <2>2. CASE Verified(form[p][f]) /\ \E gone, step, asked :
               OpenSession(p, form[p][f].who, form[p][f].at, form[p][f].cookie, gone, step, asked)
    <3>1. form[p][f].who # Guest
      BY <1>4, SignInAssumption DEF SignInInv, TokensInv, Answering, FinishCode
    <3> QED
      BY <2>2, <3>1, SessionOpened
  <2> QED
    BY <1>4, <2>1, <2>2 DEF FinishCode
<1>5. ASSUME NEW p \in Pages, NEW code, Recover(p, code) PROVE IsFiniteSet(sessions') /\ GuestCountExact'
  <2>1. CASE UNCHANGED sessionVars
    BY <1>0, <2>1
  <2>2. ASSUME NEW c \in challenges, OpenSession(p, c.who, now, page[p].cookie, {}, "in", 1)
        PROVE  IsFiniteSet(sessions') /\ GuestCountExact'
    <3>1. c.who # Guest
      BY SignInAssumption DEF SignInInv, TypeOK
    <3> QED
      BY <2>2, <3>1, SessionOpened
  <2> QED
    BY <1>5, <2>1, <2>2 DEF Recover, Held, sessionVars
<1>6. ASSUME NEW p \in Pages, NewGuest(p) PROVE IsFiniteSet(sessions') /\ GuestCountExact'
  <2>1. ASSUME NEW gone, ChangeSessions(gone, {}) PROVE IsFiniteSet(sessions') /\ GuestCountExact'
    BY <2>1, SessionsGone
  <2>2. ASSUME NEW due \in BOOLEAN, OpenSession(p, Guest, now, page[p].cookie, SweptSessions(due), "in", 1),
               guestSessions - Cardinality(Guests(SweptSessions(due))) < MaxGuests
        PROVE  IsFiniteSet(sessions') /\ GuestCountExact'
    <3> DEFINE G == Guests(SweptSessions(due))
               H == Guests(sessions \cap (SweptSessions(due) \cup Named(page[p].cookie)))
    <3>1. G \subseteq H /\ H \subseteq sessions
      BY DEF SweptSessions, Expired, Guests
    <3>2. IsFiniteSet(sessions)
      BY DEF SignInInv
    <3> HIDE DEF G, H
    <3>3. IsFiniteSet(H) /\ Cardinality(G) <= Cardinality(H) /\ Cardinality(G) \in Nat /\ Cardinality(H) \in Nat
      BY <3>1, <3>2, FS_Subset, FS_CardinalityType
    <3>4. guestSessions - Cardinality(G) < MaxGuests
      BY <2>2 DEF G
    <3>5. guestSessions \in Int /\ MaxGuests \in Nat
      BY BoundsTyped DEF SignInInv, TypeOK
    <3>6. guestSessions - Cardinality(H) < MaxGuests
      BY <3>3, <3>4, <3>5
    <3> QED
      BY <2>2, <3>6, SessionOpened DEF H
  <2> QED
    BY <1>6, <2>1, <2>2 DEF NewGuest, PruneDue
<1>7. ASSUME NEW p \in Pages, Visit(p) \/ Logout(p) PROVE IsFiniteSet(sessions') /\ GuestCountExact'
  <2>1. \E gone : ChangeSessions(gone, {})
    BY <1>7 DEF Visit, Logout
  <2> QED
    BY <2>1, SessionsGone
<1>8. ASSUME NEW a \in Accounts, NEW disabled \in BOOLEAN, SetDisabled(a, disabled)
      PROVE  IsFiniteSet(sessions') /\ GuestCountExact'
  BY <1>0, <1>8, SessionsGone DEF SetDisabled
<1>9. ASSUME Restart PROVE IsFiniteSet(sessions') /\ GuestCountExact'
  <2>1. sessions' = {} /\ guestSessions' = 0
    BY <1>9 DEF Restart
  <2> QED
    BY <2>1, FS_EmptySet, BoundsTyped DEF GuestCountExact, Guests
<1>10. CASE (\E p \in Pages : ShowStep(p)) \/ Tick \/ UNCHANGED vars
  BY <1>0, <1>10 DEF ShowStep, Tick, vars
<1> QED
  BY <1>1, <1>2, <1>3, <1>4, <1>5, <1>6, <1>7, <1>8, <1>9, <1>10 DEF Next, SecondFactor

-----------------------------------------------------------------------------
(* The types after each action.                                             *)

AttemptsType == [Keys -> [since : Nat, failures : Nat, inFlight : Nat]]

ChallengeType == [token : Tokens, who : Accounts, expires : Nat, checks : Nat, setup : BOOLEAN]

RequestType == [stage : Stages, who : Accounts \cup {Guest}, good : BOOLEAN, at : Nat,
                token : 0..MaxTokens, last : Nat, code : Nat, cookie : 0..MaxTokens]

LEMMA DoneTyped ==
    ASSUME TypeOK, NEW p \in Pages, NEW f \in Forms, Done(p, f)
    PROVE  form' \in [Pages -> [Forms -> RequestType]]
<1>1. Idle \in RequestType
  BY BoundsTyped DEF Idle, RequestType, Stages, NoToken, Wrong
<1>2. form \in [Pages -> [Forms -> RequestType]]
  BY DEF TypeOK, RequestType
<1> QED
  BY <1>1, <1>2 DEF Done

LEMMA CountTyped ==
    ASSUME TypeOK, NEW a \in Accounts, NEW c, Count(a, c)
    PROVE  opened' \in [Accounts -> [Codes -> Nat]]
<1>1. opened \in [Accounts -> [Codes -> Nat]] /\ opened[a] \in [Codes -> Nat]
  BY DEF TypeOK
<1>2. [opened[a] EXCEPT ![c] = @ + 1] \in [Codes -> Nat]
  <2> DEFINE o == opened[a]
  <2>1. o \in [Codes -> Nat]
    BY <1>1
  <2> HIDE DEF o
  <2>2. CASE c \in Codes
    <3>1. o[c] + 1 \in Nat
      BY <2>1, <2>2
    <3> QED
      BY <2>1, <3>1 DEF o
  <2>3. CASE c \notin Codes
    <3>1. [o EXCEPT ![c] = @ + 1] = o
      BY <2>1, <2>3
    <3> QED
      BY <2>1, <3>1 DEF o
  <2> QED
    BY <2>2, <2>3
<1>3. opened' = [opened EXCEPT ![a] = [opened[a] EXCEPT ![c] = @ + 1]]
  BY <1>1 DEF Count
<1> QED
  BY <1>1, <1>2, <1>3

LEMMA CheckedTyped ==
    ASSUME TypeOK, NEW c \in challenges
    PROVE  Checked(c) \subseteq ChallengeType
<1>1. challenges \subseteq ChallengeType
  BY DEF TypeOK, ChallengeType
<1>2. [c EXCEPT !.checks = @ + 1] \in ChallengeType
  BY <1>1 DEF ChallengeType
<1> QED
  BY <1>1, <1>2 DEF Checked

\* The accounts and what is saved of them.
LEMMA UsersTyped ==
    ASSUME TypeOK, NEW a \in Accounts
    PROVE  /\ \A f : \A code \in Nat : Enrolling(a, f, code) \in [Accounts -> Account]
           /\ \A code : [users EXCEPT ![a].codes = @ \ {code}] \in [Accounts -> Account]
           /\ \A disabled \in BOOLEAN : [users EXCEPT ![a].disabled = disabled] \in [Accounts -> Account]
<1>1. users \in [Accounts -> Account]
  BY DEF TypeOK
<1>2. users[a] \in Account
  BY <1>1
<1>3. ASSUME NEW f, NEW code \in Nat PROVE Enrolling(a, f, code) \in [Accounts -> Account]
  <2>1. code \in Nat /\ RecoveryCodes \in SUBSET RecoveryCodes
    OBVIOUS
  <2> QED
    BY <1>1, <1>2, <2>1 DEF Enrolling, Account
<1>4. ASSUME NEW code PROVE [users EXCEPT ![a].codes = @ \ {code}] \in [Accounts -> Account]
  BY <1>1, <1>2 DEF Account
<1>5. ASSUME NEW disabled \in BOOLEAN PROVE [users EXCEPT ![a].disabled = disabled] \in [Accounts -> Account]
  BY <1>1, <1>2 DEF Account
<1> QED
  BY <1>3, <1>4, <1>5

LEMMA SavesTyped ==
    ASSUME TypeOK, NEW next \in [Accounts -> Account], Saves(next) \/ SaveFails(next, 0) \/ SaveFails(next, 1)
    PROVE  users' \in [Accounts -> Account] /\ saved' \in [Accounts -> Account]
BY DEF Saves, SaveFails, TypeOK

LEMMA TypeStep ==
    ASSUME SignInInv, [Next]_vars
    PROVE  TypeOK'
<1>1. TypeOK
  BY DEF SignInInv
<1>2. guestSessions' \in Int
  BY GuestsStep, FS_CardinalityType, FS_Subset DEF GuestCountExact, Guests
<1>3. ASSUME NEW p \in Pages, NEW a \in Accounts, NEW good \in BOOLEAN, StartLogin(p, a, good) PROVE TypeOK'
  <2>1. PruneDue \in BOOLEAN
    BY DEF PruneDue
  <2>2. /\ lastPrune' \in Nat /\ challenges' \subseteq challenges
        /\ second' \in [Accounts -> [failures : Nat, last : Nat, until : Nat]]
    BY <1>1, <1>3, <2>1, PruneTyped DEF StartLogin
  <2>3. attempts' \in [Keys -> [since : Nat, failures : Nat, inFlight : Nat]]
    <3> DEFINE kept == SweptAttempts(PruneDue) first == Reserved(kept, <<a, HostOf[p]>>)
    <3>1. kept \in [Keys -> [since : Nat, failures : Nat, inFlight : Nat]]
      BY <1>1, <2>1, AttemptsTyped
    <3>2. attempts' = kept \/ attempts' = Reserved(first, <<"ip", HostOf[p]>>)
      BY <1>3 DEF StartLogin
    <3> HIDE DEF kept
    <3>3. <<a, HostOf[p]>> \in Keys /\ <<"ip", HostOf[p]>> \in Keys
      BY KeysOfPage
    <3>4. first \in [Keys -> [since : Nat, failures : Nat, inFlight : Nat]]
      BY <1>1, <3>1, <3>3, ReservedTyped
    <3> HIDE DEF first
    <3>5. Reserved(first, <<"ip", HostOf[p]>>) \in [Keys -> [since : Nat, failures : Nat, inFlight : Nat]]
      BY <1>1, <3>3, <3>4, ReservedTyped
    <3> QED
      BY <3>1, <3>2, <3>5
  <2>4. left' \in [requests : Nat, mishaps : Nat]
    BY <1>1, <1>3, SpendTyped DEF StartLogin
  <2>5. sessions' \subseteq sessions
    BY <1>3 DEF StartLogin, ChangeSessions
  <2>6. form' = form \/ \E g \in BOOLEAN : form' = [form EXCEPT ![p]["login"] =
                            [Idle EXCEPT !.stage = "comparing", !.who = a, !.at = now, !.good = g]]
    BY <1>1, <1>3 DEF StartLogin, TypeOK, Account
  <2>7. form' \in [Pages -> [Forms -> RequestType]]
    <3>1. now \in Nat /\ form \in [Pages -> [Forms -> RequestType]]
      BY <1>1 DEF TypeOK, RequestType
    <3>2. \A g \in BOOLEAN : [Idle EXCEPT !.stage = "comparing", !.who = a, !.at = now, !.good = g] \in RequestType
      <4>1. Idle \in RequestType
        BY BoundsTyped DEF Idle, RequestType, Stages, NoToken, Wrong
      <4>2. "comparing" \in Stages /\ a \in Accounts \cup {Guest}
        BY DEF Stages
      <4> QED
        BY <3>1, <4>1, <4>2 DEF RequestType
    <3> QED
      BY <2>6, <3>1, <3>2 DEF Forms
  <2>8. UNCHANGED <<now, users, saved, tokens, page, history>>
    BY <1>3 DEF StartLogin
  <2> QED
    BY <1>1, <1>2, <2>2, <2>3, <2>4, <2>5, <2>7, <2>8 DEF TypeOK, history, RequestType
<1>4. ASSUME NEW p \in Pages, FinishLogin(p) PROVE TypeOK'
  <2> DEFINE a == form[p]["login"].who
  <2>1. a \in Accounts /\ form[p]["login"].at \in Nat
    BY <1>1, <1>4 DEF FinishLogin, SignInInv, TokensInv, Answering, TypeOK, Forms
  <2>2. Finish(p, a, TRUE) \in AttemptsType /\ Finish(p, a, FALSE) \in AttemptsType
    BY <1>1, <2>1, FinishTyped DEF AttemptsType
  <2>3. form' \in [Pages -> [Forms -> RequestType]]
    BY <1>1, <1>4, DoneTyped DEF FinishLogin, Forms
  <2>4. UNCHANGED <<now, users, saved, second, sessions, lastPrune, opened, compared>>
    BY <1>4 DEF FinishLogin, sessionVars, history
  <2>5. left' \in [requests : Nat, mishaps : Nat]
    BY <1>1, <1>4, SpendTyped DEF FinishLogin, TypeOK
  <2>6. ASSUME attempts' \in AttemptsType, challenges' \subseteq ChallengeType, tokens' \in 0..MaxTokens,
               page' \in [Pages -> [step : Steps, token : 0..MaxTokens, cookie : 0..MaxTokens]]
        PROVE  TypeOK'
    BY <1>1, <1>2, <2>3, <2>4, <2>5, <2>6 DEF TypeOK, ChallengeType, RequestType, AttemptsType
  <2>7. ASSUME attempts' \in {Finish(p, a, TRUE), Finish(p, a, FALSE)}, UNCHANGED <<challenges, tokens, page>>
        PROVE  TypeOK'
    BY <1>1, <2>2, <2>6, <2>7 DEF TypeOK, ChallengeType
  <2>8. ASSUME tokens < MaxTokens /\ tokens' = tokens + 1,
               attempts' = [Finish(p, a, FALSE) EXCEPT ![<<a, HostOf[p]>>] = NoAttempt],
               challenges' = challenges \cup
                {[token |-> tokens + 1, who |-> a, expires |-> form[p]["login"].at + ChallengeLife, checks |-> 0,
                  setup |-> ~users[a].enrolled]},
               \/ page' = [page EXCEPT ![p] =
                              [@ EXCEPT !.token = tokens + 1,
                                        !.step = IF users[a].enrolled THEN "totp" ELSE "setup"]]
               \/ UNCHANGED page
        PROVE  TypeOK'
    <3>1. tokens \in 0..MaxTokens /\ MaxTokens \in Nat
      BY <1>1, BoundsTyped DEF TypeOK
    <3>2. tokens + 1 \in Tokens /\ tokens + 1 \in 0..MaxTokens
      BY <2>8, <3>1 DEF Tokens
    <3>3. users[a].enrolled \in BOOLEAN /\ form[p]["login"].at + ChallengeLife \in Nat
      BY <1>1, <2>1, BoundsTyped DEF TypeOK, Account
    <3>4. challenges' \subseteq ChallengeType
      <4>1. challenges \subseteq ChallengeType
        BY <1>1 DEF TypeOK, ChallengeType
      <4>2. [token |-> tokens + 1, who |-> a, expires |-> form[p]["login"].at + ChallengeLife, checks |-> 0,
             setup |-> ~users[a].enrolled] \in ChallengeType
        BY <2>1, <3>2, <3>3 DEF ChallengeType
      <4> QED
        BY <2>8, <4>1, <4>2
    <3>5. page' \in [Pages -> [step : Steps, token : 0..MaxTokens, cookie : 0..MaxTokens]]
      <4>1. page \in [Pages -> [step : Steps, token : 0..MaxTokens, cookie : 0..MaxTokens]]
        BY <1>1 DEF TypeOK
      <4>2. (IF users[a].enrolled THEN "totp" ELSE "setup") \in Steps
        BY DEF Steps
      <4> QED
        BY <2>8, <3>2, <4>1, <4>2
    <3>6. attempts' \in AttemptsType
      BY <2>2, <2>8 DEF AttemptsType, NoAttempt
    <3> QED
      BY <2>6, <2>8, <3>2, <3>4, <3>5, <3>6
  <2> QED
    BY <1>4, <2>7, <2>8 DEF FinishLogin
<1>5. ASSUME NEW p \in Pages, NEW f \in SecondFactor, NEW code \in {Wrong, now - 1, now, now + 1},
             SubmitCode(p, f, code)
      PROVE  TypeOK'
  <2>1. code \in Nat
    <3>1. now \in Nat \ {0}
      BY <1>1 DEF TypeOK
    <3> QED
      BY <3>1 DEF Wrong
  <2>2. left' \in [requests : Nat, mishaps : Nat]
    BY <1>1, <1>5, SpendTyped DEF SubmitCode
  <2>3. ASSUME UNCHANGED <<second, form, compared>>, challenges' \subseteq challenges PROVE TypeOK'
    <3>1. UNCHANGED <<now, users, saved, attempts, sessions, lastPrune, tokens, page, opened>>
      BY <1>5 DEF SubmitCode, sessionVars
    <3> QED
      BY <1>1, <1>2, <2>2, <2>3, <3>1 DEF TypeOK
  <2>4. CASE Refused(p)
    BY <2>3, <2>4 DEF Refused
  <2>5. CASE UNCHANGED <<challenges, second, form, compared>>
    BY <2>3, <2>5
  <2>6. ASSUME NEW c \in challenges,
               second' = [second EXCEPT ![c.who] = Failed(c.who)], challenges' = Checked(c),
               compared' = [compared EXCEPT ![c.token] = @ + 1],
               form' = [form EXCEPT ![p][f] =
                          [Idle EXCEPT !.stage = "comparing", !.who = c.who, !.at = now, !.token = c.token,
                                       !.last = IF f = "setup" THEN 0 ELSE users[c.who].last,
                                       !.code = code, !.cookie = page[p].cookie]]
        PROVE  TypeOK'
    <3>1. c \in ChallengeType /\ c.who \in Accounts /\ c.token \in Tokens
      BY <1>1 DEF TypeOK, ChallengeType
    <3>2. challenges' \subseteq ChallengeType
      BY <1>1, <2>6, CheckedTyped
    <3>3. second' \in [Accounts -> [failures : Nat, last : Nat, until : Nat]]
      BY <1>1, <2>6, <3>1, FailedTyped DEF TypeOK
    <3>4. compared' \in [Tokens -> Nat]
      BY <1>1, <2>6, <3>1 DEF TypeOK
    <3> DEFINE q == [Idle EXCEPT !.stage = "comparing", !.who = c.who, !.at = now, !.token = c.token,
                                 !.last = IF f = "setup" THEN 0 ELSE users[c.who].last,
                                 !.code = code, !.cookie = page[p].cookie]
    <3>5. q \in RequestType
      <4>1. c.token \in 0..MaxTokens /\ now \in Nat /\ page[p].cookie \in 0..MaxTokens /\ users[c.who].last \in Nat
        BY <1>1, <3>1 DEF TypeOK, Tokens, Account
      <4> QED
        BY <2>1, <3>1, <4>1 DEF RequestType, Idle, Stages
    <3> HIDE DEF q
    <3>6. form' \in [Pages -> [Forms -> RequestType]]
      BY <1>1, <2>6, <3>5 DEF TypeOK, RequestType, Forms, SecondFactor, q
    <3>7. UNCHANGED <<now, users, saved, attempts, sessions, lastPrune, tokens, page, opened>>
      BY <1>5 DEF SubmitCode, sessionVars
    <3> QED
      BY <1>1, <1>2, <2>2, <3>2, <3>3, <3>4, <3>6, <3>7 DEF TypeOK, ChallengeType, RequestType
  <2> QED
    BY <1>5, <2>4, <2>5, <2>6 DEF SubmitCode, Held
<1>6. ASSUME NEW p \in Pages, NEW f \in SecondFactor, FinishCode(p, f) PROVE TypeOK'
  <2> DEFINE q == form[p][f]
  <2>1. q.who \in Accounts /\ q.at \in Nat /\ q.code \in Nat
    BY <1>1, <1>6 DEF FinishCode, SignInInv, TokensInv, Answering, TypeOK, Forms, SecondFactor
  <2>2. form' \in [Pages -> [Forms -> RequestType]]
    BY <1>1, <1>6, DoneTyped DEF FinishCode, Forms, SecondFactor
  <2>3. UNCHANGED <<now, attempts, lastPrune, compared>>
    BY <1>6 DEF FinishCode
  <2>4. ASSUME UNCHANGED <<second, sessions, tokens, page, opened>>, challenges' \subseteq challenges,
               users' \in [Accounts -> Account] /\ saved' \in [Accounts -> Account],
               left' \in [requests : Nat, mishaps : Nat]
        PROVE  TypeOK'
    BY <1>1, <1>2, <2>2, <2>3, <2>4 DEF TypeOK, RequestType
  <2>5. CASE UNCHANGED <<users, saved, second, sessionVars, tokens, page, left, opened>> /\ challenges' \subseteq challenges
    BY <1>1, <2>4, <2>5 DEF TypeOK, sessionVars
  <2>6. Enrolling(q.who, f, q.code) \in [Accounts -> Account]
    BY <1>1, <2>1, UsersTyped
  <2>7. CASE SaveFails(Enrolling(q.who, f, q.code), 0) /\ UNCHANGED <<challenges, second, sessionVars, tokens, page, opened>>
    BY <1>1, <2>4, <2>6, <2>7, SavesTyped, SpendTyped DEF SaveFails, sessionVars
  <2>8. ASSUME Saves(Enrolling(q.who, f, q.code)), challenges' = challenges \ Held(q.token),
               second' = [second EXCEPT ![q.who] = NoFailure],
               OpenSession(p, q.who, q.at, q.cookie, {}, IF f = "setup" THEN "codes" ELSE "in", 0),
               Count(q.who, q.code)
        PROVE  TypeOK'
    <3>1. (IF f = "setup" THEN "codes" ELSE "in") \in Steps
      BY DEF Steps
    <3>2. /\ tokens' \in 0..MaxTokens
          /\ sessions' \subseteq [token : Tokens, who : Accounts \cup {Guest}, expires : Nat]
          /\ page' \in [Pages -> [step : Steps, token : 0..MaxTokens, cookie : 0..MaxTokens]]
          /\ left' \in [requests : Nat, mishaps : Nat]
      BY <1>1, <2>1, <2>8, <3>1, OpenSessionTyped
    <3>3. users' \in [Accounts -> Account] /\ saved' \in [Accounts -> Account]
      BY <1>1, <2>6, <2>8, SavesTyped
    <3>4. second' \in [Accounts -> [failures : Nat, last : Nat, until : Nat]]
      BY <1>1, <2>1, <2>8 DEF TypeOK, NoFailure
    <3>5. opened' \in [Accounts -> [Codes -> Nat]]
      BY <1>1, <2>1, <2>8, CountTyped
    <3>6. challenges' \subseteq challenges
      BY <2>8
    <3> QED
      BY <1>1, <1>2, <2>2, <2>3, <3>2, <3>3, <3>4, <3>5, <3>6 DEF TypeOK, RequestType
  <2> QED
    BY <1>6, <2>5, <2>7, <2>8 DEF FinishCode
<1>7. ASSUME NEW p \in Pages, NEW code, Recover(p, code) PROVE TypeOK'
  <2>1. UNCHANGED <<now, attempts, lastPrune, form>>
    BY <1>7 DEF Recover, Refused
  <2>2. CASE UNCHANGED <<users, saved, second, sessionVars, tokens, page, history>> /\ challenges' \subseteq challenges /\ Spend(1, 0)
    BY <1>1, <1>2, <2>1, <2>2, SpendTyped DEF TypeOK, sessionVars, history
  <2>3. ASSUME NEW c \in challenges,
               users' \in [Accounts -> Account] /\ saved' \in [Accounts -> Account],
               compared' = [compared EXCEPT ![c.token] = @ + 1],
               second' \in {[second EXCEPT ![c.who] = Failed(c.who)], [second EXCEPT ![c.who] = NoFailure]},
               challenges' \in {Checked(c), challenges \ {c}},
               \/ UNCHANGED <<sessionVars, tokens, page, opened>> /\ left' \in [requests : Nat, mishaps : Nat]
               \/ OpenSession(p, c.who, now, page[p].cookie, {}, "in", 1) /\ Count(c.who, code)
        PROVE  TypeOK'
    <3>1. c.who \in Accounts /\ c.token \in Tokens /\ now \in Nat
      BY <1>1 DEF TypeOK
    <3>2. challenges' \subseteq ChallengeType
      BY <1>1, <2>3, CheckedTyped DEF TypeOK, ChallengeType
    <3>3. second' \in [Accounts -> [failures : Nat, last : Nat, until : Nat]]
      <4>1. Failed(c.who) \in [failures : Nat, last : Nat, until : Nat] /\ NoFailure \in [failures : Nat, last : Nat, until : Nat]
        BY <1>1, <3>1, FailedTyped DEF NoFailure
      <4>2. second \in [Accounts -> [failures : Nat, last : Nat, until : Nat]]
        BY <1>1 DEF TypeOK
      <4> QED
        BY <2>3, <4>1, <4>2
    <3>4. compared' \in [Tokens -> Nat]
      BY <1>1, <2>3, <3>1 DEF TypeOK
    <3>5. /\ tokens' \in 0..MaxTokens
          /\ sessions' \subseteq [token : Tokens, who : Accounts \cup {Guest}, expires : Nat]
          /\ page' \in [Pages -> [step : Steps, token : 0..MaxTokens, cookie : 0..MaxTokens]]
          /\ left' \in [requests : Nat, mishaps : Nat]
      <4>1. "in" \in Steps
        BY DEF Steps
      <4>2. CASE UNCHANGED <<sessionVars, tokens, page, opened>> /\ left' \in [requests : Nat, mishaps : Nat]
        BY <1>1, <4>2 DEF TypeOK, sessionVars
      <4>3. CASE OpenSession(p, c.who, now, page[p].cookie, {}, "in", 1)
        BY <1>1, <3>1, <4>1, <4>3, OpenSessionTyped
      <4> QED
        BY <2>3, <4>2, <4>3
    <3>6. opened' \in [Accounts -> [Codes -> Nat]]
      BY <1>1, <2>3, <3>1, CountTyped DEF TypeOK
    <3> QED
      BY <1>1, <1>2, <2>1, <2>3, <3>2, <3>3, <3>4, <3>5, <3>6 DEF TypeOK, ChallengeType
  <2>4. ASSUME NEW c \in challenges
        PROVE  [users EXCEPT ![c.who].codes = @ \ {code}] \in [Accounts -> Account]
    BY <1>1, UsersTyped DEF TypeOK
  <2>5. ASSUME NEW c \in challenges,
               IF code \in users[c.who].codes THEN SaveFails([users EXCEPT ![c.who].codes = @ \ {code}], 1)
               ELSE UNCHANGED <<users, saved>> /\ Spend(1, 0)
        PROVE  /\ users' \in [Accounts -> Account] /\ saved' \in [Accounts -> Account]
               /\ left' \in [requests : Nat, mishaps : Nat]
    <3>1. CASE SaveFails([users EXCEPT ![c.who].codes = @ \ {code}], 1)
      BY <1>1, <2>4, <3>1, SavesTyped, SpendTyped DEF SaveFails
    <3>2. CASE UNCHANGED <<users, saved>> /\ Spend(1, 0)
      BY <1>1, <3>2, SpendTyped DEF TypeOK
    <3> QED
      BY <2>5, <3>1, <3>2
  <2>6. ASSUME NEW c \in challenges, Saves([users EXCEPT ![c.who].codes = @ \ {code}])
        PROVE  users' \in [Accounts -> Account] /\ saved' \in [Accounts -> Account]
    BY <1>1, <2>4, <2>6, SavesTyped
  <2>7. CASE Refused(p) /\ Spend(1, 0) /\ UNCHANGED <<users, saved, sessionVars, tokens, page, opened>>
    BY <2>2, <2>7 DEF Refused, history
  <2> QED
    BY <1>7, <2>2, <2>3, <2>5, <2>6, <2>7 DEF Recover, Held
<1>8. ASSUME NEW p \in Pages, NewGuest(p) PROVE TypeOK'
  <2> DEFINE k == <<"guest", HostOf[p]>>
  <2>1. UNCHANGED <<now, users, saved, form, history>>
    BY <1>8 DEF NewGuest
  <2>2. PICK due \in BOOLEAN, allowed \in BOOLEAN, gone \in {SweptSessions(TRUE), SweptSessions(FALSE)} :
            /\ Prune(due)
            /\ attempts' = IF allowed THEN Finished(Reserved(SweptAttempts(due), k), k, TRUE)
                          ELSE SweptAttempts(due)
            /\ \/ ChangeSessions(gone, {}) /\ Spend(1, 0) /\ UNCHANGED <<tokens, page>>
               \/ OpenSession(p, Guest, now, page[p].cookie, gone, "in", 1)
    <3> DEFINE allow == ActiveAttempt(SweptAttempts(PruneDue), k).failures < MaxGuestsPerHost
               full == guestSessions - Cardinality(Guests(SweptSessions(PruneDue))) >= MaxGuests
               now_ == PruneDue \/ (allow /\ full /\ now > lastPrune)
    <3>1. now_ \in BOOLEAN /\ allow \in BOOLEAN
      BY <1>1 DEF PruneDue, TypeOK
    <3>2. SweptSessions(now_) \in {SweptSessions(TRUE), SweptSessions(FALSE)}
      BY <3>1
    <3> QED
      BY <1>8, <3>1, <3>2 DEF NewGuest
  <2>3. /\ lastPrune' \in Nat /\ challenges' \subseteq challenges
        /\ second' \in [Accounts -> [failures : Nat, last : Nat, until : Nat]]
    BY <1>1, <2>2, PruneTyped
  <2>4. k \in Keys
    BY DEF Keys, Hosts
  <2>5. attempts' \in [Keys -> [since : Nat, failures : Nat, inFlight : Nat]]
    BY <1>1, <2>2, <2>4, AttemptsTyped, ReservedTyped, FinishedTyped
  <2>6. /\ tokens' \in 0..MaxTokens
        /\ sessions' \subseteq [token : Tokens, who : Accounts \cup {Guest}, expires : Nat]
        /\ page' \in [Pages -> [step : Steps, token : 0..MaxTokens, cookie : 0..MaxTokens]]
        /\ left' \in [requests : Nat, mishaps : Nat]
    <3>1. CASE ChangeSessions(gone, {}) /\ Spend(1, 0) /\ UNCHANGED <<tokens, page>>
      BY <1>1, <3>1, SpendTyped DEF ChangeSessions, TypeOK
    <3>2. CASE OpenSession(p, Guest, now, page[p].cookie, gone, "in", 1)
      <4>1. "in" \in Steps /\ now \in Nat
        BY <1>1 DEF Steps, TypeOK
      <4> QED
        BY <1>1, <3>2, <4>1, OpenSessionTyped
    <3> QED
      BY <2>2, <3>1, <3>2
  <2> QED
    BY <1>1, <1>2, <2>1, <2>3, <2>5, <2>6 DEF TypeOK, history
<1>9. ASSUME NEW p \in Pages, Visit(p) PROVE TypeOK'
  <2>1. PruneDue \in BOOLEAN
    BY <1>1 DEF PruneDue, TypeOK
  <2>2. /\ lastPrune' \in Nat /\ challenges' \subseteq challenges
        /\ second' \in [Accounts -> [failures : Nat, last : Nat, until : Nat]]
    BY <1>1, <1>9, <2>1, PruneTyped DEF Visit
  <2>3. attempts' \in [Keys -> [since : Nat, failures : Nat, inFlight : Nat]]
    BY <1>1, <1>9, <2>1, AttemptsTyped DEF Visit
  <2>4. left' \in [requests : Nat, mishaps : Nat]
    BY <1>1, <1>9, SpendTyped DEF Visit
  <2>5. sessions' \subseteq sessions
    BY <1>9 DEF Visit, ChangeSessions
  <2>6. page' \in [Pages -> [step : Steps, token : 0..MaxTokens, cookie : 0..MaxTokens]]
    <3>1. \E step \in Steps : page' = [page EXCEPT ![p] = [@ EXCEPT !.step = step, !.token = NoToken]]
      BY <1>9 DEF Visit, Steps
    <3>2. NoToken \in 0..MaxTokens
      BY BoundsTyped DEF NoToken
    <3> QED
      BY <1>1, <3>1, <3>2 DEF TypeOK
  <2>7. UNCHANGED <<now, users, saved, tokens, form, history>>
    BY <1>9 DEF Visit
  <2> QED
    BY <1>1, <1>2, <2>2, <2>3, <2>4, <2>5, <2>6, <2>7 DEF TypeOK, history
<1>10. ASSUME NEW p \in Pages, Logout(p) PROVE TypeOK'
  <2>1. left' \in [requests : Nat, mishaps : Nat]
    BY <1>1, <1>10, SpendTyped DEF Logout
  <2>2. sessions' \subseteq sessions
    BY <1>10 DEF Logout, ChangeSessions
  <2>3. page' \in [Pages -> [step : Steps, token : 0..MaxTokens, cookie : 0..MaxTokens]]
    BY <1>1, <1>10, BoundsTyped DEF TypeOK, Logout, Steps, NoToken
  <2> QED
    BY <1>1, <1>2, <1>10, <2>1, <2>2, <2>3 DEF TypeOK, Logout, history
<1>11. ASSUME NEW p \in Pages, ShowStep(p) PROVE TypeOK'
  <2>1. page' \in [Pages -> [step : Steps, token : 0..MaxTokens, cookie : 0..MaxTokens]]
    <3>1. page[p] \in [step : Steps, token : 0..MaxTokens, cookie : 0..MaxTokens]
      BY <1>1 DEF TypeOK
    <3>2. \E step \in {"totp", "recovery", "login"}, token \in {page[p].token, NoToken} :
             page' = [page EXCEPT ![p] = [@ EXCEPT !.step = step, !.token = token]]
      <4>1. CASE page' = [page EXCEPT ![p].step = "recovery"]
        BY <1>1, <3>1, <4>1 DEF TypeOK
      <4>2. CASE page' = [page EXCEPT ![p].step = "totp"]
        BY <1>1, <3>1, <4>2 DEF TypeOK
      <4>3. CASE page' = [page EXCEPT ![p] = [@ EXCEPT !.step = "login", !.token = NoToken]]
        BY <4>3
      <4> QED
        BY <1>11, <4>1, <4>2, <4>3 DEF ShowStep
    <3>3. NoToken \in 0..MaxTokens
      BY BoundsTyped DEF NoToken
    <3>4. PICK step \in Steps, token \in 0..MaxTokens :
             page' = [page EXCEPT ![p] = [@ EXCEPT !.step = step, !.token = token]]
      <4>1. page[p].token \in 0..MaxTokens /\ {"totp", "recovery", "login"} \subseteq Steps
        BY <3>1 DEF Steps
      <4> QED
        BY <3>2, <3>3, <4>1
    <3>5. [page[p] EXCEPT !.step = step, !.token = token] \in [step : Steps, token : 0..MaxTokens, cookie : 0..MaxTokens]
      BY <3>1
    <3> QED
      BY <1>1, <3>4, <3>5 DEF TypeOK
  <2> QED
    BY <1>1, <1>2, <1>11, <2>1 DEF TypeOK, ShowStep, sessionVars, history
<1>12. ASSUME NEW a \in Accounts, NEW disabled \in BOOLEAN, SetDisabled(a, disabled) PROVE TypeOK'
  <2> DEFINE next == [users EXCEPT ![a].disabled = disabled]
  <2>1. next \in [Accounts -> Account]
    BY <1>1, UsersTyped
  <2>2. users' \in [Accounts -> Account] /\ saved' \in [Accounts -> Account]
    BY <1>1, <1>12, <2>1, SavesTyped DEF SetDisabled
  <2>3. left' \in [requests : Nat, mishaps : Nat]
    BY <1>1, <1>12, SpendTyped DEF SetDisabled, SaveFails
  <2>4. sessions' \subseteq sessions
    BY <1>12 DEF SetDisabled, ChangeSessions, sessionVars
  <2>5. UNCHANGED <<now, challenges, attempts, second, lastPrune, tokens, page, form, history>>
    BY <1>12 DEF SetDisabled
  <2> QED
    BY <1>1, <1>2, <2>2, <2>3, <2>4, <2>5 DEF TypeOK, history
<1>13. ASSUME Restart PROVE TypeOK'
  <2>1. left' \in [requests : Nat, mishaps : Nat]
    BY <1>1, <1>13, SpendTyped DEF Restart
  <2>2. form' \in [Pages -> [Forms -> RequestType]]
    BY <1>13, BoundsTyped DEF Restart, RequestType, Idle, Stages, NoToken, Wrong
  <2> QED
    BY <1>1, <1>2, <1>13, <2>1, <2>2 DEF TypeOK, Restart, NoAttempt, NoFailure, RequestType, history
<1>14. CASE Tick \/ UNCHANGED vars
  BY <1>1, <1>2, <1>14 DEF TypeOK, Tick, vars, sessionVars, history
<1> QED
  BY <1>3, <1>4, <1>5, <1>6, <1>7, <1>8, <1>9, <1>10, <1>11, <1>12, <1>13, <1>14 DEF Next, SecondFactor

-----------------------------------------------------------------------------
(* Tokens.                                                                  *)

LEMMA TokensKept ==
    ASSUME TypeOK, TokensInv, tokens' \in {tokens, tokens + 1},
           \A d \in challenges' : \/ \E c \in challenges : d.token = c.token /\ d.who = c.who
                                  \/ tokens' = tokens + 1 /\ d.token = tokens + 1,
           \A c, d \in challenges' : c.token = d.token => c = d,
           \A s \in sessions' : s \in sessions \/ s.token = tokens',
           \A p \in Pages, f \in Forms :
               \/ form'[p][f] = form[p][f]
               \/ form'[p][f].stage = "idle"
               \/ f = "login" /\ form'[p][f].who \in Accounts
               \/ \E c \in challenges : form'[p][f].who = c.who /\ form'[p][f].token = c.token
    PROVE  TokensInv'
<1>1. tokens \in Nat /\ tokens <= tokens' /\ tokens' \in Nat
  BY BoundsTyped DEF TypeOK
<1>2. \A c \in challenges : c.token \in Nat /\ c.token <= tokens /\ c.who \in Accounts
  BY BoundsTyped DEF TypeOK, TokensInv, Tokens
<1>3. \A s \in sessions : s.token \in Nat /\ s.token <= tokens
  BY BoundsTyped DEF TypeOK, TokensInv, Tokens
<1>4. \A c \in challenges' : c.token <= tokens'
  BY <1>1, <1>2
<1>5. \A s \in sessions' : s.token <= tokens'
  BY <1>1, <1>3
<1>6. ASSUME NEW p \in Pages, Answering(p, "login")' PROVE (form[p]["login"].who \in Accounts)'
  <2>1. "login" \in Forms
    BY DEF Forms
  <2> QED
    BY <1>2, <1>6, <2>1 DEF TokensInv, Answering
<1>7. ASSUME NEW p \in Pages, NEW f \in SecondFactor, Answering(p, f)'
      PROVE  /\ form'[p][f].who \in Accounts /\ form'[p][f].token <= tokens'
             /\ \A d \in challenges' : d.token = form'[p][f].token => d.who = form'[p][f].who
  <2>1. f \in Forms /\ f # "login"
    BY DEF Forms, SecondFactor
  <2>2. CASE form'[p][f] = form[p][f]
    <3>1. /\ form[p][f].who \in Accounts /\ form[p][f].token <= tokens
          /\ \A c \in challenges : c.token = form[p][f].token => c.who = form[p][f].who
      BY <1>7, <2>2 DEF TokensInv, Answering, Held
    <3>2. form[p][f].token \in Nat
      BY <2>1 DEF TypeOK
    <3> QED
      BY <1>1, <2>2, <3>1, <3>2
  <2>3. CASE \E c \in challenges : form'[p][f].who = c.who /\ form'[p][f].token = c.token
    <3>1. PICK c \in challenges : form'[p][f].who = c.who /\ form'[p][f].token = c.token
      BY <2>3
    <3>2. c.who \in Accounts /\ c.token <= tokens /\ c.token \in Nat
      BY <1>2
    <3>3. \A d \in challenges : d.token = c.token => d = c
      BY DEF TokensInv
    <3> QED
      BY <1>1, <3>1, <3>2, <3>3
  <2> QED
    BY <1>7, <2>1, <2>2, <2>3 DEF Answering
<1> QED
  BY <1>4, <1>5, <1>6, <1>7 DEF TokensInv, Held

\* The forms a request leaves behind.
LEMMA FormChanged ==
    ASSUME TypeOK, NEW p \in Pages, NEW f \in Forms, NEW r, form' = [form EXCEPT ![p][f] = r]
    PROVE  /\ form'[p][f] = r
           /\ \A u \in Pages, g \in Forms : form'[u][g] = form[u][g] \/ (u = p /\ g = f)
BY DEF TypeOK

LEMMA CheckedTokens ==
    ASSUME TokensInv, NEW c \in challenges
    PROVE  /\ \A d \in Checked(c) : \E e \in challenges : d.token = e.token /\ d.who = e.who
           /\ \A d, e \in Checked(c) : d.token = e.token => d = e
           /\ \A d \in Checked(c) : d.token # c.token => d \in challenges
           /\ \A d \in Checked(c) : d.token = c.token => d = [c EXCEPT !.checks = @ + 1]
<1> DEFINE n == [c EXCEPT !.checks = @ + 1]
<1>1. n.token = c.token /\ n.who = c.who
  OBVIOUS
<1>2. Checked(c) = (challenges \ {c}) \cup {n}
  BY DEF Checked
<1> HIDE DEF n
<1> QED
  BY <1>1, <1>2 DEF TokensInv, n

\* Tokens after each action.
LEMMA TokensStep ==
    ASSUME SignInInv, [Next]_vars
    PROVE  TokensInv'
<1>1. TypeOK /\ TokensInv
  BY DEF SignInInv
<1>2. \A c, d \in challenges : c.token = d.token => c = d
  BY <1>1 DEF TokensInv
<1>3. Idle.stage = "idle"
  BY DEF Idle
<1>4. ASSUME tokens' \in {tokens, tokens + 1}, challenges' \subseteq challenges,
             \A s \in sessions' : s \in sessions \/ s.token = tokens',
             form' = form \/ \E p \in Pages, f \in Forms : Done(p, f)
      PROVE  TokensInv'
  <2>1. \A p \in Pages, f \in Forms : form'[p][f] = form[p][f] \/ form'[p][f].stage = "idle"
    BY <1>1, <1>3, <1>4, FormChanged DEF Done
  <2> QED
    BY <1>1, <1>2, <1>4, <2>1, TokensKept
<1>5. ASSUME NEW p \in Pages, NEW a \in Accounts, NEW good \in BOOLEAN, StartLogin(p, a, good) PROVE TokensInv'
  <2>1. tokens' = tokens /\ challenges' \subseteq challenges /\ sessions' \subseteq sessions
    BY <1>5 DEF StartLogin, Prune, ChangeSessions
  <2>2. CASE form' = form
    BY <1>4, <2>1, <2>2
  <2>3. CASE form' = [form EXCEPT ![p]["login"] = [Idle EXCEPT !.stage = "comparing", !.who = a, !.at = now,
                                                               !.good = good /\ ~users[a].disabled]]
    <3>1. "login" \in Forms
      BY DEF Forms
    <3> DEFINE r == [Idle EXCEPT !.stage = "comparing", !.who = a, !.at = now,
                                 !.good = good /\ ~users[a].disabled]
    <3>2. r.who = a
      BY DEF Idle
    <3> HIDE DEF r
    <3>3. \A u \in Pages, g \in Forms : form'[u][g] = form[u][g] \/ (g = "login" /\ form'[u][g].who \in Accounts)
      BY <1>1, <2>3, <3>1, <3>2, FormChanged DEF r
    <3> QED
      BY <1>1, <1>2, <2>1, <3>3, TokensKept
  <2> QED
    BY <1>5, <2>2, <2>3 DEF StartLogin
<1>6. ASSUME NEW p \in Pages, FinishLogin(p) PROVE TokensInv'
  <2>1. sessions' = sessions /\ "login" \in Forms /\ Done(p, "login")
    BY <1>6 DEF FinishLogin, Forms, sessionVars
  <2>2. CASE UNCHANGED <<challenges, tokens>>
    BY <1>4, <2>1, <2>2
  <2>3. ASSUME NEW n, n.token = tokens + 1, challenges' = challenges \cup {n}, tokens' = tokens + 1
        PROVE  TokensInv'
    <3>1. \A c \in challenges : c.token # tokens + 1
      BY <1>1, BoundsTyped DEF TypeOK, TokensInv, Tokens
    <3>2. \A c, d \in challenges' : c.token = d.token => c = d
      BY <1>2, <2>3, <3>1
    <3>3. \A u \in Pages, f \in Forms : form'[u][f] = form[u][f] \/ form'[u][f].stage = "idle"
      BY <1>1, <1>3, <2>1, FormChanged DEF Done
    <3> QED
      BY <1>1, <2>1, <2>3, <3>2, <3>3, TokensKept
  <2> QED
    BY <1>6, <2>2, <2>3 DEF FinishLogin
<1>7. ASSUME NEW p \in Pages, NEW f \in SecondFactor, NEW code, SubmitCode(p, f, code) PROVE TokensInv'
  <2>1. tokens' = tokens /\ sessions' = sessions /\ f \in Forms
    BY <1>7 DEF SubmitCode, sessionVars, SecondFactor, Forms
  <2>2. CASE challenges' \subseteq challenges /\ form' = form
    BY <1>4, <2>1, <2>2
  <2>3. ASSUME NEW c \in challenges, challenges' = Checked(c),
               form' = [form EXCEPT ![p][f] =
                          [Idle EXCEPT !.stage = "comparing", !.who = c.who, !.at = now, !.token = c.token,
                                       !.last = IF f = "setup" THEN 0 ELSE users[c.who].last,
                                       !.code = code, !.cookie = page[p].cookie]]
        PROVE  TokensInv'
    <3> DEFINE r == [Idle EXCEPT !.stage = "comparing", !.who = c.who, !.at = now, !.token = c.token,
                                 !.last = IF f = "setup" THEN 0 ELSE users[c.who].last,
                                 !.code = code, !.cookie = page[p].cookie]
    <3>1. r.who = c.who /\ r.token = c.token
      BY DEF Idle
    <3> HIDE DEF r
    <3>2. \A u \in Pages, g \in Forms :
             form'[u][g] = form[u][g] \/ (form'[u][g].who = c.who /\ form'[u][g].token = c.token)
      BY <1>1, <2>1, <2>3, <3>1, FormChanged DEF r
    <3>3. \A d \in challenges' : \E e \in challenges : d.token = e.token /\ d.who = e.who
      BY <1>1, <2>3, CheckedTokens
    <3>4. \A d, e \in challenges' : d.token = e.token => d = e
      BY <1>1, <2>3, CheckedTokens
    <3> QED
      BY <1>1, <2>1, <3>2, <3>3, <3>4, TokensKept
  <2> QED
    BY <1>7, <2>2, <2>3 DEF SubmitCode, Refused, Held
<1>8. ASSUME NEW p \in Pages, NEW f \in SecondFactor, FinishCode(p, f) PROVE TokensInv'
  <2>1. f \in Forms /\ Done(p, f) /\ challenges' \subseteq challenges
    BY <1>8 DEF FinishCode, SecondFactor, Forms
  <2>2. /\ tokens' \in {tokens, tokens + 1}
        /\ \A s \in sessions' : s \in sessions \/ s.token = tokens'
    BY <1>8 DEF FinishCode, OpenSession, ChangeSessions, sessionVars
  <2> QED
    BY <1>4, <2>1, <2>2
<1>9. ASSUME NEW p \in Pages, NEW code, Recover(p, code) PROVE TokensInv'
  <2>1. form' = form
    BY <1>9 DEF Recover, Refused
  <2>2. CASE UNCHANGED <<sessionVars, tokens>> /\ challenges' \subseteq challenges
    BY <1>4, <2>1, <2>2 DEF sessionVars
  <2>3. ASSUME NEW c \in challenges, UNCHANGED <<sessionVars, tokens>>, challenges' = Checked(c)
        PROVE  TokensInv'
    <3>1. \A d \in challenges' : \E e \in challenges : d.token = e.token /\ d.who = e.who
      BY <1>1, <2>3, CheckedTokens
    <3>2. \A d, e \in challenges' : d.token = e.token => d = e
      BY <1>1, <2>3, CheckedTokens
    <3> QED
      BY <1>1, <2>1, <2>3, <3>1, <3>2, TokensKept DEF sessionVars
  <2>4. ASSUME NEW c \in challenges, OpenSession(p, c.who, now, page[p].cookie, {}, "in", 1),
               challenges' = challenges \ {c}
        PROVE  TokensInv'
    BY <1>4, <2>1, <2>4 DEF OpenSession, ChangeSessions
  <2> QED
    BY <1>9, <2>2, <2>3, <2>4 DEF Recover, Refused, Held
<1>10. ASSUME NEW p \in Pages, NewGuest(p) PROVE TokensInv'
  <2>1. form' = form /\ challenges' \subseteq challenges
    BY <1>10 DEF NewGuest, Prune
  <2>2. /\ tokens' \in {tokens, tokens + 1}
        /\ \A s \in sessions' : s \in sessions \/ s.token = tokens'
    BY <1>10 DEF NewGuest, OpenSession, ChangeSessions
  <2> QED
    BY <1>4, <2>1, <2>2
<1>11. CASE \E p \in Pages : Visit(p) \/ Logout(p) \/ ShowStep(p)
  BY <1>4, <1>11 DEF Visit, Logout, ShowStep, Prune, ChangeSessions, sessionVars
<1>12. CASE \E a \in Accounts, disabled \in BOOLEAN : SetDisabled(a, disabled)
  BY <1>4, <1>12 DEF SetDisabled, ChangeSessions, sessionVars
<1>13. CASE Tick \/ UNCHANGED vars
  BY <1>4, <1>13 DEF Tick, vars, sessionVars
<1>14. CASE Restart
  <2>1. \A p \in Pages, f \in Forms : form'[p][f].stage = "idle"
    BY <1>3, <1>14 DEF Restart
  <2> QED
    BY <1>1, <1>14, <2>1, TokensKept DEF Restart
<1> QED
  BY <1>5, <1>6, <1>7, <1>8, <1>9, <1>10, <1>11, <1>12, <1>13, <1>14 DEF Next, SecondFactor

-----------------------------------------------------------------------------
(* Codes.                                                                   *)

\* What used up a code stays in the next accounts.
KeepsUsed(next) == \A a \in Accounts, c \in Codes :
                       opened[a][c] > 0 /\ UsedUp(users[a], c) => UsedUp(next[a], c)

LEMMA CodesKept ==
    ASSUME CodesInv, NEW next, KeepsUsed(next), opened' = opened,
           users' \in {users, next, saved}, saved' \in {saved, users', next}
    PROVE  CodesInv'
BY DEF CodesInv, KeepsUsed

\* A code that was not used up opens a session, and is used up with it.
LEMMA CodeTaken ==
    ASSUME TypeOK, CodesInv, NEW next, KeepsUsed(next), Saves(next), NEW who \in Accounts, NEW code, Count(who, code),
           code \in Codes => ~UsedUp(users[who], code) /\ UsedUp(next[who], code)
    PROVE  CodesInv'
<1>1. opened \in [Accounts -> [Codes -> Nat]]
  BY DEF TypeOK
<1>2. ASSUME NEW a \in Accounts, NEW c \in Codes, ~(a = who /\ c = code) PROVE opened'[a][c] = opened[a][c]
  BY <1>1, <1>2 DEF Count
<1>3. code \in Codes => opened[who][code] = 0 /\ opened'[who][code] = 1
  BY <1>1 DEF Count, CodesInv
<1> QED
  BY <1>2, <1>3 DEF CodesInv, KeepsUsed, Saves

LEMMA CodesStep ==
    ASSUME SignInInv, [Next]_vars
    PROVE  CodesInv'
<1>1. TypeOK /\ TokensInv /\ CodesInv
  BY DEF SignInInv
<1>2. CASE UNCHANGED <<users, saved, opened>>
  BY <1>1, <1>2 DEF CodesInv
<1>3. ASSUME NEW p \in Pages, NEW f \in SecondFactor, FinishCode(p, f) PROVE CodesInv'
  <2> DEFINE q == form[p][f] next == Enrolling(q.who, f, q.code)
  <2>1. CASE UNCHANGED <<users, saved, opened>>
    BY <1>2, <2>1
  <2>2. ASSUME NEW c \in Held(q.token), StillFits(c, f, q.code), Verified(q), q.stage = "comparing",
               \/ SaveFails(next, 0) /\ UNCHANGED opened
               \/ Saves(next) /\ Count(q.who, q.code)
        PROVE  CodesInv'
    <3>1. c.who = q.who /\ q.who \in Accounts /\ q.code \in Nat
      BY <1>1, <2>2 DEF TokensInv, Answering, TypeOK, Forms, SecondFactor
    <3>2. users[q.who] \in Account /\ q.code \notin RecoveryCodes
      BY <1>1, <3>1, SignInAssumption DEF TypeOK
    <3>3. \A d \in Codes : UsedUp(users[q.who], d) => f # "setup" /\ users[q.who].last < q.code
      BY <2>2, <3>1 DEF StillFits, UsedUp
    <3>4. /\ \A a \in Accounts : a # q.who => next[a] = users[a]
          /\ next[q.who].last = q.code /\ next[q.who].enrolled = TRUE
          /\ f # "setup" => next[q.who].codes = users[q.who].codes
      BY <1>1, <3>1, <3>2 DEF Enrolling, TypeOK, Account
    <3> HIDE DEF next
    <3>5. \A d \in Codes \ RecoveryCodes : d \in Nat
      BY BoundsTyped DEF Codes
    <3>6. KeepsUsed(next)
      <4>1. ASSUME NEW d \in Codes, UsedUp(users[q.who], d) PROVE UsedUp(next[q.who], d)
        <5>1. f # "setup" /\ users[q.who].last < q.code /\ users[q.who].last \in Nat
          BY <3>2, <3>3, <4>1 DEF Account
        <5>2. CASE d \in RecoveryCodes
          BY <3>4, <4>1, <5>1, <5>2 DEF UsedUp
        <5>3. CASE d \notin RecoveryCodes
          BY <3>1, <3>4, <3>5, <4>1, <5>1, <5>3 DEF UsedUp
        <5> QED
          BY <5>2, <5>3
      <4> QED
        BY <3>4, <4>1 DEF KeepsUsed
    <3>7. ~UsedUp(users[q.who], q.code) /\ UsedUp(next[q.who], q.code)
      <4>1. users[q.who].last \in Nat
        BY <3>2 DEF Account
      <4>2. UsedUp(next[q.who], q.code)
        BY <3>1, <3>2, <3>4 DEF UsedUp
      <4>3. ~UsedUp(users[q.who], q.code)
        <5>1. SUFFICES ASSUME UsedUp(users[q.who], q.code) PROVE FALSE
          OBVIOUS
        <5>2. users[q.who].enrolled /\ users[q.who].last >= q.code
          BY <3>2, <5>1 DEF UsedUp
        <5> QED
          BY <2>2, <3>1, <4>1, <5>2 DEF StillFits
      <4> QED
        BY <4>2, <4>3
    <3>8. CASE SaveFails(next, 0) /\ UNCHANGED opened
      BY <1>1, <3>6, <3>8, CodesKept DEF SaveFails
    <3>9. CASE Saves(next) /\ Count(q.who, q.code)
      BY <1>1, <3>1, <3>6, <3>7, <3>9, CodeTaken
    <3> QED
      BY <2>2, <3>8, <3>9
  <2> QED
    BY <1>3, <2>1, <2>2 DEF FinishCode
<1>4. ASSUME NEW p \in Pages, NEW code, Recover(p, code) PROVE CodesInv'
  <2>1. CASE UNCHANGED <<users, saved, opened>>
    BY <1>2, <2>1
  <2>2. ASSUME NEW c \in challenges, Fits(c, "recovery"), code \in users[c.who].codes,
               \/ SaveFails([users EXCEPT ![c.who].codes = @ \ {code}], 1) /\ UNCHANGED opened
               \/ Saves([users EXCEPT ![c.who].codes = @ \ {code}]) /\ Count(c.who, code)
        PROVE  CodesInv'
    <3> DEFINE next == [users EXCEPT ![c.who].codes = @ \ {code}]
    <3>1. c.who \in Accounts /\ users[c.who] \in Account /\ code \in RecoveryCodes
      BY <1>1, <2>2 DEF TypeOK, Account
    <3>2. /\ \A a \in Accounts : a # c.who => next[a] = users[a]
          /\ next[c.who].last = users[c.who].last /\ next[c.who].enrolled = users[c.who].enrolled
          /\ next[c.who].codes = users[c.who].codes \ {code}
      BY <1>1, <3>1 DEF TypeOK, Account
    <3> HIDE DEF next
    <3>3. KeepsUsed(next)
      BY <3>2 DEF KeepsUsed, UsedUp
    <3>4. ~UsedUp(users[c.who], code) /\ UsedUp(next[c.who], code)
      BY <2>2, <3>1, <3>2 DEF UsedUp, Fits
    <3>5. CASE SaveFails(next, 1) /\ UNCHANGED opened
      BY <1>1, <3>3, <3>5, CodesKept DEF SaveFails
    <3>6. CASE Saves(next) /\ Count(c.who, code)
      BY <1>1, <3>1, <3>3, <3>4, <3>6, CodeTaken
    <3> QED
      BY <2>2, <3>5, <3>6 DEF next
  <2> QED
    BY <1>4, <2>1, <2>2 DEF Recover, Held, history
<1>5. ASSUME NEW a \in Accounts, NEW disabled \in BOOLEAN, SetDisabled(a, disabled) PROVE CodesInv'
  <2> DEFINE next == [users EXCEPT ![a].disabled = disabled]
  <2>1. \A b \in Accounts : /\ next[b].last = users[b].last /\ next[b].enrolled = users[b].enrolled
                            /\ next[b].codes = users[b].codes
    BY <1>1 DEF TypeOK, Account
  <2>2. (SaveFails(next, 1) \/ Saves(next)) /\ opened' = opened
    BY <1>5 DEF SetDisabled, history
  <2> HIDE DEF next
  <2>3. KeepsUsed(next)
    BY <2>1 DEF KeepsUsed, UsedUp
  <2> QED
    BY <1>1, <2>2, <2>3, CodesKept DEF SaveFails, Saves
<1>6. CASE Restart
  <2>1. KeepsUsed(users)
    BY DEF KeepsUsed
  <2> QED
    BY <1>1, <1>6, <2>1, CodesKept DEF Restart, history
<1>7. CASE Tick \/ UNCHANGED vars
  BY <1>2, <1>7 DEF Tick, vars, history
<1>8. ASSUME NEW p \in Pages,
             \/ \E a \in Accounts, good \in BOOLEAN : StartLogin(p, a, good)
             \/ FinishLogin(p)
             \/ \E f \in SecondFactor, code \in {Wrong, now - 1, now, now + 1} : SubmitCode(p, f, code)
             \/ NewGuest(p) \/ Visit(p) \/ Logout(p) \/ ShowStep(p)
      PROVE  CodesInv'
  <2>1. UNCHANGED <<users, saved, opened>>
    BY <1>8 DEF StartLogin, FinishLogin, SubmitCode, NewGuest, Visit, Logout, ShowStep, history
  <2> QED
    BY <1>2, <2>1
<1> QED
  BY <1>3, <1>4, <1>5, <1>6, <1>7, <1>8 DEF Next, SecondFactor

-----------------------------------------------------------------------------
(* Sessions of accounts that are enabled.                                   *)

LEMMA EnabledKept ==
    ASSUME TypeOK, SessionsOfEnabled,
           \A s \in sessions' : \/ s \in sessions
                                \/ s.who # Guest => s.who \in Accounts /\ ~users[s.who].disabled,
           \A a \in Accounts : users'[a].disabled = users[a].disabled
    PROVE  SessionsOfEnabled'
<1>1. \A s \in sessions : s.who # Guest => s.who \in Accounts /\ ~users[s.who].disabled
  BY DEF TypeOK, SessionsOfEnabled
<1> QED
  BY <1>1 DEF SessionsOfEnabled

LEMMA EnabledStep ==
    ASSUME SignInInv, [Next]_vars
    PROVE  SessionsOfEnabled'
<1>1. TypeOK /\ TokensInv /\ SessionsOfEnabled
  BY DEF SignInInv
<1>2. CASE users' = users /\ sessions' \subseteq sessions
  BY <1>1, <1>2, EnabledKept
<1>3. ASSUME NEW p \in Pages, NEW f \in SecondFactor, FinishCode(p, f) PROVE SessionsOfEnabled'
  <2> DEFINE q == form[p][f] next == Enrolling(q.who, f, q.code)
  <2>1. CASE users' = users /\ sessions' = sessions
    BY <1>2, <2>1
  <2>2. ASSUME NEW c \in Held(q.token), Usable(c, q.at), q.stage = "comparing", Saves(next), NEW step,
               OpenSession(p, q.who, q.at, q.cookie, {}, step, 0)
        PROVE  SessionsOfEnabled'
    <3>1. c.who = q.who /\ q.who \in Accounts /\ ~users[q.who].disabled
      BY <1>1, <2>2 DEF TokensInv, Answering, Usable
    <3>2. \A a \in Accounts : next[a].disabled = users[a].disabled
      BY <1>1, <3>1 DEF Enrolling, TypeOK, Account
    <3>3. \A s \in sessions' : s \in sessions \/ s.who = q.who
      BY <2>2 DEF OpenSession, ChangeSessions
    <3> QED
      BY <1>1, <2>2, <3>1, <3>2, <3>3, EnabledKept DEF Saves
  <2> QED
    BY <1>3, <2>1, <2>2 DEF FinishCode, SaveFails, sessionVars
<1>4. ASSUME NEW p \in Pages, NEW code, Recover(p, code) PROVE SessionsOfEnabled'
  <2>1. CASE users' = users /\ sessions' = sessions
    BY <1>2, <2>1
  <2>2. ASSUME NEW c \in challenges, Usable(c, now), Saves([users EXCEPT ![c.who].codes = @ \ {code}]),
               OpenSession(p, c.who, now, page[p].cookie, {}, "in", 1)
        PROVE  SessionsOfEnabled'
    <3>1. c.who \in Accounts /\ ~users[c.who].disabled
      BY <1>1, <2>2 DEF TypeOK, Usable
    <3>2. \A a \in Accounts : users'[a].disabled = users[a].disabled
      BY <1>1, <2>2, <3>1 DEF Saves, TypeOK, Account
    <3>3. \A s \in sessions' : s \in sessions \/ s.who = c.who
      BY <2>2 DEF OpenSession, ChangeSessions
    <3> QED
      BY <1>1, <3>1, <3>2, <3>3, EnabledKept
  <2> QED
    BY <1>4, <2>1, <2>2 DEF Recover, SaveFails, Held, sessionVars
<1>5. ASSUME NEW p \in Pages, NewGuest(p) PROVE SessionsOfEnabled'
  <2>1. users' = users /\ \A s \in sessions' : s \in sessions \/ s.who = Guest
    BY <1>5 DEF NewGuest, OpenSession, ChangeSessions
  <2> QED
    BY <1>1, <2>1, EnabledKept
<1>6. ASSUME NEW a \in Accounts, NEW disabled \in BOOLEAN, SetDisabled(a, disabled) PROVE SessionsOfEnabled'
  <2>1. CASE UNCHANGED <<users, sessions>>
    BY <1>2, <2>1
  <2>2. CASE Saves([users EXCEPT ![a].disabled = disabled]) /\ ChangeSessions(SessionsOf(a), {})
    <3>1. \A b \in Accounts : b # a => users'[b] = users[b]
      BY <1>1, <2>2 DEF Saves, TypeOK
    <3>2. \A s \in sessions' : s \in sessions /\ s.who # a
      BY <2>2 DEF ChangeSessions, SessionsOf
    <3>3. \A s \in sessions : s.who # Guest => s.who \in Accounts /\ ~users[s.who].disabled
      BY <1>1 DEF TypeOK, SessionsOfEnabled
    <3> QED
      BY <3>1, <3>2, <3>3 DEF SessionsOfEnabled
  <2> QED
    BY <1>6, <2>1, <2>2 DEF SetDisabled, SaveFails, sessionVars
<1>7. CASE Restart
  BY <1>7 DEF Restart, SessionsOfEnabled
<1>8. CASE Tick \/ UNCHANGED vars
  BY <1>2, <1>8 DEF Tick, vars, sessionVars
<1>9. ASSUME NEW p \in Pages,
             \/ \E a \in Accounts, good \in BOOLEAN : StartLogin(p, a, good)
             \/ FinishLogin(p)
             \/ \E f \in SecondFactor, code \in {Wrong, now - 1, now, now + 1} : SubmitCode(p, f, code)
             \/ Visit(p) \/ Logout(p) \/ ShowStep(p)
      PROVE  SessionsOfEnabled'
  <2>1. users' = users /\ sessions' \subseteq sessions
    BY <1>9 DEF StartLogin, FinishLogin, SubmitCode, Visit, Logout, ShowStep, ChangeSessions, sessionVars
  <2> QED
    BY <1>2, <2>1
<1> QED
  BY <1>3, <1>4, <1>5, <1>6, <1>7, <1>8, <1>9 DEF Next, SecondFactor

-----------------------------------------------------------------------------
(* The tries of a challenge.                                                *)

LEMMA TriesKept ==
    ASSUME TypeOK, TriesInv, compared' = compared, tokens' \in {tokens, tokens + 1},
           \A d \in challenges' : \/ d \in challenges
                                  \/ d.token \in Tokens /\ d.token > tokens /\ d.checks = 0
    PROVE  TriesInv'
<1>1. tokens \in Nat /\ tokens' \in Nat /\ tokens <= tokens' /\ Tokens \subseteq Nat
  BY BoundsTyped DEF TypeOK, Tokens
<1>2. TriesBounded' /\ \A t \in Tokens : t > tokens' => compared'[t] = 0
  BY <1>1 DEF TriesInv, TriesBounded
<1>3. \A d \in challenges' : compared'[d.token] = d.checks
  BY DEF TriesInv
<1> QED
  BY <1>2, <1>3 DEF TriesInv

LEMMA TriesChecked ==
    ASSUME TypeOK, TokensInv, TriesInv, NEW c \in challenges, Untired(c), tokens' \in {tokens, tokens + 1},
           compared' = [compared EXCEPT ![c.token] = @ + 1], challenges' \subseteq Checked(c)
    PROVE  TriesInv'
<1>1. tokens \in Nat /\ tokens' \in Nat /\ tokens <= tokens' /\ Tokens \subseteq Nat
  BY BoundsTyped DEF TypeOK, Tokens
<1>2. c.token \in Tokens /\ c.token <= tokens /\ c.checks \in Nat /\ compared[c.token] = c.checks
  BY DEF TypeOK, TokensInv, TriesInv
<1>3. compared'[c.token] = c.checks + 1 /\ \A t \in Tokens : t # c.token => compared'[t] = compared[t]
  BY <1>2 DEF TypeOK
<1>4. TriesBounded'
  BY <1>2, <1>3, BoundsTyped DEF TriesInv, TriesBounded, Untired
<1>5. \A t \in Tokens : t > tokens' => compared'[t] = 0
  BY <1>1, <1>2, <1>3 DEF TriesInv
<1>6. ASSUME NEW d \in challenges' PROVE compared'[d.token] = d.checks
  <2>1. CASE d.token = c.token
    <3>1. d = [c EXCEPT !.checks = @ + 1]
      BY <2>1, CheckedTokens
    <3>2. d.checks = c.checks + 1
      BY <3>1 DEF TypeOK
    <3> QED
      BY <1>3, <2>1, <3>2
  <2>2. CASE d.token # c.token
    <3>1. d \in challenges
      BY <2>2, CheckedTokens
    <3> QED
      BY <1>3, <2>2, <3>1 DEF TriesInv, TypeOK
  <2> QED
    BY <2>1, <2>2
<1> QED
  BY <1>4, <1>5, <1>6 DEF TriesInv

LEMMA TriesStep ==
    ASSUME SignInInv, [Next]_vars
    PROVE  TriesInv'
<1>1. TypeOK /\ TokensInv /\ TriesInv
  BY DEF SignInInv
<1>2. CASE compared' = compared /\ tokens' \in {tokens, tokens + 1} /\ challenges' \subseteq challenges
  BY <1>1, <1>2, TriesKept
<1>3. ASSUME NEW p \in Pages, FinishLogin(p) PROVE TriesInv'
  <2>1. compared' = compared
    BY <1>3 DEF FinishLogin, history
  <2>2. CASE UNCHANGED <<challenges, tokens>>
    BY <1>2, <2>1, <2>2
  <2>3. ASSUME NEW n, n.token = tokens + 1, n.checks = 0, challenges' = challenges \cup {n},
               tokens < MaxTokens, tokens' = tokens + 1
        PROVE  TriesInv'
    <3>1. n.token \in Tokens /\ n.token > tokens
      BY <1>1, <2>3, BoundsTyped DEF TypeOK, Tokens
    <3> QED
      BY <1>1, <2>1, <2>3, <3>1, TriesKept
  <2> QED
    BY <1>3, <2>2, <2>3 DEF FinishLogin
<1>4. ASSUME NEW p \in Pages, NEW f \in SecondFactor, NEW code, SubmitCode(p, f, code) PROVE TriesInv'
  <2>1. tokens' = tokens
    BY <1>4 DEF SubmitCode
  <2>2. CASE compared' = compared /\ challenges' \subseteq challenges
    BY <1>2, <2>1, <2>2
  <2>3. ASSUME NEW c \in challenges, Untired(c), challenges' = Checked(c),
               compared' = [compared EXCEPT ![c.token] = @ + 1]
        PROVE  TriesInv'
    BY <1>1, <2>1, <2>3, TriesChecked
  <2> QED
    BY <1>4, <2>2, <2>3 DEF SubmitCode, Refused, Held
<1>5. ASSUME NEW p \in Pages, NEW code, Recover(p, code) PROVE TriesInv'
  <2>1. CASE UNCHANGED <<tokens, compared>> /\ challenges' \subseteq challenges
    BY <1>2, <2>1
  <2>2. ASSUME NEW c \in challenges, Untired(c), challenges' \in {Checked(c), challenges \ {c}},
               compared' = [compared EXCEPT ![c.token] = @ + 1], tokens' \in {tokens, tokens + 1}
        PROVE  TriesInv'
    <3>1. challenges' \subseteq Checked(c)
      BY <2>2 DEF Checked
    <3> QED
      BY <1>1, <2>2, <3>1, TriesChecked
  <2> QED
    BY <1>5, <2>1, <2>2 DEF Recover, Refused, Held, OpenSession, history
<1>6. ASSUME NEW p \in Pages,
             \/ \E a \in Accounts, good \in BOOLEAN : StartLogin(p, a, good)
             \/ \E f \in SecondFactor : FinishCode(p, f)
             \/ NewGuest(p) \/ Visit(p) \/ Logout(p) \/ ShowStep(p)
      PROVE  TriesInv'
  <2>1. compared' = compared /\ tokens' \in {tokens, tokens + 1} /\ challenges' \subseteq challenges
    BY <1>6 DEF StartLogin, FinishCode, NewGuest, Visit, Logout, ShowStep, Prune, OpenSession, history
  <2> QED
    BY <1>2, <2>1
<1>7. CASE \/ \E a \in Accounts, disabled \in BOOLEAN : SetDisabled(a, disabled)
           \/ Restart \/ Tick \/ UNCHANGED vars
  BY <1>2, <1>7 DEF SetDisabled, Restart, Tick, vars, history
<1> QED
  BY <1>3, <1>4, <1>5, <1>6, <1>7 DEF Next, SecondFactor

-----------------------------------------------------------------------------
(* The reservations of the throttle.                                        *)

Throttle == [Keys -> [since : Nat, failures : Nat, inFlight : Nat]]

LEMMA SweptInFlight ==
    ASSUME TypeOK, NEW due \in BOOLEAN, NEW k \in Keys
    PROVE  SweptAttempts(due)[k].inFlight <= attempts[k].inFlight
<1>1. attempts[k] \in [since : Nat, failures : Nat, inFlight : Nat]
  BY DEF TypeOK
<1>2. SweptAttempts(due)[k] \in {attempts[k], NoAttempt}
  BY DEF SweptAttempts
<1> QED
  BY <1>1, <1>2 DEF NoAttempt

LEMMA ReservedInFlight ==
    ASSUME NEW at \in Throttle, NEW k \in Keys
    PROVE  /\ Reserved(at, k)[k].inFlight <= at[k].inFlight + 1
           /\ \A j \in Keys : j # k => Reserved(at, k)[j] = at[j]
<1> DEFINE a == ActiveAttempt(at, k)
           r == [a EXCEPT !.since = IF @ = 0 THEN now ELSE @, !.inFlight = @ + 1]
<1>1. at[k] \in [since : Nat, failures : Nat, inFlight : Nat]
  BY DEF Throttle
<1>2. a \in {at[k], NoAttempt}
  BY DEF ActiveAttempt
<1>3. Reserved(at, k) = [at EXCEPT ![k] = r]
  BY DEF Reserved
<1> HIDE DEF a
<1>4. a \in [since : Nat, failures : Nat, inFlight : Nat] /\ a.inFlight <= at[k].inFlight
  BY <1>1, <1>2 DEF NoAttempt
<1>5. r.inFlight = a.inFlight + 1
  BY <1>4
<1> HIDE DEF r
<1>6. Reserved(at, k)[k] = r /\ \A j \in Keys : j # k => Reserved(at, k)[j] = at[j]
  BY <1>3 DEF Throttle
<1> QED
  BY <1>1, <1>4, <1>5, <1>6

LEMMA FinishedInFlight ==
    ASSUME NEW at \in Throttle, NEW k \in Keys, NEW failed \in BOOLEAN
    PROVE  /\ Finished(at, k, failed)[k].inFlight <= IF at[k].inFlight > 0 THEN at[k].inFlight - 1 ELSE 0
           /\ \A j \in Keys : j # k => Finished(at, k, failed)[j] = at[j]
<1> DEFINE a == [at[k] EXCEPT !.inFlight = IF @ > 0 THEN @ - 1 ELSE 0, !.failures = IF failed THEN @ + 1 ELSE @]
           r == IF a.failures = 0 /\ a.inFlight = 0 THEN NoAttempt ELSE a
<1>1. at[k] \in [since : Nat, failures : Nat, inFlight : Nat]
  BY DEF Throttle
<1>2. a.inFlight = IF at[k].inFlight > 0 THEN at[k].inFlight - 1 ELSE 0
  BY <1>1
<1>3. Finished(at, k, failed) = IF at[k] = NoAttempt THEN at ELSE [at EXCEPT ![k] = r]
  BY DEF Finished
<1> HIDE DEF a
<1>4. r.inFlight <= IF at[k].inFlight > 0 THEN at[k].inFlight - 1 ELSE 0
  BY <1>1, <1>2 DEF NoAttempt
<1> HIDE DEF r
<1>5. \A j \in Keys : j # k => Finished(at, k, failed)[j] = at[j]
  BY <1>3 DEF Throttle
<1>6. CASE at[k] = NoAttempt
  BY <1>3, <1>5, <1>6 DEF NoAttempt
<1>7. CASE at[k] # NoAttempt
  <2>1. Finished(at, k, failed)[k] = r
    BY <1>3, <1>7 DEF Throttle
  <2> QED
    BY <1>4, <1>5, <2>1
<1> QED
  BY <1>6, <1>7

LEMMA ComparingFinite ==
    ASSUME NEW k
    PROVE  IsFiniteSet(Comparing(k)) /\ Cardinality(Comparing(k)) \in Nat
<1>1. Comparing(k) \subseteq Pages
  BY DEF Comparing
<1> QED
  BY <1>1, SignInAssumption, FS_Subset, FS_CardinalityType

\* The two keys of a password request are different records of the throttle.
LEMMA TwoKeys ==
    ASSUME NEW p \in Pages, NEW a \in Accounts
    PROVE  /\ <<a, HostOf[p]>> \in Keys /\ <<"ip", HostOf[p]>> \in Keys
           /\ <<a, HostOf[p]>> # <<"ip", HostOf[p]>>
           /\ AttemptKeys(p, a) = {<<a, HostOf[p]>>, <<"ip", HostOf[p]>>}
BY KeysOfPage, SignInAssumption DEF AttemptKeys

\* No record gains a reservation, no form starts or ends a comparison.
LEMMA LeaksKept ==
    ASSUME TypeOK, NoReservationLeaks, attempts' \in Throttle,
           \A k \in Keys : attempts'[k].inFlight <= attempts[k].inFlight,
           \A p \in Pages : form'[p]["login"] = form[p]["login"]
    PROVE  NoReservationLeaks'
<1> SUFFICES ASSUME NEW k \in Keys PROVE attempts'[k].inFlight <= Cardinality(Comparing(k)')
  BY DEF NoReservationLeaks
<1>1. Comparing(k)' = Comparing(k)
  BY DEF Comparing, AttemptKeys
<1>2. attempts[k].inFlight \in Nat /\ attempts'[k].inFlight \in Nat
  BY DEF TypeOK, Throttle
<1> QED
  BY <1>1, <1>2, ComparingFinite DEF NoReservationLeaks

\* A page starts to compare: it is counted at both of its keys.
LEMMA LeaksReserved ==
    ASSUME TypeOK, NoReservationLeaks, NEW p \in Pages, NEW a \in Accounts, NEW r,
           form[p]["login"].stage = "idle", r.stage = "comparing", r.who = a,
           form' = [form EXCEPT ![p]["login"] = r],
           attempts' = Reserved(Reserved(SweptAttempts(PruneDue), <<a, HostOf[p]>>), <<"ip", HostOf[p]>>)
    PROVE  NoReservationLeaks'
<1> DEFINE kept == SweptAttempts(PruneDue) u == <<a, HostOf[p]>> v == <<"ip", HostOf[p]>>
           once == Reserved(kept, u)
<1>1. PruneDue \in BOOLEAN
  BY DEF PruneDue
<1>2. kept \in Throttle
  BY <1>1, AttemptsTyped DEF Throttle
<1>3. u \in Keys /\ v \in Keys /\ u # v /\ AttemptKeys(p, a) = {u, v}
  BY TwoKeys
<1>4. \A k \in Keys : kept[k].inFlight <= attempts[k].inFlight
  BY <1>1, SweptInFlight
<1>5. attempts' = Reserved(once, v)
  OBVIOUS
<1> HIDE DEF kept, u, v
<1>6. once \in Throttle
  BY <1>2, <1>3, ReservedTyped DEF Throttle
<1>7. once[u].inFlight <= kept[u].inFlight + 1 /\ \A j \in Keys : j # u => once[j] = kept[j]
  BY <1>2, <1>3, ReservedInFlight
<1> HIDE DEF once
<1>8. attempts'[v].inFlight <= once[v].inFlight + 1 /\ \A j \in Keys : j # v => attempts'[j] = once[j]
  <2>1. /\ Reserved(once, v)[v].inFlight <= once[v].inFlight + 1
        /\ \A j \in Keys : j # v => Reserved(once, v)[j] = once[j]
    BY <1>3, <1>6, ReservedInFlight
  <2> QED
    BY <1>5, <2>1
<1>9. attempts' \in Throttle
  <2>1. Reserved(once, v) \in Throttle
    BY <1>3, <1>6, ReservedTyped DEF Throttle
  <2> QED
    BY <1>5, <2>1
<1>10. form'[p]["login"] = r /\ \A q \in Pages : q # p => form'[q]["login"] = form[q]["login"]
  BY DEF TypeOK, Forms
<1> SUFFICES ASSUME NEW k \in Keys PROVE attempts'[k].inFlight <= Cardinality(Comparing(k)')
  BY DEF NoReservationLeaks
<1>11. /\ attempts[k].inFlight \in Nat /\ kept[k].inFlight \in Nat /\ once[k].inFlight \in Nat
       /\ attempts'[k].inFlight \in Nat
  BY <1>2, <1>6, <1>9 DEF TypeOK, Throttle
<1>12. attempts[k].inFlight <= Cardinality(Comparing(k)) /\ Cardinality(Comparing(k)) \in Nat
  BY ComparingFinite DEF NoReservationLeaks
<1>15. Comparing(k)' = {q \in Pages : /\ form'[q]["login"].stage = "comparing"
                                      /\ k \in AttemptKeys(q, form'[q]["login"].who)}
  BY DEF Comparing, AttemptKeys
<1>13. CASE k \in {u, v}
  <2>1. Comparing(k)' = Comparing(k) \cup {p} /\ p \notin Comparing(k)
    BY <1>3, <1>10, <1>13, <1>15 DEF Comparing
  <2>2. Cardinality(Comparing(k)') = Cardinality(Comparing(k)) + 1
    BY <2>1, ComparingFinite, FS_AddElement
  <2>3. attempts'[k].inFlight <= kept[k].inFlight + 1
    BY <1>3, <1>7, <1>8, <1>11, <1>13
  <2> QED
    BY <1>4, <1>11, <1>12, <2>2, <2>3
<1>14. CASE k \notin {u, v}
  <2>1. Comparing(k)' = Comparing(k)
    BY <1>3, <1>10, <1>14, <1>15 DEF Comparing
  <2> QED
    BY <1>4, <1>7, <1>8, <1>11, <1>12, <1>14, <2>1
<1> QED
  BY <1>13, <1>14

\* A page compared: it is given back at both of its keys.
LEMMA LeaksFinished ==
    ASSUME TypeOK, NoReservationLeaks, NEW p \in Pages, NEW a \in Accounts, NEW failed \in BOOLEAN,
           form[p]["login"].stage = "comparing", form[p]["login"].who = a,
           form' = [form EXCEPT ![p]["login"] = Idle], attempts' \in Throttle,
           \A k \in Keys : attempts'[k].inFlight <= Finish(p, a, failed)[k].inFlight
    PROVE  NoReservationLeaks'
<1> DEFINE u == <<a, HostOf[p]>> v == <<"ip", HostOf[p]>>
           once == Finished(attempts, u, failed) twice == Finished(once, v, failed)
<1>1. attempts \in Throttle
  BY DEF TypeOK, Throttle
<1>3. u \in Keys /\ v \in Keys /\ u # v /\ AttemptKeys(p, a) = {u, v}
  BY TwoKeys
<1>5. \A k \in Keys : attempts'[k].inFlight <= twice[k].inFlight
  BY DEF Finish
<1> HIDE DEF u, v
<1>6. once \in Throttle
  BY <1>1, <1>3, FinishedTyped DEF Throttle
<1>7. /\ once[u].inFlight <= IF attempts[u].inFlight > 0 THEN attempts[u].inFlight - 1 ELSE 0
      /\ \A j \in Keys : j # u => once[j] = attempts[j]
  BY <1>1, <1>3, FinishedInFlight
<1> HIDE DEF once
<1>8. /\ twice[v].inFlight <= IF once[v].inFlight > 0 THEN once[v].inFlight - 1 ELSE 0
      /\ \A j \in Keys : j # v => twice[j] = once[j]
  BY <1>3, <1>6, FinishedInFlight
<1>9. twice \in Throttle
  BY <1>3, <1>6, FinishedTyped DEF Throttle
<1> HIDE DEF twice
<1>10. form'[p]["login"] = Idle /\ \A q \in Pages : q # p => form'[q]["login"] = form[q]["login"]
  BY DEF TypeOK, Forms
<1> SUFFICES ASSUME NEW k \in Keys PROVE attempts'[k].inFlight <= Cardinality(Comparing(k)')
  BY DEF NoReservationLeaks
<1>11. /\ attempts[k].inFlight \in Nat /\ once[k].inFlight \in Nat /\ twice[k].inFlight \in Nat
       /\ attempts'[k].inFlight \in Nat
  BY <1>1, <1>6, <1>9 DEF Throttle
<1>12. attempts[k].inFlight <= Cardinality(Comparing(k)) /\ Cardinality(Comparing(k)) \in Nat
  BY ComparingFinite DEF NoReservationLeaks
<1>14. Comparing(k)' = {q \in Pages : /\ form'[q]["login"].stage = "comparing"
                                      /\ k \in AttemptKeys(q, form'[q]["login"].who)}
  BY DEF Comparing, AttemptKeys
<1>15. Idle.stage # "comparing"
  BY DEF Idle
<1>16. CASE k \in {u, v}
  <2>1. Comparing(k)' = Comparing(k) \ {p} /\ p \in Comparing(k)
    BY <1>3, <1>10, <1>14, <1>15, <1>16 DEF Comparing
  <2>2. Cardinality(Comparing(k)') = Cardinality(Comparing(k)) - 1
    BY <2>1, ComparingFinite, FS_RemoveElement
  <2>3. Cardinality(Comparing(k)') \in Nat
    BY <2>1, ComparingFinite, FS_RemoveElement, FS_CardinalityType
  <2>4. twice[k].inFlight <= IF attempts[k].inFlight > 0 THEN attempts[k].inFlight - 1 ELSE 0
    BY <1>3, <1>7, <1>8, <1>11, <1>16
  <2> QED
    BY <1>5, <1>11, <1>12, <2>2, <2>3, <2>4
<1>17. CASE k \notin {u, v}
  <2>1. Comparing(k)' = Comparing(k)
    BY <1>3, <1>10, <1>14, <1>15, <1>17 DEF Comparing
  <2> QED
    BY <1>5, <1>7, <1>8, <1>11, <1>12, <1>17, <2>1
<1> QED
  BY <1>16, <1>17

LEMMA LeaksStep ==
    ASSUME SignInInv, NoReservationLeaks, [Next]_vars
    PROVE  NoReservationLeaks'
<1>1. TypeOK /\ TokensInv /\ attempts \in Throttle
  BY DEF SignInInv, TypeOK, Throttle
<1>2. attempts' \in Throttle
  BY TypeStep DEF TypeOK, Throttle
<1>3. ASSUME \A p \in Pages : form'[p]["login"] = form[p]["login"],
             attempts' = attempts \/ \E due \in BOOLEAN : attempts' = SweptAttempts(due)
      PROVE  NoReservationLeaks'
  <2>1. \A k \in Keys : attempts'[k].inFlight <= attempts[k].inFlight
    BY <1>1, <1>3, SweptInFlight DEF Throttle
  <2> QED
    BY <1>1, <1>2, <1>3, <2>1, LeaksKept
<1>4. PruneDue \in BOOLEAN
  BY DEF PruneDue
<1>5. ASSUME NEW p \in Pages, NEW a \in Accounts, NEW good \in BOOLEAN, StartLogin(p, a, good)
      PROVE  NoReservationLeaks'
  <2> DEFINE r == [Idle EXCEPT !.stage = "comparing", !.who = a, !.at = now, !.good = good /\ ~users[a].disabled]
  <2>1. CASE attempts' = SweptAttempts(PruneDue) /\ form' = form
    BY <1>3, <1>4, <2>1
  <2>2. CASE /\ attempts' = Reserved(Reserved(SweptAttempts(PruneDue), <<a, HostOf[p]>>), <<"ip", HostOf[p]>>)
             /\ form' = [form EXCEPT ![p]["login"] = r]
    <3>1. r.stage = "comparing" /\ r.who = a /\ form[p]["login"].stage = "idle"
      BY <1>5 DEF Idle, StartLogin
    <3> HIDE DEF r
    <3> QED
      BY <1>1, <2>2, <3>1, LeaksReserved
  <2> QED
    BY <1>5, <2>1, <2>2 DEF StartLogin
<1>6. ASSUME NEW p \in Pages, FinishLogin(p) PROVE NoReservationLeaks'
  <2> DEFINE a == form[p]["login"].who
  <2>1. a \in Accounts /\ form[p]["login"].stage = "comparing" /\ form' = [form EXCEPT ![p]["login"] = Idle]
    BY <1>1, <1>6 DEF FinishLogin, Done, TokensInv, Answering
  <2>2. PICK failed \in BOOLEAN :
           \/ attempts' = Finish(p, a, failed)
           \/ attempts' = [Finish(p, a, failed) EXCEPT ![<<a, HostOf[p]>>] = NoAttempt]
    BY <1>6 DEF FinishLogin
  <2> HIDE DEF a
  <2>3. Finish(p, a, failed) \in Throttle
    BY <1>1, <2>1, FinishTyped DEF Throttle
  <2>4. \A k \in Keys : attempts'[k].inFlight <= Finish(p, a, failed)[k].inFlight
    BY <2>2, <2>3 DEF Throttle, NoAttempt
  <2> QED
    BY <1>1, <1>2, <2>1, <2>4, LeaksFinished DEF a
<1>7. ASSUME NEW p \in Pages, NewGuest(p) PROVE NoReservationLeaks'
  <2> DEFINE k == <<"guest", HostOf[p]>>
  <2>1. PICK due \in BOOLEAN : \/ attempts' = Finished(Reserved(SweptAttempts(due), k), k, TRUE)
                               \/ attempts' = SweptAttempts(due)
    BY <1>4, <1>7 DEF NewGuest
  <2>2. form' = form
    BY <1>7 DEF NewGuest
  <2>3. CASE attempts' = SweptAttempts(due)
    BY <1>3, <2>2, <2>3
  <2>4. CASE attempts' = Finished(Reserved(SweptAttempts(due), k), k, TRUE)
    <3> DEFINE kept == SweptAttempts(due) more == Reserved(kept, k)
    <3>1. k \in Keys
      BY DEF Keys, Hosts
    <3>2. kept \in Throttle /\ \A j \in Keys : kept[j].inFlight <= attempts[j].inFlight
      BY <1>1, AttemptsTyped, SweptInFlight DEF Throttle
    <3>3. attempts' = Finished(more, k, TRUE)
      BY <2>4
    <3> HIDE DEF k, kept
    <3>4. more \in Throttle
      BY <1>1, <3>1, <3>2, ReservedTyped DEF Throttle
    <3>5. more[k].inFlight <= kept[k].inFlight + 1 /\ \A j \in Keys : j # k => more[j] = kept[j]
      BY <3>1, <3>2, ReservedInFlight
    <3> HIDE DEF more
    <3>6. /\ attempts'[k].inFlight <= IF more[k].inFlight > 0 THEN more[k].inFlight - 1 ELSE 0
          /\ \A j \in Keys : j # k => attempts'[j] = more[j]
      BY <3>1, <3>3, <3>4, FinishedInFlight
    <3>7. \A j \in Keys : /\ attempts[j].inFlight \in Nat /\ kept[j].inFlight \in Nat
                          /\ more[j].inFlight \in Nat /\ attempts'[j].inFlight \in Nat
      BY <1>1, <1>2, <3>2, <3>4 DEF Throttle
    <3>8. \A j \in Keys : attempts'[j].inFlight <= attempts[j].inFlight
      BY <3>1, <3>2, <3>5, <3>6, <3>7
    <3> QED
      BY <1>1, <1>2, <2>2, <3>8, LeaksKept
  <2> QED
    BY <2>1, <2>3, <2>4
<1>8. ASSUME NEW p \in Pages, NEW f \in SecondFactor,
             (\E code \in {Wrong, now - 1, now, now + 1} : SubmitCode(p, f, code)) \/ FinishCode(p, f)
      PROVE  NoReservationLeaks'
  <2>1. attempts' = attempts
    BY <1>8 DEF SubmitCode, FinishCode
  <2>2. form' = form \/ \E r : form' = [form EXCEPT ![p][f] = r]
    BY <1>8 DEF SubmitCode, FinishCode, Refused, Done
  <2>3. \A q \in Pages : form'[q]["login"] = form[q]["login"]
    BY <1>1, <2>2 DEF TypeOK, Forms, SecondFactor
  <2> QED
    BY <1>3, <2>1, <2>3
<1>9. ASSUME NEW p \in Pages,
             (\E code : Recover(p, code)) \/ Visit(p) \/ Logout(p) \/ ShowStep(p)
      PROVE  NoReservationLeaks'
  <2>1. form' = form /\ (attempts' = attempts \/ attempts' = SweptAttempts(PruneDue))
    BY <1>9 DEF Recover, Refused, Visit, Logout, ShowStep
  <2> QED
    BY <1>3, <1>4, <2>1
<1>10. CASE (\E a \in Accounts, disabled \in BOOLEAN : SetDisabled(a, disabled)) \/ Tick \/ UNCHANGED vars
  BY <1>3, <1>10 DEF SetDisabled, Tick, vars
<1>11. CASE Restart
  <2>1. \A k \in Keys : attempts'[k].inFlight = 0
    BY <1>11 DEF Restart, NoAttempt
  <2>2. \A k \in Keys : Cardinality(Comparing(k)') \in Nat
    <3>1. \A k \in Keys : Comparing(k)' \subseteq Pages
      BY DEF Comparing
    <3> QED
      BY <3>1, SignInAssumption, FS_Subset, FS_CardinalityType
  <2> QED
    BY <2>1, <2>2 DEF NoReservationLeaks
<1> QED
  BY <1>5, <1>6, <1>7, <1>8, <1>9, <1>10, <1>11 DEF Next, SecondFactor

-----------------------------------------------------------------------------
(* The theorems.                                                            *)

LEMMA SignInStart == Init => SignInInv
<1> SUFFICES ASSUME Init PROVE SignInInv
  OBVIOUS
<1>1. TypeOK
  <2>1. PICK enrolled \in SUBSET Accounts :
           users = [a \in Accounts |->
                      [enrolled |-> a \in enrolled, last |-> 0, disabled |-> FALSE,
                       codes |-> IF a \in enrolled THEN RecoveryCodes ELSE {}]]
    BY DEF Init
  <2>2. users \in [Accounts -> Account] /\ saved = users
    BY <2>1 DEF Init, Account
  <2>3. now \in Nat \ {0} /\ lastPrune \in Nat /\ tokens \in 0..MaxTokens /\ guestSessions \in Int
    BY BoundsTyped DEF Init
  <2>4. page \in [Pages -> [step : Steps, token : 0..MaxTokens, cookie : 0..MaxTokens]]
    BY BoundsTyped DEF Init, Steps, NoToken
  <2>5. Idle \in RequestType
    BY BoundsTyped DEF Idle, RequestType, Stages, NoToken, Wrong
  <2>6. form \in [Pages -> [Forms -> RequestType]]
    BY <2>5 DEF Init
  <2>7. /\ attempts \in [Keys -> [since : Nat, failures : Nat, inFlight : Nat]]
        /\ second \in [Accounts -> [failures : Nat, last : Nat, until : Nat]]
        /\ left \in [requests : Nat, mishaps : Nat]
        /\ opened \in [Accounts -> [Codes -> Nat]] /\ compared \in [Tokens -> Nat]
    BY BoundsTyped DEF Init, NoAttempt, NoFailure
  <2> QED
    BY <2>2, <2>3, <2>4, <2>6, <2>7 DEF TypeOK, Init, RequestType
<1>2. IsFiniteSet(sessions) /\ GuestCountExact
  BY FS_EmptySet, BoundsTyped DEF Init, GuestCountExact, Guests
<1>3. \A p \in Pages, f \in Forms : ~Answering(p, f)
  BY DEF Init, Answering, Idle
<1>4. TokensInv
  BY <1>3 DEF Init, TokensInv, Forms, SecondFactor
<1>5. CodesInv /\ SessionsOfEnabled
  BY DEF Init, CodesInv, SessionsOfEnabled
<1>6. TriesInv
  BY BoundsTyped DEF Init, TriesInv, TriesBounded
<1> QED
  BY <1>1, <1>2, <1>4, <1>5, <1>6 DEF SignInInv

LEMMA SignInNext == SignInInv /\ [Next]_vars => SignInInv'
<1> SUFFICES ASSUME SignInInv, [Next]_vars PROVE SignInInv'
  OBVIOUS
<1> QED
  BY TypeStep, GuestsStep, TokensStep, CodesStep, EnabledStep, TriesStep DEF SignInInv

\* The invariant behind the four theorems below holds of every behaviour.
THEOREM SignInInvariant == Spec => []SignInInv
BY SignInStart, SignInNext, PTL DEF Spec

\* Every variable of the manager and of the pages keeps its type.
THEOREM SignInTyped == Spec => []TypeOK
<1>1. SignInInv => TypeOK
  BY DEF SignInInv
<1> QED
  BY <1>1, SignInInvariant, PTL

\* A code of an authenticator and a recovery code open one session at most,
\* however many requests compare them at once and whatever a failed save or a
\* restart left in the database (completeAuthenticator, CompleteRecovery).
THEOREM CodesOpenOneSession == Spec => []CodesOnce
<1>1. SignInInv => CodesOnce
  BY DEF SignInInv, CodesInv, CodesOnce
<1> QED
  BY <1>1, SignInInvariant, PTL

\* No session belongs to a disabled account (UpdateUser against the logins).
THEOREM EnabledAccountsOnly == Spec => []SessionsOfEnabled
<1>1. SignInInv => SessionsOfEnabled
  BY DEF SignInInv
<1> QED
  BY <1>1, SignInInvariant, PTL

\* The count of guests is the number of guest sessions and within the cap
\* (storeSessionLocked, deleteSessionLocked, pruneLocked).
THEOREM GuestsAreCounted == Spec => []GuestCountExact
<1>1. SignInInv => GuestCountExact
  BY DEF SignInInv
<1> QED
  BY <1>1, SignInInvariant, PTL

\* No challenge has more codes compared than its share
\* (reservedChallengeUserLocked, reserveSecondFactorLocked).
THEOREM ChallengesTire == Spec => []TriesBounded
<1>1. SignInInv => TriesBounded
  BY DEF SignInInv, TriesInv
<1> QED
  BY <1>1, SignInInvariant, PTL

LEMMA NothingReserved == Init => NoReservationLeaks
<1> SUFFICES ASSUME Init, NEW k \in Keys PROVE attempts[k].inFlight <= Cardinality(Comparing(k))
  BY DEF NoReservationLeaks
<1>1. attempts[k].inFlight = 0
  BY DEF Init, NoAttempt
<1> QED
  BY <1>1, ComparingFinite

\* The throttle holds no reservation that no request gives back: with the types
\* and the tokens, the property is its own inductive invariant
\* (reserveLoginAttemptLocked, finishLoginAttemptLocked).
THEOREM ReservationsAreGivenBack == Spec => []NoReservationLeaks
<1>1. Init => SignInInv /\ NoReservationLeaks
  BY SignInStart, NothingReserved
<1>2. SignInInv /\ NoReservationLeaks /\ [Next]_vars => SignInInv' /\ NoReservationLeaks'
  BY SignInNext, LeaksStep
<1> QED
  BY <1>1, <1>2, PTL DEF Spec
=============================================================================
