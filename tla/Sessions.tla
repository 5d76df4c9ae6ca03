------------------------------ MODULE Sessions ------------------------------
(* Sessions of the agents: the login with its password and second factor,   *)
(* the step-up of a session, its renewal and its end (auth.service.ts and   *)
(* auth.controller.ts).                                                     *)
(*                                                                          *)
(* Sessions live in Redis: a refresh token, access tokens that name it, and *)
(* challenges for the second factor, each under a key of its own. A request *)
(* is a process that calls Redis or MongoDB once per action. What a request *)
(* creates is named by its number.                                          *)
EXTENDS Integers, FiniteSets

CONSTANTS
    None,
    Agent,
    Caller,       \* the requests in progress at once
    Plans,        \* the mixes explored: kinds of requests, how many, which agents
    MaxRequests,  \* bound: requests made, in any plan
    Threshold,    \* BRUTEFORCE_THRESHOLD and TOTP_BRUTEFORCE_THRESHOLD
    Watched       \* the agent whose counters are mapped to Throttle

Kinds == {"login", "preflight", "verify", "begin", "finish", "stepUp", "renew", "logout"}

(* The document of an agent: whether it exists, is active, and its factors. *)
Doc == [there : BOOLEAN, active : BOOLEAN, otp : BOOLEAN, key : BOOLEAN]

(* The awaits a request stops at.                                           *)
Pcs == {"recheck", "enter", "look", "password", "count", "window", "block", "clear", "lift",
        "challenge", "gate", "get", "code", "consume", "ask", "assert", "sign", "asserted",
        "drop", "mint", "ttl", "access", "delAccess", "delRefresh"}

ASSUME SessionsAssumption ==
    /\ Threshold \in Nat /\ Threshold >= 2
    /\ MaxRequests \in Nat
    /\ Plans \subseteq [kinds : SUBSET Kinds, requests : 0 .. MaxRequests, edits : Nat,
                        docs : SUBSET Doc]
    /\ Watched \in Agent /\ IsFiniteSet(Caller)
    /\ None \notin Agent \cup Kinds \cup Pcs \cup Nat /\ None \notin Doc
    /\ Agent \cap Nat = {} /\ Agent \cap Doc = {}

VARIABLES
    agent,      \* the documents of the agents
    refresh,    \* the refresh tokens stored
    access,     \* the access tokens stored
    challenge,  \* mfa_challenge: the agent each one was made for
    assertion,  \* webauthn_challenge, under the same names
    fails,      \* the counters of failures, of agents and of challenges
    window,     \* whether the counter has a time to live
    blocked,    \* the blocks, of agents and of challenges
    req,        \* the requests in progress
    \* what clients know, and history variables
    given,      \* the access tokens that were answered to a client
    ended,      \* the sessions a logout deleted
    consumed,   \* the challenges a session was answered for
    tries,      \* passwords checked since the last reset of the counter
    plan, made, edits

counters == <<fails, window, blocked, tries>>
factors == <<challenge, assertion>>
sessions == <<refresh, access>>
world == <<given, ended, consumed>>
bounds == <<plan, edits>>
vars == <<agent, sessions, factors, counters, req, world, bounds, made>>

Serial == 1 .. MaxRequests
Key == Agent \cup Serial

Refresh == [agent : Agent, mfa : BOOLEAN, ttl : BOOLEAN]
Access == [agent : Agent, session : Serial, mfa : BOOLEAN]

Idle == [op |-> None, pc |-> None, n |-> 0, agent |-> None, key |-> None, ch |-> None,
         mfa |-> FALSE, session |-> None, token |-> None, doc |-> None, stale |-> FALSE]

Init ==
    /\ plan \in Plans
    /\ agent \in [Agent -> plan.docs]
    /\ refresh = [r \in Serial |-> None]
    /\ access = [n \in Serial |-> None]
    /\ challenge = [n \in Serial |-> None]
    /\ assertion = [n \in Serial |-> None]
    /\ fails = [k \in Key |-> 0]
    /\ window = [k \in Key |-> FALSE]
    /\ blocked = [k \in Key |-> FALSE]
    /\ tries = [a \in Agent |-> 0]
    /\ req = [c \in Caller |-> Idle]
    /\ given = {} /\ ended = {} /\ consumed = {}
    /\ made = 0 /\ edits = 0

-----------------------------------------------------------------------------
(* The frame of a request.                                                  *)

At(c, p) == req[c].pc = p
Go(c, p) == req' = [req EXCEPT ![c].pc = p]
End(c) == req' = [req EXCEPT ![c] = Idle]

Start(c, r) ==
    /\ req[c] = Idle
    /\ r.op \in plan.kinds
    /\ made < plan.requests
    /\ made' = made + 1
    /\ req' = [req EXCEPT ![c] = [r EXCEPT !.n = made + 1]]

(* isTotpEnabledForUser, hasWebAuthnKeyForUser.                             *)
HasFactor(d) == d.otp \/ d.key

-----------------------------------------------------------------------------
(* The password: authenticateWithLocal and preflightLocalMfa.               *)

(* Mutant: the login does not read the block.                               *)
LoginUnblocked(c, a, ch) ==
    /\ Start(c, [Idle EXCEPT !.op = "login", !.pc = "look", !.agent = a, !.key = a, !.ch = ch,
                             !.stale = ch \in consumed])
    /\ UNCHANGED <<agent, sessions, factors, counters, world, bounds>>

(* The controller reads the block, and the service reads it again. The body *)
(* may hold a code and the challenge it answers.                            *)
AskLogin(c, a, ch) ==
    /\ ~blocked[a]
    /\ Start(c, [Idle EXCEPT !.op = "login", !.pc = "recheck", !.agent = a, !.key = a, !.ch = ch,
                             !.stale = ch \in consumed])
    /\ UNCHANGED <<agent, sessions, factors, counters, world, bounds>>

Recheck(c) ==
    /\ req[c].pc \in {"recheck", "enter"}
    /\ IF blocked[req[c].key] THEN End(c) ELSE Go(c, "look")
    /\ UNCHANGED <<agent, sessions, factors, counters, world, bounds, made>>

(* The preflight counts a failure for a blocked agent.                      *)
AskPreflight(c, a) ==
    /\ Start(c, [Idle EXCEPT !.op = "preflight", !.pc = IF blocked[a] THEN "count" ELSE "look",
                             !.agent = a, !.key = a])
    /\ UNCHANGED <<agent, sessions, factors, counters, world, bounds>>

Look(c) ==
    /\ At(c, "look")
    /\ req' = [req EXCEPT ![c].pc = "password", ![c].doc = agent[req[c].agent]]
    /\ tries' = [tries EXCEPT ![req[c].agent] = @ + 1]
    /\ UNCHANGED <<agent, sessions, factors, fails, window, blocked, world, bounds, made>>

WrongPassword(c) ==
    /\ At(c, "password")
    /\ Go(c, "count")
    /\ UNCHANGED <<agent, sessions, factors, counters, world, bounds, made>>

RightPassword(c) ==
    /\ At(c, "password")
    /\ req[c].doc.there
    /\ req[c].op = "preflight" => req[c].doc.active
    /\ Go(c, "clear")
    /\ UNCHANGED <<agent, sessions, factors, counters, world, bounds, made>>

(* A preflight looks at the state of the agent before it clears anything.   *)
InactivePreflight(c) ==
    /\ At(c, "password")
    /\ req[c].doc.there
    /\ req[c].op = "preflight" /\ ~req[c].doc.active
    /\ End(c)
    /\ tries' = [tries EXCEPT ![req[c].agent] = IF @ = 0 THEN 0 ELSE @ - 1]
    /\ UNCHANGED <<agent, sessions, factors, fails, window, blocked, world, bounds, made>>

-----------------------------------------------------------------------------
(* The counters, of an agent or of a challenge: register...Failure and      *)
(* clear...State.                                                           *)

(* Mutant: a failure blocks only above the threshold.                       *)
CountLate(c) ==
    LET k == req[c].key
        n == fails[k] + 1
    IN  /\ At(c, "count")
        /\ fails' = [fails EXCEPT ![k] = n]
        /\ IF n = 1 THEN Go(c, "window") ELSE IF n <= Threshold THEN End(c) ELSE Go(c, "block")
        /\ UNCHANGED <<agent, sessions, factors, window, blocked, tries, world, bounds, made>>

Count(c) ==
    LET k == req[c].key
        n == fails[k] + 1
    IN  /\ At(c, "count")
        /\ fails' = [fails EXCEPT ![k] = n]
        /\ IF n = 1 THEN Go(c, "window") ELSE IF n < Threshold THEN End(c) ELSE Go(c, "block")
        /\ UNCHANGED <<agent, sessions, factors, window, blocked, tries, world, bounds, made>>

SetWindow(c) ==
    /\ At(c, "window")
    /\ window' = [window EXCEPT ![req[c].key] = fails[req[c].key] > 0]
    /\ End(c)
    /\ UNCHANGED <<agent, sessions, factors, fails, blocked, tries, world, bounds, made>>

SetBlock(c) ==
    /\ At(c, "block")
    /\ blocked' = [blocked EXCEPT ![req[c].key] = TRUE]
    /\ End(c)
    /\ UNCHANGED <<agent, sessions, factors, fails, window, tries, world, bounds, made>>

(* Mutant: a success takes one failure back.                                *)
TakeFailureBack(c) ==
    /\ At(c, "clear")
    /\ fails' = [fails EXCEPT ![req[c].key] = @ - 1]
    /\ window' = [window EXCEPT ![req[c].key] = FALSE]
    /\ tries' = [a \in Agent |-> IF a = req[c].key THEN 0 ELSE tries[a]]
    /\ Go(c, "lift")
    /\ UNCHANGED <<agent, sessions, factors, blocked, world, bounds, made>>

ClearCounter(c) ==
    /\ At(c, "clear")
    /\ fails' = [fails EXCEPT ![req[c].key] = 0]
    /\ window' = [window EXCEPT ![req[c].key] = FALSE]
    /\ tries' = [a \in Agent |-> IF a = req[c].key THEN 0 ELSE tries[a]]
    /\ Go(c, "lift")
    /\ UNCHANGED <<agent, sessions, factors, blocked, world, bounds, made>>

(* What a request does once its password was right.                         *)
AfterPassword(c) ==
    LET r == req[c]
    IN  CASE ~r.doc.active -> End(c)
          [] r.doc.active /\ r.op = "stepUp" -> req' = [req EXCEPT ![c].pc = "mint", ![c].mfa = TRUE]
          [] r.doc.active /\ r.op = "preflight" ->
               IF HasFactor(r.doc) THEN Go(c, "challenge") ELSE End(c)
          [] OTHER ->
               IF ~HasFactor(r.doc) THEN Go(c, "mint")
               ELSE IF r.ch = None THEN Go(c, "challenge")
               ELSE IF r.doc.otp THEN Go(c, "gate") ELSE End(c)

LiftBlock(c) ==
    /\ At(c, "lift")
    /\ blocked' = [blocked EXCEPT ![req[c].key] = FALSE]
    /\ tries' = [a \in Agent |-> IF a = req[c].key THEN 0 ELSE tries[a]]
    /\ IF req[c].key \in Agent THEN AfterPassword(c)
       ELSE Go(c, IF req[c].op = "finish" THEN "drop" ELSE "mint")
    /\ UNCHANGED <<agent, sessions, factors, fails, window, world, bounds, made>>

-----------------------------------------------------------------------------
(* The second factor: a code, or the assertion of a key.                    *)

MakeChallenge(c) ==
    /\ At(c, "challenge")
    /\ challenge' = [challenge EXCEPT ![req[c].n] = req[c].agent]
    /\ End(c)
    /\ UNCHANGED <<agent, sessions, assertion, counters, world, bounds, made>>

(* The login with a code reads the block of its challenge.                  *)
Gate(c) ==
    /\ At(c, "gate")
    /\ IF blocked[req[c].ch] THEN End(c)
       ELSE req' = [req EXCEPT ![c].pc = "get", ![c].key = req[c].ch]
    /\ UNCHANGED <<agent, sessions, factors, counters, world, bounds, made>>

AskVerify(c, ch) ==
    /\ ~blocked[ch]
    /\ Start(c, [Idle EXCEPT !.op = "verify", !.pc = "get", !.key = ch, !.ch = ch,
                             !.stale = ch \in consumed])
    /\ UNCHANGED <<agent, sessions, factors, counters, world, bounds>>

(* verifyTotpChallenge: the challenge, its agent, the code, the deletion.   *)
GetChallenge(c) ==
    /\ At(c, "get")
    /\ IF challenge[req[c].ch] = None THEN Go(c, "count")
       ELSE req' = [req EXCEPT ![c].pc = "code", ![c].doc = challenge[req[c].ch]]
    /\ UNCHANGED <<agent, sessions, factors, counters, world, bounds, made>>

(* The agent is gone or has no code any more: the challenge is deleted.     *)
NoCode(c) ==
    /\ At(c, "code")
    /\ LET d == agent[req[c].doc] IN ~d.there \/ ~d.otp
    /\ challenge' = [challenge EXCEPT ![req[c].ch] = None]
    /\ Go(c, "count")
    /\ UNCHANGED <<agent, sessions, assertion, counters, world, bounds, made>>

WrongCode(c) ==
    /\ At(c, "code")
    /\ LET d == agent[req[c].doc] IN d.there /\ d.otp
    /\ Go(c, "count")
    /\ UNCHANGED <<agent, sessions, factors, counters, world, bounds, made>>

RightCode(c) ==
    /\ At(c, "code")
    /\ LET d == agent[req[c].doc] IN d.there /\ d.otp
    /\ Go(c, "consume")
    /\ UNCHANGED <<agent, sessions, factors, counters, world, bounds, made>>

(* The session is the one of the agent of the challenge; in a login it must *)
(* be the agent of the password.                                            *)
Verified(c) ==
    LET owner == req[c].doc
    IN  IF req[c].op = "login" /\ owner # req[c].agent THEN Go(c, "count")
        ELSE req' = [req EXCEPT ![c].pc = "clear", ![c].agent = owner, ![c].mfa = TRUE]

(* Mutant: the challenge is kept.                                           *)
ChallengeKept(c) ==
    /\ At(c, "consume")
    /\ Verified(c)
    /\ UNCHANGED <<agent, sessions, factors, counters, world, bounds, made>>

ConsumeChallenge(c) ==
    /\ At(c, "consume")
    /\ challenge' = [challenge EXCEPT ![req[c].ch] = None]
    /\ Verified(c)
    /\ UNCHANGED <<agent, sessions, assertion, counters, world, bounds, made>>

(* local/2fa/webauthn/begin: an assertion is asked for under the name of    *)
(* the challenge.                                                           *)
AskBegin(c, ch) ==
    /\ challenge[ch] # None
    /\ LET d == agent[challenge[ch]] IN d.there /\ d.key
    /\ Start(c, [Idle EXCEPT !.op = "begin", !.pc = "ask", !.agent = challenge[ch], !.ch = ch])
    /\ UNCHANGED <<agent, sessions, factors, counters, world, bounds>>

StoreAssertion(c) ==
    /\ At(c, "ask")
    /\ assertion' = [assertion EXCEPT ![req[c].ch] = req[c].agent]
    /\ End(c)
    /\ UNCHANGED <<agent, sessions, challenge, counters, world, bounds, made>>

(* local/2fa/webauthn/finish reads no block.                                *)
AskFinish(c, ch) ==
    /\ Start(c, [Idle EXCEPT !.op = "finish", !.key = ch, !.ch = ch, !.agent = assertion[ch],
                             !.pc = IF assertion[ch] = None THEN "count" ELSE "assert",
                             !.stale = ch \in consumed])
    /\ UNCHANGED <<agent, sessions, factors, counters, world, bounds>>

WrongAssertion(c) ==
    /\ At(c, "assert")
    /\ Go(c, "count")
    /\ UNCHANGED <<agent, sessions, factors, counters, world, bounds, made>>

(* updateWebAuthnSignCount reads the document once more.                    *)
RightAssertion(c) ==
    /\ At(c, "assert")
    /\ LET d == agent[req[c].agent] IN d.there /\ d.key
    /\ req' = [req EXCEPT ![c].pc = "sign", ![c].doc = agent[req[c].agent]]
    /\ UNCHANGED <<agent, sessions, factors, counters, world, bounds, made>>

(* The whole security document is written back with the count of the key.   *)
WriteSignCount(c) ==
    /\ At(c, "sign")
    /\ agent' = [agent EXCEPT ![req[c].agent].otp = req[c].doc.otp,
                              ![req[c].agent].key = req[c].doc.key]
    /\ Go(c, "asserted")
    /\ UNCHANGED <<sessions, factors, counters, world, bounds, made>>

DropAssertion(c) ==
    /\ At(c, "asserted")
    /\ assertion' = [assertion EXCEPT ![req[c].ch] = None]
    /\ req' = [req EXCEPT ![c].pc = "clear", ![c].mfa = TRUE]
    /\ UNCHANGED <<agent, sessions, challenge, counters, world, bounds, made>>

DropChallenge(c) ==
    /\ At(c, "drop")
    /\ challenge' = [challenge EXCEPT ![req[c].ch] = None]
    /\ Go(c, "mint")
    /\ UNCHANGED <<agent, sessions, assertion, counters, world, bounds, made>>

(* mfa/step-up: with a code if the agent has one, else with the password.   *)
AskStepUp(c, n) ==
    /\ access[n] # None
    /\ LET a == access[n].agent
       IN  /\ agent[a].there
           /\ Start(c, [Idle EXCEPT !.op = "stepUp", !.agent = a, !.key = a, !.mfa = agent[a].otp,
                                    !.pc = IF agent[a].otp THEN "mint" ELSE "enter"])
    /\ UNCHANGED <<agent, sessions, factors, counters, world, bounds>>

-----------------------------------------------------------------------------
(* createTokens, renewTokens and clearSession.                              *)

StoreRefresh(c) ==
    /\ At(c, "mint")
    /\ refresh' = [refresh EXCEPT ![req[c].n] =
                     [agent |-> req[c].agent, mfa |-> req[c].mfa, ttl |-> FALSE]]
    /\ req' = [req EXCEPT ![c].pc = "ttl", ![c].session = req[c].n]
    /\ UNCHANGED <<agent, access, factors, counters, world, bounds, made>>

AskRenew(c, r) ==
    /\ r \in given
    /\ refresh[r] # None
    /\ agent[refresh[r].agent].there
    /\ Start(c, [Idle EXCEPT !.op = "renew", !.pc = "ttl", !.agent = refresh[r].agent,
                             !.mfa = refresh[r].mfa, !.session = r, !.stale = r \in ended])
    /\ UNCHANGED <<agent, sessions, factors, counters, world, bounds>>

(* Mutant: a renewal writes its refresh token anew.                         *)
RefreshRewritten(c) ==
    /\ At(c, "ttl")
    /\ refresh' = [refresh EXCEPT ![req[c].session] =
                     [agent |-> req[c].agent, mfa |-> req[c].mfa, ttl |-> TRUE]]
    /\ Go(c, "access")
    /\ UNCHANGED <<agent, access, factors, counters, world, bounds, made>>

(* expire does nothing to a key that is gone.                               *)
ExpireRefresh(c) ==
    /\ At(c, "ttl")
    /\ refresh' = IF refresh[req[c].session] = None THEN refresh
                  ELSE [refresh EXCEPT ![req[c].session].ttl = TRUE]
    /\ Go(c, "access")
    /\ UNCHANGED <<agent, access, factors, counters, world, bounds, made>>

(* The agent is read again and its access token stored: the answer.         *)
StoreAccess(c) ==
    /\ At(c, "access")
    /\ End(c)
    /\ IF agent[req[c].agent].there
       THEN /\ access' = [access EXCEPT ![req[c].n] =
                            [agent |-> req[c].agent, session |-> req[c].session, mfa |-> req[c].mfa]]
            /\ given' = given \cup {req[c].n}
            /\ consumed' = IF req[c].mfa /\ req[c].ch # None
                           THEN consumed \cup {req[c].ch} ELSE consumed
       ELSE UNCHANGED <<access, given, consumed>>
    /\ UNCHANGED <<agent, refresh, factors, counters, ended, bounds, made>>

(* The session of a logout is the one its access token names, if that one   *)
(* is still stored.                                                         *)
AskLogout(c, n) ==
    /\ n \in given
    /\ Start(c, [Idle EXCEPT !.op = "logout", !.pc = "delAccess", !.token = n,
                             !.session = IF access[n] = None THEN None ELSE access[n].session])
    /\ UNCHANGED <<agent, sessions, factors, counters, world, bounds>>

DeleteAccess(c) ==
    /\ At(c, "delAccess")
    /\ access' = [access EXCEPT ![req[c].token] = None]
    /\ IF req[c].session = None THEN End(c) ELSE Go(c, "delRefresh")
    /\ UNCHANGED <<agent, refresh, factors, counters, world, bounds, made>>

DeleteRefresh(c) ==
    /\ At(c, "delRefresh")
    /\ refresh' = [refresh EXCEPT ![req[c].session] = None]
    /\ ended' = ended \cup {req[c].session}
    /\ End(c)
    /\ UNCHANGED <<agent, access, factors, counters, given, consumed, bounds, made>>

-----------------------------------------------------------------------------
(* Keys expire; an administrator or the agent changes the document, to any  *)
(* of those the plan explores.                                              *)

(* Mutant: access tokens are stored without a time to live.                 *)
AccessKept(n) ==
    /\ access[n] # None
    /\ UNCHANGED vars

AccessExpires(n) ==
    /\ access[n] # None
    /\ access' = [access EXCEPT ![n] = None]
    /\ UNCHANGED <<agent, refresh, factors, counters, req, world, bounds, made>>

RefreshExpires(r) ==
    /\ refresh[r] # None
    /\ refresh[r].ttl
    /\ refresh' = [refresh EXCEPT ![r] = None]
    /\ UNCHANGED <<agent, access, factors, counters, req, world, bounds, made>>

ChallengeExpires(ch) ==
    /\ challenge[ch] # None
    /\ challenge' = [challenge EXCEPT ![ch] = None]
    /\ UNCHANGED <<agent, sessions, assertion, counters, req, world, bounds, made>>

AssertionExpires(ch) ==
    /\ assertion[ch] # None
    /\ assertion' = [assertion EXCEPT ![ch] = None]
    /\ UNCHANGED <<agent, sessions, challenge, counters, req, world, bounds, made>>

WindowEnds(k) ==
    /\ window[k]
    /\ fails' = [fails EXCEPT ![k] = 0]
    /\ window' = [window EXCEPT ![k] = FALSE]
    /\ tries' = [a \in Agent |-> IF a = k THEN 0 ELSE tries[a]]
    /\ UNCHANGED <<agent, sessions, factors, blocked, req, world, bounds, made>>

BlockEnds(k) ==
    /\ blocked[k]
    /\ blocked' = [blocked EXCEPT ![k] = FALSE]
    /\ tries' = [a \in Agent |-> IF a = k THEN 0 ELSE tries[a]]
    /\ UNCHANGED <<agent, sessions, factors, fails, window, req, world, bounds, made>>

EditAgent(a) ==
    /\ edits < plan.edits
    /\ edits' = edits + 1
    /\ agent[a].there
    /\ \E d \in plan.docs : agent' = [agent EXCEPT ![a] = d]
    /\ UNCHANGED <<sessions, factors, counters, req, world, plan, made>>

-----------------------------------------------------------------------------
Step(c) ==
    \/ Recheck(c) \/ Look(c) \/ WrongPassword(c) \/ RightPassword(c) \/ InactivePreflight(c)
    \/ Count(c) \/ SetWindow(c) \/ SetBlock(c) \/ ClearCounter(c) \/ LiftBlock(c)
    \/ MakeChallenge(c) \/ Gate(c) \/ GetChallenge(c)
    \/ NoCode(c) \/ WrongCode(c) \/ RightCode(c) \/ ConsumeChallenge(c)
    \/ StoreAssertion(c) \/ WrongAssertion(c) \/ RightAssertion(c)
    \/ WriteSignCount(c) \/ DropAssertion(c) \/ DropChallenge(c)
    \/ StoreRefresh(c) \/ ExpireRefresh(c) \/ StoreAccess(c)
    \/ DeleteAccess(c) \/ DeleteRefresh(c)

(* A client knows the challenges of the requests made so far.               *)
Ask(c) ==
    \/ \E a \in Agent : AskPreflight(c, a)
    \/ \E a \in Agent, ch \in {None} \cup 1 .. made : AskLogin(c, a, ch)
    \/ \E ch \in 1 .. made : AskVerify(c, ch) \/ AskBegin(c, ch) \/ AskFinish(c, ch)
    \/ \E n \in 1 .. made : AskStepUp(c, n) \/ AskRenew(c, n) \/ AskLogout(c, n)

Expiry ==
    \/ \E n \in Serial : AccessExpires(n) \/ RefreshExpires(n)
    \/ \E n \in Serial : ChallengeExpires(n) \/ AssertionExpires(n)
    \/ \E k \in Key : WindowEnds(k) \/ BlockEnds(k)

Next == (\E c \in Caller : Ask(c) \/ Step(c)) \/ Expiry \/ \E a \in Agent : EditAgent(a)

Spec == Init /\ [][Next]_vars

(* A request in progress goes on, and Redis removes what has expired.       *)
Fairness ==
    /\ \A c \in Caller : WF_vars(Step(c))
    /\ \A n \in Serial : WF_vars(AccessExpires(n))

FairSpec == Spec /\ Fairness

-----------------------------------------------------------------------------
(* The variables keep their types; a session is one that was minted.        *)
TypeOK ==
    /\ agent \in [Agent -> Doc]
    /\ refresh \in [Serial -> Refresh \cup {None}]
    /\ access \in [Serial -> Access \cup {None}]
    /\ challenge \in [Serial -> Agent \cup {None}]
    /\ assertion \in [Serial -> Agent \cup {None}]
    /\ fails \in [Key -> Nat]
    /\ window \in [Key -> BOOLEAN]
    /\ blocked \in [Key -> BOOLEAN]
    /\ tries \in [Agent -> Nat]
    /\ given \subseteq Serial /\ ended \subseteq Serial /\ consumed \subseteq Serial
    /\ plan \in Plans /\ made \in 0 .. plan.requests /\ edits \in 0 .. plan.edits
    /\ DOMAIN req = Caller
    /\ \A c \in Caller : req[c] = Idle \/ (req[c].op \in plan.kinds /\ req[c].pc \in Pcs
                                            /\ req[c].n \in 1 .. made)

(* A session that a logout deleted never exists again, whatever renewals    *)
(* read its refresh token before: renewing only prolongs a key that exists. *)
EndedStaysEnded == \A r \in ended : refresh[r] = None

(* A challenge is good for the requests already in progress: one that names *)
(* a challenge a session was answered for gets no verified session.         *)
ChallengeOnce ==
    \A c \in Caller :
        req[c].op \in {"login", "verify"} /\ req[c].stale => ~req[c].mfa

(* At most Threshold - 1 passwords of the watched agent are checked before  *)
(* a request is at the call that blocks, and one more by each request in    *)
(* progress (validateUser).                                                 *)
TriesBounded == tries[Watched] <= Threshold - 1 + Cardinality(Caller)

(* After a logout the access tokens of the session disappear, those that a  *)
(* renewal in progress stores a moment later included, and stay away.       *)
LogoutTakesEffect ==
    \A r \in Serial :
        (r \in ended) ~> [](\A n \in Serial : access[n] = None \/ access[n].session # r)

(* Where a request is in the terms of the counters of the watched agent.    *)
Place(r) ==
    IF r.key # Watched THEN "out"
    ELSE CASE r.pc \in {"recheck", "look"} -> "in"
           [] r.pc \in {"password", "clear"} -> "trying"
           [] r.pc = "count" -> IF r.doc = None THEN "knock" ELSE "trying"
           [] r.pc \in {"window", "block", "lift"} -> r.pc
           [] OTHER -> "out"

T == INSTANCE Throttle WITH
       fails <- fails[Watched], window <- window[Watched], blocked <- blocked[Watched],
       tries <- tries[Watched], at <- [c \in Caller |-> Place(req[c])]

(* The login, the preflight and the step-up with a password implement the   *)
(* counters Throttle specifies.                                             *)
LoginIsThrottled == T!Spec
=============================================================================
