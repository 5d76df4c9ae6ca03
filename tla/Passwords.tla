------------------------------ MODULE Passwords ------------------------------
(* Passwords of identities: the reset by a code, the invitation to set a    *)
(* first password and its answer, the change with the old password, the     *)
(* history that forbids the last passwords, and the counters that block the *)
(* change after failures (passwd.service.ts, password-history.service.ts).  *)
(*                                                                          *)
(* Each request is a process; one action is what a request does between two *)
(* awaits. The tokens live in Redis, one key per token, and the document of *)
(* an identity in MongoDB. A request works on the document it read (snap),  *)
(* and mongoose writes back only the fields the request changed.            *)
EXTENDS Integers, FiniteSets

CONSTANTS
    None,
    Identity,
    Password,
    Caller,       \* the requests in progress at once
    Plans,        \* the mixes of requests explored: their kinds and how many
    Plains,       \* whether a token reads the same once encoded for a URL
    Forms,        \* how a client gives a token back: "encoded" or "raw"
    Threshold,    \* BRUTEFORCE_THRESHOLD
    MaxHistory,   \* passwordHistoryCount of the policy
    MayFail,      \* whether a write to MongoDB or the mail server may fail
    MaxRequests,  \* bound: requests made, in any plan
    Watched       \* the identity whose counters are mapped to Throttle

Kinds == {"initReset", "initAccount", "resetByCode", "reset", "change"}

(* The awaits a request stops at.                                           *)
Pcs == {"pad", "setPad", "token", "ttl", "mail", "sent", "find", "reuse", "job", "del", "save",
        "record", "insert", "trim", "delete", "expiry", "count", "window", "block", "clear",
        "lift"}

ASSUME PasswordsAssumption ==
    /\ Threshold \in Nat /\ Threshold >= 2
    /\ MaxHistory \in Nat /\ MaxHistory >= 1
    /\ MaxRequests \in Nat
    /\ Plans \subseteq [kinds : SUBSET Kinds, requests : 0 .. MaxRequests, edits : Nat]
    /\ MayFail \in BOOLEAN /\ Plains \subseteq BOOLEAN
    /\ Forms \subseteq {"encoded", "raw"}
    /\ Watched \in Identity /\ IsFiniteSet(Caller)
    /\ None \notin Caller \cup Identity \cup Password
    /\ None \notin Kinds \cup Pcs /\ None \notin Nat

VARIABLES
    doc,        \* the status, the state and the invitation of each identity
    backend,    \* the password in force in the backends
    tokens,     \* the tokens stored in Redis, by the request that made them
    pad,        \* CODEPADDING, named by the request that generated it
    history,    \* the passwords recorded for each identity
    req,        \* the requests in progress
    fails,      \* passwd:bf:fail of each identity, 0 when absent
    window,     \* whether that key has a time to live
    blocked,    \* passwd:bf:block of each identity
    \* what clients know, and history variables
    known,      \* the tokens handed to their owners
    spent,      \* the tokens a success was answered for
    recorded,   \* every password ever recorded
    raced,      \* two requests generated the padding at once
    broken,     \* a request failed after the backends took its password
    tries,      \* passwords sent to the backends since the last reset
    clock,      \* the time, as far as the records of passwords tell it
    plan,       \* the mix of requests of this behaviour
    made,       \* requests made so far
    edits       \* changes of the identities from elsewhere so far

redis == <<tokens, pad>>
counters == <<fails, window, blocked, tries>>
world == <<known, spent, raced>>
past == <<history, recorded>>
vars == <<doc, backend, redis, past, req, counters, world, broken, made, edits, clock, plan>>

Token == 1 .. MaxRequests
Resets == {"resetByCode", "reset"}

DataStatus == {"ACTIVE", "NOTINITIALIZED", "INACTIVE"}
InitState == {"NOSENT", "SENT", "INITIALIZED"}
Doc == [synced : BOOLEAN, data : DataStatus, init : InitState]
Entry == [id : Identity, pad : Caller \cup {None}, ttl : BOOLEAN, plain : BOOLEAN]
Record == [at : Nat, pw : Password]

ASSUME EntryAssumption == None \notin Entry

Idle == [op |-> None, pc |-> None, id |-> None, token |-> None, entry |-> None,
         right |-> FALSE, form |-> None, pw |-> None, snap |-> None, at |-> 0,
         extra |-> {}, stale |-> FALSE]

Init ==
    /\ doc \in [Identity -> [synced : {TRUE}, data : {"NOTINITIALIZED"}, init : {"NOSENT"}]]
    /\ backend = [i \in Identity |-> None]
    /\ tokens = [t \in Token |-> None]
    /\ pad = None
    /\ history = [i \in Identity |-> {}]
    /\ recorded = [i \in Identity |-> {}]
    /\ req = [c \in Caller |-> Idle]
    /\ fails = [i \in Identity |-> 0]
    /\ window = [i \in Identity |-> FALSE]
    /\ blocked = [i \in Identity |-> FALSE]
    /\ tries = [i \in Identity |-> 0]
    /\ known = {} /\ spent = {}
    /\ raced = FALSE /\ broken = FALSE
    /\ clock = 0 /\ made = 0 /\ edits = 0
    /\ plan \in Plans

-----------------------------------------------------------------------------
(* The frame of a request.                                                  *)

Owner(c) == req[c].id
At(c, p) == req[c].pc = p
Go(c, p) == req' = [req EXCEPT ![c].pc = p]
End(c) == req' = [req EXCEPT ![c] = Idle]

Start(c, r) ==
    /\ req[c] = Idle
    /\ r.op \in plan.kinds
    /\ made < plan.requests
    /\ made' = made + 1
    /\ req' = [req EXCEPT ![c] = r]

(* The catch of a request whose password was already sent: change counts a  *)
(* failure, shouldCountFailure being true from there on.                    *)
Catch(c) == IF req[c].op = "change" THEN Go(c, "count") ELSE End(c)

-----------------------------------------------------------------------------
(* Tokens: askToken and getPaddingForCode.                                  *)

(* initReset: an unknown, INACTIVE or DELETED identity gets a token that is *)
(* stored nowhere, which changes nothing.                                   *)
AskReset(c, i) ==
    /\ doc[i].data # "INACTIVE"
    /\ Start(c, [Idle EXCEPT !.op = "initReset", !.pc = "pad", !.id = i, !.token = made + 1])
    /\ UNCHANGED <<doc, backend, redis, past, counters, world, broken, edits, clock, plan>>

(* initAccount, by itself or for one of the identities of initMany.         *)
AskInit(c, i) ==
    /\ doc[i].synced
    /\ doc[i].data # "INACTIVE"
    /\ Start(c, [Idle EXCEPT !.op = "initAccount", !.pc = "token", !.id = i,
                             !.token = made + 1, !.snap = doc[i]])
    /\ UNCHANGED <<doc, backend, redis, past, counters, world, broken, edits, clock, plan>>

(* A token and its code open when the key they were encrypted with is found *)
(* again; the key of a link is stored with it and needs no code.            *)
Opens(c, padding) == req[c].right /\ req[c].entry.pad = padding

(* What follows the padding: the token is encrypted, or decrypted.          *)
Padded(c, padding) ==
    IF req[c].op = "initReset"
    THEN req' = [req EXCEPT ![c].pc = "token", ![c].entry = [pad |-> padding]]
    ELSE IF Opens(c, padding) THEN Go(c, "find") ELSE End(c)

(* Mutant: the padding is generated for every request.                      *)
PaddingAlwaysGenerated(c) ==
    /\ At(c, "pad")
    /\ Go(c, "setPad")
    /\ UNCHANGED <<doc, backend, redis, past, counters, world, broken, made, edits, clock, plan>>

ReadPadding(c) ==
    /\ At(c, "pad")
    /\ IF pad # None THEN Padded(c, pad) ELSE Go(c, "setPad")
    /\ UNCHANGED <<doc, backend, redis, past, counters, world, broken, made, edits, clock, plan>>

SetPadding(c) ==
    /\ At(c, "setPad")
    /\ pad' = c
    /\ raced' = (raced \/ \E d \in Caller \ {c} : At(d, "setPad"))
    /\ Padded(c, c)
    /\ UNCHANGED <<doc, backend, tokens, past, counters, known, spent, broken, made, edits, clock, plan>>

StoreToken(c) ==
    /\ At(c, "token")
    /\ \E p \in Plains : tokens' = [tokens EXCEPT ![req[c].token] =
         [id |-> Owner(c), ttl |-> FALSE, plain |-> p,
          pad |-> IF req[c].op = "initReset" THEN req[c].entry.pad ELSE None]]
    /\ Go(c, "ttl")
    /\ UNCHANGED <<doc, backend, pad, past, counters, world, broken, made, edits, clock, plan>>

(* initReset answers the token without waiting for the mail to be sent.     *)
ExpireToken(c) ==
    /\ At(c, "ttl")
    /\ tokens' = [tokens EXCEPT ![req[c].token].ttl = TRUE]
    /\ IF req[c].op = "initReset"
       THEN End(c) /\ known' = known \cup {req[c].token}
       ELSE Go(c, "mail") /\ UNCHANGED known
    /\ UNCHANGED <<doc, backend, pad, past, counters, spent, raced, broken, made, edits, clock, plan>>

SendInvitation(c) ==
    /\ At(c, "mail")
    /\ known' = known \cup {req[c].token}
    /\ Go(c, "sent")
    /\ UNCHANGED <<doc, backend, redis, past, counters, spent, raced, broken, made, edits, clock, plan>>

MailFails(c) ==
    /\ MayFail
    /\ At(c, "mail")
    /\ End(c)
    /\ UNCHANGED <<doc, backend, redis, past, counters, world, broken, made, edits, clock, plan>>

(* setInitState on the document read at the start: a field that already had *)
(* its new value is not written.                                            *)
Saved(now, snap, s) ==
    [now EXCEPT !.init = IF snap.init = s THEN @ ELSE s,
                !.data = IF snap.data = "ACTIVE" THEN @ ELSE "ACTIVE"]

MarkSent(c) ==
    /\ At(c, "sent")
    /\ doc' = [doc EXCEPT ![Owner(c)] = Saved(@, req[c].snap, "SENT")]
    /\ End(c)
    /\ UNCHANGED <<backend, redis, past, counters, world, broken, made, edits, clock, plan>>

-----------------------------------------------------------------------------
(* The three ways to set a password.                                        *)

(* resetByCode: the policy is checked, then the token read. A password the  *)
(* policy refuses, or a token that is not stored, changes nothing.          *)
UseCode(c, t, p) ==
    /\ t \in known
    /\ tokens[t] # None
    /\ \E right \in BOOLEAN, f \in Forms :
         Start(c, [Idle EXCEPT !.op = "resetByCode", !.pc = "pad", !.id = tokens[t].id,
                               !.token = t, !.entry = tokens[t], !.pw = p, !.right = right,
                               !.form = f, !.stale = t \in spent])
    /\ UNCHANGED <<doc, backend, redis, past, counters, world, broken, edits, clock, plan>>

(* reset: any stored token is opened with the key stored beside it.         *)
UseLink(c, t, p) ==
    /\ t \in known
    /\ tokens[t] # None
    /\ \E f \in Forms :
         Start(c, [Idle EXCEPT !.op = "reset", !.pc = "find", !.id = tokens[t].id,
                               !.token = t, !.entry = tokens[t], !.pw = p, !.form = f,
                               !.stale = t \in spent])
    /\ UNCHANGED <<doc, backend, redis, past, counters, world, broken, edits, clock, plan>>

(* Mutant: the block is not read.                                           *)
ChangeUnblocked(c, i, p) ==
    /\ Start(c, [Idle EXCEPT !.op = "change", !.pc = "find", !.id = i, !.pw = p])
    /\ UNCHANGED <<doc, backend, redis, past, counters, world, broken, edits, clock, plan>>

(* change: the block of the uid is read first.                              *)
AskChange(c, i, p) ==
    /\ ~blocked[i]
    /\ Start(c, [Idle EXCEPT !.op = "change", !.pc = "find", !.id = i, !.pw = p])
    /\ UNCHANGED <<doc, backend, redis, past, counters, world, broken, edits, clock, plan>>

(* Which documents each request accepts.                                    *)
Accepts(c, d) ==
    /\ req[c].op \in {"reset", "change"} => d.synced
    /\ req[c].op = "change" => d.data # "INACTIVE"

Find(c) ==
    /\ At(c, "find")
    /\ Accepts(c, doc[Owner(c)])
    /\ req' = [req EXCEPT ![c].pc = "reuse", ![c].snap = doc[Owner(c)]]
    /\ UNCHANGED <<doc, backend, redis, past, counters, world, broken, made, edits, clock, plan>>

(* Not found, not active, or, in change, refused by the policy.             *)
NotAccepted(c) ==
    /\ At(c, "find")
    /\ req[c].op = "change" \/ ~Accepts(c, doc[Owner(c)])
    /\ End(c)
    /\ UNCHANGED <<doc, backend, redis, past, counters, world, broken, made, edits, clock, plan>>

(* The MaxHistory newest of a set of records.                               *)
Newest(rs) == {r \in rs : Cardinality({s \in rs : s.at > r.at}) < MaxHistory}

Reused(c) == \E r \in Newest(history[Owner(c)]) : r.pw = req[c].pw

(* assertNotReused; from here on the password is sent to the backends.      *)
CheckReuse(c) ==
    /\ At(c, "reuse")
    /\ ~Reused(c)
    /\ Go(c, "job")
    /\ tries' = IF req[c].op = "change" THEN [tries EXCEPT ![Owner(c)] = @ + 1] ELSE tries
    /\ UNCHANGED <<doc, backend, redis, past, fails, window, blocked, world, broken, made, edits, clock, plan>>

RefuseReuse(c) ==
    /\ At(c, "reuse")
    /\ Reused(c)
    /\ End(c)
    /\ UNCHANGED <<doc, backend, redis, past, counters, world, broken, made, edits, clock, plan>>

(* executeJob: the backends set the password, and a reset deletes its token *)
(* before it writes anything.                                               *)
JobSucceeds(c) ==
    /\ At(c, "job")
    /\ backend' = [backend EXCEPT ![Owner(c)] = req[c].pw]
    /\ Go(c, IF req[c].op \in Resets THEN "del" ELSE "save")
    /\ UNCHANGED <<doc, redis, past, counters, world, broken, made, edits, clock, plan>>

(* The wrong old password, or an error of a backend.                        *)
JobFails(c) ==
    /\ At(c, "job")
    /\ Catch(c)
    /\ UNCHANGED <<doc, backend, redis, past, counters, world, broken, made, edits, clock, plan>>

(* The API gives up waiting for a job the daemon carries out all the same.  *)
JobTimesOut(c) ==
    /\ MayFail
    /\ At(c, "job")
    /\ backend' = [backend EXCEPT ![Owner(c)] = req[c].pw]
    /\ broken' = TRUE
    /\ Catch(c)
    /\ UNCHANGED <<doc, redis, past, counters, world, made, edits, clock, plan>>

(* Mutant: the token is kept.                                               *)
TokenKept(c) ==
    /\ At(c, "del")
    /\ Go(c, "save")
    /\ UNCHANGED <<doc, backend, redis, past, counters, world, broken, made, edits, clock, plan>>

(* redis.del of the token as the client gave it: the stored key is the      *)
(* token before it was encoded.                                             *)
DeleteToken(c) ==
    /\ At(c, "del")
    /\ tokens' = IF req[c].form = "raw" \/ req[c].entry.plain
                 THEN [tokens EXCEPT ![req[c].token] = None] ELSE tokens
    /\ Go(c, "save")
    /\ UNCHANGED <<doc, backend, pad, past, counters, world, broken, made, edits, clock, plan>>

(* The identity becomes ACTIVE: by an update in change, by a save of the    *)
(* document read before the job in the two resets.                          *)
Activated(c) ==
    LET now == doc[Owner(c)]
        snap == req[c].snap
    IN  CASE req[c].op = "change" -> [now EXCEPT !.data = "ACTIVE"]
          [] req[c].op = "resetByCode" -> Saved(now, snap, snap.init)
          [] OTHER -> Saved(now, snap, "INITIALIZED")

Activate(c) ==
    /\ At(c, "save")
    /\ doc' = [doc EXCEPT ![Owner(c)] = Activated(c)]
    /\ Go(c, "record")
    /\ UNCHANGED <<backend, redis, past, counters, world, broken, made, edits, clock, plan>>

-----------------------------------------------------------------------------
(* recordPassword and enforceMaxHistory.                                    *)

(* Mutant: a change records nothing.                                        *)
StampReset(c) ==
    /\ At(c, "record")
    /\ IF req[c].op = "change"
       THEN Go(c, "expiry") /\ UNCHANGED clock
       ELSE /\ clock' = clock + 1
            /\ req' = [req EXCEPT ![c].pc = "insert", ![c].at = clock + 1]
    /\ UNCHANGED <<doc, backend, redis, past, counters, world, broken, made, edits, plan>>

(* The stamp of a record, createdAt, is set before the record is inserted.  *)
Stamp(c) ==
    /\ At(c, "record")
    /\ clock' = clock + 1
    /\ req' = [req EXCEPT ![c].pc = "insert", ![c].at = clock + 1]
    /\ UNCHANGED <<doc, backend, redis, past, counters, world, broken, made, edits, plan>>

Insert(c) ==
    /\ At(c, "insert")
    /\ LET r == [at |-> req[c].at, pw |-> req[c].pw]
       IN  /\ history' = [history EXCEPT ![Owner(c)] = @ \cup {r}]
           /\ recorded' = [recorded EXCEPT ![Owner(c)] = @ \cup {r}]
    /\ Go(c, "trim")
    /\ UNCHANGED <<doc, backend, redis, counters, world, broken, made, edits, clock, plan>>

(* Mutant: the records are listed from the oldest on.                       *)
ListNewest(c) ==
    /\ At(c, "trim")
    /\ LET rs == history[Owner(c)]
           extra == {r \in rs : Cardinality({s \in rs : s.at < r.at}) >= MaxHistory}
       IN  req' = [req EXCEPT ![c].pc = IF extra = {} THEN "expiry" ELSE "delete",
                              ![c].extra = extra]
    /\ UNCHANGED <<doc, backend, redis, past, counters, world, broken, made, edits, clock, plan>>

ListExtra(c) ==
    /\ At(c, "trim")
    /\ LET extra == history[Owner(c)] \ Newest(history[Owner(c)])
       IN  req' = [req EXCEPT ![c].pc = IF extra = {} THEN "expiry" ELSE "delete",
                              ![c].extra = extra]
    /\ UNCHANGED <<doc, backend, redis, past, counters, world, broken, made, edits, clock, plan>>

DeleteExtra(c) ==
    /\ At(c, "delete")
    /\ history' = [history EXCEPT ![Owner(c)] = @ \ req[c].extra]
    /\ Go(c, "expiry")
    /\ UNCHANGED <<doc, backend, redis, recorded, counters, world, broken, made, edits, clock, plan>>

(* updatePasswordUsageExpiration, the last write; a reset is then answered. *)
SetExpiry(c) ==
    /\ At(c, "expiry")
    /\ IF req[c].op = "change"
       THEN Go(c, "clear") /\ UNCHANGED spent
       ELSE End(c) /\ spent' = spent \cup {req[c].token}
    /\ UNCHANGED <<doc, backend, redis, past, counters, known, raced, broken, made, edits, clock, plan>>

(* A write to MongoDB fails after the backends took the password.           *)
WriteFails(c) ==
    /\ MayFail
    /\ req[c].pc \in {"save", "insert", "trim", "delete", "expiry"}
    /\ broken' = TRUE
    /\ Catch(c)
    /\ UNCHANGED <<doc, backend, redis, past, counters, world, made, edits, clock, plan>>

-----------------------------------------------------------------------------
(* The counters of change.                                                  *)

(* Mutant: a failure blocks only above the threshold.                       *)
CountLate(c) ==
    LET i == Owner(c)
        n == fails[i] + 1
    IN  /\ At(c, "count")
        /\ fails' = [fails EXCEPT ![i] = n]
        /\ IF n = 1 THEN Go(c, "window") ELSE IF n <= Threshold THEN End(c) ELSE Go(c, "block")
        /\ UNCHANGED <<doc, backend, redis, past, window, blocked, tries, world, broken, made, edits, clock, plan>>

Count(c) ==
    LET i == Owner(c)
        n == fails[i] + 1
    IN  /\ At(c, "count")
        /\ fails' = [fails EXCEPT ![i] = n]
        /\ IF n = 1 THEN Go(c, "window") ELSE IF n < Threshold THEN End(c) ELSE Go(c, "block")
        /\ UNCHANGED <<doc, backend, redis, past, window, blocked, tries, world, broken, made, edits, clock, plan>>

SetWindow(c) ==
    /\ At(c, "window")
    /\ window' = [window EXCEPT ![Owner(c)] = fails[Owner(c)] > 0]
    /\ End(c)
    /\ UNCHANGED <<doc, backend, redis, past, fails, blocked, tries, world, broken, made, edits, clock, plan>>

SetBlock(c) ==
    /\ At(c, "block")
    /\ blocked' = [blocked EXCEPT ![Owner(c)] = TRUE]
    /\ End(c)
    /\ UNCHANGED <<doc, backend, redis, past, fails, window, tries, world, broken, made, edits, clock, plan>>

(* Mutant: a success takes one failure back instead of deleting them.       *)
TakeFailureBack(c) ==
    /\ At(c, "clear")
    /\ fails' = [fails EXCEPT ![Owner(c)] = @ - 1]
    /\ window' = [window EXCEPT ![Owner(c)] = FALSE]
    /\ tries' = [tries EXCEPT ![Owner(c)] = 0]
    /\ Go(c, "lift")
    /\ UNCHANGED <<doc, backend, redis, past, blocked, world, broken, made, edits, clock, plan>>

ClearCounter(c) ==
    /\ At(c, "clear")
    /\ fails' = [fails EXCEPT ![Owner(c)] = 0]
    /\ window' = [window EXCEPT ![Owner(c)] = FALSE]
    /\ tries' = [tries EXCEPT ![Owner(c)] = 0]
    /\ Go(c, "lift")
    /\ UNCHANGED <<doc, backend, redis, past, blocked, world, broken, made, edits, clock, plan>>

LiftBlock(c) ==
    /\ At(c, "lift")
    /\ blocked' = [blocked EXCEPT ![Owner(c)] = FALSE]
    /\ tries' = [tries EXCEPT ![Owner(c)] = 0]
    /\ End(c)
    /\ UNCHANGED <<doc, backend, redis, past, fails, window, world, broken, made, edits, clock, plan>>

-----------------------------------------------------------------------------
(* What happens elsewhere: keys expire, an identity is disabled, enabled or *)
(* sent to the backends again.                                              *)

TokenExpires(t) ==
    /\ tokens[t] # None
    /\ tokens[t].ttl
    /\ tokens' = [tokens EXCEPT ![t] = None]
    /\ UNCHANGED <<doc, backend, pad, past, req, counters, world, broken, made, edits, clock, plan>>

WindowEnds(i) ==
    /\ window[i]
    /\ fails' = [fails EXCEPT ![i] = 0]
    /\ window' = [window EXCEPT ![i] = FALSE]
    /\ tries' = [tries EXCEPT ![i] = 0]
    /\ UNCHANGED <<doc, backend, redis, past, req, blocked, world, broken, made, edits, clock, plan>>

BlockEnds(i) ==
    /\ blocked[i]
    /\ blocked' = [blocked EXCEPT ![i] = FALSE]
    /\ tries' = [tries EXCEPT ![i] = 0]
    /\ UNCHANGED <<doc, backend, redis, past, req, fails, window, world, broken, made, edits, clock, plan>>

Edit(i) ==
    /\ edits < plan.edits
    /\ edits' = edits + 1
    /\ \E d \in {"ACTIVE", "INACTIVE"}, s \in BOOLEAN :
         doc' = [doc EXCEPT ![i] = [@ EXCEPT !.data = d, !.synced = s]]
    /\ UNCHANGED <<backend, redis, past, req, counters, world, broken, made, clock, plan>>

Step(c) ==
    \/ ReadPadding(c) \/ SetPadding(c)
    \/ StoreToken(c) \/ ExpireToken(c)
    \/ SendInvitation(c) \/ MailFails(c) \/ MarkSent(c)
    \/ Find(c) \/ NotAccepted(c) \/ CheckReuse(c) \/ RefuseReuse(c)
    \/ JobSucceeds(c) \/ JobFails(c) \/ JobTimesOut(c)
    \/ DeleteToken(c) \/ Activate(c)
    \/ Stamp(c) \/ Insert(c) \/ ListExtra(c) \/ DeleteExtra(c)
    \/ SetExpiry(c) \/ WriteFails(c)
    \/ Count(c) \/ SetWindow(c) \/ SetBlock(c) \/ ClearCounter(c) \/ LiftBlock(c)

Ask(c) ==
    \/ \E i \in Identity : AskReset(c, i) \/ AskInit(c, i)
    \/ \E i \in Identity, p \in Password : AskChange(c, i, p)
    \/ \E t \in Token, p \in Password : UseCode(c, t, p) \/ UseLink(c, t, p)

Elsewhere ==
    \/ \E t \in Token : TokenExpires(t)
    \/ \E i \in Identity : WindowEnds(i) \/ BlockEnds(i) \/ Edit(i)

Next == (\E c \in Caller : Ask(c) \/ Step(c)) \/ Elsewhere

Spec == Init /\ [][Next]_vars

-----------------------------------------------------------------------------
(* The variables keep their types; a request in progress has an owner.      *)
TypeOK ==
    /\ doc \in [Identity -> Doc]
    /\ backend \in [Identity -> Password \cup {None}]
    /\ tokens \in [Token -> Entry \cup {None}]
    /\ pad \in Caller \cup {None}
    /\ fails \in [Identity -> Nat]
    /\ window \in [Identity -> BOOLEAN]
    /\ blocked \in [Identity -> BOOLEAN]
    /\ tries \in [Identity -> Nat]
    /\ known \subseteq Token /\ spent \subseteq Token
    /\ raced \in BOOLEAN /\ broken \in BOOLEAN
    /\ plan \in Plans /\ made \in 0 .. plan.requests /\ edits \in 0 .. plan.edits
    /\ clock \in Nat
    /\ DOMAIN req = Caller
    /\ \A c \in Caller : req[c] = Idle \/ (req[c].id \in Identity /\ req[c].pc \in Pcs)
    /\ \A i \in Identity : history[i] \subseteq recorded[i] /\ recorded[i] \subseteq Record

(* No request of an identity is in progress.                                *)
Quiet(i) == \A c \in Caller : req[c].id # i

(* A request whose token was already spent when it began never gets its     *)
(* password to the backends.                                                *)
SpentTokenRefused ==
    \A c \in Caller : req[c].stale => req[c].pc \notin {"job", "del", "save", "record", "expiry"}

(* A stored code opens with the padding in force, whatever requests came    *)
(* between, unless two requests generated the first padding at once.        *)
StoredTokenOpens ==
    \A t \in Token : tokens[t] # None => tokens[t].pad \in {None, pad} \/ raced

(* However the records of several requests interleave, at rest the history  *)
(* of an identity holds the newest MaxHistory passwords ever recorded, and  *)
(* nothing else.                                                            *)
HistoryKeepsNewest ==
    \A i \in Identity : Quiet(i) /\ ~broken => history[i] = Newest(recorded[i])

(* At rest, the password in force is one the history forbids to reuse, as   *)
(* long as no more requests overlap than the history holds passwords.       *)
InForceIsRecorded ==
    Cardinality(Caller) <= MaxHistory => \A i \in Identity :
        Quiet(i) /\ ~broken /\ backend[i] # None =>
            \E r \in history[i] : r.pw = backend[i]

(* At most Threshold - 1 passwords of the watched identity are tried before *)
(* a request is at the call that blocks, and one more by each request in    *)
(* progress (change).                                                       *)
TriesBounded == tries[Watched] <= Threshold - 1 + Cardinality(Caller)

(* Where a change of the watched identity is in the terms of Throttle.      *)
Place(r) ==
    IF r.op # "change" \/ r.id # Watched THEN "out"
    ELSE CASE r.pc \in {"find", "reuse"} -> "in"
           [] r.pc \in {"window", "block", "lift"} -> r.pc
           [] OTHER -> "trying"

T == INSTANCE Throttle WITH
       fails <- fails[Watched], window <- window[Watched], blocked <- blocked[Watched],
       tries <- tries[Watched], at <- [c \in Caller |-> Place(req[c])]

(* The change of a password implements the counters Throttle specifies.     *)
ChangeIsThrottled == T!Spec
=============================================================================
