-------------------------- MODULE Passwords_proofs --------------------------
(* Proofs about Passwords, for every set of identities, of passwords and of *)
(* requests in progress: the types, a stored code that stays openable, a    *)
(* spent token that stays refused, the history of the passwords and the one *)
(* in force, and the counters of change as an implementation of Throttle.   *)
EXTENDS Passwords, FiniteSetTheorems, TLAPS

-----------------------------------------------------------------------------
(* The invariant, in named parts.                                           *)

Asking == {"initReset", "initAccount"}
Setting == {"resetByCode", "reset", "change"}
Working == {"find", "reuse", "job", "save", "record", "insert", "trim", "delete", "expiry"}
Counting == {"count", "window", "block", "clear", "lift"}

Request == [op : Kinds \cup {None}, pc : Pcs \cup {None}, id : Identity \cup {None},
            token : Token \cup {None}, entry : Entry \cup [pad : Caller] \cup {None},
            right : BOOLEAN, form : Forms \cup {None}, pw : Password \cup {None},
            snap : Doc \cup {None}, at : Nat, extra : SUBSET Record, stale : BOOLEAN]

(* The steps each kind of request goes through, and what it then holds.     *)
Placed(r) ==
    /\ r.id \in Identity
    /\ \/ r.op = "initReset" /\ r.pc \in {"pad", "setPad", "token", "ttl"}
       \/ r.op = "initAccount" /\ r.pc \in {"token", "ttl", "mail", "sent"}
       \/ r.op = "resetByCode" /\ r.pc \in {"pad", "setPad", "del"} \cup Working
       \/ r.op = "reset" /\ r.pc \in {"del"} \cup Working
       \/ r.op = "change" /\ r.pc \in Working \cup Counting
    /\ r.op \in Setting => r.pw \in Password
    /\ r.op # "change" => r.token \in Token
    /\ r.op \in Resets => r.entry \in Entry
    /\ r.op = "initReset" /\ r.pc \in {"token", "ttl"} => r.entry \in [pad : Caller]

Requests ==
    /\ req \in [Caller -> Request]
    /\ \A c \in Caller : req[c] = Idle \/ Placed(req[c])

(* TypeOK, but for the requests.                                            *)
World ==
    /\ doc \in [Identity -> Doc]
    /\ backend \in [Identity -> Password \cup {None}]
    /\ tokens \in [Token -> Entry \cup {None}]
    /\ pad \in Caller \cup {None}
    /\ known \subseteq Token /\ spent \subseteq Token
    /\ raced \in BOOLEAN /\ broken \in BOOLEAN
    /\ plan \in Plans /\ made \in 0 .. plan.requests /\ edits \in 0 .. plan.edits
    /\ clock \in Nat

Counters ==
    /\ fails \in [Identity -> Nat]
    /\ window \in [Identity -> BOOLEAN]
    /\ blocked \in [Identity -> BOOLEAN]
    /\ tries \in [Identity -> Nat]

Histories ==
    /\ history \in [Identity -> SUBSET Record]
    /\ recorded \in [Identity -> SUBSET Record]
    /\ \A i \in Identity : history[i] \subseteq recorded[i]

(* A token has one maker, and its owner does not know it before it is       *)
(* stored and bound to expire.                                              *)
Making(r) == r.op \in Asking /\ r.pc \in {"pad", "setPad", "token", "ttl", "mail"}

Fresh ==
    /\ \A t \in Token : t \in known \/ tokens[t] # None => t <= made
    /\ \A c \in Caller :
         /\ req[c].op \in Asking => req[c].token <= made
         /\ req[c].op \in Resets => req[c].token \in known
         /\ Making(req[c]) => req[c].token \notin known
         /\ Making(req[c]) /\ req[c].pc = "ttl" =>
              tokens[req[c].token] # None /\ ~tokens[req[c].token].ttl
    /\ \A c, d \in Caller :
         c # d /\ req[c].op \in Asking /\ req[d].op \in Asking => req[c].token # req[d].token

(* Unless two requests generated it at once, the padding never changes, and *)
(* each code stored, or about to be, was made with it.                      *)
Padding ==
    raced \/
      /\ \A c \in Caller : req[c].pc = "setPad" => pad = None
      /\ \A c \in Caller : req[c].op = "initReset" /\ req[c].pc = "token" => req[c].entry.pad = pad
      /\ \A t \in Token : tokens[t] # None => tokens[t].pad \in {None, pad}

(* A token is deleted whatever the form it is given back in.                *)
Erasable == Plains \subseteq {TRUE} \/ Forms \subseteq {"raw"}

(* The key deleted is the key stored, and a token is spent once.            *)
Spending ==
    /\ \A t \in Token : tokens[t] # None => tokens[t].plain \in Plains
    /\ \A c \in Caller :
         /\ req[c].op \in Resets => req[c].entry.plain \in Plains /\ req[c].form \in Forms
         /\ req[c].op \in Resets /\ req[c].pc \in Working \ {"find", "reuse", "job"} =>
              tokens[req[c].token] = None
    /\ \A t \in spent : tokens[t] = None /\ t \in known
    /\ \A c \in Caller : ~req[c].stale

-----------------------------------------------------------------------------
(* How a request moves.                                                     *)

(* The fields of a request that no step of it changes.                      *)
Same(r, s) ==
    /\ r.op = s.op /\ r.id = s.id /\ r.token = s.token /\ r.pw = s.pw
    /\ r.right = s.right /\ r.form = s.form /\ r.stale = s.stale

Others(c) == \A d \in Caller \ {c} : req'[d] = req[d]

(* The two assumptions on the constants the proofs use.                     *)
LEMMA Constants ==
    /\ Threshold \in Nat /\ Threshold >= 2 /\ Watched \in Identity
    /\ None \notin Caller /\ None \notin Identity /\ None \notin Password /\ None \notin Kinds
    /\ None \notin Pcs /\ None \notin Nat /\ MaxRequests \in Nat
    /\ Plans \subseteq [kinds : SUBSET Kinds, requests : 0 .. MaxRequests, edits : Nat]
    /\ Plains \subseteq BOOLEAN /\ Forms \subseteq {"encoded", "raw"}
  BY PasswordsAssumption

(* A request that only goes to another step.                                *)
LEMMA Goes ==
    ASSUME req \in [Caller -> Request], NEW c \in Caller, NEW p \in Pcs, Go(c, p)
    PROVE  /\ req' \in [Caller -> Request] /\ Others(c)
           /\ Same(req'[c], req[c]) /\ req'[c].pc = p
           /\ req'[c].entry = req[c].entry /\ req'[c].at = req[c].at
  <1> DEFINE r == [req[c] EXCEPT !.pc = p]
  <1>1. r \in Request
    BY DEF Request
  <1>2. /\ Same(r, req[c]) /\ r.pc = p /\ r.entry = req[c].entry /\ r.at = req[c].at
    BY DEF Same, Request
  <1>3. req' = [req EXCEPT ![c] = r]
    BY DEF Go
  <1> HIDE DEF r
  <1>4. req' \in [Caller -> Request] /\ Others(c) /\ req'[c] = r
    BY <1>1, <1>3 DEF Others
  <1> QED BY <1>2, <1>4

(* The record of a process without a request.                               *)
LEMMA IdleOK ==
    /\ Idle \in Request /\ ~Placed(Idle) /\ Idle.op = None /\ Idle.pc = None
    /\ Idle.id = None /\ ~Idle.stale
  <1>1. Idle \in Request
    BY DEF Idle, Request
  <1> QED BY <1>1, Constants DEF Idle, Placed

(* A request that ends.                                                     *)
LEMMA Ends ==
    ASSUME req \in [Caller -> Request], NEW c \in Caller, End(c)
    PROVE  req' \in [Caller -> Request] /\ Others(c) /\ req'[c] = Idle
  BY IdleOK DEF End, Others

(* A request that stops at an await is one of the kinds, at its place.      *)
LEMMA Busy ==
    ASSUME Requests, NEW c \in Caller, NEW p \in Pcs, At(c, p)
    PROVE  Placed(req[c]) /\ req[c] \in Request /\ req[c].pc = p /\ req[c].op \in Kinds
  <1>1. req[c] # Idle /\ req[c].pc = p
    BY IdleOK, Constants DEF At
  <1> QED BY <1>1 DEF Requests, Placed, Kinds

(* A request that goes on to a place of its kind.                           *)
LEMMA GoesOn ==
    ASSUME Requests, NEW c \in Caller, NEW p \in Pcs, NEW q \in Pcs, At(c, p), Go(c, q),
           \/ req[c].op = "initReset" /\ q \in {"pad", "setPad"}
           \/ req[c].op = "initReset" /\ p = "token" /\ q = "ttl"
           \/ req[c].op = "initAccount" /\ q \in {"token", "ttl", "mail", "sent"}
           \/ req[c].op = "resetByCode" /\ q \in {"pad", "setPad", "del"} \cup Working
           \/ req[c].op = "reset" /\ q \in {"del"} \cup Working
           \/ req[c].op = "change" /\ q \in Working \cup Counting
    PROVE  Requests'
  <1>1. /\ req' \in [Caller -> Request] /\ Others(c) /\ Same(req'[c], req[c])
        /\ req'[c].pc = q /\ req'[c].entry = req[c].entry
    BY Goes DEF Requests
  <1>2. Placed(req[c]) /\ req[c].pc = p
    BY Busy
  <1>3. Placed(req'[c])
    BY <1>1, <1>2 DEF Same, Placed, Setting, Resets
  <1> QED BY <1>1, <1>3 DEF Requests, Others

(* A request that ends leaves the others in place.                          *)
LEMMA EndsOK ==
    ASSUME Requests, NEW c \in Caller, End(c)
    PROVE  Requests'
  BY Ends DEF Requests, Others
(* A request that changes other fields of its own as it goes on.            *)
LEMMA Becomes ==
    ASSUME Requests, NEW c \in Caller, NEW r \in Request, Placed(r), req' = [req EXCEPT ![c] = r]
    PROVE  Requests' /\ Others(c) /\ req'[c] = r
  BY DEF Requests, Others

(* Reading or generating the padding.                                       *)
LEMMA PaddedOK ==
    ASSUME Requests, NEW c \in Caller, NEW k \in Caller, NEW p \in {"pad", "setPad"},
           At(c, p), Padded(c, k)
    PROVE  /\ Requests' /\ Others(c)
           /\ \/ req'[c] = Idle
              \/ /\ Same(req'[c], req[c]) /\ req[c].op = "initReset"
                 /\ req'[c].pc = "token" /\ req'[c].entry = [pad |-> k]
              \/ /\ Same(req'[c], req[c]) /\ req[c].op = "resetByCode"
                 /\ req'[c].pc = "find" /\ req'[c].entry = req[c].entry
  <1>1. Placed(req[c]) /\ req[c] \in Request /\ req[c].pc = p
    BY Busy DEF Pcs
  <1>2. req[c].op \in {"initReset", "resetByCode"}
    BY <1>1 DEF Placed, Working, Counting
  <1>3. CASE req[c].op = "initReset"
    <2> DEFINE e == [pad |-> k]
               r == [req[c] EXCEPT !.pc = "token", !.entry = e]
    <2>1. e \in [pad : Caller]
      OBVIOUS
    <2> HIDE DEF e
    <2>2. r \in Request /\ r.pc = "token" /\ r.entry = e /\ Same(r, req[c])
      <3>1. "token" \in Pcs /\ e \in Entry \cup [pad : Caller] \cup {None}
        BY <2>1 DEF Pcs
      <3>2. r \in Request
        BY <1>1, <3>1 DEF Request
      <3>3. r.pc = "token" /\ r.entry = e /\ Same(r, req[c])
        BY <1>1 DEF Request, Same
      <3> QED BY <3>2, <3>3
    <2>3. Placed(r)
      BY <1>1, <1>3, <2>1, <2>2 DEF Placed, Same, Setting, Resets
    <2>4. req' = [req EXCEPT ![c] = r]
      BY <1>3 DEF Padded, e
    <2> HIDE DEF r
    <2>5. Requests' /\ Others(c) /\ req'[c] = r
      BY <2>2, <2>3, <2>4, Becomes
    <2> QED BY <1>3, <2>2, <2>5 DEF e
  <1>4. CASE req[c].op = "resetByCode"
    <2>1. Go(c, "find") \/ End(c)
      BY <1>4 DEF Padded
    <2>2. CASE End(c)
      BY <2>2, EndsOK, Ends DEF Requests
    <2>3. CASE Go(c, "find")
      <3>1. Requests'
        BY <1>1, <1>4, <2>3, GoesOn DEF At, Pcs, Working
      <3>2. Others(c) /\ Same(req'[c], req[c]) /\ req'[c].pc = "find" /\ req'[c].entry = req[c].entry
        BY <2>3, Goes DEF Requests, Pcs
      <3> QED BY <1>4, <3>1, <3>2
    <2> QED BY <2>1, <2>2, <2>3
  <1> QED BY <1>2, <1>3, <1>4
(* What a step does to its request: it ends, or keeps what it was made for. *)
Moved(c) ==
    /\ Others(c)
    /\ req'[c] = Idle \/ (Same(req'[c], req[c]) /\ req'[c].entry = req[c].entry)

(* GoesOn and EndsOK with their effect on the request.                      *)
LEMMA GoesMoved ==
    ASSUME Requests, NEW c \in Caller, NEW q \in Pcs, Go(c, q)
    PROVE  Moved(c) /\ req'[c].pc = q
  BY Goes DEF Requests, Moved

LEMMA EndsMoved ==
    ASSUME Requests, NEW c \in Caller, End(c)
    PROVE  Requests' /\ Moved(c) /\ req'[c] = Idle
  BY Ends, EndsOK DEF Requests, Moved

(* The token: stored, bound to expire, sent.                                *)
LEMMA TokenRequests ==
    ASSUME Requests, NEW c \in Caller,
           StoreToken(c) \/ ExpireToken(c) \/ SendInvitation(c) \/ MailFails(c) \/ MarkSent(c)
    PROVE  Requests' /\ Moved(c)
  <1>1. CASE StoreToken(c)
    <2>1. At(c, "token") /\ Go(c, "ttl")
      BY <1>1 DEF StoreToken
    <2>2. req[c].op \in Asking
      BY <2>1, Busy DEF Placed, Working, Counting, Pcs, Asking
    <2> QED BY <2>1, <2>2, GoesOn, GoesMoved DEF Pcs, Asking
  <1>2. CASE ExpireToken(c)
    <2>1. At(c, "ttl") /\ (End(c) \/ (Go(c, "mail") /\ req[c].op # "initReset"))
      BY <1>2 DEF ExpireToken
    <2>2. req[c].op \in Asking
      BY <2>1, Busy DEF Placed, Working, Counting, Pcs, Asking
    <2> QED BY <2>1, <2>2, GoesOn, GoesMoved, EndsMoved DEF Pcs, Asking
  <1>3. CASE SendInvitation(c)
    <2>1. At(c, "mail") /\ Go(c, "sent")
      BY <1>3 DEF SendInvitation
    <2>2. req[c].op = "initAccount"
      BY <2>1, Busy DEF Placed, Working, Counting, Pcs
    <2> QED BY <2>1, <2>2, GoesOn, GoesMoved DEF Pcs
  <1>4. CASE MailFails(c) \/ MarkSent(c)
    BY <1>4, EndsMoved DEF MailFails, MarkSent
  <1> QED BY <1>1, <1>2, <1>3, <1>4

(* The password: checked, sent to the backends, the identity activated.     *)
LEMMA PasswordRequests ==
    ASSUME Requests, World, NEW c \in Caller,
           \/ Find(c) \/ NotAccepted(c) \/ CheckReuse(c) \/ RefuseReuse(c)
           \/ JobSucceeds(c) \/ JobFails(c) \/ JobTimesOut(c)
           \/ DeleteToken(c) \/ Activate(c)
    PROVE  Requests' /\ Moved(c)
  <1>0. \A p \in {"find", "reuse", "job", "save", "del"} : At(c, p) =>
          /\ Placed(req[c]) /\ req[c] \in Request /\ req[c].pc = p
          /\ req[c].op \in Setting
          /\ p = "del" => req[c].op \in Resets
    BY Busy DEF Placed, Working, Counting, Pcs, Setting, Resets
  <1>1. CASE Find(c)
    <2> DEFINE r == [req[c] EXCEPT !.pc = "reuse", !.snap = doc[req[c].id]]
    <2>1. At(c, "find") /\ req' = [req EXCEPT ![c].pc = "reuse", ![c].snap = doc[req[c].id]]
      BY <1>1 DEF Find, Owner
    <2>2. doc[req[c].id] \in Doc
      BY <1>0, <2>1 DEF World, Placed
    <2>3. r \in Request /\ Same(r, req[c]) /\ r.pc = "reuse" /\ r.entry = req[c].entry
      BY <1>0, <2>1, <2>2 DEF Request, Pcs, Same
    <2>4. Placed(r)
      BY <1>0, <2>1, <2>3 DEF Placed, Same, Setting, Resets, Working
    <2>5. req' = [req EXCEPT ![c] = r]
      BY <2>1
    <2> HIDE DEF r
    <2>6. Requests' /\ Others(c) /\ req'[c] = r
      BY <2>3, <2>4, <2>5, Becomes
    <2> QED BY <2>3, <2>6 DEF Moved
  <1>2. CASE NotAccepted(c) \/ RefuseReuse(c)
    BY <1>2, EndsMoved DEF NotAccepted, RefuseReuse
  <1>3. CASE CheckReuse(c)
    <2>1. At(c, "reuse") /\ Go(c, "job")
      BY <1>3 DEF CheckReuse
    <2> QED BY <2>1, <1>0, GoesOn, GoesMoved DEF Pcs, Setting, Working
  <1>4. CASE JobSucceeds(c)
    <2>1. At(c, "job") /\ Go(c, IF req[c].op \in Resets THEN "del" ELSE "save")
      BY <1>4 DEF JobSucceeds
    <2>2. CASE req[c].op \in Resets
      BY <2>1, <2>2, <1>0, GoesOn, GoesMoved DEF Pcs, Resets, Working
    <2>3. CASE req[c].op \notin Resets
      BY <2>1, <2>3, <1>0, GoesOn, GoesMoved DEF Pcs, Resets, Setting, Working
    <2> QED BY <2>2, <2>3
  <1>5. CASE JobFails(c) \/ JobTimesOut(c)
    <2>1. At(c, "job") /\ ((req[c].op = "change" /\ Go(c, "count")) \/ End(c))
      BY <1>5 DEF JobFails, JobTimesOut, Catch
    <2> QED BY <2>1, GoesOn, GoesMoved, EndsMoved DEF Pcs, Counting
  <1>6. CASE DeleteToken(c)
    <2>1. At(c, "del") /\ Go(c, "save")
      BY <1>6 DEF DeleteToken
    <2> QED BY <2>1, <1>0, GoesOn, GoesMoved DEF Pcs, Resets, Working
  <1>7. CASE Activate(c)
    <2>1. At(c, "save") /\ Go(c, "record")
      BY <1>7 DEF Activate
    <2> QED BY <2>1, <1>0, GoesOn, GoesMoved DEF Pcs, Setting, Working
  <1> QED BY <1>1, <1>2, <1>3, <1>4, <1>5, <1>6, <1>7

(* The history of passwords and the last write.                             *)
LEMMA HistoryRequests ==
    ASSUME Requests, World, Histories, NEW c \in Caller,
           \/ Stamp(c) \/ Insert(c) \/ ListExtra(c) \/ DeleteExtra(c)
           \/ SetExpiry(c) \/ WriteFails(c)
    PROVE  Requests' /\ Moved(c)
  <1>0. \A p \in {"record", "insert", "trim", "delete", "expiry"} : At(c, p) =>
          /\ Placed(req[c]) /\ req[c] \in Request /\ req[c].pc = p
          /\ req[c].op \in Setting
    BY Busy DEF Placed, Working, Counting, Pcs, Setting
  <1>1. CASE Stamp(c)
    <2> DEFINE n == clock + 1
               r == [req[c] EXCEPT !.pc = "insert", !.at = n]
    <2>1. At(c, "record") /\ req' = [req EXCEPT ![c].pc = "insert", ![c].at = n]
      BY <1>1 DEF Stamp
    <2>2. n \in Nat
      BY DEF World
    <2> HIDE DEF n
    <2>3. r \in Request /\ Same(r, req[c]) /\ r.pc = "insert" /\ r.entry = req[c].entry
      BY <1>0, <2>1, <2>2 DEF Request, Pcs, Same
    <2>4. Placed(r)
      BY <1>0, <2>1, <2>3 DEF Placed, Same, Setting, Resets, Working
    <2>5. req' = [req EXCEPT ![c] = r]
      BY <2>1
    <2> HIDE DEF r
    <2>6. Requests' /\ Others(c) /\ req'[c] = r
      BY <2>3, <2>4, <2>5, Becomes
    <2> QED BY <2>3, <2>6 DEF Moved
  <1>2. CASE Insert(c)
    <2>1. At(c, "insert") /\ Go(c, "trim")
      BY <1>2 DEF Insert
    <2> QED BY <2>1, <1>0, GoesOn, GoesMoved DEF Pcs, Setting, Working
  <1>3. CASE ListExtra(c)
    <2> DEFINE extra == history[req[c].id] \ Newest(history[req[c].id])
               q == IF extra = {} THEN "expiry" ELSE "delete"
               r == [req[c] EXCEPT !.pc = q, !.extra = extra]
    <2>1. At(c, "trim") /\ req' = [req EXCEPT ![c].pc = q, ![c].extra = extra]
      BY <1>3 DEF ListExtra, Owner
    <2>2. extra \in SUBSET Record /\ q \in {"expiry", "delete"}
      BY <1>0, <2>1 DEF Histories, Placed
    <2> HIDE DEF extra, q
    <2>3. r \in Request /\ Same(r, req[c]) /\ r.pc = q /\ r.entry = req[c].entry
      BY <1>0, <2>1, <2>2 DEF Request, Pcs, Same
    <2>4. Placed(r)
      BY <1>0, <2>1, <2>2, <2>3 DEF Placed, Same, Setting, Resets, Working
    <2>5. req' = [req EXCEPT ![c] = r]
      BY <2>1
    <2> HIDE DEF r
    <2>6. Requests' /\ Others(c) /\ req'[c] = r
      BY <2>3, <2>4, <2>5, Becomes
    <2> QED BY <2>3, <2>6 DEF Moved
  <1>4. CASE DeleteExtra(c)
    <2>1. At(c, "delete") /\ Go(c, "expiry")
      BY <1>4 DEF DeleteExtra
    <2> QED BY <2>1, <1>0, GoesOn, GoesMoved DEF Pcs, Setting, Working
  <1>5. CASE SetExpiry(c)
    <2>1. At(c, "expiry") /\ ((req[c].op = "change" /\ Go(c, "clear")) \/ End(c))
      BY <1>5 DEF SetExpiry
    <2> QED BY <2>1, GoesOn, GoesMoved, EndsMoved DEF Pcs, Counting
  <1>6. CASE WriteFails(c)
    <2>1. /\ \E p \in Pcs : At(c, p)
          /\ (req[c].op = "change" /\ Go(c, "count")) \/ End(c)
      BY <1>6 DEF WriteFails, Catch, At, Pcs
    <2> QED BY <2>1, GoesOn, GoesMoved, EndsMoved DEF Pcs, Counting
  <1> QED BY <1>1, <1>2, <1>3, <1>4, <1>5, <1>6

(* The counters of change.                                                  *)
LEMMA CountRequests ==
    ASSUME Requests, NEW c \in Caller,
           Count(c) \/ SetWindow(c) \/ SetBlock(c) \/ ClearCounter(c) \/ LiftBlock(c)
    PROVE  Requests' /\ Moved(c)
  <1>1. CASE Count(c)
    <2>1. At(c, "count") /\ (Go(c, "window") \/ End(c) \/ Go(c, "block"))
      BY <1>1 DEF Count
    <2>2. req[c].op = "change"
      BY <2>1, Busy DEF Placed, Working, Pcs
    <2> QED BY <2>1, <2>2, GoesOn, GoesMoved, EndsMoved DEF Pcs, Counting
  <1>2. CASE ClearCounter(c)
    <2>1. At(c, "clear") /\ Go(c, "lift")
      BY <1>2 DEF ClearCounter
    <2>2. req[c].op = "change"
      BY <2>1, Busy DEF Placed, Working, Pcs
    <2> QED BY <2>1, <2>2, GoesOn, GoesMoved DEF Pcs, Counting
  <1>3. CASE SetWindow(c) \/ SetBlock(c) \/ LiftBlock(c)
    BY <1>3, EndsMoved DEF SetWindow, SetBlock, LiftBlock
  <1> QED BY <1>1, <1>2, <1>3
-----------------------------------------------------------------------------
(* A new request, of one of three families.                                 *)

Rest == <<doc, backend, redis, past, counters, world, broken, edits, clock, plan>>

AskedToken(r) ==
    /\ r.op \in Asking /\ r.token = made + 1 /\ ~r.stale
    /\ r.pc = "pad" \/ (r.op = "initAccount" /\ r.pc = "token")

AskedReset(r) ==
    /\ r.op \in Resets /\ r.token \in known /\ tokens[r.token] # None
    /\ r.entry = tokens[r.token] /\ r.form \in Forms
    /\ r.pc \in {"pad", "find"} /\ r.stale = (r.token \in spent)

AskedChange(r) ==
    /\ r.op = "change" /\ r.id \in Identity /\ ~blocked[r.id]
    /\ r.pc = "find" /\ ~r.stale

Asked(c) ==
    /\ req[c] = Idle /\ Others(c) /\ UNCHANGED Rest
    /\ made' = made + 1 /\ made + 1 \in Token /\ made' <= plan.requests
    /\ AskedToken(req'[c]) \/ AskedReset(req'[c]) \/ AskedChange(req'[c])

(* The bound on the requests made leaves a name for one more token.         *)
LEMMA Starts ==
    ASSUME Requests, World, NEW c \in Caller, NEW r \in Request, Placed(r), Start(c, r)
    PROVE  /\ Requests' /\ Others(c) /\ req[c] = Idle /\ req'[c] = r
           /\ made' = made + 1 /\ made + 1 \in Token /\ made' <= plan.requests
  <1>1. plan.requests \in 0 .. MaxRequests /\ made \in 0 .. plan.requests
    BY Constants DEF World
  <1>2. req[c] = Idle /\ made < plan.requests /\ made' = made + 1 /\ req' = [req EXCEPT ![c] = r]
    BY DEF Start
  <1>3. made + 1 \in Token /\ made' <= plan.requests
    BY <1>1, <1>2, Constants DEF Token
  <1> QED BY <1>2, <1>3, Becomes

(* The bound again, for the token of a request about to start.              *)
LEMMA NextToken ==
    ASSUME World, made < plan.requests
    PROVE  made + 1 \in Token
  <1>1. plan.requests \in 0 .. MaxRequests /\ made \in 0 .. plan.requests
    BY Constants DEF World
  <1> QED BY <1>1, Constants DEF Token

(* Each way to begin is of one of the families.                             *)
LEMMA AskRequests ==
    ASSUME Requests, World, NEW c \in Caller, Ask(c)
    PROVE  Requests' /\ Asked(c)
  <1>1. ASSUME NEW i \in Identity, AskReset(c, i) PROVE Requests' /\ Asked(c)
    <2> DEFINE n == made + 1
               r == [Idle EXCEPT !.op = "initReset", !.pc = "pad", !.id = i, !.token = n]
    <2>1. Start(c, r) /\ UNCHANGED Rest
      BY <1>1 DEF AskReset, Rest
    <2>2. n \in Token
      BY <2>1, NextToken DEF Start
    <2> HIDE DEF n
    <2>3. /\ r \in Request /\ r.op = "initReset" /\ r.pc = "pad" /\ r.token = n
          /\ r.id = i /\ r.stale = FALSE
      BY <2>2 DEF Request, Idle, Kinds, Pcs
    <2>4. Placed(r)
      BY <2>2, <2>3 DEF Placed, Setting, Resets
    <2> HIDE DEF r
    <2> QED BY <2>1, <2>3, <2>4, Starts DEF Asked, AskedToken, Asking, n
  <1>2. ASSUME NEW i \in Identity, AskInit(c, i) PROVE Requests' /\ Asked(c)
    <2> DEFINE n == made + 1
               r == [Idle EXCEPT !.op = "initAccount", !.pc = "token", !.id = i,
                                 !.token = n, !.snap = doc[i]]
    <2>1. Start(c, r) /\ UNCHANGED Rest
      BY <1>2 DEF AskInit, Rest
    <2>2. n \in Token /\ doc[i] \in Doc
      BY <2>1, NextToken DEF Start, World
    <2> HIDE DEF n
    <2>3. /\ r \in Request /\ r.op = "initAccount" /\ r.pc = "token" /\ r.token = n
          /\ r.id = i /\ r.stale = FALSE
      BY <2>2 DEF Request, Idle, Kinds, Pcs
    <2>4. Placed(r)
      BY <2>2, <2>3 DEF Placed, Setting, Resets
    <2> HIDE DEF r
    <2> QED BY <2>1, <2>3, <2>4, Starts DEF Asked, AskedToken, Asking, n
  <1>3. ASSUME NEW i \in Identity, NEW p \in Password, AskChange(c, i, p)
        PROVE  Requests' /\ Asked(c)
    <2> DEFINE r == [Idle EXCEPT !.op = "change", !.pc = "find", !.id = i, !.pw = p]
    <2>1. Start(c, r) /\ ~blocked[i] /\ UNCHANGED Rest
      BY <1>3 DEF AskChange, Rest
    <2>2. /\ r \in Request /\ r.op = "change" /\ r.pc = "find" /\ r.pw = p
          /\ r.id = i /\ r.stale = FALSE
      BY DEF Request, Idle, Kinds, Pcs
    <2>3. Placed(r)
      BY <2>2 DEF Placed, Setting, Resets, Working
    <2> HIDE DEF r
    <2> QED BY <2>1, <2>2, <2>3, Starts DEF Asked, AskedChange
  <1>4. ASSUME NEW t \in Token, NEW p \in Password, UseCode(c, t, p)
        PROVE  Requests' /\ Asked(c)
    <2>1. PICK right \in BOOLEAN, f \in Forms :
            Start(c, [Idle EXCEPT !.op = "resetByCode", !.pc = "pad", !.id = tokens[t].id,
                                  !.token = t, !.entry = tokens[t], !.pw = p, !.right = right,
                                  !.form = f, !.stale = t \in spent])
      BY <1>4 DEF UseCode
    <2>2. t \in known /\ tokens[t] # None /\ UNCHANGED Rest
      BY <1>4 DEF UseCode, Rest
    <2> DEFINE e == tokens[t]
               s == t \in spent
               r == [Idle EXCEPT !.op = "resetByCode", !.pc = "pad", !.id = e.id,
                                 !.token = t, !.entry = e, !.pw = p, !.right = right,
                                 !.form = f, !.stale = s]
    <2>3. e \in Entry /\ s \in BOOLEAN
      BY <2>2 DEF World
    <2>4. Start(c, r)
      BY <2>1
    <2> HIDE DEF e, s
    <2>5. e.id \in Identity
      BY <2>3 DEF Entry
    <2>6. /\ r \in Request /\ r.op = "resetByCode" /\ r.pc = "pad" /\ r.pw = p
          /\ r.id \in Identity /\ r.token = t /\ r.entry = e /\ r.form = f /\ r.stale = s
      BY <2>3, <2>5 DEF Request, Idle, Kinds, Pcs
    <2>7. Placed(r)
      BY <2>3, <2>6 DEF Placed, Setting, Resets
    <2> HIDE DEF r
    <2> QED BY <2>2, <2>4, <2>6, <2>7, Starts DEF Asked, AskedReset, Resets, e, s
  <1>5. ASSUME NEW t \in Token, NEW p \in Password, UseLink(c, t, p)
        PROVE  Requests' /\ Asked(c)
    <2>1. PICK f \in Forms :
            Start(c, [Idle EXCEPT !.op = "reset", !.pc = "find", !.id = tokens[t].id,
                                  !.token = t, !.entry = tokens[t], !.pw = p, !.form = f,
                                  !.stale = t \in spent])
      BY <1>5 DEF UseLink
    <2>2. t \in known /\ tokens[t] # None /\ UNCHANGED Rest
      BY <1>5 DEF UseLink, Rest
    <2> DEFINE e == tokens[t]
               s == t \in spent
               r == [Idle EXCEPT !.op = "reset", !.pc = "find", !.id = e.id,
                                 !.token = t, !.entry = e, !.pw = p, !.form = f, !.stale = s]
    <2>3. e \in Entry /\ s \in BOOLEAN
      BY <2>2 DEF World
    <2>4. Start(c, r)
      BY <2>1
    <2> HIDE DEF e, s
    <2>5. e.id \in Identity
      BY <2>3 DEF Entry
    <2>6. /\ r \in Request /\ r.op = "reset" /\ r.pc = "find" /\ r.pw = p
          /\ r.id \in Identity /\ r.token = t /\ r.entry = e /\ r.form = f /\ r.stale = s
      BY <2>3, <2>5 DEF Request, Idle, Kinds, Pcs
    <2>7. Placed(r)
      BY <2>3, <2>6 DEF Placed, Setting, Resets, Working
    <2> HIDE DEF r
    <2> QED BY <2>2, <2>4, <2>6, <2>7, Starts DEF Asked, AskedReset, Resets, e, s
  <1> QED BY <1>1, <1>2, <1>3, <1>4, <1>5 DEF Ask
-----------------------------------------------------------------------------
(* The types of the rest.                                                   *)

(* A save of a document keeps it well typed.                                *)
LEMMA SavedOK ==
    ASSUME NEW d \in Doc, NEW snap, NEW s, s \in InitState \/ s = snap.init
    PROVE  Saved(d, snap, s) \in Doc
  <1> DEFINE i == IF snap.init = s THEN d.init ELSE s
             a == IF snap.data = "ACTIVE" THEN d.data ELSE "ACTIVE"
  <1>1. i \in InitState /\ a \in DataStatus
    BY DEF Doc, DataStatus
  <1>2. Saved(d, snap, s) = [d EXCEPT !.init = i, !.data = a]
    BY DEF Saved, Doc
  <1> HIDE DEF i, a
  <1> QED BY <1>1, <1>2 DEF Doc

(* The steps that leave the tokens, the padding and what clients know.      *)
Quick(c) ==
    \/ MailFails(c) \/ MarkSent(c)
    \/ Find(c) \/ NotAccepted(c) \/ CheckReuse(c) \/ RefuseReuse(c)
    \/ JobSucceeds(c) \/ JobFails(c) \/ JobTimesOut(c) \/ Activate(c)
    \/ Stamp(c) \/ Insert(c) \/ ListExtra(c) \/ DeleteExtra(c) \/ WriteFails(c)
    \/ Count(c) \/ SetWindow(c) \/ SetBlock(c) \/ ClearCounter(c) \/ LiftBlock(c)

LEMMA QuickKeeps ==
    ASSUME NEW c \in Caller, Quick(c)
    PROVE  UNCHANGED <<tokens, pad, known, spent, raced, plan, made, edits>>
  BY DEF Quick, MailFails, MarkSent, Find, NotAccepted, CheckReuse, RefuseReuse, JobSucceeds,
         JobFails, JobTimesOut, Activate, Stamp, Insert, ListExtra, DeleteExtra, WriteFails, Count,
         SetWindow, SetBlock, ClearCounter, LiftBlock, redis, world

LEMMA QuickWorld ==
    ASSUME Requests, World, NEW c \in Caller, Quick(c)
    PROVE  World'
  <1>1. doc' \in [Identity -> Doc] /\ backend' \in [Identity -> Password \cup {None}]
    <2>1. CASE MarkSent(c)
      <3>1. At(c, "sent") /\ doc' = [doc EXCEPT ![Owner(c)] = Saved(@, req[c].snap, "SENT")]
            /\ backend' = backend
        BY <2>1 DEF MarkSent
      <3>2. Owner(c) \in Identity
        BY <3>1, Busy DEF Placed, Owner, Pcs
      <3>3. Saved(doc[Owner(c)], req[c].snap, "SENT") \in Doc
        BY <3>2, SavedOK DEF World, InitState
      <3> QED BY <3>1, <3>2, <3>3 DEF World
    <2>2. CASE Activate(c)
      <3>1. At(c, "save") /\ doc' = [doc EXCEPT ![Owner(c)] = Activated(c)] /\ backend' = backend
        BY <2>2 DEF Activate
      <3>2. Owner(c) \in Identity /\ doc[Owner(c)] \in Doc
        BY <3>1, Busy DEF Placed, Owner, Pcs, World
      <3>3. [doc[Owner(c)] EXCEPT !.data = "ACTIVE"] \in Doc
        BY <3>2 DEF Doc, DataStatus
      <3>4. /\ Saved(doc[Owner(c)], req[c].snap, req[c].snap.init) \in Doc
            /\ Saved(doc[Owner(c)], req[c].snap, "INITIALIZED") \in Doc
        BY <3>2, SavedOK DEF InitState
      <3>5. Activated(c) \in Doc
        BY <3>3, <3>4 DEF Activated
      <3> QED BY <3>1, <3>2, <3>5 DEF World
    <2>3. CASE JobSucceeds(c) \/ JobTimesOut(c)
      <3>1. At(c, "job") /\ doc' = doc /\ backend' = [backend EXCEPT ![Owner(c)] = req[c].pw]
        BY <2>3 DEF JobSucceeds, JobTimesOut
      <3>2. req[c].pw \in Password
        BY <3>1, Busy DEF Placed, Working, Counting, Pcs, Setting
      <3> QED BY <3>1, <3>2 DEF World
    <2>4. CASE UNCHANGED <<doc, backend>>
      BY <2>4 DEF World
    <2> QED BY <2>1, <2>2, <2>3, <2>4 DEF Quick, MailFails, Find, NotAccepted, CheckReuse,
          RefuseReuse, JobFails, Stamp, Insert, ListExtra, DeleteExtra, WriteFails, Count,
          SetWindow, SetBlock, ClearCounter, LiftBlock
  <1>2. broken' \in BOOLEAN
    BY DEF Quick, MailFails, MarkSent, Find, NotAccepted, CheckReuse, RefuseReuse, JobSucceeds,
           JobFails, JobTimesOut, Activate, Stamp, Insert, ListExtra, DeleteExtra, WriteFails,
           Count, SetWindow, SetBlock, ClearCounter, LiftBlock, World
  <1>3. clock' = clock \/ clock' = clock + 1
    BY DEF Quick, MailFails, MarkSent, Find, NotAccepted, CheckReuse, RefuseReuse, JobSucceeds,
           JobFails, JobTimesOut, Activate, Stamp, Insert, ListExtra, DeleteExtra, WriteFails,
           Count, SetWindow, SetBlock, ClearCounter, LiftBlock
  <1>4. clock' \in Nat
    BY <1>3 DEF World
  <1>5. UNCHANGED <<tokens, pad, known, spent, raced, plan, made, edits>>
    BY QuickKeeps
  <1> QED BY <1>1, <1>2, <1>4, <1>5 DEF World
(* The steps on the tokens; a key bound to expire is there.                 *)
LEMMA TokenWorld ==
    ASSUME Requests, World, Fresh, NEW c \in Caller,
           StoreToken(c) \/ ExpireToken(c) \/ SendInvitation(c) \/ DeleteToken(c) \/ SetExpiry(c)
    PROVE  World'
  <1>1. CASE StoreToken(c)
    <2> DEFINE k == IF req[c].op = "initReset" THEN req[c].entry.pad ELSE None
    <2>1. /\ At(c, "token") /\ UNCHANGED <<doc, backend, pad, world, broken, made, edits, clock, plan>>
          /\ \E p \in Plains : tokens' = [tokens EXCEPT ![req[c].token] =
               [id |-> Owner(c), ttl |-> FALSE, plain |-> p, pad |-> k]]
      BY <1>1 DEF StoreToken
    <2>2. Owner(c) \in Identity /\ k \in Caller \cup {None} /\ req[c].token \in Token
      BY <2>1, Busy DEF Placed, Owner, Pcs, Working, Counting
    <2> HIDE DEF k
    <2>3. \A p \in Plains : [id |-> Owner(c), ttl |-> FALSE, plain |-> p, pad |-> k] \in Entry
      BY <2>2, Constants DEF Entry
    <2>4. tokens' \in [Token -> Entry \cup {None}]
      BY <2>1, <2>2, <2>3 DEF World
    <2> QED BY <2>1, <2>4 DEF World, world
  <1>2. CASE ExpireToken(c)
    <2> DEFINE t == req[c].token
    <2>1. /\ At(c, "ttl") /\ UNCHANGED <<doc, backend, pad, spent, raced, broken, made, edits, clock, plan>>
          /\ tokens' = [tokens EXCEPT ![t].ttl = TRUE]
          /\ known' = known \/ known' = known \cup {t}
      BY <1>2 DEF ExpireToken
    <2>2. req[c].op \in Asking /\ t \in Token /\ req[c].pc = "ttl"
      BY <2>1, Busy DEF Placed, Pcs, Working, Counting, Asking
    <2>3. tokens[t] \in Entry
      BY <2>2 DEF Fresh, Making, World
    <2>4. [tokens[t] EXCEPT !.ttl = TRUE] \in Entry
      BY <2>3 DEF Entry
    <2>5. tokens' \in [Token -> Entry \cup {None}]
      BY <2>1, <2>2, <2>4 DEF World
    <2>6. known' \subseteq Token
      BY <2>1, <2>2 DEF World
    <2> QED BY <2>1, <2>5, <2>6 DEF World
  <1>3. CASE SendInvitation(c)
    <2>1. At(c, "mail") /\ known' = known \cup {req[c].token}
      BY <1>3 DEF SendInvitation
    <2>2. req[c].token \in Token
      BY <2>1, Busy DEF Placed, Pcs, Working, Counting
    <2> QED BY <1>3, <2>1, <2>2 DEF World, SendInvitation, redis
  <1>4. CASE DeleteToken(c)
    <2>1. At(c, "del") /\ (tokens' = tokens \/ tokens' = [tokens EXCEPT ![req[c].token] = None])
      BY <1>4 DEF DeleteToken
    <2>2. tokens' \in [Token -> Entry \cup {None}]
      BY <2>1 DEF World
    <2> QED BY <1>4, <2>2 DEF World, DeleteToken, world
  <1>5. CASE SetExpiry(c)
    <2>1. At(c, "expiry")
          /\ (spent' = spent \/ (req[c].op # "change" /\ spent' = spent \cup {req[c].token}))
      BY <1>5 DEF SetExpiry
    <2>2. spent' \subseteq Token
      BY <2>1, Busy DEF Placed, Pcs, World
    <2> QED BY <1>5, <2>2 DEF World, SetExpiry, redis
  <1> QED BY <1>1, <1>2, <1>3, <1>4, <1>5

(* Reading and generating the padding.                                      *)
LEMMA PaddingStep ==
    ASSUME Requests, World, NEW c \in Caller, ReadPadding(c) \/ SetPadding(c)
    PROVE  /\ Requests' /\ World'
           /\ UNCHANGED <<tokens, known, spent, plan, made, past, counters>>
           /\ \/ ReadPadding(c) /\ pad # None /\ Padded(c, pad) /\ UNCHANGED <<pad, raced>>
              \/ /\ ReadPadding(c) /\ pad = None /\ Moved(c) /\ req'[c].pc = "setPad"
                 /\ UNCHANGED <<pad, raced>>
              \/ /\ SetPadding(c) /\ Padded(c, c) /\ pad' = c
                 /\ raced' = (raced \/ \E d \in Caller \ {c} : At(d, "setPad"))
  <1>1. CASE ReadPadding(c)
    <2>1. At(c, "pad") /\ (IF pad # None THEN Padded(c, pad) ELSE Go(c, "setPad"))
          /\ UNCHANGED <<redis, world, doc, backend, made, plan, broken, edits, clock, past, counters>>
      BY <1>1 DEF ReadPadding
    <2>2. World'
      BY <2>1 DEF World, redis, world
    <2>3. CASE pad # None
      BY <1>1, <2>1, <2>2, <2>3, PaddedOK DEF World, redis, world
    <2>4. CASE pad = None
      <3>1. req[c].op \in {"initReset", "resetByCode"}
        BY <2>1, Busy DEF Placed, Working, Counting, Pcs
      <3>2. Requests' /\ Moved(c) /\ req'[c].pc = "setPad"
        BY <2>1, <2>4, <3>1, GoesOn, GoesMoved DEF Pcs
      <3> QED BY <1>1, <2>1, <2>2, <2>4, <3>2 DEF redis, world
    <2> QED BY <2>3, <2>4
  <1>2. CASE SetPadding(c)
    <2>1. /\ At(c, "setPad") /\ Padded(c, c) /\ pad' = c
          /\ raced' = (raced \/ \E d \in Caller \ {c} : At(d, "setPad"))
          /\ UNCHANGED <<doc, backend, tokens, known, spent, broken, made, edits, clock, plan, past, counters>>
      BY <1>2 DEF SetPadding
    <2>2. raced' \in BOOLEAN
      BY <2>1 DEF World
    <2>3. World'
      BY <2>1, <2>2 DEF World
    <2> QED BY <1>2, <2>1, <2>3, PaddedOK
  <1> QED BY <1>1, <1>2

(* The counters, whatever step is taken.                                    *)
LEMMA CountersNext ==
    ASSUME Requests, World, Counters, [Next]_vars
    PROVE  Counters'
  <1>1. CASE UNCHANGED counters
    BY <1>1 DEF counters, Counters
  <1>2. ASSUME NEW c \in Caller, CheckReuse(c) PROVE Counters'
    <2>1. At(c, "reuse") /\ (tries' = tries \/ tries' = [tries EXCEPT ![Owner(c)] = @ + 1])
          /\ UNCHANGED <<fails, window, blocked>>
      BY <1>2 DEF CheckReuse
    <2>2. Owner(c) \in Identity
      BY <2>1, Busy DEF Placed, Owner, Pcs
    <2>3. tries[Owner(c)] + 1 \in Nat
      BY <2>2 DEF Counters
    <2> QED BY <2>1, <2>2, <2>3 DEF Counters
  <1>3. ASSUME NEW c \in Caller, Count(c) PROVE Counters'
    <2>1. At(c, "count") /\ fails' = [fails EXCEPT ![Owner(c)] = fails[Owner(c)] + 1]
          /\ UNCHANGED <<window, blocked, tries>>
      BY <1>3 DEF Count
    <2>2. Owner(c) \in Identity
      BY <2>1, Busy DEF Placed, Owner, Pcs
    <2>3. fails[Owner(c)] + 1 \in Nat
      BY <2>2 DEF Counters
    <2> QED BY <2>1, <2>2, <2>3 DEF Counters
  <1>4. ASSUME NEW i, NEW b \in BOOLEAN,
               window' = window \/ window' = [window EXCEPT ![i] = b],
               blocked' = blocked \/ blocked' = [blocked EXCEPT ![i] = TRUE]
                 \/ blocked' = [blocked EXCEPT ![i] = FALSE],
               fails' = fails \/ fails' = [fails EXCEPT ![i] = 0],
               tries' = tries \/ tries' = [tries EXCEPT ![i] = 0]
        PROVE  Counters'
    <2>1. window' \in [Identity -> BOOLEAN] /\ blocked' \in [Identity -> BOOLEAN]
      BY <1>4 DEF Counters
    <2>2. fails' \in [Identity -> Nat]
      BY <1>4 DEF Counters
    <2>3. tries' \in [Identity -> Nat]
      BY <1>4 DEF Counters
    <2> QED BY <2>1, <2>2, <2>3 DEF Counters
  <1>5. ASSUME NEW c \in Caller,
               SetWindow(c) \/ SetBlock(c) \/ ClearCounter(c) \/ LiftBlock(c)
        PROVE  Counters'
    <2>1. CASE SetWindow(c)
      <3> DEFINE b == fails[Owner(c)] > 0
      <3>1. window' = [window EXCEPT ![Owner(c)] = b] /\ UNCHANGED <<fails, tries, blocked>>
        BY <2>1 DEF SetWindow
      <3>2. b \in BOOLEAN
        OBVIOUS
      <3> HIDE DEF b
      <3> QED BY <3>1, <3>2, <1>4
    <2>2. CASE SetBlock(c)
      <3>1. blocked' = [blocked EXCEPT ![Owner(c)] = TRUE] /\ UNCHANGED <<fails, tries, window>>
        BY <2>2 DEF SetBlock
      <3> QED BY <3>1, <1>4
    <2>3. CASE ClearCounter(c)
      <3>1. /\ fails' = [fails EXCEPT ![Owner(c)] = 0] /\ tries' = [tries EXCEPT ![Owner(c)] = 0]
            /\ window' = [window EXCEPT ![Owner(c)] = FALSE] /\ UNCHANGED blocked
        BY <2>3 DEF ClearCounter
      <3> QED BY <3>1, <1>4
    <2>4. CASE LiftBlock(c)
      <3>1. /\ blocked' = [blocked EXCEPT ![Owner(c)] = FALSE]
            /\ tries' = [tries EXCEPT ![Owner(c)] = 0] /\ UNCHANGED <<fails, window>>
        BY <2>4 DEF LiftBlock
      <3> QED BY <3>1, <1>4
    <2> QED BY <1>5, <2>1, <2>2, <2>3, <2>4
  <1>6. ASSUME NEW i \in Identity, WindowEnds(i) \/ BlockEnds(i) PROVE Counters'
    <2>1. CASE WindowEnds(i)
      <3>1. /\ fails' = [fails EXCEPT ![i] = 0] /\ tries' = [tries EXCEPT ![i] = 0]
            /\ window' = [window EXCEPT ![i] = FALSE] /\ UNCHANGED blocked
        BY <2>1 DEF WindowEnds
      <3> QED BY <3>1, <1>4
    <2>2. CASE BlockEnds(i)
      <3>1. /\ blocked' = [blocked EXCEPT ![i] = FALSE] /\ tries' = [tries EXCEPT ![i] = 0]
            /\ UNCHANGED <<fails, window>>
        BY <2>2 DEF BlockEnds
      <3> QED BY <3>1, <1>4
    <2> QED BY <1>6, <2>1, <2>2
  <1>7. ASSUME NEW c \in Caller, Ask(c) PROVE UNCHANGED counters
    BY <1>7 DEF Ask, AskReset, AskInit, AskChange, UseCode, UseLink
  <1>8. ASSUME NEW c \in Caller, Step(c)
        PROVE  \/ UNCHANGED counters \/ CheckReuse(c) \/ Count(c) \/ SetWindow(c) \/ SetBlock(c)
               \/ ClearCounter(c) \/ LiftBlock(c)
    BY <1>8 DEF Step, ReadPadding, SetPadding, StoreToken, ExpireToken, SendInvitation, MailFails,
         MarkSent, Find, NotAccepted, RefuseReuse, JobSucceeds, JobFails, JobTimesOut, DeleteToken,
         Activate, Stamp, Insert, ListExtra, DeleteExtra, SetExpiry, WriteFails
  <1>9. CASE Elsewhere
    BY <1>1, <1>6, <1>9 DEF Elsewhere, TokenExpires, Edit
  <1>10. CASE UNCHANGED vars
    BY <1>1, <1>10 DEF vars
  <1> QED BY <1>1, <1>2, <1>3, <1>5, <1>7, <1>8, <1>9, <1>10 DEF Next

(* The records, whatever step is taken.                                     *)
LEMMA HistoriesNext ==
    ASSUME Requests, World, Histories, [Next]_vars
    PROVE  Histories'
  <1>1. CASE UNCHANGED past
    BY <1>1 DEF past, Histories
  <1>2. ASSUME NEW c \in Caller, Insert(c) PROVE Histories'
    <2> DEFINE r == [at |-> req[c].at, pw |-> req[c].pw]
    <2>1. /\ At(c, "insert")
          /\ history' = [history EXCEPT ![Owner(c)] = @ \cup {r}]
          /\ recorded' = [recorded EXCEPT ![Owner(c)] = @ \cup {r}]
      BY <1>2 DEF Insert
    <2>2. req[c].pw \in Password /\ req[c].at \in Nat
      BY <2>1, Busy DEF Placed, Pcs, Setting, Working, Counting, Request
    <2>3. r \in Record
      BY <2>2 DEF Record
    <2> HIDE DEF r
    <2> QED BY <2>1, <2>3 DEF Histories
  <1>3. ASSUME NEW c \in Caller, DeleteExtra(c) PROVE Histories'
    BY <1>3 DEF Histories, DeleteExtra
  <1>4. ASSUME NEW c \in Caller, Ask(c) PROVE UNCHANGED past
    BY <1>4 DEF Ask, AskReset, AskInit, AskChange, UseCode, UseLink
  <1>5. ASSUME NEW c \in Caller, Step(c)
        PROVE  UNCHANGED past \/ Insert(c) \/ DeleteExtra(c)
    BY <1>5 DEF Step, ReadPadding, SetPadding, StoreToken, ExpireToken, SendInvitation, MailFails,
         MarkSent, Find, NotAccepted, CheckReuse, RefuseReuse, JobSucceeds, JobFails, JobTimesOut,
         DeleteToken, Activate, Stamp, ListExtra, SetExpiry, WriteFails, Count, SetWindow, SetBlock,
         ClearCounter, LiftBlock
  <1>6. CASE Elsewhere \/ UNCHANGED vars
    BY <1>1, <1>6 DEF Elsewhere, TokenExpires, WindowEnds, BlockEnds, Edit, vars
  <1> QED BY <1>1, <1>2, <1>3, <1>4, <1>5, <1>6 DEF Next
(* What happens elsewhere leaves the requests alone.                        *)
LEMMA ElsewhereStep ==
    ASSUME World, Elsewhere \/ UNCHANGED vars
    PROVE  /\ World' /\ UNCHANGED <<req, pad, known, spent, raced, made, plan, past>>
           /\ tokens' = tokens \/ (\E t \in Token : tokens' = [tokens EXCEPT ![t] = None] /\ tokens[t].ttl)
  <1>1. ASSUME NEW t \in Token, TokenExpires(t)
        PROVE  /\ World' /\ UNCHANGED <<req, pad, known, spent, raced, made, plan, past>>
               /\ tokens' = [tokens EXCEPT ![t] = None] /\ tokens[t].ttl
    <2>1. tokens' = [tokens EXCEPT ![t] = None] /\ tokens[t].ttl
      BY <1>1 DEF TokenExpires
    <2>2. tokens' \in [Token -> Entry \cup {None}]
      BY <2>1 DEF World
    <2> QED BY <1>1, <2>1, <2>2 DEF TokenExpires, World, world
  <1>2. ASSUME NEW i \in Identity, Edit(i)
        PROVE  World' /\ UNCHANGED <<req, pad, known, spent, raced, made, plan, tokens, past>>
    <2>1. PICK d \in {"ACTIVE", "INACTIVE"}, s \in BOOLEAN :
            doc' = [doc EXCEPT ![i] = [@ EXCEPT !.data = d, !.synced = s]]
      BY <1>2 DEF Edit
    <2>2. [doc[i] EXCEPT !.data = d, !.synced = s] \in Doc
      <3>1. doc[i] \in Doc
        BY DEF World
      <3> QED BY <3>1 DEF Doc, DataStatus
    <2>3. doc' \in [Identity -> Doc]
      BY <2>1, <2>2 DEF World
    <2>4. edits' \in 0 .. plan'.edits
      <3>1. plan.edits \in Nat /\ edits \in 0 .. plan.edits
        BY Constants DEF World
      <3>2. edits < plan.edits /\ edits' = edits + 1 /\ plan' = plan
        BY <1>2 DEF Edit
      <3> QED BY <3>1, <3>2
    <2> QED BY <1>2, <2>3, <2>4 DEF Edit, World, world, redis
  <1>3. ASSUME NEW i \in Identity, WindowEnds(i) \/ BlockEnds(i)
        PROVE  World' /\ UNCHANGED <<req, pad, known, spent, raced, made, plan, tokens, past>>
    BY <1>3 DEF WindowEnds, BlockEnds, World, world, redis
  <1>4. CASE UNCHANGED vars
    BY <1>4 DEF vars, World, world, redis
  <1>5. CASE Elsewhere
    BY <1>1, <1>2, <1>3, <1>5 DEF Elsewhere
  <1> QED BY <1>4, <1>5

-----------------------------------------------------------------------------
Types == Requests /\ World /\ Counters /\ Histories

(* Every step of a request, by what it does to Redis.                       *)
LEMMA StepCases ==
    ASSUME NEW c \in Caller, Step(c)
    PROVE  \/ ReadPadding(c) \/ SetPadding(c) \/ StoreToken(c) \/ ExpireToken(c)
           \/ SendInvitation(c) \/ DeleteToken(c) \/ SetExpiry(c) \/ Quick(c)
  BY DEF Step, Quick

LEMMA QuickRequests ==
    ASSUME Types, NEW c \in Caller, Quick(c)
    PROVE  Requests' /\ Moved(c)
  BY TokenRequests, PasswordRequests, HistoryRequests, CountRequests DEF Quick, Types

(* Every step keeps the types.                                              *)
LEMMA TypesNext ==
    ASSUME Types, Fresh, [Next]_vars
    PROVE  Types'
  <1>1. Counters' /\ Histories'
    BY CountersNext, HistoriesNext DEF Types
  <1>2. ASSUME NEW c \in Caller, Ask(c) PROVE Requests' /\ World'
    <2>1. Requests' /\ Asked(c)
      BY <1>2, AskRequests DEF Types
    <2>2. made \in 0 .. plan.requests /\ made' = made + 1 /\ made' <= plan.requests
      BY <2>1 DEF Types, World, Asked
    <2>3. plan' = plan /\ plan.requests \in Nat
      BY <2>1, Constants DEF Types, World, Asked, Rest
    <2>4. made' \in 0 .. plan'.requests
      BY <2>2, <2>3
    <2>5. UNCHANGED <<doc, backend, tokens, pad, known, spent, raced, broken, plan, edits, clock>>
      BY <2>1 DEF Asked, Rest, world, redis
    <2>6. World'
      BY <2>4, <2>5 DEF Types, World
    <2> QED BY <2>1, <2>6
  <1>3. ASSUME NEW c \in Caller, Step(c) PROVE Requests' /\ World'
    <2>1. CASE ReadPadding(c) \/ SetPadding(c)
      BY <2>1, PaddingStep DEF Types
    <2>2. CASE StoreToken(c) \/ ExpireToken(c) \/ SendInvitation(c) \/ DeleteToken(c) \/ SetExpiry(c)
      BY <2>2, TokenWorld, TokenRequests, PasswordRequests, HistoryRequests DEF Types
    <2>3. CASE Quick(c)
      BY <2>3, QuickRequests, QuickWorld DEF Types
    <2> QED BY <1>3, <2>1, <2>2, <2>3, StepCases
  <1>4. CASE Elsewhere \/ UNCHANGED vars
    BY <1>1, <1>4, ElsewhereStep DEF Types, Requests
  <1> QED BY <1>1, <1>2, <1>3, <1>4 DEF Next, Types
-----------------------------------------------------------------------------
(* Tokens stay fresh.                                                       *)

(* What Fresh says of one request.                                          *)
Own(c) ==
    /\ req[c].op \in Asking => req[c].token <= made
    /\ req[c].op \in Resets => req[c].token \in known
    /\ Making(req[c]) => req[c].token \notin known
    /\ Making(req[c]) /\ req[c].pc = "ttl" =>
         tokens[req[c].token] # None /\ ~tokens[req[c].token].ttl

Bounded == \A t \in Token : t \in known \/ tokens[t] # None => t <= made

Distinct ==
    \A c, d \in Caller :
        c # d /\ req[c].op \in Asking /\ req[d].op \in Asking => req[c].token # req[d].token

LEMMA FreshParts == Fresh <=> Bounded /\ (\A c \in Caller : Own(c)) /\ Distinct
  BY DEF Fresh, Bounded, Own, Distinct

(* A request keeps its token, so the makers of tokens stay apart.           *)
LEMMA DistinctMoved ==
    ASSUME Distinct, NEW c \in Caller, Others(c), req'[c] = Idle \/ Same(req'[c], req[c])
    PROVE  Distinct'
  <1>1. \A d \in Caller : req'[d].op \in Asking => req[d].op \in Asking /\ req'[d].token = req[d].token
    BY IdleOK, Constants DEF Others, Same, Asking, Kinds
  <1> QED BY <1>1 DEF Distinct

(* The requests of others, when c is the only one that moves.               *)
LEMMA OwnOthers ==
    ASSUME Types, Fresh, NEW c \in Caller, Others(c), made' = made, NEW t,
           tokens' = tokens \/ (\E v : tokens' = [tokens EXCEPT ![t] = v]),
           known' = known \/ known' = known \cup {t},
           NEW d \in Caller \ {c}, Making(req[d]) => req[d].token # t
    PROVE  Own(d)'
  <1>1. Own(d) /\ req'[d] = req[d]
    BY FreshParts DEF Others
  <1>2. Making(req[d]) => tokens'[req[d].token] = tokens[req[d].token]
    <2>1. Making(req[d]) => req[d].token \in Token
      BY IdleOK, Constants DEF Types, Requests, Placed, Making, Asking, Kinds
    <2>2. \A u \in Token \ {t} : tokens'[u] = tokens[u]
      BY DEF Types, World
    <2> QED BY <2>1, <2>2
  <1>3. Making(req[d]) => req[d].token \notin known'
    BY <1>1 DEF Own
  <1> QED BY <1>1, <1>2, <1>3 DEF Own, Making
(* A new request takes a name no token has.                                 *)
LEMMA AskFresh ==
    ASSUME Types, Fresh, NEW c \in Caller, Ask(c)
    PROVE  Fresh'
  <1>1. Asked(c)
    BY AskRequests DEF Types
  <1>2. /\ UNCHANGED <<tokens, known>> /\ made' = made + 1 /\ made \in Nat
        /\ known \subseteq Token /\ MaxRequests \in Nat
    BY <1>1, Constants DEF Asked, Rest, redis, world, Types, World
  <1>3. \A t \in Token : t <= made => t <= made' /\ t # made + 1
    BY <1>2 DEF Token
  <1>4. Bounded'
    BY <1>2, <1>3, FreshParts DEF Bounded
  <1>5. \A d \in Caller \ {c} : req'[d] = req[d] /\ Own(d)
    BY <1>1, FreshParts DEF Asked, Others
  <1>6. \A d \in Caller \ {c} : req[d].op \in Asking =>
            req[d].token \in Token /\ req[d].token <= made
    BY <1>5, IdleOK, Constants DEF Types, Requests, Placed, Own, Asking, Kinds
  <1>7. ASSUME NEW d \in Caller \ {c} PROVE Own(d)'
    BY <1>2, <1>3, <1>5, <1>6 DEF Own, Making
  <1>8. CASE AskedToken(req'[c])
    <2>1. /\ req'[c].op \in Asking /\ req'[c].token = made + 1 /\ req'[c].pc # "ttl"
          /\ req'[c].op \notin Resets
      BY <1>8 DEF AskedToken, Asking, Resets
    <2>2. made + 1 \notin known /\ made + 1 <= made'
      BY <1>2, <1>3, FreshParts DEF Bounded
    <2>3. Own(c)'
      BY <1>2, <2>1, <2>2 DEF Own
    <2>4. Distinct'
      BY <1>3, <1>5, <1>6, <2>1, FreshParts DEF Distinct
    <2> QED BY <1>4, <1>7, <2>3, <2>4, FreshParts DEF Fresh, Bounded, Own, Distinct
  <1>9. CASE AskedReset(req'[c]) \/ AskedChange(req'[c])
    <2>1. req'[c].op \notin Asking /\ (req'[c].op \in Resets => req'[c].token \in known)
      BY <1>9 DEF AskedReset, AskedChange, Asking, Resets
    <2>2. Own(c)'
      BY <1>2, <2>1 DEF Own, Making
    <2>3. Distinct'
      BY <1>5, <2>1, FreshParts DEF Distinct
    <2> QED BY <1>4, <1>7, <2>2, <2>3, FreshParts DEF Fresh, Bounded, Own, Distinct
  <1> QED BY <1>1, <1>8, <1>9 DEF Asked
(* The other steps: each names the one token it is about.                   *)
LEMMA FreshAssembled ==
    ASSUME Bounded', \A c \in Caller : Own(c)', Distinct'
    PROVE  Fresh'
  BY DEF Fresh, Bounded, Own, Distinct

(* The steps that store no token, and tell nobody of one.                   *)
LEMMA IdleFresh ==
    ASSUME Types, Fresh, NEW c \in Caller, Others(c),
           req'[c] = Idle \/ Same(req'[c], req[c]), UNCHANGED <<known, made>>,
           Making(req'[c]) => Making(req[c]) /\ req'[c].pc # "ttl",
           tokens' = tokens \/ \E t \in known : tokens' = [tokens EXCEPT ![t] = None]
    PROVE  Fresh'
  <1>1. Distinct'
    BY DistinctMoved, FreshParts
  <1>2. \A t \in Token : tokens'[t] # None => tokens[t] # None
    BY DEF Types, World
  <1>3. Bounded'
    BY <1>2, FreshParts DEF Bounded
  <1>4. Own(c)'
    BY FreshParts, IdleOK, Constants DEF Own, Making, Same, Asking, Resets, Kinds
  <1>5. ASSUME NEW d \in Caller \ {c} PROVE Own(d)'
    <2>1. CASE tokens' = tokens
      <3>1. Own(d) /\ req'[d] = req[d]
        BY FreshParts DEF Others
      <3> QED BY <2>1, <3>1 DEF Own, Making
    <2>2. ASSUME NEW t \in known, tokens' = [tokens EXCEPT ![t] = None] PROVE Own(d)'
      <3>1. Making(req[d]) => req[d].token # t
        BY FreshParts DEF Own
      <3> QED BY <2>2, <3>1, OwnOthers
    <2> QED BY <2>1, <2>2
  <1> QED BY <1>1, <1>3, <1>4, <1>5, FreshAssembled

(* A step on one's own token.                                               *)
LEMMA StepFresh ==
    ASSUME Types, Fresh, NEW c \in Caller, Step(c)
    PROVE  Fresh'
  <1>1. CASE ReadPadding(c) \/ SetPadding(c)
    <2>1. /\ UNCHANGED <<tokens, known, made>> /\ Others(c)
          /\ \/ req'[c] = Idle
             \/ Same(req'[c], req[c]) /\ req'[c].pc \in {"token", "find", "setPad"}
      BY <1>1, PaddingStep, PaddedOK DEF Moved, Types, World, ReadPadding, SetPadding
    <2>2. At(c, "pad") \/ At(c, "setPad")
      BY <1>1 DEF ReadPadding, SetPadding
    <2>3. Making(req'[c]) => Making(req[c]) /\ req'[c].pc # "ttl"
      BY <2>1, <2>2, IdleOK, Constants DEF Making, Same, At, Asking, Kinds
    <2> QED BY <2>1, <2>3, IdleFresh
  <1>2. CASE Quick(c) \/ SetExpiry(c)
    <2>1. Moved(c) /\ UNCHANGED <<tokens, known, made>>
      BY <1>2, QuickRequests, QuickKeeps, HistoryRequests DEF Types, SetExpiry, redis
    <2>2. req'[c] = Idle \/ req[c].op \in Setting
      <3>1. MailFails(c) \/ MarkSent(c) => req'[c] = Idle
        BY EndsMoved DEF MailFails, MarkSent, Types
      <3>2. MailFails(c) \/ MarkSent(c) \/ req[c].pc \in Working \cup Counting
        BY <1>2 DEF Quick, Find, NotAccepted, CheckReuse, RefuseReuse, JobSucceeds, JobFails,
             JobTimesOut, Activate, Stamp, Insert, ListExtra, DeleteExtra, SetExpiry, WriteFails,
             Count, SetWindow, SetBlock, ClearCounter, LiftBlock, At, Working, Counting
      <3>3. req[c].pc \in Working \cup Counting => req[c].op \in Setting
        BY Busy DEF Placed, Pcs, Working, Counting, Setting, At, Types
      <3> QED BY <3>1, <3>2, <3>3
    <2>3. ~Making(req'[c])
      BY <2>1, <2>2, IdleOK, Constants DEF Making, Moved, Same, Asking, Setting, Kinds
    <2> QED BY <2>1, <2>3, IdleFresh DEF Moved
  <1>3. CASE StoreToken(c)
    <2> DEFINE t == req[c].token
    <2>1. /\ At(c, "token") /\ Go(c, "ttl") /\ UNCHANGED <<known, made>>
          /\ \E v : v # None /\ ~v.ttl /\ tokens' = [tokens EXCEPT ![t] = v]
      <3>1. PICK p \in Plains : tokens' = [tokens EXCEPT ![t] =
              [id |-> Owner(c), ttl |-> FALSE, plain |-> p,
               pad |-> IF req[c].op = "initReset" THEN req[c].entry.pad ELSE None]]
        BY <1>3 DEF StoreToken
      <3> DEFINE k == IF req[c].op = "initReset" THEN req[c].entry.pad ELSE None
                 v == [id |-> Owner(c), ttl |-> FALSE, plain |-> p, pad |-> k]
      <3>2. tokens' = [tokens EXCEPT ![t] = v]
        BY <3>1
      <3>3. World'
        BY <1>3, TokenWorld DEF Types
      <3>4. t \in Token /\ ~v.ttl
        BY <1>3, Busy DEF StoreToken, Placed, Pcs, Working, Counting, Types
      <3> HIDE DEF v
      <3>5. v # None
        <4>1. v.id \in Identity /\ v \in Entry
          <5>1. Owner(c) \in Identity /\ k \in Caller \cup {None}
            BY <1>3, Busy DEF StoreToken, Placed, Owner, Pcs, Working, Counting, Types
          <5> HIDE DEF k
          <5> QED BY <5>1, Constants DEF v, Entry
        <4> QED BY <4>1, EntryAssumption
      <3> QED BY <1>3, <3>2, <3>4, <3>5 DEF StoreToken, world
    <2>2. /\ Moved(c) /\ req'[c].pc = "ttl" /\ req[c].op \in Asking /\ t \in Token
          /\ Making(req[c]) /\ req[c].pc = "token"
      BY <2>1, GoesMoved, Busy DEF Placed, Pcs, Working, Counting, Types, Asking, Making
    <2>3. Others(c) /\ Same(req'[c], req[c])
      BY <2>2, IdleOK, Constants DEF Moved, Pcs
    <2>4. Distinct'
      BY <2>3, DistinctMoved, FreshParts
    <2>5. t <= made /\ t \notin known
      BY <2>2, FreshParts DEF Own
    <2>6. \A u \in Token \ {t} : tokens'[u] = tokens[u]
      BY <2>1 DEF Types, World
    <2>7. Bounded'
      BY <2>1, <2>5, <2>6, FreshParts DEF Bounded
    <2>8. tokens'[t] # None /\ ~tokens'[t].ttl
      BY <2>1, <2>2 DEF Types, World
    <2>9. Own(c)'
      BY <2>1, <2>2, <2>3, <2>5, <2>8 DEF Own, Same, Asking, Resets
    <2>10. ASSUME NEW d \in Caller \ {c} PROVE Own(d)'
      <3>1. Making(req[d]) => req[d].token # t
        BY <2>2, FreshParts DEF Distinct, Making
      <3> QED BY <2>1, <2>3, <3>1, OwnOthers
    <2> QED BY <2>4, <2>7, <2>9, <2>10, FreshAssembled
  <1>4. CASE ExpireToken(c) \/ SendInvitation(c)
    <2> DEFINE t == req[c].token
    <2>1. /\ At(c, "ttl") \/ At(c, "mail")
          /\ made' = made /\ (known' = known \/ known' = known \cup {t})
          /\ tokens' = tokens \/ tokens' = [tokens EXCEPT ![t] = [@ EXCEPT !.ttl = TRUE]]
      BY <1>4 DEF ExpireToken, SendInvitation, redis
    <2>2. req[c].op \in Asking /\ t \in Token /\ Making(req[c])
      BY <2>1, Busy DEF Placed, Pcs, Working, Counting, Types, Asking, Making
    <2>3. Moved(c)
      BY <1>4, TokenRequests DEF Types
    <2>4. Distinct'
      BY <2>3, DistinctMoved, FreshParts DEF Moved
    <2>5. t <= made
      BY <2>2, FreshParts DEF Own
    <2>6. \A u \in Token \ {t} : tokens'[u] = tokens[u]
      BY <2>1 DEF Types, World
    <2>7. Bounded'
      BY <2>1, <2>5, <2>6, FreshParts DEF Bounded
    <2>8. Own(c)'
      <3>1. CASE ExpireToken(c)
        <4>1. req'[c] = Idle \/ (Same(req'[c], req[c]) /\ req'[c].pc = "mail" /\ known' = known)
          BY <3>1, GoesMoved, EndsMoved DEF ExpireToken, Types, Pcs, Moved
        <4> QED BY <2>1, <2>2, <4>1, FreshParts, IdleOK, Constants
                DEF Own, Making, Same, Asking, Resets, Kinds
      <3>2. CASE SendInvitation(c)
        <4>1. req'[c].pc = "sent" /\ (req'[c] = Idle \/ Same(req'[c], req[c]))
          BY <3>2, GoesMoved DEF SendInvitation, Types, Pcs, Moved
        <4> QED BY <2>1, <2>2, <4>1, FreshParts, IdleOK, Constants
                DEF Own, Making, Same, Asking, Resets, Kinds
      <3> QED BY <1>4, <3>1, <3>2
    <2>9. ASSUME NEW d \in Caller \ {c} PROVE Own(d)'
      <3>1. Making(req[d]) => req[d].token # t
        BY <2>2, FreshParts DEF Distinct, Making
      <3>2. \E v : tokens' = tokens \/ tokens' = [tokens EXCEPT ![t] = v]
        BY <2>1
      <3> QED BY <2>1, <2>3, <3>1, <3>2, OwnOthers DEF Moved
    <2> QED BY <2>4, <2>7, <2>8, <2>9, FreshAssembled
  <1>5. CASE DeleteToken(c)
    <2>1. /\ At(c, "del") /\ Go(c, "save") /\ UNCHANGED <<known, made>>
          /\ tokens' = tokens \/ tokens' = [tokens EXCEPT ![req[c].token] = None]
      BY <1>5 DEF DeleteToken, world
    <2>2. req[c].op \in Resets
      BY <2>1, Busy DEF Placed, Pcs, Working, Counting, Types, Resets
    <2>3. req[c].token \in known
      BY <2>2, FreshParts DEF Own
    <2>4. Moved(c) /\ req'[c].pc = "save"
      BY <2>1, GoesMoved DEF Pcs, Types
    <2>5. ~Making(req'[c])
      BY <2>4 DEF Making
    <2> QED BY <2>1, <2>3, <2>4, <2>5, IdleFresh DEF Moved
  <1> QED BY <1>1, <1>2, <1>3, <1>4, <1>5, StepCases

(* Every step keeps the tokens fresh.                                       *)
LEMMA FreshNext ==
    ASSUME Types, Fresh, [Next]_vars
    PROVE  Fresh'
  <1>1. CASE Elsewhere \/ UNCHANGED vars
    <2>1. /\ UNCHANGED <<req, known, made>>
          /\ tokens' = tokens \/ (\E t \in Token : tokens' = [tokens EXCEPT ![t] = None] /\ tokens[t].ttl)
      BY <1>1, ElsewhereStep DEF Types
    <2>2. Distinct'
      BY <2>1, FreshParts DEF Distinct
    <2>3. \A t \in Token : tokens'[t] # None => tokens[t] # None
      BY <2>1 DEF Types, World
    <2>4. Bounded'
      BY <2>1, <2>3, FreshParts DEF Bounded
    <2>5. ASSUME NEW d \in Caller PROVE Own(d)'
      <3>1. Making(req[d]) /\ req[d].pc = "ttl" => tokens'[req[d].token] = tokens[req[d].token]
        <4>1. Making(req[d]) => req[d].token \in Token
          BY IdleOK, Constants DEF Types, Requests, Placed, Making, Asking, Kinds
        <4>2. Making(req[d]) /\ req[d].pc = "ttl" => ~tokens[req[d].token].ttl
          BY FreshParts DEF Own
        <4> QED BY <2>1, <4>1, <4>2 DEF Types, World
      <3>2. Own(d)
        BY FreshParts
      <3> QED BY <2>1, <3>1, <3>2 DEF Own, Making
    <2> QED BY <2>2, <2>4, <2>5, FreshAssembled
  <1> QED BY <1>1, AskFresh, StepFresh DEF Next
-----------------------------------------------------------------------------
(* A stored code stays openable.                                            *)

(* Where the quick steps, and the last one, lead.                           *)
LEMMA QuickPlace ==
    ASSUME Types, NEW c \in Caller, Quick(c) \/ SetExpiry(c)
    PROVE  req'[c] = Idle \/ req'[c].pc \in Working \cup Counting \cup {"del"}
  <1> DEFINE places == Working \cup Counting \cup {"del"}
  <1>1. \A q \in places : q \in Pcs
    BY DEF Working, Counting, Pcs
  <1>2. ASSUME NEW q \in places, Go(c, q) PROVE req'[c].pc = q
    BY <1>1, <1>2, GoesMoved DEF Types
  <1>3. End(c) => req'[c] = Idle
    BY EndsMoved DEF Types
  <1>4. CASE \/ JobSucceeds(c) \/ JobFails(c) \/ JobTimesOut(c) \/ WriteFails(c) \/ SetExpiry(c)
    BY <1>2, <1>3, <1>4 DEF JobSucceeds, JobFails, JobTimesOut, WriteFails, SetExpiry, Catch,
                            Working, Counting
  <1>5. CASE \/ MailFails(c) \/ MarkSent(c) \/ NotAccepted(c) \/ CheckReuse(c) \/ RefuseReuse(c)
             \/ Activate(c) \/ Insert(c) \/ DeleteExtra(c)
    BY <1>2, <1>3, <1>5 DEF MailFails, MarkSent, NotAccepted, CheckReuse, RefuseReuse, Activate,
                            Insert, DeleteExtra, Working
  <1>6. CASE Count(c) \/ SetWindow(c) \/ SetBlock(c) \/ ClearCounter(c) \/ LiftBlock(c)
    BY <1>2, <1>3, <1>6 DEF Count, SetWindow, SetBlock, ClearCounter, LiftBlock, Counting
  <1>7. CASE Find(c)
    BY <1>7 DEF Find, Types, Requests, Request, Working
  <1>8. CASE Stamp(c)
    BY <1>8 DEF Stamp, Types, Requests, Request, Working
  <1>9. CASE ListExtra(c)
    <2> DEFINE q == IF history[Owner(c)] \ Newest(history[Owner(c)]) = {} THEN "expiry" ELSE "delete"
    <2>1. \E x : req' = [req EXCEPT ![c].pc = q, ![c].extra = x]
      BY <1>9 DEF ListExtra
    <2>2. q \in places
      BY DEF Working
    <2> HIDE DEF q
    <2> QED BY <2>1, <2>2 DEF Types, Requests, Request
  <1> QED BY <1>4, <1>5, <1>6, <1>7, <1>8, <1>9 DEF Quick

(* A step that touches neither the padding nor what was made with it.       *)
LEMMA PaddingMoved ==
    ASSUME Padding, Types, NEW c \in Caller, Others(c), pad' = pad, raced' = raced,
           req'[c].pc \notin {"setPad", "token"} \/ (req'[c].op = "initAccount" /\ req'[c].pc # "setPad"),
           \A t \in Token : tokens'[t] # None => tokens[t] # None /\ tokens'[t].pad = tokens[t].pad
    PROVE  Padding'
  BY DEF Padding, Others

(* The steps of a request.                                                  *)
LEMMA StepPadding ==
    ASSUME Padding, Types, Fresh, NEW c \in Caller, Step(c)
    PROVE  Padding'
  <1>0. Idle.pc \notin {"setPad", "token"}
    BY IdleOK, Constants DEF Pcs
  <1>1. CASE Quick(c) \/ SetExpiry(c)
    <2>1. Moved(c) /\ UNCHANGED <<tokens, pad, raced>>
      BY <1>1, QuickRequests, QuickKeeps, HistoryRequests DEF Types, SetExpiry, redis
    <2>2. req'[c].pc \notin {"setPad", "token"}
      BY <1>0, <1>1, QuickPlace DEF Working, Counting
    <2> QED BY <2>1, <2>2, PaddingMoved DEF Moved
  <1>2. CASE DeleteToken(c)
    <2>1. /\ At(c, "del") /\ Go(c, "save") /\ UNCHANGED <<pad, raced>>
          /\ tokens' = tokens \/ tokens' = [tokens EXCEPT ![req[c].token] = None]
      BY <1>2 DEF DeleteToken, world
    <2>2. Moved(c) /\ req'[c].pc = "save"
      BY <2>1, GoesMoved DEF Pcs, Types
    <2>3. \A t \in Token : tokens'[t] # None => tokens[t] # None /\ tokens'[t] = tokens[t]
      BY <2>1 DEF Types, World
    <2> QED BY <2>1, <2>2, <2>3, PaddingMoved DEF Moved
  <1>3. CASE ExpireToken(c) \/ SendInvitation(c)
    <2> DEFINE t == req[c].token
    <2>1. /\ UNCHANGED <<pad, raced>> /\ Moved(c)
          /\ tokens' = tokens
               \/ (At(c, "ttl") /\ tokens' = [tokens EXCEPT ![t] = [@ EXCEPT !.ttl = TRUE]])
      <3>1. Moved(c)
        BY <1>3, TokenRequests DEF Types
      <3>2. CASE ExpireToken(c)
        BY <3>1, <3>2 DEF ExpireToken
      <3>3. CASE SendInvitation(c)
        BY <3>1, <3>3 DEF SendInvitation, redis
      <3> QED BY <1>3, <3>2, <3>3
    <2>2. req'[c].pc \notin {"setPad", "token"}
      BY <1>0, <1>3, GoesMoved, EndsMoved DEF ExpireToken, SendInvitation, Types, Pcs
    <2>3. At(c, "ttl") => tokens[t] \in Entry /\ t \in Token /\ tokens[t] # None
      <3>1. At(c, "ttl") => req[c].op \in Asking /\ t \in Token /\ req[c].pc = "ttl"
        BY Busy DEF Placed, Pcs, Working, Counting, Asking, Types
      <3> QED BY <3>1 DEF Fresh, Making, Types, World
    <2>4. \A u \in Token : tokens'[u] # None => tokens[u] # None /\ tokens'[u].pad = tokens[u].pad
      <3>1. CASE tokens' = tokens
        BY <3>1
      <3>2. CASE At(c, "ttl") /\ tokens' = [tokens EXCEPT ![t] = [@ EXCEPT !.ttl = TRUE]]
        <4> DEFINE e == [tokens[t] EXCEPT !.ttl = TRUE]
        <4>1. e.pad = tokens[t].pad
          BY <2>3, <3>2 DEF Entry
        <4>2. tokens' = [tokens EXCEPT ![t] = e]
          BY <3>2
        <4> HIDE DEF e
        <4> QED BY <2>3, <3>2, <4>1, <4>2 DEF Types, World
      <3> QED BY <2>1, <3>1, <3>2
    <2> QED BY <2>1, <2>2, <2>4, PaddingMoved DEF Moved
  <1>4. CASE StoreToken(c)
    <2> DEFINE t == req[c].token
               k == IF req[c].op = "initReset" THEN req[c].entry.pad ELSE None
    <2>1. /\ At(c, "token") /\ Go(c, "ttl") /\ UNCHANGED <<pad, raced>>
          /\ \E p \in Plains : tokens' = [tokens EXCEPT ![t] =
               [id |-> Owner(c), ttl |-> FALSE, plain |-> p, pad |-> k]]
      BY <1>4 DEF StoreToken, world
    <2>2. Moved(c) /\ req'[c].pc = "ttl" /\ req[c].pc = "token"
      BY <2>1, GoesMoved DEF Types, Pcs, At
    <2>3. raced \/ k \in {None, pad}
      BY <2>2 DEF Padding
    <2> HIDE DEF k
    <2>4. \A u \in Token : tokens'[u] = tokens[u] \/ tokens'[u].pad = k
      BY <2>1 DEF Types, World
    <2> QED BY <2>1, <2>2, <2>3, <2>4 DEF Padding, Moved, Others
  <1>5. CASE ReadPadding(c) \/ SetPadding(c)
    <2>1. tokens' = tokens
      BY <1>5, PaddingStep DEF Types
    <2>2. CASE ReadPadding(c) /\ pad # None /\ Padded(c, pad) /\ UNCHANGED <<pad, raced>>
      <3>1. /\ Others(c)
            /\ \/ req'[c].pc \notin {"setPad", "token"}
               \/ req'[c].pc = "token" /\ req'[c].entry = [pad |-> pad]
        <4>1. At(c, "pad") /\ pad \in Caller
          BY <2>2 DEF ReadPadding, Types, World
        <4> QED BY <1>0, <2>2, <4>1, PaddedOK DEF Types
      <3>2. CASE req'[c].pc \notin {"setPad", "token"}
        BY <2>1, <2>2, <3>1, <3>2, PaddingMoved
      <3>3. CASE req'[c].pc = "token" /\ req'[c].entry = [pad |-> pad]
        <4>1. req'[c].entry.pad = pad
          BY <3>3
        <4> QED BY <2>1, <2>2, <3>1, <3>3, <4>1 DEF Padding, Others
      <3> QED BY <3>1, <3>2, <3>3
    <2>3. CASE pad = None /\ Moved(c) /\ req'[c].pc = "setPad" /\ UNCHANGED <<pad, raced>>
      BY <2>1, <2>3 DEF Padding, Moved, Others
    <2>4. CASE /\ SetPadding(c) /\ Padded(c, c) /\ pad' = c
               /\ raced' = (raced \/ \E d \in Caller \ {c} : At(d, "setPad"))
      <3>1. /\ At(c, "setPad") /\ Others(c)
            /\ \/ req'[c].pc \notin {"setPad", "token"}
               \/ req'[c].pc = "token" /\ req'[c].entry = [pad |-> c]
        BY <1>0, <2>4, PaddedOK DEF SetPadding, Types
      <3> SUFFICES ASSUME ~raced' PROVE Padding'
        BY DEF Padding
      <3>2. ~raced /\ pad = None /\ \A d \in Caller \ {c} : req[d].pc # "setPad"
        BY <2>4, <3>1 DEF Padding, At
      <3>3. \A d \in Caller \ {c} : ~(req[d].op = "initReset" /\ req[d].pc = "token")
        <4> SUFFICES ASSUME NEW d \in Caller \ {c}, req[d].op = "initReset", req[d].pc = "token"
                     PROVE FALSE
          OBVIOUS
        <4>1. req[d].entry \in [pad : Caller]
          BY Busy DEF At, Placed, Types, Pcs
        <4>2. req[d].entry.pad = None
          BY <3>2 DEF Padding
        <4> QED BY <4>1, <4>2, Constants
      <3>4. \A t \in Token : tokens'[t] # None => tokens'[t].pad = None
        BY <2>1, <3>2 DEF Padding
      <3>5. req'[c].op = "initReset" /\ req'[c].pc = "token" => req'[c].entry.pad = c
        BY <3>1
      <3>6. \A d \in Caller \ {c} : req'[d] = req[d]
        BY <3>1 DEF Others
      <3> QED BY <2>4, <3>1, <3>2, <3>3, <3>4, <3>5, <3>6 DEF Padding
    <2> QED BY <1>5, <2>2, <2>3, <2>4, PaddingStep DEF Types
  <1> QED BY <1>1, <1>2, <1>3, <1>4, <1>5, StepCases

LEMMA PaddingNext ==
    ASSUME Padding, Types, Fresh, [Next]_vars
    PROVE  Padding'
  <1>1. ASSUME NEW c \in Caller, Ask(c) PROVE Padding'
    <2>1. Asked(c)
      BY <1>1, AskRequests DEF Types
    <2>2. Others(c) /\ UNCHANGED <<tokens, pad, raced>>
      BY <2>1 DEF Asked, Rest, redis, world
    <2>3. req'[c].pc \notin {"setPad", "token"} \/ (req'[c].op = "initAccount" /\ req'[c].pc # "setPad")
      BY <2>1 DEF Asked, AskedToken, AskedReset, AskedChange
    <2> QED BY <2>2, <2>3, PaddingMoved
  <1>2. CASE Elsewhere \/ UNCHANGED vars
    <2>1. /\ UNCHANGED <<req, pad, raced>>
          /\ tokens' = tokens \/ \E t \in Token : tokens' = [tokens EXCEPT ![t] = None]
      BY <1>2, ElsewhereStep DEF Types
    <2>2. \A t \in Token : tokens'[t] # None => tokens[t] # None /\ tokens'[t] = tokens[t]
      BY <2>1 DEF Types, World
    <2> QED BY <2>1, <2>2 DEF Padding
  <1> QED BY <1>1, <1>2, StepPadding DEF Next
-----------------------------------------------------------------------------
(* A spent token stays refused.                                             *)

Past == Working \ {"find", "reuse", "job"}

(* A step that spends nothing and brings no key back.                       *)
LEMMA SpendingMoved ==
    ASSUME Spending, Types, Fresh, NEW c \in Caller, Others(c), spent' = spent,
           known \subseteq known', \A t \in known : tokens[t] = None => tokens'[t] = None,
           \A t \in Token : tokens'[t] # None => tokens'[t].plain \in Plains,
           req'[c] = Idle \/ (Same(req'[c], req[c])
                               /\ (req[c].op \in Resets => req'[c].entry = req[c].entry)),
           req[c].op \in Resets /\ req'[c].pc \in Past =>
             req[c].pc \in Past \/ tokens'[req[c].token] = None
    PROVE  Spending'
  <1>1. \A d \in Caller : req[d].op \in Resets => req[d].token \in known
    BY DEF Fresh
  <1>2. \A d \in Caller \ {c} : req'[d] = req[d]
    BY DEF Others
  <1>3. Idle.op \notin Resets /\ ~Idle.stale
    BY IdleOK, Constants DEF Resets, Kinds
  <1>4. \A t \in spent' : tokens'[t] = None /\ t \in known'
    BY DEF Spending
  <1>5. ASSUME NEW d \in Caller
        PROVE  /\ ~req'[d].stale
               /\ req'[d].op \in Resets => req'[d].entry.plain \in Plains /\ req'[d].form \in Forms
               /\ req'[d].op \in Resets /\ req'[d].pc \in Past => tokens'[req'[d].token] = None
    <2>1. CASE d # c
      BY <1>1, <1>2, <2>1 DEF Spending, Past
    <2>2. CASE d = c
      BY <1>1, <1>3, <2>2 DEF Spending, Past, Same
    <2> QED BY <2>1, <2>2
  <1> QED BY <1>4, <1>5 DEF Spending, Past

(* A quick step of a reset passes the deletion of its key only from there.  *)
LEMMA QuickPast ==
    ASSUME Types, NEW c \in Caller, Quick(c) \/ SetExpiry(c), req[c].op \in Resets,
           req'[c].pc \in Past
    PROVE  req[c].pc \in Past
  <1>0. Idle.pc \notin Past
    BY IdleOK, Constants DEF Past, Working, Pcs
  <1>1. ASSUME NEW q \in Pcs, Go(c, q) PROVE req'[c].pc = q
    BY <1>1, GoesMoved DEF Types
  <1>2. End(c) => req'[c] = Idle
    BY EndsMoved DEF Types
  <1>3. \/ req[c].pc \in Past \cup {"find", "reuse", "job"} \cup Counting
        \/ MailFails(c) \/ MarkSent(c)
    BY DEF Quick, Find, NotAccepted, CheckReuse, RefuseReuse, JobSucceeds, JobFails, JobTimesOut,
           Activate, Stamp, Insert, ListExtra, DeleteExtra, SetExpiry, WriteFails, Count, SetWindow,
           SetBlock, ClearCounter, LiftBlock, At, Working, Counting, Past
  <1>4. CASE MailFails(c) \/ MarkSent(c)
    BY <1>0, <1>2, <1>4 DEF MailFails, MarkSent
  <1>5. CASE req[c].pc \in Counting
    BY <1>5, Busy DEF At, Placed, Types, Pcs, Counting, Working, Resets
  <1>6. CASE req[c].pc \in {"find", "reuse", "job"}
    <2>1. \/ Find(c) \/ NotAccepted(c) \/ CheckReuse(c) \/ RefuseReuse(c)
          \/ JobSucceeds(c) \/ JobFails(c) \/ JobTimesOut(c) \/ MailFails(c) \/ MarkSent(c)
      BY <1>6 DEF Quick, Activate, Stamp, Insert, ListExtra, DeleteExtra, SetExpiry, WriteFails,
           Count, SetWindow, SetBlock, ClearCounter, LiftBlock, At
    <2>2. CASE Find(c)
      BY <2>2 DEF Find, Types, Requests, Request, Past, Working
    <2>3. CASE NotAccepted(c) \/ RefuseReuse(c) \/ JobFails(c) \/ JobTimesOut(c)
      BY <1>0, <1>2, <2>3 DEF NotAccepted, RefuseReuse, JobFails, JobTimesOut, Catch, Resets
    <2>4. CASE CheckReuse(c)
      BY <1>1, <2>4 DEF CheckReuse, Past, Working, Pcs
    <2>5. CASE JobSucceeds(c)
      BY <1>1, <2>5 DEF JobSucceeds, Past, Working, Pcs
    <2> QED BY <2>1, <2>2, <2>3, <2>4, <2>5, <1>4
  <1> QED BY <1>3, <1>4, <1>5, <1>6
(* The steps of a request; the deletion finds the key.                      *)
LEMMA StepSpending ==
    ASSUME Erasable, Spending, Types, Fresh, NEW c \in Caller, Step(c)
    PROVE  Spending'
  <1>0. /\ \A t \in Token : tokens[t] # None => tokens[t].plain \in Plains
        /\ known \subseteq Token /\ spent \subseteq known
    BY DEF Spending, Types, World
  <1>1. CASE Quick(c)
    <2>1. Moved(c) /\ UNCHANGED <<tokens, known, spent>>
      BY <1>1, QuickRequests, QuickKeeps
    <2> QED BY <1>0, <1>1, <2>1, QuickPast, SpendingMoved DEF Moved
  <1>2. CASE ReadPadding(c) \/ SetPadding(c)
    <2>1. UNCHANGED <<tokens, known, spent>>
      BY <1>2, PaddingStep DEF Types
    <2>2. /\ Others(c)
          /\ \/ req'[c] = Idle
             \/ /\ Same(req'[c], req[c]) /\ req'[c].pc \in {"token", "find", "setPad"}
                /\ req[c].op \in Resets => req'[c].entry = req[c].entry
      BY <1>2, PaddingStep, PaddedOK DEF Moved, Types, World, ReadPadding, SetPadding, Resets
    <2>3. req'[c].pc \notin Past
      BY <2>2, IdleOK, Constants DEF Past, Working, Pcs
    <2> QED BY <1>0, <2>1, <2>2, <2>3, SpendingMoved
  <1>3. CASE StoreToken(c)
    <2> DEFINE t == req[c].token
               k == IF req[c].op = "initReset" THEN req[c].entry.pad ELSE None
    <2>1. /\ At(c, "token") /\ Go(c, "ttl") /\ UNCHANGED <<known, spent>>
          /\ \E p \in Plains : tokens' = [tokens EXCEPT ![t] =
               [id |-> Owner(c), ttl |-> FALSE, plain |-> p, pad |-> k]]
      BY <1>3 DEF StoreToken, world
    <2>2. Moved(c) /\ req'[c].pc = "ttl"
      BY <2>1, GoesMoved DEF Types, Pcs
    <2>3. t \in Token /\ t \notin known
      <3>1. t \in Token /\ req[c].op \in Asking /\ req[c].pc = "token"
        BY <2>1, Busy DEF Placed, Pcs, Working, Counting, Types, Asking
      <3> QED BY <3>1 DEF Fresh, Making
    <2> HIDE DEF k
    <2>4. PICK p \in Plains : tokens' = [tokens EXCEPT ![t] =
            [id |-> Owner(c), ttl |-> FALSE, plain |-> p, pad |-> k]]
      BY <2>1
    <2>5. \A u \in Token : u # t => tokens'[u] = tokens[u]
      BY <2>4 DEF Types, World
    <2>6. tokens'[t].plain \in Plains
      BY <2>3, <2>4 DEF Types, World
    <2>7. \A u \in Token : tokens'[u] # None => tokens'[u].plain \in Plains
      BY <1>0, <2>5, <2>6
    <2>8. req'[c].pc \notin Past
      BY <2>2 DEF Past, Working
    <2> QED BY <1>0, <2>1, <2>2, <2>3, <2>5, <2>7, <2>8, SpendingMoved DEF Moved
  <1>4. CASE ExpireToken(c) \/ SendInvitation(c)
    <2> DEFINE t == req[c].token
    <2>1. /\ spent' = spent /\ (known' = known \/ known' = known \cup {t})
          /\ tokens' = tokens
               \/ (At(c, "ttl") /\ tokens' = [tokens EXCEPT ![t] = [@ EXCEPT !.ttl = TRUE]])
      <3>1. CASE ExpireToken(c)
        BY <3>1 DEF ExpireToken
      <3>2. CASE SendInvitation(c)
        BY <3>2 DEF SendInvitation, redis
      <3> QED BY <1>4, <3>1, <3>2
    <2>2. Moved(c)
      BY <1>4, TokenRequests DEF Types
    <2>3. req'[c].pc \notin Past
      BY <1>4, GoesMoved, EndsMoved, IdleOK, Constants
         DEF ExpireToken, SendInvitation, Types, Pcs, Past, Working
    <2>4. At(c, "ttl") => tokens[t] \in Entry /\ t \in Token /\ tokens[t] # None
      <3>1. At(c, "ttl") => req[c].op \in Asking /\ t \in Token /\ req[c].pc = "ttl"
        BY Busy DEF Placed, Pcs, Working, Counting, Asking, Types
      <3> QED BY <3>1 DEF Fresh, Making, Types, World
    <2>5. \A u \in Token :
            /\ tokens[u] = None => tokens'[u] = None
            /\ tokens'[u] # None => tokens'[u].plain \in Plains
      <3>1. CASE tokens' = tokens
        BY <1>0, <3>1
      <3>2. CASE At(c, "ttl") /\ tokens' = [tokens EXCEPT ![t] = [@ EXCEPT !.ttl = TRUE]]
        <4> DEFINE e == [tokens[t] EXCEPT !.ttl = TRUE]
        <4>1. e.plain = tokens[t].plain
          BY <2>4, <3>2 DEF Entry
        <4>2. tokens' = [tokens EXCEPT ![t] = e]
          BY <3>2
        <4> HIDE DEF e
        <4> QED BY <1>0, <2>4, <3>2, <4>1, <4>2 DEF Types, World
      <3> QED BY <2>1, <3>1, <3>2
    <2>6. spent' = spent /\ known \subseteq known'
      BY <2>1
    <2>7. \A u \in known : tokens[u] = None => tokens'[u] = None
      BY <1>0, <2>5
    <2>8. \A u \in Token : tokens'[u] # None => tokens'[u].plain \in Plains
      BY <2>5
    <2> QED BY <2>2, <2>3, <2>6, <2>7, <2>8, SpendingMoved DEF Moved
  <1>5. CASE DeleteToken(c)
    <2>1. /\ At(c, "del") /\ Go(c, "save") /\ UNCHANGED <<known, spent>>
          /\ tokens' = IF req[c].form = "raw" \/ req[c].entry.plain
                       THEN [tokens EXCEPT ![req[c].token] = None] ELSE tokens
      BY <1>5 DEF DeleteToken, world
    <2>2. req[c].op \in Resets /\ req[c].token \in Token
      BY <2>1, Busy DEF Placed, Pcs, Working, Counting, Types, Resets
    <2>3. req[c].form = "raw" \/ req[c].entry.plain
      BY <2>2, Constants DEF Erasable, Spending
    <2>4. tokens' = [tokens EXCEPT ![req[c].token] = None]
      BY <2>1, <2>3
    <2>5. \A u \in Token : tokens'[u] = None \/ tokens'[u] = tokens[u]
      BY <2>4 DEF Types, World
    <2>6. tokens'[req[c].token] = None
      BY <2>2, <2>4 DEF Types, World
    <2>7. Moved(c)
      BY <2>1, GoesMoved DEF Types, Pcs
    <2> QED BY <1>0, <2>1, <2>5, <2>6, <2>7, SpendingMoved DEF Moved
  <1>6. CASE SetExpiry(c)
    <2>1. At(c, "expiry") /\ UNCHANGED <<tokens, known>> /\ Moved(c)
      BY <1>6, HistoryRequests DEF SetExpiry, redis, Types
    <2>2. CASE spent' = spent
      BY <1>0, <1>6, <2>1, <2>2, QuickPast, SpendingMoved DEF Moved
    <2>3. CASE End(c) /\ spent' = spent \cup {req[c].token} /\ req[c].op # "change"
      <3>1. req[c].op \in Resets /\ req[c].pc \in Past
        BY <2>1, <2>3, Busy DEF Placed, Pcs, Working, Counting, Types, Resets, Past
      <3>2. tokens[req[c].token] = None /\ req[c].token \in known
        BY <3>1 DEF Spending, Fresh, Past
      <3>3. req'[c] = Idle /\ \A d \in Caller \ {c} : req'[d] = req[d]
        BY <2>3, EndsMoved DEF Types, Moved, Others
      <3>4. Idle.op \notin Resets /\ ~Idle.stale
        BY IdleOK, Constants DEF Resets, Kinds
      <3>5. \A u \in spent' : tokens'[u] = None /\ u \in known'
        BY <2>1, <2>3, <3>2 DEF Spending
      <3>6. \A d \in Caller :
              /\ ~req'[d].stale
              /\ req'[d].op \in Resets => req'[d].entry.plain \in Plains /\ req'[d].form \in Forms
              /\ req'[d].op \in Resets /\ req'[d].pc \in Past => tokens'[req'[d].token] = None
        BY <2>1, <3>3, <3>4 DEF Spending, Past
      <3> QED BY <1>0, <2>1, <3>5, <3>6 DEF Spending, Past
    <2> QED BY <1>6, <2>2, <2>3 DEF SetExpiry
  <1> QED BY <1>1, <1>2, <1>3, <1>4, <1>5, <1>6, StepCases

LEMMA SpendingNext ==
    ASSUME Erasable, Spending, Types, Fresh, [Next]_vars
    PROVE  Spending'
  <1>1. ASSUME NEW c \in Caller, Ask(c) PROVE Spending'
    <2>1. Asked(c)
      BY <1>1, AskRequests DEF Types
    <2>2. Others(c) /\ UNCHANGED <<tokens, known, spent>>
      BY <2>1 DEF Asked, Rest, redis, world
    <2>3. /\ ~req'[c].stale
          /\ req'[c].op \in Resets => req'[c].entry.plain \in Plains /\ req'[c].form \in Forms
          /\ req'[c].op \in Resets => req'[c].pc \notin Past
      <3>1. CASE AskedReset(req'[c])
        <4>1. req'[c].token \notin spent /\ req'[c].token \in Token
          BY <3>1 DEF AskedReset, Spending, Types, World
        <4>2. req'[c].entry.plain \in Plains
          BY <3>1, <4>1 DEF AskedReset, Spending
        <4> QED BY <3>1, <4>1, <4>2 DEF AskedReset, Past, Working
      <3>2. CASE AskedToken(req'[c]) \/ AskedChange(req'[c])
        BY <3>2 DEF AskedToken, AskedChange, Asking, Resets
      <3> QED BY <2>1, <3>1, <3>2 DEF Asked
    <2>4. \A d \in Caller \ {c} : req'[d] = req[d]
      BY <2>2 DEF Others
    <2> QED BY <2>2, <2>3, <2>4 DEF Spending, Past
  <1>2. CASE Elsewhere \/ UNCHANGED vars
    <2>1. /\ UNCHANGED <<req, known, spent>>
          /\ tokens' = tokens \/ \E t \in Token : tokens' = [tokens EXCEPT ![t] = None]
      BY <1>2, ElsewhereStep DEF Types
    <2>2. \A t \in Token : tokens'[t] = None \/ tokens'[t] = tokens[t]
      BY <2>1 DEF Types, World
    <2>3. known \subseteq Token /\ \A d \in Caller : req[d].op \in Resets => req[d].token \in known
      BY DEF Types, World, Fresh
    <2> QED BY <2>1, <2>2, <2>3 DEF Spending
  <1> QED BY <1>1, <1>2, StepSpending DEF Next

-----------------------------------------------------------------------------
(* The theorems.                                                            *)

(* The invariant holds at the start.                                        *)
LEMMA InitInv ==
    ASSUME Init
    PROVE  Types /\ Fresh /\ Padding /\ Spending
  <1>1. \A c \in Caller : req[c] = Idle
    BY DEF Init
  <1>2. Idle.op \notin Asking \cup Resets /\ Idle.pc \notin Pcs /\ ~Idle.stale /\ Idle.op # "initReset"
    BY IdleOK, Constants DEF Asking, Resets, Kinds
  <1>3. Requests
    BY <1>1, IdleOK DEF Init, Requests
  <1>4. World
    <2>1. doc \in [Identity -> Doc]
      BY DEF Init, Doc, DataStatus, InitState
    <2>2. plan \in Plans /\ plan.requests \in Nat /\ plan.edits \in Nat
      BY Constants DEF Init
    <2>3. made \in 0 .. plan.requests /\ edits \in 0 .. plan.edits
      BY <2>2 DEF Init
    <2> QED BY <2>1, <2>2, <2>3 DEF Init, World
  <1>5. Counters /\ Histories
    BY DEF Init, Counters, Histories
  <1>6. \A t \in Token : tokens[t] = None
    BY DEF Init
  <1>7. Fresh
    BY <1>1, <1>2, <1>6 DEF Init, Fresh, Making
  <1>8. Padding
    BY <1>1, <1>2, <1>6 DEF Init, Padding, Pcs
  <1>9. Spending
    BY <1>1, <1>2, <1>6 DEF Init, Spending
  <1> QED BY <1>3, <1>4, <1>5, <1>7, <1>8, <1>9 DEF Types

Inv == Types /\ Fresh

LEMMA TypesInvariant == Spec => []Inv
  <1>1. Init => Inv
    BY InitInv DEF Inv
  <1>2. Inv /\ [Next]_vars => Inv'
    BY TypesNext, FreshNext DEF Inv
  <1> QED BY <1>1, <1>2, PTL DEF Spec

(* The variables keep their types: an expiry is set on a key that is there, *)
(* and a request in progress is at a place of its kind.                     *)
THEOREM TypeCorrect == Spec => []TypeOK
  <1>1. Inv => TypeOK
    <2> SUFFICES ASSUME Inv PROVE TypeOK
      OBVIOUS
    <2>1. Requests /\ World /\ Counters /\ Histories
      BY DEF Inv, Types
    <2>2. \A c \in Caller : req[c] = Idle \/ (req[c].id \in Identity /\ req[c].pc \in Pcs)
      BY <2>1 DEF Requests, Placed, Working, Counting, Pcs
    <2>3. DOMAIN req = Caller
      BY <2>1 DEF Requests
    <2>4. \A i \in Identity : history[i] \subseteq recorded[i] /\ recorded[i] \subseteq Record
      BY <2>1 DEF Histories
    <2> QED BY <2>1, <2>2, <2>3, <2>4 DEF World, Counters, TypeOK
  <1> QED BY <1>1, TypesInvariant, PTL

(* A stored code opens with the padding in force, however many requests for *)
(* one and answers to one interleave, unless two generated it at once.      *)
THEOREM StoredOpens == Spec => []StoredTokenOpens
  <1>1. Init => Padding
    BY InitInv
  <1>2. Inv /\ Padding /\ [Next]_vars => Padding'
    BY PaddingNext DEF Inv
  <1>3. Padding => StoredTokenOpens
    BY DEF Padding, StoredTokenOpens
  <1> QED BY <1>1, <1>2, <1>3, TypesInvariant, PTL DEF Spec

(* A token a success was answered for never again gets a password to the    *)
(* backends, when the key deleted is the key stored: no token changes once  *)
(* encoded, or clients give it back as it was.                              *)
THEOREM SpentRefused ==
    ASSUME Plains \subseteq {TRUE} \/ Forms \subseteq {"raw"}
    PROVE  Spec => []SpentTokenRefused
  <1>1. Init => Spending
    BY InitInv
  <1>2. Inv /\ Spending /\ [Next]_vars => Spending'
    BY SpendingNext DEF Inv, Erasable
  <1>3. Spending => SpentTokenRefused
    BY DEF Spending, SpentTokenRefused
  <1> QED BY <1>1, <1>2, <1>3, TypesInvariant, PTL DEF Spec
-----------------------------------------------------------------------------
(* The history of the passwords.                                            *)

(* What is removed from a set of records, its newest kept, the newest are   *)
(* the same: the records in front of one removed are in front of it still.  *)
LEMMA NewestOfPart ==
    ASSUME NEW rs \in SUBSET Record, IsFiniteSet(rs), NEW h \in SUBSET rs, Newest(rs) \subseteq h
    PROVE  Newest(h) = Newest(rs)
  <1> DEFINE Over(x) == {s \in rs : s.at > x.at}
             Above(x) == {s \in h : s.at > x.at}
  <1>1. ASSUME NEW x \in rs
        PROVE  /\ Above(x) \subseteq Over(x) /\ Over(x) \subseteq rs
               /\ IsFiniteSet(Over(x)) /\ IsFiniteSet(Above(x))
               /\ Cardinality(Above(x)) \in Nat /\ Cardinality(Over(x)) \in Nat
               /\ Cardinality(Above(x)) <= Cardinality(Over(x))
    <2>1. Above(x) \subseteq Over(x) /\ Over(x) \subseteq rs
      OBVIOUS
    <2>2. IsFiniteSet(Over(x))
      BY <2>1, FS_Subset
    <2> QED BY <2>1, <2>2, FS_Subset, FS_CardinalityType
  <1>2. \A x \in rs : x \in Newest(rs) <=> Cardinality(Over(x)) < MaxHistory
    BY DEF Newest
  <1>3. \A x \in h : x \in Newest(h) <=> Cardinality(Above(x)) < MaxHistory
    BY DEF Newest
  <1>4. MaxHistory \in Nat
    BY PasswordsAssumption
  <1>5. Newest(rs) \subseteq rs /\ Newest(h) \subseteq h
    BY DEF Newest
  <1>6. \A x \in rs : x.at \in Nat
    BY DEF Record
  <1> HIDE DEF Over, Above
  <1>7. Newest(rs) \subseteq Newest(h)
    BY <1>1, <1>2, <1>3, <1>4, <1>5
  <1>8. ASSUME NEW r \in h, r \notin Newest(rs)
        PROVE  r \notin Newest(h)
    <2> DEFINE Q == {x \in rs \ Newest(rs) : x.at >= r.at}
               A == {Over(x) : x \in Q}
    <2>1. IsWellFoundedOn(StrictSubsetOrdering(rs), SUBSET rs)
      <3>1. FiniteSubsetsOf(rs) = SUBSET rs
        BY FS_FiniteSubsetsOfFinite
      <3> QED BY <3>1, FS_StrictSubsetOrderingWellFounded
    <2>2. A \subseteq SUBSET rs /\ A # {}
      <3>1. r \in Q
        BY <1>6, <1>8
      <3> QED BY <3>1, <1>1
    <2> HIDE DEF A
    <2>3. PICK a \in A : \A b \in A : ~(<<b, a>> \in StrictSubsetOrdering(rs))
      BY <2>1, <2>2, WFMin
    <2>4. PICK m \in Q : a = Over(m)
      BY <2>3 DEF A
    <2>5. ASSUME NEW s \in Over(m)
          PROVE  s \in Newest(rs) /\ s \in Above(r)
      <3>1. s \in rs /\ m \in rs /\ s.at > m.at /\ m.at >= r.at
        BY DEF Over
      <3>2. s.at > r.at
        BY <3>1, <1>6
      <3>3. SUFFICES ASSUME s \notin Newest(rs) PROVE FALSE
        BY <3>1, <3>2, <1>5 DEF Above
      <3>4. s \in Q
        BY <3>1, <3>2, <3>3, <1>6
      <3>5. Over(s) \in A
        BY <3>4 DEF A
      <3>6. Over(s) \subseteq Over(m) /\ s \notin Over(s)
        BY <3>1, <1>6 DEF Over
      <3>7. Over(s) # Over(m) /\ Over(m) \subseteq rs
        BY <3>1, <3>6, <1>1
      <3>8. <<Over(s), Over(m)>> \in StrictSubsetOrdering(rs)
        BY <3>6, <3>7 DEF StrictSubsetOrdering
      <3> QED BY <2>3, <2>4, <3>5, <3>8
    <2>6. Over(m) \subseteq Above(r)
      BY <2>5
    <2>7. Cardinality(Over(m)) <= Cardinality(Above(r))
      BY <1>1, <2>6, FS_Subset
    <2>8. Cardinality(Over(m)) \in Nat /\ ~(Cardinality(Over(m)) < MaxHistory)
      BY <1>1, <1>2
    <2>9. Cardinality(Above(r)) \in Nat
      BY <1>1
    <2> QED BY <1>3, <1>4, <1>8, <2>7, <2>8, <2>9
  <1> QED BY <1>5, <1>7, <1>8

(* One record more takes the place of others, and gives none back.          *)
LEMMA NewestOfMore ==
    ASSUME NEW rs \in SUBSET Record, IsFiniteSet(rs), NEW n \in Record
    PROVE  Newest(rs \cup {n}) \cap rs \subseteq Newest(rs)
  <1> SUFFICES ASSUME NEW r \in Newest(rs \cup {n}), r \in rs
               PROVE  r \in Newest(rs)
    OBVIOUS
  <1> DEFINE Over == {s \in rs : s.at > r.at}
             More == {s \in rs \cup {n} : s.at > r.at}
  <1>1. Over \subseteq More /\ More \subseteq rs \cup {n} /\ IsFiniteSet(rs \cup {n})
    BY FS_AddElement
  <1>2. IsFiniteSet(More)
    BY <1>1, FS_Subset
  <1>3. Cardinality(Over) <= Cardinality(More) /\ Cardinality(More) \in Nat /\ Cardinality(Over) \in Nat
    BY <1>1, <1>2, FS_Subset, FS_CardinalityType
  <1>4. Cardinality(More) < MaxHistory
    BY DEF Newest
  <1>5. MaxHistory \in Nat
    BY PasswordsAssumption
  <1>6. Cardinality(Over) < MaxHistory
    BY <1>3, <1>4, <1>5
  <1> QED BY <1>6 DEF Newest

(* The awaits between the password taken by the backends and its stamp, and *)
(* those between the stamp and the last record removed.                     *)
Unwritten == {"del", "save", "record"}
Late == {"insert", "trim", "delete"}

(* The stamps are of the past, and finitely many.                           *)
Stamped ==
    /\ \A c \in Caller : At(c, "insert") => req[c].at <= clock
    /\ \A i \in Identity : IsFiniteSet(recorded[i]) /\ \A r \in recorded[i] : r.at <= clock

(* No removal touches the newest: those a request is about to make include  *)
(* none, whatever is recorded meanwhile.                                    *)
NewestKept ==
    /\ \A i \in Identity : Newest(recorded[i]) \subseteq history[i]
    /\ \A c \in Caller : At(c, "delete") =>
         req[c].extra \subseteq recorded[Owner(c)] \ Newest(recorded[Owner(c)])

(* Every other record still there has a request that will remove it.        *)
Removes(c, r) == At(c, "trim") \/ (At(c, "delete") /\ r \in req[c].extra)

RestRemoved ==
    \A i \in Identity : \A r \in history[i] \ Newest(recorded[i]) :
        \E c \in Caller : Owner(c) = i /\ Removes(c, r)

(* What every other step of a request does for the history: nothing is      *)
(* recorded or removed, and no password taken goes without its record       *)
(* unless the request breaks off.                                           *)
Drift(c) ==
    /\ UNCHANGED <<history, recorded, clock>> /\ Others(c)
    /\ req'[c].pc \notin Late
    /\ \/ broken'
       \/ /\ UNCHANGED <<backend, broken>>
          /\ \/ req[c].pc \in Unwritten /\ req'[c].pc \in Unwritten /\ Same(req'[c], req[c])
             \/ req[c].pc \notin Unwritten \cup Late /\ req'[c].pc \notin Unwritten
LEMMA AskDrifts ==
    ASSUME Types, NEW c \in Caller, Ask(c)
    PROVE  Drift(c)
  <1>1. Asked(c)
    BY AskRequests DEF Types
  <1>2. UNCHANGED <<history, recorded, clock, backend, broken>> /\ Others(c) /\ req[c] = Idle
    BY <1>1 DEF Asked, Rest, past
  <1>3. req'[c].pc \in {"pad", "token", "find"}
    BY <1>1 DEF Asked, AskedToken, AskedReset, AskedChange
  <1>4. Idle.pc \notin Unwritten \cup Late
    BY IdleOK, Constants DEF Unwritten, Late, Pcs
  <1> QED BY <1>2, <1>3, <1>4 DEF Drift, Unwritten, Late

LEMMA StepDrifts ==
    ASSUME Types, NEW c \in Caller, Step(c)
    PROVE  \/ Stamp(c) \/ Insert(c) \/ ListExtra(c) \/ DeleteExtra(c) \/ JobSucceeds(c)
           \/ Drift(c)
  <1>0. Idle.pc \notin Unwritten \cup Late
    BY IdleOK, Constants DEF Unwritten, Late, Pcs
  <1>1. ASSUME NEW q \in Pcs \ Late, Go(c, q)
        PROVE  Others(c) /\ req'[c].pc = q /\ q \notin Late /\ Same(req'[c], req[c])
    BY <1>1, Goes DEF Types, Requests
  <1>2. ASSUME End(c)
        PROVE  Others(c) /\ req'[c].pc \notin Unwritten \cup Late
    BY <1>0, <1>2, Ends DEF Types, Requests
  <1>3. CASE ReadPadding(c) \/ SetPadding(c)
    <2>1. /\ UNCHANGED <<history, recorded, clock, backend, broken>>
          /\ req[c].pc \in {"pad", "setPad"}
      BY <1>3 DEF ReadPadding, SetPadding, past, At
    <2>2. Others(c) /\ req'[c].pc \notin Unwritten \cup Late
      <3>1. CASE Go(c, "setPad")
        BY <3>1, <1>1 DEF Pcs, Late, Unwritten
      <3>2. ASSUME NEW k \in Caller, Padded(c, k) PROVE Others(c) /\ req'[c].pc \notin Unwritten \cup Late
        <4>1. \E p \in {"pad", "setPad"} : At(c, p)
          BY <2>1 DEF At
        <4> QED BY <4>1, <3>2, <1>0, PaddedOK DEF Types, Unwritten, Late
      <3>3. Go(c, "setPad") \/ \E k \in Caller : Padded(c, k)
        BY <1>3 DEF ReadPadding, SetPadding, Types, World
      <3> QED BY <3>1, <3>2, <3>3
    <2> QED BY <2>1, <2>2 DEF Drift, Unwritten, Late
  <1>4. CASE StoreToken(c) \/ ExpireToken(c) \/ SendInvitation(c) \/ MailFails(c) \/ MarkSent(c)
    <2>1. /\ UNCHANGED <<history, recorded, clock, backend, broken>>
          /\ req[c].pc \in {"token", "ttl", "mail", "sent"}
          /\ End(c) \/ Go(c, "ttl") \/ Go(c, "mail") \/ Go(c, "sent")
      BY <1>4 DEF StoreToken, ExpireToken, SendInvitation, MailFails, MarkSent, past, At
    <2>2. Others(c) /\ req'[c].pc \notin Unwritten \cup Late
      BY <2>1, <1>1, <1>2 DEF Pcs, Unwritten, Late
    <2> QED BY <2>1, <2>2 DEF Drift, Unwritten, Late
  <1>5. CASE Find(c)
    <2>1. /\ UNCHANGED <<history, recorded, clock, backend, broken>>
          /\ req[c].pc = "find" /\ Others(c) /\ req'[c].pc = "reuse"
      BY <1>5 DEF Find, past, At, Others, Types, Requests, Request
    <2> QED BY <2>1 DEF Drift, Unwritten, Late
  <1>6. CASE NotAccepted(c) \/ CheckReuse(c) \/ RefuseReuse(c) \/ JobFails(c)
    <2>1. /\ UNCHANGED <<history, recorded, clock, backend, broken>>
          /\ req[c].pc \in {"find", "reuse", "job"}
          /\ End(c) \/ Go(c, "job") \/ Go(c, "count")
      BY <1>6 DEF NotAccepted, CheckReuse, RefuseReuse, JobFails, Catch, past, At
    <2>2. Others(c) /\ req'[c].pc \notin Unwritten \cup Late
      BY <2>1, <1>1, <1>2 DEF Pcs, Unwritten, Late
    <2> QED BY <2>1, <2>2 DEF Drift, Unwritten, Late
  <1>7. CASE JobTimesOut(c) \/ WriteFails(c)
    <2>1. UNCHANGED <<history, recorded, clock>> /\ broken' /\ (End(c) \/ Go(c, "count"))
      BY <1>7 DEF JobTimesOut, WriteFails, Catch, past
    <2>2. Others(c) /\ req'[c].pc \notin Late
      BY <2>1, <1>1, <1>2 DEF Pcs, Unwritten, Late
    <2> QED BY <2>1, <2>2 DEF Drift
  <1>8. CASE DeleteToken(c) \/ Activate(c)
    <2>1. /\ UNCHANGED <<history, recorded, clock, backend, broken>>
          /\ req[c].pc \in Unwritten
          /\ Go(c, "save") \/ Go(c, "record")
      BY <1>8 DEF DeleteToken, Activate, past, At, Unwritten
    <2>2. Others(c) /\ req'[c].pc \in Unwritten /\ req'[c].pc \notin Late /\ Same(req'[c], req[c])
      BY <2>1, <1>1 DEF Pcs, Unwritten, Late
    <2> QED BY <2>1, <2>2 DEF Drift
  <1>9. CASE SetExpiry(c) \/ Count(c) \/ SetWindow(c) \/ SetBlock(c) \/ ClearCounter(c) \/ LiftBlock(c)
    <2>1. /\ UNCHANGED <<history, recorded, clock, backend, broken>>
          /\ req[c].pc \in {"expiry"} \cup Counting
          /\ End(c) \/ Go(c, "clear") \/ Go(c, "window") \/ Go(c, "block") \/ Go(c, "lift")
      BY <1>9 DEF SetExpiry, Count, SetWindow, SetBlock, ClearCounter, LiftBlock, past, At, Counting
    <2>2. Others(c) /\ req'[c].pc \notin Unwritten \cup Late
      BY <2>1, <1>1, <1>2 DEF Pcs, Unwritten, Late
    <2> QED BY <2>1, <2>2 DEF Drift, Unwritten, Late, Counting
  <1> QED BY <1>3, <1>4, <1>5, <1>6, <1>7, <1>8, <1>9 DEF Step

(* What happens elsewhere does not touch the history.                       *)
LEMMA ElsewhereAside ==
    ASSUME Elsewhere \/ UNCHANGED vars
    PROVE  UNCHANGED <<req, history, recorded, clock, backend, broken>>
  BY DEF Elsewhere, TokenExpires, WindowEnds, BlockEnds, Edit, past, vars

(* The steps of recordPassword and of enforceMaxHistory, and the password   *)
(* taken by the backends.                                                   *)
LEMMA Stamps ==
    ASSUME Types, NEW c \in Caller, Stamp(c)
    PROVE  /\ UNCHANGED <<history, recorded, backend, broken>> /\ Others(c)
           /\ clock \in Nat /\ clock' = clock + 1
           /\ req[c].pc = "record" /\ req'[c].pc = "insert" /\ req'[c].at = clock + 1
           /\ Same(req'[c], req[c])
  <1>1. clock \in Nat /\ req \in [Caller -> Request]
    BY DEF Types, World, Requests
  <1>2. /\ UNCHANGED <<history, recorded, backend, broken>>
        /\ clock' = clock + 1 /\ req[c].pc = "record"
        /\ req' = [req EXCEPT ![c].pc = "insert", ![c].at = clock + 1]
    BY DEF Stamp, At, past
  <1>3. req[c] \in Request
    BY <1>1
  <1>4. req'[c] = [req[c] EXCEPT !.pc = "insert", !.at = clock + 1] /\ Others(c)
    BY <1>1, <1>2 DEF Others
  <1>5. req'[c].pc = "insert" /\ req'[c].at = clock + 1 /\ Same(req'[c], req[c])
    BY <1>3, <1>4 DEF Request, Same
  <1> QED BY <1>1, <1>2, <1>4, <1>5

LEMMA Inserts ==
    ASSUME Types, NEW c \in Caller, Insert(c)
    PROVE  /\ UNCHANGED <<clock, backend, broken>> /\ Others(c) /\ Owner(c) \in Identity
           /\ req[c].pc = "insert" /\ req'[c].pc = "trim" /\ Same(req'[c], req[c])
           /\ req[c].at \in Nat
           /\ \E n \in Record :
                /\ n.at = req[c].at /\ n.pw = req[c].pw
                /\ history' = [history EXCEPT ![Owner(c)] = @ \cup {n}]
                /\ recorded' = [recorded EXCEPT ![Owner(c)] = @ \cup {n}]
  <1> DEFINE n == [at |-> req[c].at, pw |-> req[c].pw]
  <1>1. At(c, "insert") /\ Go(c, "trim") /\ UNCHANGED <<clock, backend, broken>>
        /\ history' = [history EXCEPT ![Owner(c)] = @ \cup {n}]
        /\ recorded' = [recorded EXCEPT ![Owner(c)] = @ \cup {n}]
    BY DEF Insert
  <1>2. Placed(req[c]) /\ req[c] \in Request /\ req[c].pc = "insert"
    BY <1>1, Busy DEF Types, Pcs
  <1>3. req[c].pw \in Password /\ req[c].at \in Nat /\ Owner(c) \in Identity
    BY <1>2 DEF Placed, Setting, Working, Counting, Request, Owner
  <1>4. n \in Record
    BY <1>3 DEF Record
  <1>5. Others(c) /\ req'[c].pc = "trim" /\ Same(req'[c], req[c])
    BY <1>1, Goes DEF Types, Requests, Pcs
  <1> QED BY <1>1, <1>2, <1>3, <1>4, <1>5

LEMMA Lists ==
    ASSUME Types, NEW c \in Caller, ListExtra(c)
    PROVE  /\ UNCHANGED <<history, recorded, clock, backend, broken>> /\ Others(c)
           /\ Owner(c) \in Identity /\ req[c].pc = "trim" /\ req'[c].id = req[c].id
           /\ req'[c].extra = history[Owner(c)] \ Newest(history[Owner(c)])
           /\ req'[c].pc = IF req'[c].extra = {} THEN "expiry" ELSE "delete"
  <1> DEFINE extra == history[Owner(c)] \ Newest(history[Owner(c)])
             q == IF extra = {} THEN "expiry" ELSE "delete"
  <1>1. At(c, "trim") /\ UNCHANGED <<history, recorded, clock, backend, broken>>
        /\ req' = [req EXCEPT ![c].pc = q, ![c].extra = extra]
    BY DEF ListExtra, past
  <1>2. Placed(req[c]) /\ req[c] \in Request /\ req[c].pc = "trim"
    BY <1>1, Busy DEF Types, Pcs
  <1>3. Owner(c) \in Identity
    BY <1>2 DEF Placed, Owner
  <1> HIDE DEF extra
  <1>4. req'[c] = [req[c] EXCEPT !.pc = q, !.extra = extra] /\ Others(c)
    BY <1>1 DEF Types, Requests, Others
  <1>5. req'[c].pc = q /\ req'[c].extra = extra /\ req'[c].id = req[c].id
    BY <1>2, <1>4 DEF Request
  <1> QED BY <1>1, <1>2, <1>3, <1>4, <1>5 DEF extra

LEMMA Deletes ==
    ASSUME Types, NEW c \in Caller, DeleteExtra(c)
    PROVE  /\ UNCHANGED <<recorded, clock, backend, broken>> /\ Others(c)
           /\ Owner(c) \in Identity /\ req[c].pc = "delete" /\ req'[c].pc = "expiry"
           /\ history' = [history EXCEPT ![Owner(c)] = @ \ req[c].extra]
  <1>1. At(c, "delete") /\ Go(c, "expiry") /\ UNCHANGED <<recorded, clock, backend, broken>>
        /\ history' = [history EXCEPT ![Owner(c)] = @ \ req[c].extra]
    BY DEF DeleteExtra
  <1>2. Placed(req[c]) /\ req[c].pc = "delete"
    BY <1>1, Busy DEF Types, Pcs
  <1>3. Others(c) /\ req'[c].pc = "expiry"
    BY <1>1, Goes DEF Types, Requests, Pcs
  <1> QED BY <1>1, <1>2, <1>3 DEF Placed, Owner

LEMMA Takes ==
    ASSUME Types, NEW c \in Caller, JobSucceeds(c)
    PROVE  /\ UNCHANGED <<history, recorded, clock, broken>> /\ Others(c)
           /\ Owner(c) \in Identity /\ req[c].pc = "job" /\ req'[c].pc \in Unwritten
           /\ Same(req'[c], req[c]) /\ backend' = [backend EXCEPT ![Owner(c)] = req[c].pw]
  <1> DEFINE q == IF req[c].op \in Resets THEN "del" ELSE "save"
  <1>1. At(c, "job") /\ Go(c, q) /\ UNCHANGED <<history, recorded, clock, broken>>
        /\ backend' = [backend EXCEPT ![Owner(c)] = req[c].pw]
    BY DEF JobSucceeds, past
  <1>2. Placed(req[c]) /\ req[c].pc = "job"
    BY <1>1, Busy DEF Types, Pcs
  <1>3. q \in Unwritten /\ q \in Pcs
    BY DEF Unwritten, Pcs
  <1> HIDE DEF q
  <1>4. Others(c) /\ req'[c].pc = q /\ Same(req'[c], req[c])
    BY <1>1, <1>3, Goes DEF Types, Requests
  <1> QED BY <1>1, <1>2, <1>3, <1>4 DEF Placed, Owner
(* The stamps, whatever step is taken.                                      *)
LEMMA StampedNext ==
    ASSUME Types, Stamped, [Next]_vars
    PROVE  Stamped'
  <1>0. clock \in Nat
    BY DEF Types, World
  <1>1. ASSUME NEW c \in Caller, Drift(c) PROVE Stamped'
    <2>1. \A d \in Caller : req'[d].pc = "insert" => req'[d] = req[d]
      BY <1>1 DEF Drift, Others, Late
    <2> QED BY <1>1, <2>1 DEF Drift, Stamped, At
  <1>2. ASSUME NEW c \in Caller, Stamp(c) PROVE Stamped'
    <2>1. UNCHANGED recorded /\ Others(c) /\ clock' = clock + 1 /\ req'[c].at = clock + 1
      BY <1>2, Stamps
    <2>2. \A d \in Caller : req'[d].pc = "insert" => req'[d].at <= clock'
      <3> SUFFICES ASSUME NEW d \in Caller, req'[d].pc = "insert" PROVE req'[d].at <= clock'
        OBVIOUS
      <3>1. CASE d = c
        BY <2>1, <3>1, <1>0
      <3>2. CASE d # c
        <4>1. req'[d] = req[d] /\ req[d].at <= clock
          BY <2>1, <3>2 DEF Others, Stamped, At
        <4>2. req[d].at \in Nat
          BY DEF Types, Requests, Request
        <4> QED BY <4>1, <4>2, <2>1, <1>0
      <3> QED BY <3>1, <3>2
    <2>3. ASSUME NEW i \in Identity, NEW r \in recorded[i] PROVE r.at <= clock'
      <3>1. r.at <= clock /\ r.at \in Nat
        BY DEF Stamped, Types, Histories, Record
      <3> QED BY <2>1, <3>1, <1>0
    <2> QED BY <2>1, <2>2, <2>3 DEF Stamped, At
  <1>3. ASSUME NEW c \in Caller, Insert(c) PROVE Stamped'
    <2>1. /\ UNCHANGED clock /\ Others(c) /\ Owner(c) \in Identity
          /\ req[c].pc = "insert" /\ req'[c].pc = "trim"
      BY <1>3, Inserts
    <2>2. PICK n \in Record : /\ n.at = req[c].at
                              /\ recorded' = [recorded EXCEPT ![Owner(c)] = @ \cup {n}]
      BY <1>3, Inserts
    <2>3. \A d \in Caller : req'[d].pc = "insert" => req'[d] = req[d]
      BY <2>1 DEF Others
    <2>4. ASSUME NEW i \in Identity
          PROVE  IsFiniteSet(recorded'[i]) /\ \A r \in recorded'[i] : r.at <= clock'
      <3>1. recorded'[i] = recorded[i] \/ recorded'[i] = recorded[i] \cup {n}
        BY <2>2 DEF Types, Histories
      <3>2. IsFiniteSet(recorded[i]) /\ \A r \in recorded[i] : r.at <= clock
        BY DEF Stamped
      <3>3. n.at <= clock
        BY <2>1, <2>2 DEF Stamped, At
      <3>4. IsFiniteSet(recorded[i] \cup {n})
        BY <3>2, FS_AddElement
      <3> QED BY <2>1, <3>1, <3>2, <3>3, <3>4
    <2> QED BY <2>1, <2>3, <2>4 DEF Stamped, At
  <1>4. ASSUME NEW c \in Caller, ListExtra(c) \/ DeleteExtra(c) \/ JobSucceeds(c) PROVE Stamped'
    <2>1. UNCHANGED <<clock, recorded>> /\ Others(c) /\ req'[c].pc # "insert"
      BY <1>4, Lists, Deletes, Takes DEF Unwritten
    <2>2. \A d \in Caller : req'[d].pc = "insert" => req'[d] = req[d]
      BY <2>1 DEF Others
    <2> QED BY <2>1, <2>2 DEF Stamped, At
  <1>5. CASE Elsewhere \/ UNCHANGED vars
    BY <1>5, ElsewhereAside DEF Stamped, At
  <1> QED BY <1>1, <1>2, <1>3, <1>4, <1>5, AskDrifts, StepDrifts DEF Next

(* The newest records, whatever step is taken.                              *)
LEMMA NewestNext ==
    ASSUME Types, Stamped, NewestKept, [Next]_vars
    PROVE  NewestKept'
  <1>1. ASSUME UNCHANGED <<history, recorded>>,
               \A d \in Caller : req'[d].pc = "delete" => req'[d] = req[d]
        PROVE  NewestKept'
    BY <1>1 DEF NewestKept, At, Owner, Newest
  <1>2. ASSUME NEW c \in Caller, Drift(c) \/ Stamp(c) \/ JobSucceeds(c) PROVE NewestKept'
    <2>1. UNCHANGED <<history, recorded>> /\ Others(c) /\ req'[c].pc # "delete"
      BY <1>2, Stamps, Takes DEF Drift, Unwritten, Late
    <2> QED BY <2>1, <1>1 DEF Others
  <1>3. ASSUME NEW c \in Caller, Insert(c) PROVE NewestKept'
    <2>1. Others(c) /\ Owner(c) \in Identity /\ req'[c].pc = "trim"
      BY <1>3, Inserts
    <2>2. PICK n \in Record : /\ history' = [history EXCEPT ![Owner(c)] = @ \cup {n}]
                              /\ recorded' = [recorded EXCEPT ![Owner(c)] = @ \cup {n}]
      BY <1>3, Inserts
    <2> DEFINE rs == recorded[Owner(c)]
    <2>3. rs \in SUBSET Record /\ IsFiniteSet(rs)
      BY <2>1 DEF Types, Histories, Stamped
    <2>4. Newest(rs \cup {n}) \cap rs \subseteq Newest(rs)
      BY <2>3, NewestOfMore
    <2>5. Newest(rs \cup {n}) \subseteq rs \cup {n}
      BY DEF Newest
    <2>6. ASSUME NEW i \in Identity
          PROVE  \/ history'[i] = history[i] /\ recorded'[i] = recorded[i]
                 \/ /\ i = Owner(c) /\ recorded[i] = rs /\ recorded'[i] = rs \cup {n}
                    /\ history'[i] = history[i] \cup {n}
      BY <2>2 DEF Types, Histories
    <2>7. ASSUME NEW i \in Identity
          PROVE  Newest(recorded'[i]) \subseteq history'[i]
      <3>1. Newest(recorded[i]) \subseteq history[i]
        BY DEF NewestKept
      <3> HIDE DEF rs
      <3> QED BY <2>4, <2>5, <2>6, <3>1
    <2>8. ASSUME NEW d \in Caller, req'[d].pc = "delete"
          PROVE  req'[d].extra \subseteq recorded'[req'[d].id] \ Newest(recorded'[req'[d].id])
      <3>1. req'[d] = req[d] /\ req[d].pc = "delete"
        BY <2>1, <2>8 DEF Others
      <3>2. req[d].id \in Identity
        BY <3>1, Busy DEF At, Types, Pcs, Placed
      <3>3. req[d].extra \subseteq recorded[req[d].id] \ Newest(recorded[req[d].id])
        BY <3>1 DEF NewestKept, At, Owner
      <3> HIDE DEF rs
      <3> QED BY <2>4, <2>5, <2>6, <3>1, <3>2, <3>3
    <2> QED BY <2>7, <2>8 DEF NewestKept, At, Owner
  <1>4. ASSUME NEW c \in Caller, ListExtra(c) PROVE NewestKept'
    <2>1. /\ UNCHANGED <<history, recorded>> /\ Others(c) /\ Owner(c) \in Identity
          /\ req'[c].id = Owner(c)
          /\ req'[c].extra = history[Owner(c)] \ Newest(history[Owner(c)])
      BY <1>4, Lists DEF Owner
    <2>2. Newest(history[Owner(c)]) = Newest(recorded[Owner(c)])
      <3>1. /\ recorded[Owner(c)] \in SUBSET Record /\ history[Owner(c)] \subseteq recorded[Owner(c)]
            /\ IsFiniteSet(recorded[Owner(c)])
            /\ Newest(recorded[Owner(c)]) \subseteq history[Owner(c)]
        BY <2>1 DEF Types, Histories, Stamped, NewestKept
      <3> QED BY <3>1, NewestOfPart
    <2>3. history[Owner(c)] \subseteq recorded[Owner(c)]
      BY <2>1 DEF Types, Histories
    <2>4. ASSUME NEW d \in Caller, req'[d].pc = "delete"
          PROVE  req'[d].extra \subseteq recorded'[req'[d].id] \ Newest(recorded'[req'[d].id])
      <3>1. CASE d = c
        BY <2>1, <2>2, <2>3, <3>1
      <3>2. CASE d # c
        BY <2>1, <2>4, <3>2 DEF Others, NewestKept, At, Owner
      <3> QED BY <3>1, <3>2
    <2>5. ASSUME NEW i \in Identity PROVE Newest(recorded'[i]) \subseteq history'[i]
      BY <2>1 DEF NewestKept
    <2> QED BY <2>4, <2>5 DEF NewestKept, At, Owner
  <1>5. ASSUME NEW c \in Caller, DeleteExtra(c) PROVE NewestKept'
    <2>1. /\ UNCHANGED recorded /\ Others(c) /\ Owner(c) \in Identity
          /\ req[c].pc = "delete" /\ req'[c].pc = "expiry"
          /\ history' = [history EXCEPT ![Owner(c)] = @ \ req[c].extra]
      BY <1>5, Deletes
    <2>2. req[c].extra \cap Newest(recorded[Owner(c)]) = {}
      BY <2>1 DEF NewestKept, At
    <2>3. ASSUME NEW i \in Identity PROVE Newest(recorded'[i]) \subseteq history'[i]
      <3>1. Newest(recorded[i]) \subseteq history[i]
        BY DEF NewestKept
      <3>2. history'[i] = IF i = Owner(c) THEN history[i] \ req[c].extra ELSE history[i]
        BY <2>1 DEF Types, Histories
      <3> QED BY <2>1, <2>2, <3>1, <3>2
    <2>4. \A d \in Caller : req'[d].pc = "delete" => req'[d] = req[d]
      BY <2>1 DEF Others
    <2> QED BY <2>1, <2>3, <2>4 DEF NewestKept, At, Owner
  <1>6. CASE Elsewhere \/ UNCHANGED vars
    BY <1>1, <1>6, ElsewhereAside
  <1> QED BY <1>2, <1>3, <1>4, <1>5, <1>6, AskDrifts, StepDrifts DEF Next

(* The rest of the records, as long as no request broke off.                *)
LEMMA RestNext ==
    ASSUME Types, Stamped, NewestKept, RestRemoved \/ broken, [Next]_vars
    PROVE  (RestRemoved \/ broken)'
  <1> SUFFICES ASSUME ~broken' PROVE RestRemoved'
    OBVIOUS
  <1>0. broken' = broken => RestRemoved
    OBVIOUS
  <1>1. ASSUME UNCHANGED <<history, recorded, broken>>,
               \A d \in Caller : req[d].pc \in {"trim", "delete"} => req'[d] = req[d]
        PROVE  RestRemoved'
    BY <1>0, <1>1 DEF RestRemoved, Removes, At, Owner, Newest
  <1>2. ASSUME NEW c \in Caller, Drift(c) \/ Stamp(c) \/ JobSucceeds(c) PROVE RestRemoved'
    <2>1. /\ UNCHANGED <<history, recorded, broken>> /\ Others(c)
          /\ req[c].pc \notin {"trim", "delete"}
      BY <1>2, Stamps, Takes DEF Drift, Unwritten, Late
    <2> QED BY <2>1, <1>1 DEF Others
  <1>3. ASSUME NEW c \in Caller, Insert(c) PROVE RestRemoved'
    <2>1. /\ Others(c) /\ Owner(c) \in Identity /\ UNCHANGED broken
          /\ req[c].pc = "insert" /\ req'[c].pc = "trim" /\ req'[c].id = Owner(c)
      BY <1>3, Inserts DEF Same, Owner
    <2>2. PICK n \in Record : /\ history' = [history EXCEPT ![Owner(c)] = @ \cup {n}]
                              /\ recorded' = [recorded EXCEPT ![Owner(c)] = @ \cup {n}]
      BY <1>3, Inserts
    <2>3. ASSUME NEW i \in Identity, NEW r \in history'[i] \ Newest(recorded'[i])
          PROVE  \E d \in Caller : /\ req'[d].id = i
                                   /\ \/ req'[d].pc = "trim"
                                      \/ req'[d].pc = "delete" /\ r \in req'[d].extra
      <3>1. CASE i = Owner(c)
        BY <2>1, <3>1
      <3>2. CASE i # Owner(c)
        <4>1. history'[i] = history[i] /\ recorded'[i] = recorded[i]
          BY <2>2, <3>2 DEF Types, Histories
        <4>2. PICK d \in Caller : Owner(d) = i /\ Removes(d, r)
          BY <1>0, <2>1, <2>3, <4>1 DEF RestRemoved
        <4>3. req'[d] = req[d]
          BY <2>1, <3>2, <4>2 DEF Others
        <4> QED BY <4>2, <4>3 DEF Owner, Removes, At
      <3> QED BY <3>1, <3>2
    <2> QED BY <2>3 DEF RestRemoved, Owner, Removes, At
  <1>4. ASSUME NEW c \in Caller, ListExtra(c) PROVE RestRemoved'
    <2>1. /\ UNCHANGED <<history, recorded, broken>> /\ Others(c) /\ Owner(c) \in Identity
          /\ req'[c].id = Owner(c)
          /\ req'[c].extra = history[Owner(c)] \ Newest(history[Owner(c)])
          /\ req'[c].pc = IF req'[c].extra = {} THEN "expiry" ELSE "delete"
      BY <1>4, Lists DEF Owner
    <2>2. Newest(history[Owner(c)]) = Newest(recorded[Owner(c)])
      <3>1. /\ recorded[Owner(c)] \in SUBSET Record /\ history[Owner(c)] \subseteq recorded[Owner(c)]
            /\ IsFiniteSet(recorded[Owner(c)])
            /\ Newest(recorded[Owner(c)]) \subseteq history[Owner(c)]
        BY <2>1 DEF Types, Histories, Stamped, NewestKept
      <3> QED BY <3>1, NewestOfPart
    <2>3. ASSUME NEW i \in Identity, NEW r \in history'[i] \ Newest(recorded'[i])
          PROVE  \E d \in Caller : /\ req'[d].id = i
                                   /\ \/ req'[d].pc = "trim"
                                      \/ req'[d].pc = "delete" /\ r \in req'[d].extra
      <3>0. r \in history[i] \ Newest(recorded[i])
        BY <2>1, <2>3
      <3>1. CASE i = Owner(c)
        <4>1. r \in req'[c].extra
          BY <2>1, <2>2, <3>0, <3>1
        <4>2. req'[c].pc = "delete"
          BY <2>1, <4>1
        <4> QED BY <2>1, <3>1, <4>1, <4>2
      <3>2. CASE i # Owner(c)
        <4>1. PICK d \in Caller : Owner(d) = i /\ Removes(d, r)
          BY <1>0, <2>1, <3>0 DEF RestRemoved
        <4>2. req'[d] = req[d]
          BY <2>1, <3>2, <4>1 DEF Others
        <4> QED BY <4>1, <4>2 DEF Owner, Removes, At
      <3> QED BY <3>1, <3>2
    <2> QED BY <2>3 DEF RestRemoved, Owner, Removes, At
  <1>5. ASSUME NEW c \in Caller, DeleteExtra(c) PROVE RestRemoved'
    <2>1. /\ UNCHANGED <<recorded, broken>> /\ Others(c) /\ Owner(c) \in Identity
          /\ req[c].pc = "delete"
          /\ history' = [history EXCEPT ![Owner(c)] = @ \ req[c].extra]
      BY <1>5, Deletes
    <2>2. ASSUME NEW i \in Identity, NEW r \in history'[i] \ Newest(recorded'[i])
          PROVE  \E d \in Caller : /\ req'[d].id = i
                                   /\ \/ req'[d].pc = "trim"
                                      \/ req'[d].pc = "delete" /\ r \in req'[d].extra
      <3>1. history'[i] = IF i = Owner(c) THEN history[i] \ req[c].extra ELSE history[i]
        BY <2>1 DEF Types, Histories
      <3>2. r \in history[i] \ Newest(recorded[i]) /\ (i = Owner(c) => r \notin req[c].extra)
        BY <2>1, <2>2, <3>1
      <3>3. PICK d \in Caller : Owner(d) = i /\ Removes(d, r)
        BY <1>0, <2>1, <3>2 DEF RestRemoved
      <3>4. d # c
        BY <2>1, <3>2, <3>3 DEF Removes, At
      <3> QED BY <2>1, <3>3, <3>4 DEF Others, Owner, Removes, At
    <2> QED BY <2>2 DEF RestRemoved, Owner, Removes, At
  <1>6. CASE Elsewhere \/ UNCHANGED vars
    BY <1>1, <1>6, ElsewhereAside
  <1> QED BY <1>2, <1>3, <1>4, <1>5, <1>6, AskDrifts, StepDrifts DEF Next

Recording == Stamped /\ NewestKept /\ (RestRemoved \/ broken)

LEMMA RecordingInit ==
    ASSUME Init
    PROVE  Recording
  <1>1. \A i \in Identity : recorded[i] = {} /\ history[i] = {}
    BY DEF Init
  <1>2. \A c \in Caller : req[c].pc \notin Late
    BY IdleOK, Constants DEF Init, Late, Pcs
  <1>3. Newest({}) = {} /\ IsFiniteSet({})
    BY FS_EmptySet DEF Newest
  <1> QED BY <1>1, <1>2, <1>3 DEF Recording, Stamped, NewestKept, RestRemoved, At, Late

LEMMA RecordingInvariant == Spec => []Recording
  <1>1. Init => Recording
    BY RecordingInit
  <1>2. Inv /\ Recording /\ [Next]_vars => Recording'
    BY StampedNext, NewestNext, RestNext DEF Inv, Recording
  <1> QED BY <1>1, <1>2, TypesInvariant, PTL DEF Spec

(* However many passwords of one identity are recorded at once, at rest its *)
(* history holds the newest ever recorded and no other, whatever their      *)
(* number (recordPassword, enforceMaxHistory).                              *)
THEOREM NewestKeptAtRest == Spec => []HistoryKeepsNewest
  <1>1. Inv /\ Recording => HistoryKeepsNewest
    <2> SUFFICES ASSUME Inv, Recording, NEW i \in Identity, Quiet(i), ~broken
                 PROVE  history[i] = Newest(recorded[i])
      BY DEF HistoryKeepsNewest
    <2>1. Newest(recorded[i]) \subseteq history[i]
      BY DEF Recording, NewestKept
    <2>2. \A r \in history[i] : r \in Newest(recorded[i])
      BY DEF Recording, RestRemoved, Quiet, Owner
    <2> QED BY <2>1, <2>2
  <1> QED BY <1>1, TypesInvariant, RecordingInvariant, PTL
-----------------------------------------------------------------------------
(* The password in force.                                                   *)

(* What is, or will be, recorded with a later stamp.                        *)
Newer(rs, a) == {s \in rs : s.at > a}
Coming(q, i, a) ==
    {d \in Caller : q[d].id = i /\ (q[d].pc \in Unwritten \/ (q[d].pc = "insert" /\ q[d].at > a))}

(* Fewer than the requests in progress are in front of a record: each took  *)
(* the backends from the one before, and overlaps with it.                  *)
Near(rs, q, i, a) ==
    Cardinality(Newer(rs, a)) + Cardinality(Coming(q, i, a)) <= Cardinality(Caller) - 1

(* The password is about to be recorded, or is, with few in front of it.    *)
Carries(q, c, i, p) == q[c].id = i /\ q[c].pw = p

Held(rs, q, i, p) ==
    \/ \E c \in Caller : Carries(q, c, i, p) /\ q[c].pc \in Unwritten
    \/ \E c \in Caller : Carries(q, c, i, p) /\ q[c].pc = "insert" /\ Near(rs, q, i, q[c].at)
    \/ \E r \in rs : r.pw = p /\ Near(rs, q, i, r.at)

InForceHeld == \A i \in Identity : backend[i] # None => Held(recorded[i], req, i, backend[i])

(* The counts are of finite sets.                                           *)
LEMMA Counted ==
    ASSUME NEW rs, IsFiniteSet(rs), NEW q, NEW i, NEW a
    PROVE  /\ IsFiniteSet(Newer(rs, a)) /\ Cardinality(Newer(rs, a)) \in Nat
           /\ IsFiniteSet(Coming(q, i, a)) /\ Cardinality(Coming(q, i, a)) \in Nat
           /\ IsFiniteSet(Caller) /\ Cardinality(Caller) \in Nat
  <1>1. Newer(rs, a) \subseteq rs /\ Coming(q, i, a) \subseteq Caller
    BY DEF Newer, Coming
  <1>2. IsFiniteSet(Caller)
    BY PasswordsAssumption
  <1> QED BY <1>1, <1>2, FS_Subset, FS_CardinalityType

(* A step that brings no record in front of others.                         *)
LEMMA NearStays ==
    ASSUME NEW rs, IsFiniteSet(rs), NEW q, NEW r, NEW i, NEW a,
           Coming(r, i, a) \subseteq Coming(q, i, a), Near(rs, q, i, a)
    PROVE  Near(rs, r, i, a)
  <1>1. Cardinality(Coming(r, i, a)) <= Cardinality(Coming(q, i, a))
    BY Counted, FS_Subset
  <1>2. /\ Cardinality(Coming(r, i, a)) \in Nat /\ Cardinality(Coming(q, i, a)) \in Nat
        /\ Cardinality(Newer(rs, a)) \in Nat /\ Cardinality(Caller) \in Nat
    BY Counted
  <1> QED BY <1>1, <1>2 DEF Near

(* A request that records its password stays in front of whom it was.       *)
LEMMA NearInserted ==
    ASSUME NEW rs \in SUBSET Record, IsFiniteSet(rs), NEW q, NEW r, NEW c \in Caller, NEW n,
           \A d \in Caller \ {c} : r[d] = q[d],
           q[c].pc = "insert", n.at = q[c].at, r[c].pc \notin Unwritten \cup {"insert"},
           NEW a, Near(rs, q, q[c].id, a)
    PROVE  Near(rs \cup {n}, r, q[c].id, a)
  <1> DEFINE i == q[c].id
  <1>1. Coming(r, i, a) \subseteq Coming(q, i, a) \ {c}
    BY DEF Coming
  <1>2. /\ IsFiniteSet(Coming(q, i, a)) /\ Cardinality(Coming(q, i, a)) \in Nat
        /\ IsFiniteSet(Coming(r, i, a)) /\ Cardinality(Coming(r, i, a)) \in Nat
        /\ IsFiniteSet(Newer(rs, a)) /\ Cardinality(Newer(rs, a)) \in Nat
        /\ Cardinality(Caller) \in Nat
    BY Counted
  <1>3. CASE n.at > a
    <2>1. Newer(rs \cup {n}, a) = Newer(rs, a) \cup {n}
      BY <1>3 DEF Newer
    <2>2. Cardinality(Newer(rs, a) \cup {n}) <= Cardinality(Newer(rs, a)) + 1
          /\ Cardinality(Newer(rs, a) \cup {n}) \in Nat
      <3> DEFINE s == Newer(rs, a)
      <3>1. IsFiniteSet(s) /\ Cardinality(s) \in Nat
        BY <1>2
      <3> HIDE DEF s
      <3>2. IsFiniteSet(s \cup {n}) /\ (Cardinality(s \cup {n}) = Cardinality(s) \/ Cardinality(s \cup {n}) = Cardinality(s) + 1)
        BY <3>1, FS_AddElement
      <3> QED BY <3>1, <3>2 DEF s
    <2>3. c \in Coming(q, i, a)
      BY <1>3 DEF Coming
    <2>4. /\ IsFiniteSet(Coming(q, i, a) \ {c})
          /\ Cardinality(Coming(q, i, a) \ {c}) = Cardinality(Coming(q, i, a)) - 1
      BY <1>2, <2>3, FS_RemoveElement
    <2>5. Cardinality(Coming(r, i, a)) <= Cardinality(Coming(q, i, a)) - 1
      <3> DEFINE s == Coming(q, i, a) \ {c}
                 t == Coming(r, i, a)
      <3>1. t \subseteq s /\ IsFiniteSet(s) /\ Cardinality(s) = Cardinality(Coming(q, i, a)) - 1
        BY <1>1, <2>4
      <3> HIDE DEF s, t
      <3>2. Cardinality(t) <= Cardinality(s)
        BY <3>1, FS_Subset
      <3> QED BY <3>1, <3>2 DEF t
    <2> DEFINE x == Cardinality(Newer(rs, a))
               y == Cardinality(Coming(q, i, a))
               u == Cardinality(Newer(rs \cup {n}, a))
               v == Cardinality(Coming(r, i, a))
               k == Cardinality(Caller)
    <2>6. x \in Nat /\ y \in Nat /\ u \in Nat /\ v \in Nat /\ k \in Nat
      BY <1>2, <2>1, <2>2
    <2>7. u <= x + 1 /\ v <= y - 1
      BY <2>1, <2>2, <2>5
    <2>8. x + y <= k - 1
      BY DEF Near
    <2> HIDE DEF x, y, u, v, k
    <2>9. u + v <= k - 1
      BY <2>6, <2>7, <2>8
    <2> QED BY <2>9 DEF Near, u, v, k
  <1>4. CASE ~(n.at > a)
    <2>1. Newer(rs \cup {n}, a) = Newer(rs, a)
      BY <1>4 DEF Newer
    <2>2. Coming(r, i, a) \subseteq Coming(q, i, a)
      BY <1>1
    <2> HIDE DEF i
    <2>3. Near(rs, r, i, a)
      BY <2>2, NearStays DEF i
    <2> QED BY <2>1, <2>3 DEF Near, i
  <1> QED BY <1>3, <1>4

(* A record that gets its stamp now has nothing in front of it but the      *)
(* other requests.                                                          *)
LEMMA NearNow ==
    ASSUME NEW rs, IsFiniteSet(rs), NEW q, NEW c \in Caller, NEW i, NEW a \in Nat,
           Newer(rs, a) = {}, q[c].pc = "insert", q[c].at = a
    PROVE  Near(rs, q, i, a)
  <1>1. ~(q[c].at > a) /\ "insert" \notin Unwritten
    BY DEF Unwritten
  <1>2. Coming(q, i, a) \subseteq Caller \ {c}
    BY <1>1 DEF Coming
  <1>3. IsFiniteSet(Caller \ {c}) /\ Cardinality(Caller \ {c}) = Cardinality(Caller) - 1
    BY PasswordsAssumption, FS_RemoveElement
  <1>4. Cardinality(Coming(q, i, a)) <= Cardinality(Caller) - 1
    BY <1>2, <1>3, FS_Subset
  <1>5. Cardinality(Newer(rs, a)) = 0
    BY FS_EmptySet
  <1>6. Cardinality(Coming(q, i, a)) \in Nat /\ Cardinality(Caller) \in Nat
    BY Counted
  <1> QED BY <1>4, <1>5, <1>6 DEF Near

(* A step that changes, of the requests of an identity, none that has a     *)
(* password to record, but for where it stands before its stamp.            *)
LEMMA HeldStays ==
    ASSUME NEW rs, IsFiniteSet(rs), NEW q, NEW r, NEW i, NEW p, Held(rs, q, i, p),
           \A d \in Caller :
             \/ r[d] = q[d]
             \/ q[d].pc \in Unwritten /\ r[d].pc \in Unwritten /\ Same(r[d], q[d])
             \/ q[d].pc \notin Unwritten \cup {"insert"} /\ r[d].pc \notin Unwritten \cup {"insert"}
             \/ q[d].id # i /\ r[d].id # i
    PROVE  Held(rs, r, i, p)
  <1>0. "insert" \notin Unwritten
    BY DEF Unwritten
  <1>1. ASSUME NEW a PROVE Coming(r, i, a) \subseteq Coming(q, i, a)
    BY <1>0 DEF Coming, Same
  <1>2. ASSUME NEW a, Near(rs, q, i, a) PROVE Near(rs, r, i, a)
    BY <1>1, <1>2, NearStays
  <1>3. CASE \E c \in Caller : Carries(q, c, i, p) /\ q[c].pc \in Unwritten
    BY <1>3 DEF Held, Carries, Same
  <1>4. CASE \E c \in Caller : Carries(q, c, i, p) /\ q[c].pc = "insert" /\ Near(rs, q, i, q[c].at)
    <2>1. PICK c \in Caller : Carries(q, c, i, p) /\ q[c].pc = "insert" /\ Near(rs, q, i, q[c].at)
      BY <1>4
    <2>2. r[c] = q[c]
      BY <1>0, <2>1 DEF Carries
    <2>3. Carries(r, c, i, p) /\ r[c].pc = "insert" /\ Near(rs, r, i, r[c].at)
      BY <1>2, <2>1, <2>2 DEF Carries
    <2> QED BY <2>3 DEF Held
  <1>5. CASE \E s \in rs : s.pw = p /\ Near(rs, q, i, s.at)
    <2>1. PICK s \in rs : s.pw = p /\ Near(rs, q, i, s.at)
      BY <1>5
    <2>2. Near(rs, r, i, s.at)
      BY <1>2, <2>1
    <2> QED BY <2>1, <2>2 DEF Held
  <1> QED BY <1>3, <1>4, <1>5 DEF Held

(* The stamp is set: nothing has a later one yet.                           *)
LEMMA HeldStamped ==
    ASSUME NEW rs, IsFiniteSet(rs), NEW q, NEW r, NEW i, NEW p, Held(rs, q, i, p),
           NEW c \in Caller, \A d \in Caller \ {c} : r[d] = q[d], Same(r[c], q[c]),
           q[c].pc = "record", r[c].pc = "insert", r[c].at \in Nat, Newer(rs, r[c].at) = {}
    PROVE  Held(rs, r, i, p)
  <1>0. "insert" \notin Unwritten /\ "record" \in Unwritten
    BY DEF Unwritten
  <1>1. ASSUME NEW a PROVE Coming(r, i, a) \subseteq Coming(q, i, a)
    BY <1>0 DEF Coming, Same
  <1>2. ASSUME NEW a, Near(rs, q, i, a) PROVE Near(rs, r, i, a)
    BY <1>1, <1>2, NearStays
  <1>3. CASE \E d \in Caller : Carries(q, d, i, p) /\ q[d].pc \in Unwritten
    <2>1. PICK d \in Caller : Carries(q, d, i, p) /\ q[d].pc \in Unwritten
      BY <1>3
    <2>2. CASE d = c
      <3>1. Near(rs, r, i, r[c].at)
        BY NearNow
      <3>2. Carries(r, c, i, p)
        BY <2>1, <2>2 DEF Carries, Same
      <3> QED BY <3>1, <3>2 DEF Held
    <2>3. CASE d # c
      BY <2>1, <2>3 DEF Held, Carries
    <2> QED BY <2>2, <2>3
  <1>4. CASE \E d \in Caller : Carries(q, d, i, p) /\ q[d].pc = "insert" /\ Near(rs, q, i, q[d].at)
    <2>1. PICK d \in Caller : Carries(q, d, i, p) /\ q[d].pc = "insert" /\ Near(rs, q, i, q[d].at)
      BY <1>4
    <2>2. r[d] = q[d]
      BY <1>0, <2>1
    <2>3. Carries(r, d, i, p) /\ r[d].pc = "insert" /\ Near(rs, r, i, r[d].at)
      BY <1>2, <2>1, <2>2 DEF Carries
    <2> QED BY <2>3 DEF Held
  <1>5. CASE \E s \in rs : s.pw = p /\ Near(rs, q, i, s.at)
    <2>1. PICK s \in rs : s.pw = p /\ Near(rs, q, i, s.at)
      BY <1>5
    <2>2. Near(rs, r, i, s.at)
      BY <1>2, <2>1
    <2> QED BY <2>1, <2>2 DEF Held
  <1> QED BY <1>3, <1>4, <1>5 DEF Held

(* A record is inserted, where its request carried the password before.     *)
LEMMA HeldInserted ==
    ASSUME NEW rs \in SUBSET Record, IsFiniteSet(rs), NEW q, NEW r, NEW c \in Caller, NEW n,
           NEW p, Held(rs, q, q[c].id, p), \A d \in Caller \ {c} : r[d] = q[d],
           q[c].pc = "insert", n.at = q[c].at, n.pw = q[c].pw,
           r[c].pc \notin Unwritten \cup {"insert"}
    PROVE  Held(rs \cup {n}, r, q[c].id, p)
  <1> DEFINE i == q[c].id
             all == rs \cup {n}
  <1>0. "insert" \notin Unwritten
    BY DEF Unwritten
  <1>1. ASSUME NEW a, Near(rs, q, i, a) PROVE Near(all, r, i, a)
    BY <1>1, NearInserted
  <1>2. rs \subseteq all /\ n \in all /\ Held(rs, q, i, p)
    OBVIOUS
  <1> HIDE DEF i, all
  <1>3. CASE \E d \in Caller : Carries(q, d, i, p) /\ q[d].pc \in Unwritten
    <2>1. PICK d \in Caller : Carries(q, d, i, p) /\ q[d].pc \in Unwritten
      BY <1>3
    <2>2. r[d] = q[d]
      BY <1>0, <2>1
    <2>3. Carries(r, d, i, p) /\ r[d].pc \in Unwritten
      BY <2>1, <2>2 DEF Carries
    <2>4. Held(all, r, i, p)
      BY <2>3 DEF Held
    <2> QED BY <2>4 DEF i, all
  <1>4. CASE \E d \in Caller : Carries(q, d, i, p) /\ q[d].pc = "insert" /\ Near(rs, q, i, q[d].at)
    <2>1. PICK d \in Caller : Carries(q, d, i, p) /\ q[d].pc = "insert" /\ Near(rs, q, i, q[d].at)
      BY <1>4
    <2>2. Near(all, r, i, q[d].at)
      BY <1>1, <2>1
    <2>3. CASE d = c
      <3>1. n.pw = p /\ Near(all, r, i, n.at)
        BY <2>1, <2>2, <2>3 DEF Carries
      <3>2. Held(all, r, i, p)
        BY <1>2, <3>1 DEF Held
      <3> QED BY <3>2 DEF i, all
    <2>4. CASE d # c
      <3>1. r[d] = q[d]
        BY <2>4
      <3>2. Carries(r, d, i, p) /\ r[d].pc = "insert" /\ Near(all, r, i, r[d].at)
        BY <2>1, <2>2, <3>1 DEF Carries
      <3>3. Held(all, r, i, p)
        BY <3>2 DEF Held
      <3> QED BY <3>3 DEF i, all
    <2> QED BY <2>3, <2>4
  <1>5. CASE \E s \in rs : s.pw = p /\ Near(rs, q, i, s.at)
    <2>1. PICK s \in rs : s.pw = p /\ Near(rs, q, i, s.at)
      BY <1>5
    <2>2. Near(all, r, i, s.at) /\ s \in all
      BY <1>1, <1>2, <2>1
    <2>3. Held(all, r, i, p)
      BY <2>1, <2>2 DEF Held
    <2> QED BY <2>3 DEF i, all
  <1> QED BY <1>2, <1>3, <1>4, <1>5 DEF Held

(* The password in force, whatever step is taken.                           *)
LEMMA HeldNext ==
    ASSUME Types, Stamped, InForceHeld \/ broken, [Next]_vars
    PROVE  (InForceHeld \/ broken)'
  <1> SUFFICES ASSUME ~broken', NEW i \in Identity, backend'[i] # None
               PROVE  Held(recorded'[i], req', i, backend'[i])
    BY DEF InForceHeld
  <1>0. /\ broken' = broken /\ backend'[i] = backend[i] => Held(recorded[i], req, i, backend[i])
        /\ IsFiniteSet(recorded[i])
    BY DEF InForceHeld, Stamped
  <1>1. ASSUME UNCHANGED broken, recorded'[i] = recorded[i], backend'[i] = backend[i],
               \A d \in Caller :
                 \/ req'[d] = req[d]
                 \/ req[d].pc \in Unwritten /\ req'[d].pc \in Unwritten /\ Same(req'[d], req[d])
                 \/ /\ req[d].pc \notin Unwritten \cup {"insert"}
                    /\ req'[d].pc \notin Unwritten \cup {"insert"}
                 \/ req[d].id # i /\ req'[d].id # i
        PROVE  Held(recorded'[i], req', i, backend'[i])
    BY <1>0, <1>1, HeldStays
  <1>2. ASSUME NEW c \in Caller, Drift(c) PROVE Held(recorded'[i], req', i, backend'[i])
    <2>1. /\ UNCHANGED <<broken, recorded, backend>> /\ Others(c)
          /\ \/ req[c].pc \in Unwritten /\ req'[c].pc \in Unwritten /\ Same(req'[c], req[c])
             \/ /\ req[c].pc \notin Unwritten \cup {"insert"}
                /\ req'[c].pc \notin Unwritten \cup {"insert"}
      BY <1>2 DEF Drift, Late
    <2> QED BY <1>1, <2>1 DEF Others
  <1>3. ASSUME NEW c \in Caller, ListExtra(c) \/ DeleteExtra(c)
        PROVE  Held(recorded'[i], req', i, backend'[i])
    <2>1. /\ UNCHANGED <<broken, recorded, backend>> /\ Others(c)
          /\ req[c].pc \notin Unwritten \cup {"insert"} /\ req'[c].pc \notin Unwritten \cup {"insert"}
      BY <1>3, Lists, Deletes DEF Unwritten
    <2> QED BY <1>1, <2>1 DEF Others
  <1>4. ASSUME NEW c \in Caller, JobSucceeds(c) PROVE Held(recorded'[i], req', i, backend'[i])
    <2>1. /\ UNCHANGED <<broken, recorded>> /\ Others(c) /\ req'[c].pc \in Unwritten
          /\ Same(req'[c], req[c]) /\ backend' = [backend EXCEPT ![Owner(c)] = req[c].pw]
          /\ backend \in [Identity -> Password \cup {None}]
      BY <1>4, Takes DEF Types, World
    <2>2. CASE i = Owner(c)
      <3>1. Carries(req', c, i, backend'[i])
        BY <2>1, <2>2 DEF Carries, Same, Owner
      <3> QED BY <2>1, <3>1 DEF Held
    <2>3. CASE i # Owner(c)
      <3>1. backend'[i] = backend[i] /\ req[c].id # i /\ req'[c].id # i
        BY <2>1, <2>3 DEF Owner, Same
      <3> QED BY <1>1, <2>1, <3>1 DEF Others
    <2> QED BY <2>2, <2>3
  <1>5. ASSUME NEW c \in Caller, Stamp(c) PROVE Held(recorded'[i], req', i, backend'[i])
    <2>1. /\ UNCHANGED <<broken, recorded, backend>> /\ Others(c) /\ Same(req'[c], req[c])
          /\ clock \in Nat /\ req[c].pc = "record" /\ req'[c].pc = "insert"
          /\ req'[c].at = clock + 1
      BY <1>5, Stamps
    <2>2. req'[c].at \in Nat /\ Newer(recorded[i], req'[c].at) = {}
      <3>1. \A s \in recorded[i] : s.at \in Nat /\ s.at <= clock
        BY DEF Types, Histories, Record, Stamped
      <3>2. \A s \in recorded[i] : ~(s.at > clock + 1)
        BY <2>1, <3>1
      <3> QED BY <2>1, <3>2 DEF Newer
    <2>3. \A d \in Caller \ {c} : req'[d] = req[d]
      BY <2>1 DEF Others
    <2>4. Held(recorded[i], req', i, backend[i])
      BY <1>0, <2>1, <2>2, <2>3, HeldStamped
    <2> QED BY <2>1, <2>4
  <1>6. ASSUME NEW c \in Caller, Insert(c) PROVE Held(recorded'[i], req', i, backend'[i])
    <2>1. /\ UNCHANGED <<broken, backend>> /\ Others(c) /\ req[c].pc = "insert"
          /\ req'[c].pc = "trim" /\ Same(req'[c], req[c])
      BY <1>6, Inserts
    <2>2. PICK n \in Record : /\ n.at = req[c].at /\ n.pw = req[c].pw
                              /\ recorded' = [recorded EXCEPT ![Owner(c)] = @ \cup {n}]
      BY <1>6, Inserts
    <2>3. recorded[i] \in SUBSET Record /\ recorded \in [Identity -> SUBSET Record]
      BY DEF Types, Histories
    <2>4. "trim" \notin Unwritten \cup {"insert"}
      BY DEF Unwritten
    <2>5. CASE i = Owner(c)
      <3>1. recorded'[i] = recorded[i] \cup {n}
        BY <2>2, <2>3, <2>5
      <3>2. Held(recorded[i], req, req[c].id, backend[i])
        BY <1>0, <2>1, <2>5 DEF Owner
      <3>3. \A d \in Caller \ {c} : req'[d] = req[d]
        BY <2>1 DEF Others
      <3>4. Held(recorded[i] \cup {n}, req', req[c].id, backend[i])
        BY <1>0, <2>1, <2>2, <2>3, <2>4, <3>2, <3>3, HeldInserted
      <3> QED BY <2>1, <2>5, <3>1, <3>4 DEF Owner
    <2>6. CASE i # Owner(c)
      <3>1. recorded'[i] = recorded[i] /\ req[c].id # i /\ req'[c].id # i
        BY <2>1, <2>2, <2>3, <2>6 DEF Owner, Same
      <3> QED BY <1>1, <2>1, <3>1 DEF Others
    <2> QED BY <2>5, <2>6
  <1>7. CASE Elsewhere \/ UNCHANGED vars
    BY <1>1, <1>7, ElsewhereAside
  <1> QED BY <1>2, <1>3, <1>4, <1>5, <1>6, <1>7, AskDrifts, StepDrifts DEF Next

(* At rest the password in force is one the history forbids, as long as no  *)
(* more requests overlap than the history holds passwords: the records that *)
(* came after it are those of requests it overlapped with.                  *)
THEOREM InForceRecorded == Spec => []InForceIsRecorded
  <1>1. Init => InForceHeld
    BY DEF Init, InForceHeld
  <1>2. Inv /\ Recording /\ (InForceHeld \/ broken) /\ [Next]_vars => (InForceHeld \/ broken)'
    BY HeldNext DEF Inv, Recording
  <1>3. Inv /\ Recording /\ (InForceHeld \/ broken) => InForceIsRecorded
    <2> SUFFICES ASSUME Inv, Recording, InForceHeld, Cardinality(Caller) <= MaxHistory,
                        NEW i \in Identity, Quiet(i), backend[i] # None
                 PROVE  \E r \in history[i] : r.pw = backend[i]
      BY DEF InForceIsRecorded
    <2>1. Held(recorded[i], req, i, backend[i]) /\ \A c \in Caller : req[c].id # i
      BY DEF InForceHeld, Quiet
    <2>2. PICK r \in recorded[i] : r.pw = backend[i] /\ Near(recorded[i], req, i, r.at)
      BY <2>1 DEF Held, Carries
    <2>3. /\ Cardinality(Newer(recorded[i], r.at)) \in Nat
          /\ Cardinality(Coming(req, i, r.at)) \in Nat /\ Cardinality(Caller) \in Nat
      BY Counted DEF Recording, Stamped
    <2>4. MaxHistory \in Nat
      BY PasswordsAssumption
    <2>5. Cardinality(Newer(recorded[i], r.at)) < MaxHistory
      BY <2>2, <2>3, <2>4 DEF Near
    <2>6. r \in Newest(recorded[i])
      BY <2>5 DEF Newest, Newer
    <2> QED BY <2>2, <2>6 DEF Recording, NewestKept
  <1> QED BY <1>1, <1>2, <1>3, TypesInvariant, RecordingInvariant, PTL DEF Spec

-----------------------------------------------------------------------------
(* The change of a password implements Throttle.                            *)

Watch == [c \in Caller |-> Place(req[c])]
Ours == <<fails[Watched], window[Watched], blocked[Watched], tries[Watched]>>

LEMMA Untouched ==
    ASSUME UNCHANGED counters
    PROVE  UNCHANGED Ours
  <1>1. fails' = fails /\ window' = window /\ blocked' = blocked /\ tries' = tries
    BY DEF counters
  <1> QED BY <1>1, Zenon DEF Ours

(* A change of the watched identity.                                        *)
Seen(c) == req[c].op = "change" /\ req[c].id = Watched

(* What a move is in the terms of Throttle.                                 *)
LEMMA WatchMoves ==
    ASSUME NEW c \in Caller, Others(c)
    PROVE  Watch' = [Watch EXCEPT ![c] = Place(req'[c])]
  BY DEF Watch, Others

(* A move that Throttle does not tell apart.                                *)
LEMMA WatchStays ==
    ASSUME NEW c \in Caller, Others(c), Place(req'[c]) = Place(req[c])
    PROVE  Watch' = Watch
  BY DEF Watch, Others

LEMMA IdlePlace == Place(Idle) = "out"
  BY IdleOK, Constants DEF Place, Kinds

(* A request of another kind, or about another identity, is not seen.       *)
LEMMA Unseen ==
    ASSUME Types, NEW c \in Caller, Step(c), ~Seen(c)
    PROVE  Watch' = Watch /\ UNCHANGED Ours
  <1>1. Others(c) /\ (req'[c] = Idle \/ Same(req'[c], req[c]))
    <2>1. CASE ReadPadding(c) \/ SetPadding(c)
      BY <2>1, PaddingStep, PaddedOK DEF Moved, Types, World, ReadPadding, SetPadding
    <2>2. CASE StoreToken(c) \/ ExpireToken(c) \/ SendInvitation(c) \/ DeleteToken(c) \/ SetExpiry(c)
      BY <2>2, TokenRequests, PasswordRequests, HistoryRequests DEF Types, Moved
    <2>3. CASE Quick(c)
      BY <2>3, QuickRequests DEF Moved
    <2> QED BY <2>1, <2>2, <2>3, StepCases
  <1>2. Watch' = Watch
    BY <1>1, IdlePlace, WatchStays DEF Place, Seen, Same
  <1>3. CASE UNCHANGED counters
    BY <1>2, <1>3, Untouched
  <1>4. CASE Count(c) \/ SetWindow(c) \/ SetBlock(c) \/ ClearCounter(c) \/ LiftBlock(c)
    <2>1. req[c].pc \in Counting
      BY <1>4 DEF Count, SetWindow, SetBlock, ClearCounter, LiftBlock, At, Counting
    <2>2. req[c].op = "change"
      BY <2>1, Busy DEF At, Placed, Types, Pcs, Counting, Working
    <2>3. Owner(c) # Watched
      BY <2>2 DEF Seen, Owner
    <2>5. fails'[Watched] = fails[Watched] /\ tries'[Watched] = tries[Watched]
      BY <1>4, <2>3, Constants DEF Count, SetWindow, SetBlock, ClearCounter, LiftBlock,
               Types, Counters
    <2>6. blocked'[Watched] = blocked[Watched]
      BY <1>4, <2>3, Constants DEF Count, SetWindow, SetBlock, ClearCounter, LiftBlock,
               Types, Counters
    <2>7. window'[Watched] = window[Watched]
      <3>1. \/ window' = window
            \/ window' = [window EXCEPT ![Owner(c)] = fails[Owner(c)] > 0]
            \/ window' = [window EXCEPT ![Owner(c)] = FALSE]
        BY <1>4 DEF Count, SetWindow, SetBlock, ClearCounter, LiftBlock
      <3>2. window \in [Identity -> BOOLEAN] /\ Watched \in Identity
        BY Constants DEF Types, Counters
      <3> QED BY <2>3, <3>1, <3>2, Zenon
    <2> QED BY <1>2, <2>5, <2>6, <2>7, Zenon DEF Ours
  <1>5. CASE CheckReuse(c)
    <2>1. UNCHANGED <<fails, window, blocked>>
          /\ (tries' = tries \/ (req[c].op = "change" /\ tries' = [tries EXCEPT ![Owner(c)] = @ + 1]))
      BY <1>5 DEF CheckReuse
    <2>2. tries'[Watched] = tries[Watched]
      BY <2>1, Constants DEF Seen, Owner, Types, Counters
    <2>3. fails'[Watched] = fails[Watched] /\ window'[Watched] = window[Watched]
          /\ blocked'[Watched] = blocked[Watched]
      BY <2>1, Zenon
    <2> QED BY <1>2, <2>2, <2>3, Zenon DEF Ours
  <1> QED
    BY <1>2, <1>3, <1>4, <1>5
    DEF Step, ReadPadding, SetPadding, StoreToken, ExpireToken, SendInvitation, MailFails,
        MarkSent, Find, NotAccepted, RefuseReuse, JobSucceeds, JobFails, JobTimesOut, DeleteToken,
        Activate, Stamp, Insert, ListExtra, DeleteExtra, SetExpiry, WriteFails

(* A change on its way tries once, and then counts its failure, or clears.  *)
LEMMA SeenWorks ==
    ASSUME Types, NEW c \in Caller, Step(c), Seen(c), req[c].pc \in Working
    PROVE  T!Next \/ (Watch' = Watch /\ UNCHANGED Ours)
  <1>1. Watch[c] = Place(req[c])
    BY DEF Watch
  <1>2. ASSUME NEW p, Others(c), Place(req'[c]) = p
        PROVE  T!Move(c, p)
    BY <1>2, WatchMoves DEF T!Move, Watch
  <1>3. \A q \in Pcs : Go(c, q) => Others(c) /\ req'[c].op = "change" /\ req'[c].id = Watched
                                 /\ req'[c].pc = q
    BY Goes DEF Types, Requests, Same, Seen
  <1>4. End(c) => Others(c) /\ req'[c] = Idle
    BY Ends DEF Types, Requests
  <1>5. CASE req[c].pc \in {"find", "reuse"}
    <2>1. Watch[c] = "in"
      BY <1>1, <1>5 DEF Place, Seen
    <2>2. CASE Find(c)
      <3>1. Others(c) /\ req'[c].op = "change" /\ req'[c].id = Watched /\ req'[c].pc = "reuse"
        BY <2>2 DEF Find, Types, Requests, Request, Seen, Others
      <3>2. Place(req'[c]) = Place(req[c])
        BY <1>5, <3>1 DEF Place, Seen
      <3> QED BY <2>2, <3>1, <3>2, WatchStays, Untouched DEF Find
    <2>3. CASE NotAccepted(c) \/ RefuseReuse(c)
      <3>1. End(c) /\ UNCHANGED Ours
        BY <2>3, Untouched DEF NotAccepted, RefuseReuse
      <3>2. T!Move(c, "out")
        BY <3>1, <1>2, <1>4, IdlePlace
      <3>3. T!Leave(c)
        BY <2>1, <3>1, <3>2 DEF T!Leave, Ours, Watch
      <3> QED BY <3>3 DEF T!Next
    <2>4. CASE CheckReuse(c)
      <3>1. /\ Go(c, "job") /\ UNCHANGED <<fails, window, blocked>>
            /\ tries' = [tries EXCEPT ![Watched] = @ + 1]
        BY <2>4 DEF CheckReuse, Seen, Owner
      <3>2. Others(c) /\ Place(req'[c]) = "trying"
        BY <3>1, <1>3 DEF Place, Pcs
      <3>3. T!Move(c, "trying")
        BY <3>2, <1>2
      <3>4. tries'[Watched] = tries[Watched] + 1
        BY <3>1, Constants DEF Types, Counters
      <3>5. T!Try(c)
        BY <2>1, <3>1, <3>3, <3>4 DEF T!Try, Watch
      <3> QED BY <3>5 DEF T!Next
    <2> QED
      BY <1>5, <2>2, <2>3, <2>4
      DEF Step, ReadPadding, SetPadding, StoreToken, ExpireToken, SendInvitation, MailFails,
          MarkSent, JobSucceeds, JobFails, JobTimesOut, DeleteToken, Activate, Stamp, Insert,
          ListExtra, DeleteExtra, SetExpiry, WriteFails, Count, SetWindow, SetBlock, ClearCounter,
          LiftBlock, At
  <1>6. CASE req[c].pc \in Working \ {"find", "reuse"}
    <2>1. Place(req[c]) = "trying"
      BY <1>6 DEF Place, Seen, Working
    <2>2. \A q \in (Working \ {"find", "reuse"}) \cup {"count", "clear", "del"} : Go(c, q) => Watch' = Watch
      <3> SUFFICES ASSUME NEW q \in (Working \ {"find", "reuse"}) \cup {"count", "clear", "del"}, Go(c, q)
                   PROVE  Watch' = Watch
        OBVIOUS
      <3>1. Others(c) /\ req'[c].op = "change" /\ req'[c].id = Watched /\ req'[c].pc = q
        BY <1>3 DEF Working, Pcs
      <3>2. Place(req'[c]) = "trying"
        BY <3>1 DEF Place, Working
      <3> QED BY <2>1, <3>1, <3>2, WatchStays
    <2>3. CASE Stamp(c)
      <3>1. Others(c) /\ req'[c].op = "change" /\ req'[c].id = Watched /\ req'[c].pc = "insert"
        BY <2>3 DEF Stamp, Types, Requests, Request, Seen, Others
      <3>2. Place(req'[c]) = "trying"
        BY <3>1 DEF Place
      <3> QED BY <2>1, <2>3, <3>1, <3>2, WatchStays, Untouched DEF Stamp
    <2>4. CASE ListExtra(c)
      <3> DEFINE q == IF history[Owner(c)] \ Newest(history[Owner(c)]) = {} THEN "expiry" ELSE "delete"
      <3>1. \E x : req' = [req EXCEPT ![c].pc = q, ![c].extra = x]
        BY <2>4 DEF ListExtra
      <3>2. q \in {"expiry", "delete"}
        OBVIOUS
      <3> HIDE DEF q
      <3>3. Others(c) /\ req'[c].op = "change" /\ req'[c].id = Watched /\ req'[c].pc = q
        BY <3>1 DEF Types, Requests, Request, Seen, Others
      <3>4. Place(req'[c]) = "trying"
        BY <3>2, <3>3 DEF Place
      <3> QED BY <2>1, <2>4, <3>3, <3>4, WatchStays, Untouched DEF ListExtra
    <2>5. CASE JobSucceeds(c) \/ JobFails(c) \/ JobTimesOut(c) \/ SetExpiry(c) \/ WriteFails(c)
      <3>1. \E q \in {"del", "save", "count", "clear"} : Go(c, q)
        BY <2>5 DEF JobSucceeds, JobFails, JobTimesOut, SetExpiry, WriteFails, Catch, Seen
      <3>2. UNCHANGED Ours
        BY <2>5, Untouched DEF JobSucceeds, JobFails, JobTimesOut, SetExpiry, WriteFails
      <3> QED BY <2>2, <3>1, <3>2 DEF Working
    <2>6. CASE Activate(c) \/ Insert(c) \/ DeleteExtra(c)
      <3>1. \E q \in {"record", "trim", "expiry"} : Go(c, q)
        BY <2>6 DEF Activate, Insert, DeleteExtra
      <3>2. UNCHANGED Ours
        BY <2>6, Untouched DEF Activate, Insert, DeleteExtra
      <3> QED BY <2>2, <3>1, <3>2 DEF Working
    <2> QED
      BY <1>6, <2>3, <2>4, <2>5, <2>6
      DEF Step, ReadPadding, SetPadding, StoreToken, ExpireToken, SendInvitation, MailFails,
          MarkSent, Find, NotAccepted, CheckReuse, RefuseReuse, DeleteToken,
          Count, SetWindow, SetBlock, ClearCounter, LiftBlock, At, Working
  <1> QED BY <1>5, <1>6

(* The calls to the counters.                                               *)
LEMMA SeenCounts ==
    ASSUME Types, NEW c \in Caller, Step(c), Seen(c), req[c].pc \in Counting
    PROVE  T!Next
  <1>1. Watch[c] = Place(req[c]) /\ Owner(c) = Watched
    BY DEF Watch, Seen, Owner
  <1>2. ASSUME NEW p, Others(c), Place(req'[c]) = p
        PROVE  T!Move(c, p)
    BY <1>2, WatchMoves DEF T!Move, Watch
  <1>3. \A q \in Pcs : Go(c, q) => Others(c) /\ req'[c].op = "change" /\ req'[c].id = Watched
                                 /\ req'[c].pc = q
    BY Goes DEF Types, Requests, Same, Seen
  <1>4. End(c) => T!Move(c, "out")
    BY <1>2, Ends, IdlePlace DEF Types, Requests
  <1>5. \A q \in {"window", "block", "lift"} : Go(c, q) => T!Move(c, q)
    <2> SUFFICES ASSUME NEW q \in {"window", "block", "lift"}, Go(c, q) PROVE T!Move(c, q)
      OBVIOUS
    <2>1. Others(c) /\ req'[c].op = "change" /\ req'[c].id = Watched /\ req'[c].pc = q
      BY <1>3 DEF Pcs
    <2>2. Place(req'[c]) = q
      BY <2>1 DEF Place
    <2> QED BY <1>2, <2>1, <2>2
  <1>6. /\ fails \in [Identity -> Nat] /\ tries \in [Identity -> Nat] /\ Watched \in Identity
        /\ window \in [Identity -> BOOLEAN] /\ blocked \in [Identity -> BOOLEAN]
    BY Constants DEF Types, Counters
  <1>7. CASE Count(c)
    <2>1. /\ At(c, "count") /\ UNCHANGED <<window, blocked, tries>>
          /\ fails' = [fails EXCEPT ![Watched] = fails[Watched] + 1]
          /\ IF fails[Watched] + 1 = 1 THEN Go(c, "window")
             ELSE IF fails[Watched] + 1 < Threshold THEN End(c) ELSE Go(c, "block")
      BY <1>1, <1>7 DEF Count
    <2>2. Watch[c] = "trying"
      BY <1>1, <2>1 DEF Place, Seen, At
    <2>3. fails'[Watched] = fails[Watched] + 1
      BY <1>6, <2>1
    <2>4. T!Move(c, T!Counted(fails[Watched] + 1))
      BY <1>4, <1>5, <2>1 DEF T!Counted
    <2>5. T!Count(c)
      BY <2>1, <2>2, <2>3, <2>4 DEF T!Count, Watch
    <2> QED BY <2>5 DEF T!Next
  <1>8. CASE SetWindow(c)
    <2>1. /\ At(c, "window") /\ End(c) /\ UNCHANGED <<fails, blocked, tries>>
          /\ window' = [window EXCEPT ![Watched] = fails[Watched] > 0]
      BY <1>1, <1>8 DEF SetWindow
    <2>2. Watch[c] = "window"
      BY <1>1, <2>1 DEF Place, Seen, At
    <2>3. window'[Watched] = (fails[Watched] > 0)
      BY <1>6, <2>1, Zenon
    <2>4. T!Move(c, IF Threshold <= 1 THEN "block" ELSE "out")
      BY <1>4, <2>1, Constants
    <2>5. T!SetWindow(c)
      BY <2>1, <2>2, <2>3, <2>4 DEF T!SetWindow, Watch
    <2> QED BY <2>5 DEF T!Next
  <1>9. CASE SetBlock(c)
    <2>1. /\ At(c, "block") /\ End(c) /\ UNCHANGED <<fails, window, tries>>
          /\ blocked' = [blocked EXCEPT ![Watched] = TRUE]
      BY <1>1, <1>9 DEF SetBlock
    <2>2. Watch[c] = "block" /\ blocked'[Watched] = TRUE
      BY <1>1, <1>6, <2>1 DEF Place, Seen, At
    <2>3. T!Block(c)
      BY <1>4, <2>1, <2>2 DEF T!Block, Watch
    <2> QED BY <2>3 DEF T!Next
  <1>10. CASE ClearCounter(c)
    <2>1. /\ At(c, "clear") /\ Go(c, "lift") /\ UNCHANGED blocked
          /\ fails' = [fails EXCEPT ![Watched] = 0] /\ tries' = [tries EXCEPT ![Watched] = 0]
          /\ window' = [window EXCEPT ![Watched] = FALSE]
      BY <1>1, <1>10 DEF ClearCounter
    <2>2. Watch[c] = "trying"
      BY <1>1, <2>1 DEF Place, Seen, At
    <2>3. fails'[Watched] = 0 /\ tries'[Watched] = 0 /\ window'[Watched] = FALSE
      BY <1>6, <2>1
    <2>4. T!Clear(c)
      BY <1>5, <2>1, <2>2, <2>3 DEF T!Clear, Watch
    <2> QED BY <2>4 DEF T!Next
  <1>11. CASE LiftBlock(c)
    <2>1. /\ At(c, "lift") /\ End(c) /\ UNCHANGED <<fails, window>>
          /\ blocked' = [blocked EXCEPT ![Watched] = FALSE] /\ tries' = [tries EXCEPT ![Watched] = 0]
      BY <1>1, <1>11 DEF LiftBlock
    <2>2. Watch[c] = "lift" /\ blocked'[Watched] = FALSE /\ tries'[Watched] = 0
      BY <1>1, <1>6, <2>1 DEF Place, Seen, At
    <2>3. T!Lift(c)
      BY <1>4, <2>1, <2>2 DEF T!Lift, Watch
    <2> QED BY <2>3 DEF T!Next
  <1> QED
    BY <1>7, <1>8, <1>9, <1>10, <1>11
    DEF Step, ReadPadding, SetPadding, StoreToken, ExpireToken, SendInvitation, MailFails,
        MarkSent, Find, NotAccepted, CheckReuse, RefuseReuse, JobSucceeds, JobFails, JobTimesOut,
        DeleteToken, Activate, Stamp, Insert, ListExtra, DeleteExtra, SetExpiry, WriteFails,
        At, Counting

(* A request begins, or the time of a key is over.                          *)
LEMMA OtherSteps ==
    ASSUME Types, (\E c \in Caller : Ask(c)) \/ Elsewhere \/ UNCHANGED vars
    PROVE  T!Next \/ (Watch' = Watch /\ UNCHANGED Ours)
  <1>1. ASSUME NEW c \in Caller, Ask(c)
        PROVE  T!Next \/ (Watch' = Watch /\ UNCHANGED Ours)
    <2>1. Asked(c)
      BY <1>1, AskRequests DEF Types
    <2>2. Others(c) /\ req[c] = Idle /\ UNCHANGED <<Ours, blocked>>
      BY <2>1 DEF Asked, Rest, counters, Ours
    <2>3. Place(req[c]) = "out"
      BY <2>2, IdlePlace
    <2>4. CASE AskedChange(req'[c]) /\ req'[c].id = Watched
      <3>1. Place(req'[c]) = "in" /\ ~blocked[Watched]
        BY <2>4 DEF AskedChange, Place
      <3>2. T!Move(c, "in")
        BY <2>2, <3>1, WatchMoves DEF T!Move, Watch
      <3>3. T!Enter(c)
        BY <2>2, <2>3, <3>1, <3>2 DEF T!Enter, Ours, Watch
      <3> QED BY <3>3 DEF T!Next
    <2>5. CASE ~(AskedChange(req'[c]) /\ req'[c].id = Watched)
      <3>1. Place(req'[c]) = "out"
        BY <2>1, <2>5 DEF Asked, AskedToken, AskedReset, AskedChange, Asking, Resets, Place
      <3> QED BY <2>2, <2>3, <3>1, WatchStays
    <2> QED BY <2>4, <2>5
  <1>2. ASSUME NEW i \in Identity, WindowEnds(i) \/ BlockEnds(i)
        PROVE  T!Next \/ (Watch' = Watch /\ UNCHANGED Ours)
    <2>1. /\ fails \in [Identity -> Nat] /\ tries \in [Identity -> Nat] /\ Watched \in Identity
          /\ window \in [Identity -> BOOLEAN] /\ blocked \in [Identity -> BOOLEAN]
      BY Constants DEF Types, Counters
    <2>2. Watch' = Watch
      BY <1>2 DEF WindowEnds, BlockEnds, Watch
    <2>3. CASE i # Watched
      BY <1>2, <2>1, <2>2, <2>3 DEF WindowEnds, BlockEnds, Ours
    <2>4. CASE i = Watched /\ WindowEnds(i)
      <3>1. /\ window[Watched] /\ blocked' = blocked /\ fails'[Watched] = 0
            /\ tries'[Watched] = 0 /\ window'[Watched] = FALSE
        BY <2>1, <2>4 DEF WindowEnds
      <3>2. T!WindowEnds
        BY <2>2, <3>1 DEF T!WindowEnds, Watch
      <3> QED BY <3>2 DEF T!Next
    <2>5. CASE i = Watched /\ BlockEnds(i)
      <3>1. /\ blocked[Watched] /\ UNCHANGED <<fails, window>>
            /\ tries'[Watched] = 0 /\ blocked'[Watched] = FALSE
        BY <2>1, <2>5 DEF BlockEnds
      <3>2. T!BlockEnds
        BY <2>2, <3>1 DEF T!BlockEnds, Watch
      <3> QED BY <3>2 DEF T!Next
    <2> QED BY <1>2, <2>3, <2>4, <2>5
  <1>3. ASSUME UNCHANGED <<req, counters>> PROVE Watch' = Watch /\ UNCHANGED Ours
    BY <1>3, Untouched DEF Watch
  <1>4. CASE UNCHANGED vars
    BY <1>3, <1>4 DEF vars
  <1>5. CASE Elsewhere
    BY <1>2, <1>3, <1>5 DEF Elsewhere, TokenExpires, Edit
  <1> QED BY <1>1, <1>4, <1>5

(* The change of a password keeps the promise of Throttle, for any number   *)
(* of requests and any identity: the block, the counter and its window are  *)
(* written by separate calls, in any order between requests.                *)
THEOREM ChangeThrottled == Spec => ChangeIsThrottled
  <1>1. Init => T!Init
    <2> SUFFICES ASSUME Init PROVE T!Init
      OBVIOUS
    <2>1. [c \in Caller |-> Place(req[c])] = [c \in Caller |-> "out"]
      BY IdlePlace DEF Init
    <2> QED BY <2>1, Constants DEF Init, T!Init
  <1>2. Inv /\ [Next]_vars => [T!Next]_(T!vars)
    <2> SUFFICES ASSUME Types, [Next]_vars
                 PROVE  T!Next \/ (Watch' = Watch /\ UNCHANGED Ours)
      BY DEF Inv, T!vars, Watch, Ours
    <2>1. ASSUME NEW c \in Caller, Step(c)
          PROVE  T!Next \/ (Watch' = Watch /\ UNCHANGED Ours)
      <3>1. CASE ~Seen(c)
        BY <2>1, <3>1, Unseen
      <3>2. CASE Seen(c)
        <4>1. req[c].pc \in Working \cup Counting
          BY <3>2, IdleOK, Constants DEF Types, Requests, Placed, Seen, Kinds
        <4> QED BY <2>1, <3>2, <4>1, SeenWorks, SeenCounts
      <3> QED BY <3>1, <3>2
    <2> QED BY <2>1, OtherSteps DEF Next
  <1> QED BY <1>1, <1>2, TypesInvariant, PTL DEF Spec, ChangeIsThrottled, T!Spec

(* Throttle as its proofs see it.                                           *)
B == INSTANCE Throttle_proofs WITH
       fails <- fails[Watched], window <- window[Watched], blocked <- blocked[Watched],
       tries <- tries[Watched], at <- [c \in Caller |-> Place(req[c])]

LEMMA SameFinite ==
    (IsFiniteSet(Caller) => B!IsFiniteSet(Caller)) /\ Cardinality(Caller) = B!Cardinality(Caller)
  BY DEF IsFiniteSet, B!IsFiniteSet, Cardinality, B!Cardinality

LEMMA SameCounters == (T!Init => B!Init) /\ ([T!Next]_(T!vars) => [B!Next]_(B!vars))
  <1>1. T!Init => B!Init
    BY DEF T!Init, B!Init
  <1>2. [T!Next]_(T!vars) => [B!Next]_(B!vars)
    BY DEF T!Next, B!Next, T!vars, B!vars, T!Move, B!Move, T!Enter, B!Enter, T!Leave, B!Leave,
           T!Try, B!Try, T!Counted, B!Counted, T!Count, B!Count, T!Knock, B!Knock,
           T!SetWindow, B!SetWindow, T!Block, B!Block, T!Excuse, B!Excuse, T!Clear, B!Clear,
           T!Lift, B!Lift, T!WindowEnds, B!WindowEnds, T!BlockEnds, B!BlockEnds
  <1> QED BY <1>1, <1>2

(* The passwords tried of an identity are bounded, for any finite number of *)
(* requests at once and any identity: what Throttle promises (change).      *)
THEOREM PasswordTriesBounded ==
    ASSUME IsFiniteSet(Caller)
    PROVE  Spec => []TriesBounded
  <1>1. Threshold \in Nat \ {0}
    BY PasswordsAssumption DEF PasswordsAssumption
  <1>2. B!Spec => []B!TriesBounded
    BY <1>1, SameFinite, B!Bounded, PTL
  <1>3. B!TriesBounded => TriesBounded
    BY SameFinite DEF B!TriesBounded, TriesBounded
  <1>4. Spec => T!Spec
    BY ChangeThrottled, PTL DEF ChangeIsThrottled
  <1> QED BY <1>2, <1>3, <1>4, SameCounters, PTL DEF T!Spec, B!Spec
=============================================================================



