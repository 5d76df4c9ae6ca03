--------------------------- MODULE Sessions_proofs ---------------------------
(* Proofs about Sessions, for every set of agents and of requests in        *)
(* progress: the types, a session that a logout ended for good, a challenge *)
(* good for one session, and the counters of the login as an implementation *)
(* of Throttle.                                                             *)
EXTENDS Sessions, TLAPS

-----------------------------------------------------------------------------
(* The types of a request.                                                  *)

Request == [op : Kinds \cup {None}, pc : Pcs \cup {None}, n : Nat, agent : Agent \cup {None},
            key : Key \cup {None}, ch : Serial \cup {None}, mfa : BOOLEAN,
            session : Serial \cup {None}, token : Serial \cup {None},
            doc : Doc \cup Agent \cup {None}, stale : BOOLEAN]

Entering == {"recheck", "enter", "look", "password"}
Counting == {"count", "window", "block"}
Clearing == {"clear", "lift"}
Coding == {"get", "code", "consume"}
Asserting == {"assert", "sign", "asserted", "drop"}
Minted == {"ttl", "access"}
Leaving == {"delAccess", "delRefresh"}

(* What a request holds at each await.                                      *)
Holds(r) ==
    /\ r.pc \in Entering => r.agent \in Agent /\ r.key = r.agent
    /\ r.pc = "password" => r.doc \in Doc
    /\ r.pc \in Counting => r.key \in Key
    /\ r.pc \in Clearing => r.key \in Key /\ r.agent \in Agent
    /\ r.pc \in Clearing /\ r.key \in Agent => r.doc \in Doc /\ r.key = r.agent
    /\ r.pc \in Clearing /\ r.op = "finish" => r.ch \in Serial /\ r.key \in Serial
    /\ r.pc \in {"challenge", "gate", "ask", "mint"} \cup Minted => r.agent \in Agent
    /\ r.pc \in {"gate", "ask"} \cup Coding \cup Asserting => r.ch \in Serial
    /\ r.pc \in Coding \cup Asserting => r.key \in Serial
    /\ r.pc \in {"code", "consume"} => r.doc \in Agent
    /\ r.pc \in Asserting => r.agent \in Agent
    /\ r.pc = "sign" => r.doc \in Doc
    /\ r.pc \in Minted \cup {"delRefresh"} => r.session \in Serial
    /\ r.pc = "delAccess" => r.token \in Serial

(* Which requests come to an await.                                         *)
Placed(r) ==
    /\ r.pc \in {"recheck", "gate"} => r.op = "login"
    /\ r.pc \in {"enter"} => r.op = "stepUp"
    /\ r.pc \in {"look", "password"} => r.op \in {"login", "preflight", "stepUp"}
    /\ r.pc \in Coding => r.op \in {"login", "verify"}
    /\ r.pc \in Asserting => r.op = "finish"
    /\ r.pc \in Clearing /\ r.key \notin Agent => r.op \in {"login", "verify", "finish"}
    /\ r.pc \in Clearing /\ r.key \in Agent => r.op \in {"login", "preflight", "stepUp"}
    /\ r.pc = "challenge" => r.op \in {"login", "preflight"}
    /\ r.pc = "mint" => r.op \in {"login", "verify", "finish", "stepUp"}
    /\ r.pc \in Minted => r.op \in {"login", "verify", "finish", "stepUp", "renew"}
    /\ r.pc \in Leaving => r.op = "logout"
    /\ r.pc = "ask" => r.op = "begin"
    /\ r.session # None => r.pc \in Minted \cup Leaving

Busy(r) == r.op \in Kinds /\ r.pc \in Pcs /\ Holds(r) /\ Placed(r)

Planned(r) == r.op \in plan.kinds /\ r.n \in 1 .. made

Requests ==
    /\ req \in [Caller -> Request]
    /\ \A c \in Caller : req[c] = Idle \/ (Busy(req[c]) /\ Planned(req[c]))

World ==
    /\ agent \in [Agent -> Doc]
    /\ refresh \in [Serial -> Refresh \cup {None}]
    /\ access \in [Serial -> Access \cup {None}]
    /\ challenge \in [Serial -> Agent \cup {None}]
    /\ assertion \in [Serial -> Agent \cup {None}]
    /\ given \subseteq Serial /\ ended \subseteq Serial /\ consumed \subseteq Serial
    /\ plan \in Plans /\ made \in 0 .. plan.requests /\ edits \in 0 .. plan.edits

Counters ==
    /\ fails \in [Key -> Nat]
    /\ window \in [Key -> BOOLEAN]
    /\ blocked \in [Key -> BOOLEAN]
    /\ tries \in [Agent -> Nat]

Types == Requests /\ World /\ Counters

-----------------------------------------------------------------------------
(* The assumptions on the constants the proofs use.                         *)
LEMMA Constants ==
    /\ Threshold \in Nat /\ Threshold >= 2 /\ Watched \in Agent /\ MaxRequests \in Nat
    /\ None \notin Agent /\ None \notin Kinds /\ None \notin Pcs /\ None \notin Nat
    /\ None \notin Doc /\ None \notin Serial /\ None \notin Key
    /\ Agent \cap Serial = {} /\ Agent \cap Doc = {} /\ Serial \subseteq Nat
    /\ Serial \subseteq Key /\ Agent \subseteq Key
    /\ Plans \subseteq [kinds : SUBSET Kinds, requests : 0 .. MaxRequests, edits : Nat,
                        docs : SUBSET Doc]
  <1>1. Serial \subseteq Nat
    BY SessionsAssumption DEF Serial
  <1> QED BY <1>1, SessionsAssumption DEF Key

(* The record of a process without a request.                               *)
LEMMA IdleOK ==
    /\ Idle \in Request /\ Idle.op = None /\ Idle.pc = None /\ Idle.session = None
    /\ Idle.key = None /\ Idle.n = 0 /\ Idle.ch = None /\ ~Idle.mfa /\ ~Idle.stale
    /\ Idle.agent = None /\ Idle.token = None /\ Idle.doc = None
  <1>1. Idle \in Request
    BY DEF Idle, Request
  <1> QED BY <1>1 DEF Idle

Others(c) == \A d \in Caller \ {c} : req'[d] = req[d]

(* A request at an await.                                                   *)
LEMMA Awaits ==
    ASSUME Requests, NEW c \in Caller, NEW p \in Pcs, At(c, p)
    PROVE  Busy(req[c]) /\ req[c] \in Request /\ req[c].pc = p
  BY IdleOK, Constants DEF At, Requests

(* The fields of a request that no step of it changes.                      *)
Same(r, s) ==
    /\ r.op = s.op /\ r.n = s.n /\ r.ch = s.ch /\ r.token = s.token /\ r.stale = s.stale

(* A request that only goes to another await.                               *)
LEMMA Goes ==
    ASSUME req \in [Caller -> Request], NEW c \in Caller, NEW p \in Pcs, Go(c, p)
    PROVE  /\ req' \in [Caller -> Request] /\ Others(c)
           /\ Same(req'[c], req[c]) /\ req'[c].pc = p
           /\ req'[c].agent = req[c].agent /\ req'[c].key = req[c].key
           /\ req'[c].mfa = req[c].mfa /\ req'[c].session = req[c].session
           /\ req'[c].doc = req[c].doc
  <1> DEFINE r == [req[c] EXCEPT !.pc = p]
  <1>1. r \in Request
    BY DEF Request
  <1>2. /\ Same(r, req[c]) /\ r.pc = p /\ r.agent = req[c].agent /\ r.key = req[c].key
        /\ r.mfa = req[c].mfa /\ r.session = req[c].session /\ r.doc = req[c].doc
    BY DEF Same, Request
  <1>3. req' = [req EXCEPT ![c] = r]
    BY DEF Go
  <1> HIDE DEF r
  <1>4. req' \in [Caller -> Request] /\ Others(c) /\ req'[c] = r
    BY <1>1, <1>3 DEF Others
  <1> QED BY <1>2, <1>4

(* A request that ends.                                                     *)
LEMMA Ends ==
    ASSUME req \in [Caller -> Request], NEW c \in Caller, End(c)
    PROVE  req' \in [Caller -> Request] /\ Others(c) /\ req'[c] = Idle
  BY IdleOK DEF End, Others
(* A request whose record is written anew.                                  *)
LEMMA Writes ==
    ASSUME req \in [Caller -> Request], NEW c \in Caller, NEW r \in Request,
           req' = [req EXCEPT ![c] = r]
    PROVE  req' \in [Caller -> Request] /\ Others(c) /\ req'[c] = r
  BY DEF Others

(* What a step does to its request: it ends, or keeps what it was made for. *)
Moved(c) ==
    /\ req' \in [Caller -> Request] /\ Others(c)
    /\ \/ req'[c] = Idle
       \/ /\ Same(req'[c], req[c]) /\ Busy(req'[c])
          /\ req'[c].session = req[c].session \/ At(c, "mint")
          /\ req'[c].key = req[c].key \/ req'[c].key \in Serial

LEMMA Kept ==
    ASSUME Requests, NEW c \in Caller, Moved(c), UNCHANGED <<plan, made>>
    PROVE  Requests'
  <1>1. ASSUME NEW d \in Caller
        PROVE  req'[d] = Idle \/ (Busy(req'[d]) /\ req'[d].op \in plan.kinds /\ req'[d].n \in 1 .. made)
    <2>1. CASE d = c
      BY <2>1, IdleOK, Constants DEF Moved, Requests, Same, Planned, Busy
    <2>2. CASE d # c
      BY <2>2 DEF Moved, Others, Requests, Planned
    <2> QED BY <2>1, <2>2
  <1> QED BY <1>1 DEF Requests, Moved, Planned

LEMMA EndsMoved ==
    ASSUME Requests, NEW c \in Caller, End(c)
    PROVE  Moved(c) /\ req'[c] = Idle
  BY Ends, IdleOK DEF Requests, Moved

(* Going on: moved, if the next await holds what it asks for.               *)
LEMMA GoesMoved ==
    ASSUME Requests, NEW c \in Caller, NEW p \in Pcs, NEW q \in Pcs, At(c, p), Go(c, q)
    PROVE  /\ Busy(req[c]) /\ req[c].pc = p /\ req[c] \in Request /\ req'[c] \in Request
           /\ Others(c) /\ Same(req'[c], req[c]) /\ req'[c].pc = q
           /\ req'[c].agent = req[c].agent /\ req'[c].key = req[c].key
           /\ req'[c].mfa = req[c].mfa /\ req'[c].session = req[c].session
           /\ req'[c].doc = req[c].doc
           /\ Busy(req'[c]) => Moved(c)
  <1>1. /\ req' \in [Caller -> Request] /\ Others(c)
        /\ Same(req'[c], req[c]) /\ req'[c].pc = q
        /\ req'[c].agent = req[c].agent /\ req'[c].key = req[c].key
        /\ req'[c].mfa = req[c].mfa /\ req'[c].session = req[c].session
        /\ req'[c].doc = req[c].doc
    BY Goes DEF Requests
  <1>2. Busy(req[c]) /\ req[c] \in Request /\ req[c].pc = p
    BY Awaits
  <1> QED BY <1>1, <1>2 DEF Moved

(* The calls after which a request only goes on. *)
LEMMA GoingMoved ==
    ASSUME Requests, World, NEW c \in Caller,
           WrongPassword(c) \/ RightPassword(c) \/ ClearCounter(c) \/ NoCode(c)
           \/ WrongCode(c) \/ RightCode(c) \/ WrongAssertion(c)
           \/ WriteSignCount(c) \/ DropChallenge(c) \/ ExpireRefresh(c)
    PROVE  Moved(c)
  <1>1. CASE WrongPassword(c)
    <2>a. At(c, "password") /\ Go(c, "count")
      BY <1>1 DEF WrongPassword
    <2>1. "password" \in Pcs /\ "count" \in Pcs
      BY DEF Pcs
    <2>2. /\ Busy(req[c]) /\ req[c].pc = "password" /\ req[c] \in Request
          /\ Same(req'[c], req[c]) /\ req'[c].pc = "count" /\ req'[c].agent = req[c].agent
          /\ req'[c].key = req[c].key /\ req'[c].session = req[c].session
          /\ req'[c].doc = req[c].doc /\ (Busy(req'[c]) => Moved(c))
      BY <2>a, <2>1, GoesMoved
    <2>3. Busy(req'[c])
      BY <2>1, <2>2, Constants
      DEF Busy, Holds, Placed, Same, Entering, Counting, Clearing, Coding,
          Asserting, Minted, Leaving
    <2> QED BY <2>2, <2>3
  <1>2. CASE RightPassword(c)
    <2>a. At(c, "password") /\ Go(c, "clear")
      BY <1>2 DEF RightPassword
    <2>1. "password" \in Pcs /\ "clear" \in Pcs
      BY DEF Pcs
    <2>2. /\ Busy(req[c]) /\ req[c].pc = "password" /\ req[c] \in Request
          /\ Same(req'[c], req[c]) /\ req'[c].pc = "clear" /\ req'[c].agent = req[c].agent
          /\ req'[c].key = req[c].key /\ req'[c].session = req[c].session
          /\ req'[c].doc = req[c].doc /\ (Busy(req'[c]) => Moved(c))
      BY <2>a, <2>1, GoesMoved
    <2>3. Busy(req'[c])
      BY <2>1, <2>2, Constants
      DEF Busy, Holds, Placed, Same, Entering, Counting, Clearing, Coding,
          Asserting, Minted, Leaving
    <2> QED BY <2>2, <2>3
  <1>3. CASE ClearCounter(c)
    <2>a. At(c, "clear") /\ Go(c, "lift")
      BY <1>3 DEF ClearCounter
    <2>1. "clear" \in Pcs /\ "lift" \in Pcs
      BY DEF Pcs
    <2>2. /\ Busy(req[c]) /\ req[c].pc = "clear" /\ req[c] \in Request
          /\ Same(req'[c], req[c]) /\ req'[c].pc = "lift" /\ req'[c].agent = req[c].agent
          /\ req'[c].key = req[c].key /\ req'[c].session = req[c].session
          /\ req'[c].doc = req[c].doc /\ (Busy(req'[c]) => Moved(c))
      BY <2>a, <2>1, GoesMoved
    <2>3. Busy(req'[c])
      BY <2>1, <2>2, Constants
      DEF Busy, Holds, Placed, Same, Entering, Counting, Clearing, Coding,
          Asserting, Minted, Leaving
    <2> QED BY <2>2, <2>3
  <1>4. CASE NoCode(c)
    <2>a. At(c, "code") /\ Go(c, "count")
      BY <1>4 DEF NoCode
    <2>1. "code" \in Pcs /\ "count" \in Pcs
      BY DEF Pcs
    <2>2. /\ Busy(req[c]) /\ req[c].pc = "code" /\ req[c] \in Request
          /\ Same(req'[c], req[c]) /\ req'[c].pc = "count" /\ req'[c].agent = req[c].agent
          /\ req'[c].key = req[c].key /\ req'[c].session = req[c].session
          /\ req'[c].doc = req[c].doc /\ (Busy(req'[c]) => Moved(c))
      BY <2>a, <2>1, GoesMoved
    <2>3. Busy(req'[c])
      BY <2>1, <2>2, Constants
      DEF Busy, Holds, Placed, Same, Entering, Counting, Clearing, Coding,
          Asserting, Minted, Leaving
    <2> QED BY <2>2, <2>3
  <1>5. CASE WrongCode(c)
    <2>a. At(c, "code") /\ Go(c, "count")
      BY <1>5 DEF WrongCode
    <2>1. "code" \in Pcs /\ "count" \in Pcs
      BY DEF Pcs
    <2>2. /\ Busy(req[c]) /\ req[c].pc = "code" /\ req[c] \in Request
          /\ Same(req'[c], req[c]) /\ req'[c].pc = "count" /\ req'[c].agent = req[c].agent
          /\ req'[c].key = req[c].key /\ req'[c].session = req[c].session
          /\ req'[c].doc = req[c].doc /\ (Busy(req'[c]) => Moved(c))
      BY <2>a, <2>1, GoesMoved
    <2>3. Busy(req'[c])
      BY <2>1, <2>2, Constants
      DEF Busy, Holds, Placed, Same, Entering, Counting, Clearing, Coding,
          Asserting, Minted, Leaving
    <2> QED BY <2>2, <2>3
  <1>6. CASE RightCode(c)
    <2>a. At(c, "code") /\ Go(c, "consume")
      BY <1>6 DEF RightCode
    <2>1. "code" \in Pcs /\ "consume" \in Pcs
      BY DEF Pcs
    <2>2. /\ Busy(req[c]) /\ req[c].pc = "code" /\ req[c] \in Request
          /\ Same(req'[c], req[c]) /\ req'[c].pc = "consume" /\ req'[c].agent = req[c].agent
          /\ req'[c].key = req[c].key /\ req'[c].session = req[c].session
          /\ req'[c].doc = req[c].doc /\ (Busy(req'[c]) => Moved(c))
      BY <2>a, <2>1, GoesMoved
    <2>3. Busy(req'[c])
      BY <2>1, <2>2, Constants
      DEF Busy, Holds, Placed, Same, Entering, Counting, Clearing, Coding,
          Asserting, Minted, Leaving
    <2> QED BY <2>2, <2>3
  <1>7. CASE WrongAssertion(c)
    <2>a. At(c, "assert") /\ Go(c, "count")
      BY <1>7 DEF WrongAssertion
    <2>1. "assert" \in Pcs /\ "count" \in Pcs
      BY DEF Pcs
    <2>2. /\ Busy(req[c]) /\ req[c].pc = "assert" /\ req[c] \in Request
          /\ Same(req'[c], req[c]) /\ req'[c].pc = "count" /\ req'[c].agent = req[c].agent
          /\ req'[c].key = req[c].key /\ req'[c].session = req[c].session
          /\ req'[c].doc = req[c].doc /\ (Busy(req'[c]) => Moved(c))
      BY <2>a, <2>1, GoesMoved
    <2>3. Busy(req'[c])
      BY <2>1, <2>2, Constants
      DEF Busy, Holds, Placed, Same, Entering, Counting, Clearing, Coding,
          Asserting, Minted, Leaving
    <2> QED BY <2>2, <2>3
  <1>8. CASE WriteSignCount(c)
    <2>a. At(c, "sign") /\ Go(c, "asserted")
      BY <1>8 DEF WriteSignCount
    <2>1. "sign" \in Pcs /\ "asserted" \in Pcs
      BY DEF Pcs
    <2>2. /\ Busy(req[c]) /\ req[c].pc = "sign" /\ req[c] \in Request
          /\ Same(req'[c], req[c]) /\ req'[c].pc = "asserted" /\ req'[c].agent = req[c].agent
          /\ req'[c].key = req[c].key /\ req'[c].session = req[c].session
          /\ req'[c].doc = req[c].doc /\ (Busy(req'[c]) => Moved(c))
      BY <2>a, <2>1, GoesMoved
    <2>3. Busy(req'[c])
      BY <2>1, <2>2, Constants
      DEF Busy, Holds, Placed, Same, Entering, Counting, Clearing, Coding,
          Asserting, Minted, Leaving
    <2> QED BY <2>2, <2>3
  <1>9. CASE DropChallenge(c)
    <2>a. At(c, "drop") /\ Go(c, "mint")
      BY <1>9 DEF DropChallenge
    <2>1. "drop" \in Pcs /\ "mint" \in Pcs
      BY DEF Pcs
    <2>2. /\ Busy(req[c]) /\ req[c].pc = "drop" /\ req[c] \in Request
          /\ Same(req'[c], req[c]) /\ req'[c].pc = "mint" /\ req'[c].agent = req[c].agent
          /\ req'[c].key = req[c].key /\ req'[c].session = req[c].session
          /\ req'[c].doc = req[c].doc /\ (Busy(req'[c]) => Moved(c))
      BY <2>a, <2>1, GoesMoved
    <2>3. Busy(req'[c])
      BY <2>1, <2>2, Constants
      DEF Busy, Holds, Placed, Same, Entering, Counting, Clearing, Coding,
          Asserting, Minted, Leaving
    <2> QED BY <2>2, <2>3
  <1>10. CASE ExpireRefresh(c)
    <2>a. At(c, "ttl") /\ Go(c, "access")
      BY <1>10 DEF ExpireRefresh
    <2>1. "ttl" \in Pcs /\ "access" \in Pcs
      BY DEF Pcs
    <2>2. /\ Busy(req[c]) /\ req[c].pc = "ttl" /\ req[c] \in Request
          /\ Same(req'[c], req[c]) /\ req'[c].pc = "access" /\ req'[c].agent = req[c].agent
          /\ req'[c].key = req[c].key /\ req'[c].session = req[c].session
          /\ req'[c].doc = req[c].doc /\ (Busy(req'[c]) => Moved(c))
      BY <2>a, <2>1, GoesMoved
    <2>3. Busy(req'[c])
      BY <2>1, <2>2, Constants
      DEF Busy, Holds, Placed, Same, Entering, Counting, Clearing, Coding,
          Asserting, Minted, Leaving
    <2> QED BY <2>2, <2>3
  <1> QED BY <1>1, <1>2, <1>3, <1>4, <1>5, <1>6, <1>7, <1>8, <1>9, <1>10

(* The calls after which a request is answered. *)
LEMMA EndingMoved ==
    ASSUME Requests, World, NEW c \in Caller,
           InactivePreflight(c) \/ SetWindow(c) \/ SetBlock(c) \/ MakeChallenge(c)
           \/ StoreAssertion(c) \/ StoreAccess(c) \/ DeleteRefresh(c)
    PROVE  Moved(c)
  <1>1. End(c)
    BY DEF InactivePreflight, SetWindow, SetBlock, MakeChallenge,
           StoreAssertion, StoreAccess, DeleteRefresh
  <1> QED BY <1>1, EndsMoved

(* The calls whose answer decides whether the request goes on. *)
LEMMA BranchingMoved ==
    ASSUME Requests, World, NEW c \in Caller,
           Recheck(c) \/ Count(c) \/ DeleteAccess(c)
    PROVE  Moved(c)
  <1>1. CASE Recheck(c)
    <2>1. At(c, "recheck") \/ At(c, "enter")
      BY <1>1 DEF Recheck, At
    <2>2. End(c) \/ Go(c, "look")
      BY <1>1 DEF Recheck
    <2>3. CASE End(c)
      BY <2>3, EndsMoved
    <2>4. CASE Go(c, "look") /\ At(c, "recheck")
      <3>1. "recheck" \in Pcs /\ "look" \in Pcs
        BY DEF Pcs
      <3>2. /\ Busy(req[c]) /\ req[c].pc = "recheck" /\ req[c] \in Request
            /\ Same(req'[c], req[c]) /\ req'[c].pc = "look" /\ req'[c].agent = req[c].agent
            /\ req'[c].key = req[c].key /\ req'[c].session = req[c].session
            /\ req'[c].doc = req[c].doc /\ (Busy(req'[c]) => Moved(c))
        BY <2>4, <3>1, GoesMoved
      <3>3. Busy(req'[c])
        BY <3>1, <3>2, Constants
        DEF Busy, Holds, Placed, Same, Entering, Counting, Clearing, Coding,
            Asserting, Minted, Leaving
      <3> QED BY <3>2, <3>3
    <2>5. CASE Go(c, "look") /\ At(c, "enter")
      <3>1. "enter" \in Pcs /\ "look" \in Pcs
        BY DEF Pcs
      <3>2. /\ Busy(req[c]) /\ req[c].pc = "enter" /\ req[c] \in Request
            /\ Same(req'[c], req[c]) /\ req'[c].pc = "look" /\ req'[c].agent = req[c].agent
            /\ req'[c].key = req[c].key /\ req'[c].session = req[c].session
            /\ req'[c].doc = req[c].doc /\ (Busy(req'[c]) => Moved(c))
        BY <2>5, <3>1, GoesMoved
      <3>3. Busy(req'[c])
        BY <3>1, <3>2, Constants
        DEF Busy, Holds, Placed, Same, Entering, Counting, Clearing, Coding,
            Asserting, Minted, Leaving
      <3> QED BY <3>2, <3>3
    <2> QED BY <2>1, <2>2, <2>3, <2>4, <2>5
  <1>2. CASE Count(c)
    <2>1. At(c, "count") /\ (End(c) \/ Go(c, "window") \/ Go(c, "block"))
      BY <1>2 DEF Count
    <2>2. CASE End(c)
      BY <2>2, EndsMoved
    <2>3. CASE Go(c, "window")
      <3>1. "count" \in Pcs /\ "window" \in Pcs
        BY DEF Pcs
      <3>2. /\ Busy(req[c]) /\ req[c].pc = "count" /\ req[c] \in Request
            /\ Same(req'[c], req[c]) /\ req'[c].pc = "window" /\ req'[c].agent = req[c].agent
            /\ req'[c].key = req[c].key /\ req'[c].session = req[c].session
            /\ req'[c].doc = req[c].doc /\ (Busy(req'[c]) => Moved(c))
        BY <2>1, <2>3, <3>1, GoesMoved
      <3>3. Busy(req'[c])
        BY <3>1, <3>2, Constants
        DEF Busy, Holds, Placed, Same, Entering, Counting, Clearing, Coding,
            Asserting, Minted, Leaving
      <3> QED BY <3>2, <3>3
    <2>4. CASE Go(c, "block")
      <3>1. "count" \in Pcs /\ "block" \in Pcs
        BY DEF Pcs
      <3>2. /\ Busy(req[c]) /\ req[c].pc = "count" /\ req[c] \in Request
            /\ Same(req'[c], req[c]) /\ req'[c].pc = "block" /\ req'[c].agent = req[c].agent
            /\ req'[c].key = req[c].key /\ req'[c].session = req[c].session
            /\ req'[c].doc = req[c].doc /\ (Busy(req'[c]) => Moved(c))
        BY <2>1, <2>4, <3>1, GoesMoved
      <3>3. Busy(req'[c])
        BY <3>1, <3>2, Constants
        DEF Busy, Holds, Placed, Same, Entering, Counting, Clearing, Coding,
            Asserting, Minted, Leaving
      <3> QED BY <3>2, <3>3
    <2> QED BY <2>1, <2>2, <2>3, <2>4
  <1>3. CASE DeleteAccess(c)
    <2>1. At(c, "delAccess") /\ (End(c) \/ (Go(c, "delRefresh") /\ req[c].session # None))
      BY <1>3 DEF DeleteAccess
    <2>2. CASE End(c)
      BY <2>2, EndsMoved
    <2>3. CASE Go(c, "delRefresh") /\ req[c].session # None
      <3>0. req[c].session \in Serial
        BY <2>3 DEF Requests, Request
      <3>1. "delAccess" \in Pcs /\ "delRefresh" \in Pcs
        BY DEF Pcs
      <3>2. /\ Busy(req[c]) /\ req[c].pc = "delAccess" /\ req[c] \in Request
            /\ Same(req'[c], req[c]) /\ req'[c].pc = "delRefresh" /\ req'[c].agent = req[c].agent
            /\ req'[c].key = req[c].key /\ req'[c].session = req[c].session
            /\ req'[c].doc = req[c].doc /\ (Busy(req'[c]) => Moved(c))
        BY <2>1, <2>3, <3>1, GoesMoved
      <3>3. Busy(req'[c])
        BY <3>1, <3>2, <3>0, Constants
        DEF Busy, Holds, Placed, Same, Entering, Counting, Clearing, Coding,
            Asserting, Minted, Leaving
      <3> QED BY <3>2, <3>3
    <2> QED BY <2>1, <2>2, <2>3
  <1> QED BY <1>1, <1>2, <1>3

(* A request that goes on with something it read.                           *)
LEMMA WritesMoved ==
    ASSUME Requests, NEW c \in Caller, NEW p \in Pcs, At(c, p), NEW r \in Request,
           req' = [req EXCEPT ![c] = r], Same(r, req[c]), r.session = req[c].session \/ p = "mint",
           r.key = req[c].key \/ r.key \in Serial,
           Busy(req[c]) /\ req[c].pc = p /\ req[c] \in Request => Busy(r)
    PROVE  Moved(c) /\ req'[c] = r
  <1>1. Busy(req[c]) /\ req[c] \in Request /\ req[c].pc = p
    BY Awaits
  <1>2. req' \in [Caller -> Request] /\ Others(c) /\ req'[c] = r
    BY Writes DEF Requests
  <1> QED BY <1>1, <1>2 DEF Moved

(* The calls after which a request goes on with what it read. *)
LEMMA ReadingMoved ==
    ASSUME Requests, World, NEW c \in Caller,
           Look(c) \/ Gate(c) \/ GetChallenge(c) \/ ConsumeChallenge(c)
           \/ RightAssertion(c) \/ DropAssertion(c) \/ StoreRefresh(c)
    PROVE  Moved(c)
  <1>1. CASE Look(c)
    <2>a. ASSUME req[c].agent \in Agent PROVE agent[req[c].agent] \in Doc
      BY <2>a DEF World
    <2> DEFINE r == [req[c] EXCEPT !.pc = "password", !.doc = agent[req[c].agent]]
    <2>1. /\ Busy(req[c]) /\ req[c] \in Request /\ req[c].pc = "look" 
          /\ "look" \in Pcs /\ At(c, "look")
      <3>1. "look" \in Pcs /\ At(c, "look")
        BY <1>1 DEF Look, At, Pcs
      <3> QED BY <3>1, Awaits
    <2>2. req' = [req EXCEPT ![c] = r]
      BY <1>1, <2>1 DEF Look, At, Requests
    <2>3. r \in Request
      BY <2>1, <2>a DEF Request, Busy, Holds, Pcs, World, Entering
    <2>4. /\ Same(r, req[c]) /\ r.session = req[c].session
          /\ r.pc = "password" /\ r.doc = agent[req[c].agent] /\ r.agent = req[c].agent
          /\ r.key = req[c].key
      BY <2>1 DEF Request, Same
    <2> HIDE DEF r
    <2>5. Busy(r)
      BY <2>1, <2>3, <2>4, <2>a, Constants
      DEF Busy, Holds, Placed, Same, Entering, Counting, Clearing, Coding,
          Asserting, Minted, Leaving, Pcs
    <2>6. r.key = req[c].key \/ r.key \in Serial
      BY <2>1, <2>4 DEF Busy, Holds
    <2> QED BY <2>1, <2>2, <2>3, <2>4, <2>5, <2>6, WritesMoved
  <1>2. CASE Gate(c) /\ End(c)
    BY <1>2, EndsMoved
  <1>3. CASE Gate(c) /\ ~End(c)
    <2> DEFINE r == [req[c] EXCEPT !.pc = "get", !.key = req[c].ch]
    <2>1. /\ Busy(req[c]) /\ req[c] \in Request /\ req[c].pc = "gate" 
          /\ "gate" \in Pcs /\ At(c, "gate")
      <3>1. "gate" \in Pcs /\ At(c, "gate")
        BY <1>3 DEF Gate, At, Pcs
      <3> QED BY <3>1, Awaits
    <2>2. req' = [req EXCEPT ![c] = r]
      BY <1>3, <2>1 DEF Gate, At, Requests
    <2>3. r \in Request
      BY <2>1 DEF Request, Busy, Holds, Pcs, World, Coding, Asserting, Key
    <2>4. /\ Same(r, req[c]) /\ r.session = req[c].session
          /\ r.pc = "get" /\ r.key = req[c].ch /\ r.ch = req[c].ch
      BY <2>1 DEF Request, Same
    <2> HIDE DEF r
    <2>5. Busy(r)
      BY <2>1, <2>3, <2>4, Constants
      DEF Busy, Holds, Placed, Same, Entering, Counting, Clearing, Coding,
          Asserting, Minted, Leaving, Pcs
    <2>6. r.key = req[c].key \/ r.key \in Serial
      BY <2>1, <2>4 DEF Busy, Holds
    <2> QED BY <2>1, <2>2, <2>3, <2>4, <2>5, <2>6, WritesMoved
  <1>4. CASE GetChallenge(c) /\ Go(c, "count")
    <2>a. At(c, "get")
      BY <1>4 DEF GetChallenge
    <2>1. "get" \in Pcs /\ "count" \in Pcs
      BY DEF Pcs
    <2>2. /\ Busy(req[c]) /\ req[c].pc = "get" /\ req[c] \in Request
          /\ Same(req'[c], req[c]) /\ req'[c].pc = "count" /\ req'[c].agent = req[c].agent
          /\ req'[c].key = req[c].key /\ req'[c].session = req[c].session
          /\ req'[c].doc = req[c].doc /\ (Busy(req'[c]) => Moved(c))
      BY <1>4, <2>a, <2>1, GoesMoved
    <2>3. Busy(req'[c])
      BY <2>1, <2>2, Constants
      DEF Busy, Holds, Placed, Same, Entering, Counting, Clearing, Coding,
          Asserting, Minted, Leaving
    <2> QED BY <2>2, <2>3
  <1>5. CASE GetChallenge(c) /\ ~Go(c, "count")
    <2>a. challenge[req[c].ch] # None
      BY <1>5 DEF GetChallenge
    <2>b. ASSUME req[c].ch \in Serial PROVE challenge[req[c].ch] \in Agent
      BY <2>a, <2>b DEF World
    <2> DEFINE r == [req[c] EXCEPT !.pc = "code", !.doc = challenge[req[c].ch]]
    <2>1. /\ Busy(req[c]) /\ req[c] \in Request /\ req[c].pc = "get" 
          /\ "get" \in Pcs /\ At(c, "get")
      <3>1. "get" \in Pcs /\ At(c, "get")
        BY <1>5 DEF GetChallenge, At, Pcs
      <3> QED BY <3>1, Awaits
    <2>2. req' = [req EXCEPT ![c] = r]
      BY <1>5, <2>1 DEF GetChallenge, At, Requests
    <2>3. r \in Request
      BY <2>1, <2>b DEF Request, Busy, Holds, Pcs, World, Coding, Asserting
    <2>4. /\ Same(r, req[c]) /\ r.session = req[c].session
          /\ r.pc = "code" /\ r.doc = challenge[req[c].ch] /\ r.key = req[c].key
      BY <2>1 DEF Request, Same
    <2> HIDE DEF r
    <2>5. Busy(r)
      BY <2>1, <2>3, <2>4, <2>b, Constants
      DEF Busy, Holds, Placed, Same, Entering, Counting, Clearing, Coding,
          Asserting, Minted, Leaving, Pcs
    <2>6. r.key = req[c].key \/ r.key \in Serial
      BY <2>1, <2>4 DEF Busy, Holds
    <2> QED BY <2>1, <2>2, <2>3, <2>4, <2>5, <2>6, WritesMoved
  <1>6. CASE ConsumeChallenge(c) /\ Go(c, "count")
    <2>a. At(c, "consume")
      BY <1>6 DEF ConsumeChallenge
    <2>1. "consume" \in Pcs /\ "count" \in Pcs
      BY DEF Pcs
    <2>2. /\ Busy(req[c]) /\ req[c].pc = "consume" /\ req[c] \in Request
          /\ Same(req'[c], req[c]) /\ req'[c].pc = "count" /\ req'[c].agent = req[c].agent
          /\ req'[c].key = req[c].key /\ req'[c].session = req[c].session
          /\ req'[c].doc = req[c].doc /\ (Busy(req'[c]) => Moved(c))
      BY <1>6, <2>a, <2>1, GoesMoved
    <2>3. Busy(req'[c])
      BY <2>1, <2>2, Constants
      DEF Busy, Holds, Placed, Same, Entering, Counting, Clearing, Coding,
          Asserting, Minted, Leaving
    <2> QED BY <2>2, <2>3
  <1>7. CASE ConsumeChallenge(c) /\ ~Go(c, "count")
    <2> DEFINE r == [req[c] EXCEPT !.pc = "clear", !.agent = req[c].doc, !.mfa = TRUE]
    <2>1. /\ Busy(req[c]) /\ req[c] \in Request /\ req[c].pc = "consume" 
          /\ "consume" \in Pcs /\ At(c, "consume")
      <3>1. "consume" \in Pcs /\ At(c, "consume")
        BY <1>7 DEF ConsumeChallenge, Verified, At, Pcs
      <3> QED BY <3>1, Awaits
    <2>2. req' = [req EXCEPT ![c] = r]
      BY <1>7, <2>1 DEF ConsumeChallenge, Verified, At, Requests
    <2>3. r \in Request
      BY <2>1 DEF Request, Busy, Holds, Pcs, World, Coding, Asserting
    <2>4. /\ Same(r, req[c]) /\ r.session = req[c].session
          /\ r.pc = "clear" /\ r.agent = req[c].doc /\ r.key = req[c].key
      BY <2>1 DEF Request, Same
    <2> HIDE DEF r
    <2>5. Busy(r)
      BY <2>1, <2>3, <2>4, Constants
      DEF Busy, Holds, Placed, Same, Entering, Counting, Clearing, Coding,
          Asserting, Minted, Leaving, Pcs
    <2>6. r.key = req[c].key \/ r.key \in Serial
      BY <2>1, <2>4 DEF Busy, Holds
    <2> QED BY <2>1, <2>2, <2>3, <2>4, <2>5, <2>6, WritesMoved
  <1>8. CASE RightAssertion(c)
    <2>a. ASSUME req[c].agent \in Agent PROVE agent[req[c].agent] \in Doc
      BY <2>a DEF World
    <2> DEFINE r == [req[c] EXCEPT !.pc = "sign", !.doc = agent[req[c].agent]]
    <2>1. /\ Busy(req[c]) /\ req[c] \in Request /\ req[c].pc = "assert" 
          /\ "assert" \in Pcs /\ At(c, "assert")
      <3>1. "assert" \in Pcs /\ At(c, "assert")
        BY <1>8 DEF RightAssertion, At, Pcs
      <3> QED BY <3>1, Awaits
    <2>2. req' = [req EXCEPT ![c] = r]
      BY <1>8, <2>1 DEF RightAssertion, At, Requests
    <2>3. r \in Request
      BY <2>1, <2>a DEF Request, Busy, Holds, Pcs, World, Coding, Asserting
    <2>4. /\ Same(r, req[c]) /\ r.session = req[c].session
          /\ r.pc = "sign" /\ r.doc = agent[req[c].agent] /\ r.agent = req[c].agent
          /\ r.key = req[c].key
      BY <2>1 DEF Request, Same
    <2> HIDE DEF r
    <2>5. Busy(r)
      BY <2>1, <2>3, <2>4, <2>a, Constants
      DEF Busy, Holds, Placed, Same, Entering, Counting, Clearing, Coding,
          Asserting, Minted, Leaving, Pcs
    <2>6. r.key = req[c].key \/ r.key \in Serial
      BY <2>1, <2>4 DEF Busy, Holds
    <2> QED BY <2>1, <2>2, <2>3, <2>4, <2>5, <2>6, WritesMoved
  <1>9. CASE DropAssertion(c)
    <2> DEFINE r == [req[c] EXCEPT !.pc = "clear", !.mfa = TRUE]
    <2>1. /\ Busy(req[c]) /\ req[c] \in Request /\ req[c].pc = "asserted" 
          /\ "asserted" \in Pcs /\ At(c, "asserted")
      <3>1. "asserted" \in Pcs /\ At(c, "asserted")
        BY <1>9 DEF DropAssertion, At, Pcs
      <3> QED BY <3>1, Awaits
    <2>2. req' = [req EXCEPT ![c] = r]
      BY <1>9, <2>1 DEF DropAssertion, At, Requests
    <2>3. r \in Request
      BY <2>1 DEF Request, Busy, Holds, Pcs, World, Coding, Asserting
    <2>4. /\ Same(r, req[c]) /\ r.session = req[c].session
          /\ r.pc = "clear" /\ r.agent = req[c].agent /\ r.key = req[c].key
      BY <2>1 DEF Request, Same
    <2> HIDE DEF r
    <2>5. Busy(r)
      BY <2>1, <2>3, <2>4, Constants
      DEF Busy, Holds, Placed, Same, Entering, Counting, Clearing, Coding,
          Asserting, Minted, Leaving, Pcs
    <2>6. r.key = req[c].key \/ r.key \in Serial
      BY <2>1, <2>4 DEF Busy, Holds
    <2> QED BY <2>1, <2>2, <2>3, <2>4, <2>5, <2>6, WritesMoved
  <1>10. CASE StoreRefresh(c)
    <2>a. req[c] # Idle
      BY <1>10, IdleOK, Constants DEF StoreRefresh, At, Pcs
    <2>b. req[c].n \in Serial
      BY <2>a, Constants DEF Requests, Planned, World, Serial
    <2> DEFINE r == [req[c] EXCEPT !.pc = "ttl", !.session = req[c].n]
    <2>1. /\ Busy(req[c]) /\ req[c] \in Request /\ req[c].pc = "mint" 
          /\ "mint" \in Pcs /\ At(c, "mint")
      <3>1. "mint" \in Pcs /\ At(c, "mint")
        BY <1>10 DEF StoreRefresh, At, Pcs
      <3> QED BY <3>1, Awaits
    <2>2. req' = [req EXCEPT ![c] = r]
      BY <1>10, <2>1 DEF StoreRefresh, At, Requests
    <2>3. r \in Request
      BY <2>1, <2>b DEF Request, Busy, Holds, Pcs, World, Coding, Asserting
    <2>4. /\ Same(r, req[c]) 
          /\ r.pc = "ttl" /\ r.session = req[c].n /\ r.agent = req[c].agent /\ r.key = req[c].key
      BY <2>1 DEF Request, Same
    <2> HIDE DEF r
    <2>5. Busy(r)
      BY <2>1, <2>3, <2>4, <2>b, Constants
      DEF Busy, Holds, Placed, Same, Entering, Counting, Clearing, Coding,
          Asserting, Minted, Leaving, Pcs
    <2>6. r.key = req[c].key \/ r.key \in Serial
      BY <2>1, <2>4 DEF Busy, Holds
    <2> QED BY <2>1, <2>2, <2>3, <2>4, <2>5, <2>6, WritesMoved
  <1> QED BY <1>1, <1>2, <1>3, <1>4, <1>5, <1>6, <1>7, <1>8, <1>9, <1>10

(* The end of the clearing: the second factor, or the session. *)
LEMMA LiftMoved ==
    ASSUME Requests, World, NEW c \in Caller,
           LiftBlock(c)
    PROVE  Moved(c)
  <1>1. At(c, "lift") /\ "lift" \in Pcs
    BY DEF LiftBlock, Pcs
  <1>2. /\ Busy(req[c]) /\ req[c].pc = "lift" /\ req[c] \in Request
        /\ req[c].op \in {"login", "verify", "finish", "preflight", "stepUp"}
    BY <1>1, Awaits DEF Busy, Placed, Clearing
  <1>3. CASE End(c)
    BY <1>3, EndsMoved
  <1>4. CASE Go(c, "challenge") /\ req[c].op \in {"login", "preflight"}
    <2>1. "lift" \in Pcs /\ "challenge" \in Pcs
      BY DEF Pcs
    <2>2. /\ Busy(req[c]) /\ req[c].pc = "lift" /\ req[c] \in Request
          /\ Same(req'[c], req[c]) /\ req'[c].pc = "challenge" /\ req'[c].agent = req[c].agent
          /\ req'[c].key = req[c].key /\ req'[c].session = req[c].session
          /\ req'[c].doc = req[c].doc /\ (Busy(req'[c]) => Moved(c))
      BY <1>1, <1>4, <2>1, GoesMoved
    <2>3. Busy(req'[c])
      BY <2>1, <2>2, <1>2, <1>4, Constants
      DEF Busy, Holds, Placed, Same, Entering, Counting, Clearing, Coding,
          Asserting, Minted, Leaving
    <2> QED BY <2>2, <2>3
  <1>5. CASE Go(c, "mint") /\ req[c].op \in {"login", "verify"}
    <2>1. "lift" \in Pcs /\ "mint" \in Pcs
      BY DEF Pcs
    <2>2. /\ Busy(req[c]) /\ req[c].pc = "lift" /\ req[c] \in Request
          /\ Same(req'[c], req[c]) /\ req'[c].pc = "mint" /\ req'[c].agent = req[c].agent
          /\ req'[c].key = req[c].key /\ req'[c].session = req[c].session
          /\ req'[c].doc = req[c].doc /\ (Busy(req'[c]) => Moved(c))
      BY <1>1, <1>5, <2>1, GoesMoved
    <2>3. Busy(req'[c])
      BY <2>1, <2>2, <1>2, <1>5, Constants
      DEF Busy, Holds, Placed, Same, Entering, Counting, Clearing, Coding,
          Asserting, Minted, Leaving
    <2> QED BY <2>2, <2>3
  <1>6. CASE Go(c, "gate") /\ req[c].op = "login" /\ req[c].ch # None
    <2>0. req[c].ch \in Serial
      BY <1>2, <1>6 DEF Request
    <2>1. "lift" \in Pcs /\ "gate" \in Pcs
      BY DEF Pcs
    <2>2. /\ Busy(req[c]) /\ req[c].pc = "lift" /\ req[c] \in Request
          /\ Same(req'[c], req[c]) /\ req'[c].pc = "gate" /\ req'[c].agent = req[c].agent
          /\ req'[c].key = req[c].key /\ req'[c].session = req[c].session
          /\ req'[c].doc = req[c].doc /\ (Busy(req'[c]) => Moved(c))
      BY <1>1, <1>6, <2>1, GoesMoved
    <2>3. Busy(req'[c])
      BY <2>1, <2>2, <1>2, <1>6, <2>0, Constants
      DEF Busy, Holds, Placed, Same, Entering, Counting, Clearing, Coding,
          Asserting, Minted, Leaving
    <2> QED BY <2>2, <2>3
  <1>7. CASE Go(c, "drop") /\ req[c].op = "finish"
    <2>1. "lift" \in Pcs /\ "drop" \in Pcs
      BY DEF Pcs
    <2>2. /\ Busy(req[c]) /\ req[c].pc = "lift" /\ req[c] \in Request
          /\ Same(req'[c], req[c]) /\ req'[c].pc = "drop" /\ req'[c].agent = req[c].agent
          /\ req'[c].key = req[c].key /\ req'[c].session = req[c].session
          /\ req'[c].doc = req[c].doc /\ (Busy(req'[c]) => Moved(c))
      BY <1>1, <1>7, <2>1, GoesMoved
    <2>3. Busy(req'[c])
      BY <2>1, <2>2, <1>2, <1>7, Constants
      DEF Busy, Holds, Placed, Same, Entering, Counting, Clearing, Coding,
          Asserting, Minted, Leaving
    <2> QED BY <2>2, <2>3
  <1>8. CASE req' = [req EXCEPT ![c].pc = "mint", ![c].mfa = TRUE] /\ req[c].op = "stepUp"
    <2> DEFINE r == [req[c] EXCEPT !.pc = "mint", !.mfa = TRUE]
    <2>1. /\ Busy(req[c]) /\ req[c] \in Request /\ req[c].pc = "lift" 
          /\ "lift" \in Pcs /\ At(c, "lift")
      <3>1. "lift" \in Pcs /\ At(c, "lift")
        BY <1>8, <1>1 DEF At, Pcs
      <3> QED BY <3>1, Awaits
    <2>2. req' = [req EXCEPT ![c] = r]
      BY <1>8, <1>1, <2>1 DEF At, Requests
    <2>3. r \in Request
      BY <2>1, <1>8 DEF Request, Busy, Holds, Pcs, World, Coding, Asserting
    <2>4. /\ Same(r, req[c]) /\ r.session = req[c].session
          /\ r.pc = "mint" /\ r.agent = req[c].agent /\ r.key = req[c].key
      BY <2>1 DEF Request, Same
    <2> HIDE DEF r
    <2>5. Busy(r)
      BY <2>1, <2>3, <2>4, <1>8, Constants
      DEF Busy, Holds, Placed, Same, Entering, Counting, Clearing, Coding,
          Asserting, Minted, Leaving, Pcs
    <2>6. r.key = req[c].key \/ r.key \in Serial
      BY <2>1, <2>4 DEF Busy, Holds
    <2> QED BY <2>1, <2>2, <2>3, <2>4, <2>5, <2>6, WritesMoved
  <1>9. CASE req[c].key \in Agent
    <2>1. AfterPassword(c)
      BY <1>9 DEF LiftBlock
    <2>2. req[c].op \in {"login", "preflight", "stepUp"}
      BY <1>2, <1>9 DEF Busy, Placed, Clearing
    <2>3. CASE ~req[c].doc.active
      BY <2>1, <2>3, <1>3 DEF AfterPassword
    <2>4. CASE req[c].doc.active /\ req[c].op = "stepUp"
      BY <2>1, <2>4, <1>8 DEF AfterPassword
    <2>5. CASE req[c].doc.active /\ req[c].op = "preflight"
      BY <2>1, <2>5, <1>3, <1>4 DEF AfterPassword
    <2>6. CASE req[c].doc.active /\ req[c].op = "login"
      BY <2>1, <2>6, <1>3, <1>4, <1>5, <1>6 DEF AfterPassword
    <2> QED BY <2>2, <2>3, <2>4, <2>5, <2>6
  <1>10. CASE req[c].key \notin Agent
    <2>1. req[c].op \in {"login", "verify", "finish"}
      BY <1>2, <1>10 DEF Busy, Placed, Clearing
    <2>2. CASE req[c].op = "finish"
      BY <2>2, <1>7, <1>10 DEF LiftBlock
    <2>3. CASE req[c].op # "finish"
      BY <2>1, <2>3, <1>5, <1>10 DEF LiftBlock
    <2> QED BY <2>2, <2>3
  <1> QED BY <1>9, <1>10

(* A step of a request moves that request only.                              *)
LEMMA StepMoved ==
    ASSUME Requests, World, NEW c \in Caller, Step(c)
    PROVE  Moved(c)
  <1>1. CASE \/ WrongPassword(c) \/ RightPassword(c) \/ ClearCounter(c) \/ NoCode(c)
             \/ WrongCode(c) \/ RightCode(c) \/ WrongAssertion(c)
             \/ WriteSignCount(c) \/ DropChallenge(c) \/ ExpireRefresh(c)
    BY <1>1, GoingMoved
  <1>2. CASE \/ InactivePreflight(c) \/ SetWindow(c) \/ SetBlock(c) \/ MakeChallenge(c)
             \/ StoreAssertion(c) \/ StoreAccess(c) \/ DeleteRefresh(c)
    BY <1>2, EndingMoved
  <1>3. CASE Recheck(c) \/ Count(c) \/ DeleteAccess(c)
    BY <1>3, BranchingMoved
  <1>4. CASE \/ Look(c) \/ Gate(c) \/ GetChallenge(c) \/ ConsumeChallenge(c)
             \/ RightAssertion(c) \/ DropAssertion(c) \/ StoreRefresh(c)
    BY <1>4, ReadingMoved
  <1>5. CASE LiftBlock(c)
    BY <1>5, LiftMoved
  <1> QED BY <1>1, <1>2, <1>3, <1>4, <1>5 DEF Step

-----------------------------------------------------------------------------
(* A new request.                                                           *)
Asked(c, r) ==
    /\ req[c] = Idle /\ made < plan.requests /\ made' = made + 1
    /\ req' \in [Caller -> Request] /\ Others(c)
    /\ Busy(req'[c]) /\ req'[c].n = made + 1 /\ req'[c].op \in plan.kinds
    /\ req'[c].op = r.op /\ req'[c].pc = r.pc /\ req'[c].agent = r.agent
    /\ req'[c].key = r.key /\ req'[c].ch = r.ch /\ req'[c].mfa = r.mfa
    /\ req'[c].session = r.session /\ req'[c].stale = r.stale /\ req'[c].doc = r.doc

LEMMA Starts ==
    ASSUME Requests, World, NEW c \in Caller, NEW r \in Request, Busy(r), Start(c, r)
    PROVE  Asked(c, r)
  <1> DEFINE s == [r EXCEPT !.n = made + 1]
  <1>1. made \in Nat /\ made + 1 \in Nat
    BY Constants DEF World
  <1>2. s \in Request
    BY <1>1 DEF Request
  <1>3. /\ s.op = r.op /\ s.pc = r.pc /\ s.agent = r.agent /\ s.key = r.key /\ s.ch = r.ch
        /\ s.mfa = r.mfa /\ s.session = r.session /\ s.stale = r.stale /\ s.doc = r.doc
        /\ s.token = r.token /\ s.n = made + 1
    BY DEF Request
  <1>4. req' = [req EXCEPT ![c] = s]
    BY DEF Start
  <1> HIDE DEF s
  <1>5. Busy(s)
    BY <1>3 DEF Busy, Holds, Placed
  <1>6. req' \in [Caller -> Request] /\ Others(c) /\ req'[c] = s
    BY <1>2, <1>4, Writes DEF Requests
  <1> QED BY <1>3, <1>5, <1>6 DEF Asked, Start

LEMMA AskedKept ==
    ASSUME Requests, World, NEW c \in Caller, NEW r, Asked(c, r), UNCHANGED plan
    PROVE  Requests' /\ made' \in 0 .. plan.requests
  <1>1. made \in Nat /\ plan.requests \in Nat /\ made + 1 \in Nat
    BY Constants DEF World
  <1>2. ASSUME NEW d \in Caller
        PROVE  req'[d] = Idle \/ (Busy(req'[d]) /\ req'[d].op \in plan.kinds /\ req'[d].n \in 1 .. made')
    <2>1. CASE d = c
      BY <2>1, <1>1 DEF Asked
    <2>2. CASE d # c
      BY <2>2, <1>1 DEF Asked, Others, Requests, Planned
    <2> QED BY <2>1, <2>2
  <1>3. made' \in 0 .. plan.requests
    BY <1>1 DEF Asked
  <1> QED BY <1>2, <1>3 DEF Requests, Asked, Planned

(* What a new request is made with.                                         *)
Has(r, session, op, mfa) == r.session = session /\ r.op = op /\ r.mfa = mfa
For(r, key, ch, pc) == r.key = key /\ r.ch = ch /\ r.pc = pc

(* A login. *)
LEMMA AskLoginStarts ==
    ASSUME Requests, World, NEW c \in Caller, NEW a \in Agent, NEW ch \in {None} \cup 1 .. made, AskLogin(c, a, ch)
    PROVE  \E r \in Request : /\ Start(c, r) /\ Busy(r)
                             /\ Has(r, None, "login", FALSE)
                             /\ For(r, a, ch,
                                    "recheck")
                             /\ (r.stale <=> (ch \in consumed))
  <1> DEFINE st == ch \in consumed
  <1> DEFINE r == [Idle EXCEPT !.op = "login", !.pc = "recheck", !.agent = a, !.key = a, !.ch = ch,
                              !.stale = st]
  <1>a. ch \in Serial \cup {None} /\ a \in Key
    BY Constants DEF World, Serial
  <1>s. st \in BOOLEAN
    OBVIOUS
  <1>3. Start(c, r)
    BY DEF AskLogin
  <1> HIDE DEF st
  <1>1. r \in Request
    BY <1>a, <1>s, Constants DEF Idle, Request, Kinds, Pcs
  <1>2. /\ r.op = "login" /\ r.pc = "recheck"
        /\ r.agent = a /\ r.key = a /\ r.ch = ch
        /\ r.mfa = FALSE /\ r.session = None
        /\ r.stale = st /\ r.doc = None /\ r.token = None
    BY DEF Idle
  <1> HIDE DEF r
  <1>4. Busy(r)
    BY <1>a, <1>2, Constants
    DEF Busy, Holds, Placed, Entering, Counting, Clearing, Coding,
      Asserting, Minted, Leaving, Kinds, Pcs
  <1> QED BY <1>1, <1>2, <1>3, <1>4 DEF st, Has, For

(* A preflight. *)
LEMMA AskPreflightStarts ==
    ASSUME Requests, World, NEW c \in Caller, NEW a \in Agent, AskPreflight(c, a)
    PROVE  \E r \in Request : /\ Start(c, r) /\ Busy(r)
                             /\ Has(r, None, "preflight", FALSE)
                             /\ For(r, a, None,
                                    (IF blocked[a] THEN "count" ELSE "look"))
                             /\ (r.stale <=> FALSE)
  <1> DEFINE r == [Idle EXCEPT !.op = "preflight", !.pc = IF blocked[a] THEN "count" ELSE "look",
                              !.agent = a, !.key = a]
  <1>a. a \in Key
    BY Constants
  <1>3. Start(c, r)
    BY DEF AskPreflight
  <1>1. r \in Request
    BY <1>a, Constants DEF Idle, Request, Kinds, Pcs
  <1>2. /\ r.op = "preflight" /\ r.pc = (IF blocked[a] THEN "count" ELSE "look")
        /\ r.agent = a /\ r.key = a /\ r.ch = None
        /\ r.mfa = FALSE /\ r.session = None
        /\ r.stale = FALSE /\ r.doc = None /\ r.token = None
    BY DEF Idle
  <1> HIDE DEF r
  <1>4. Busy(r)
    BY <1>a, <1>2, Constants
    DEF Busy, Holds, Placed, Entering, Counting, Clearing, Coding,
      Asserting, Minted, Leaving, Kinds, Pcs
  <1> QED BY <1>1, <1>2, <1>3, <1>4 DEF Has, For

(* A code. *)
LEMMA AskVerifyStarts ==
    ASSUME Requests, World, NEW c \in Caller, NEW ch \in 1 .. made, AskVerify(c, ch)
    PROVE  \E r \in Request : /\ Start(c, r) /\ Busy(r)
                             /\ Has(r, None, "verify", FALSE)
                             /\ For(r, ch, ch,
                                    "get")
                             /\ (r.stale <=> (ch \in consumed))
  <1> DEFINE st == ch \in consumed
  <1> DEFINE r == [Idle EXCEPT !.op = "verify", !.pc = "get", !.key = ch, !.ch = ch,
                              !.stale = st]
  <1>a. ch \in Serial /\ ch \in Key
    BY Constants DEF World, Serial
  <1>s. st \in BOOLEAN
    OBVIOUS
  <1>3. Start(c, r)
    BY DEF AskVerify
  <1> HIDE DEF st
  <1>1. r \in Request
    BY <1>a, <1>s, Constants DEF Idle, Request, Kinds, Pcs
  <1>2. /\ r.op = "verify" /\ r.pc = "get"
        /\ r.agent = None /\ r.key = ch /\ r.ch = ch
        /\ r.mfa = FALSE /\ r.session = None
        /\ r.stale = st /\ r.doc = None /\ r.token = None
    BY DEF Idle
  <1> HIDE DEF r
  <1>4. Busy(r)
    BY <1>a, <1>2, Constants
    DEF Busy, Holds, Placed, Entering, Counting, Clearing, Coding,
      Asserting, Minted, Leaving, Kinds, Pcs
  <1> QED BY <1>1, <1>2, <1>3, <1>4 DEF st, Has, For

(* A demand for an assertion. *)
LEMMA AskBeginStarts ==
    ASSUME Requests, World, NEW c \in Caller, NEW ch \in 1 .. made, AskBegin(c, ch)
    PROVE  \E r \in Request : /\ Start(c, r) /\ Busy(r)
                             /\ Has(r, None, "begin", FALSE)
                             /\ For(r, None, ch,
                                    "ask")
                             /\ (r.stale <=> FALSE)
  <1> DEFINE r == [Idle EXCEPT !.op = "begin", !.pc = "ask", !.agent = challenge[ch], !.ch = ch]
  <1>a. ch \in Serial /\ ch \in Key
    BY Constants DEF World, Serial
  <1>b. challenge[ch] \in Agent
    BY <1>a DEF AskBegin, World
  <1>3. Start(c, r)
    BY DEF AskBegin
  <1>1. r \in Request
    BY <1>a, <1>b, Constants DEF Idle, Request, Kinds, Pcs
  <1>2. /\ r.op = "begin" /\ r.pc = "ask"
        /\ r.agent = challenge[ch] /\ r.key = None /\ r.ch = ch
        /\ r.mfa = FALSE /\ r.session = None
        /\ r.stale = FALSE /\ r.doc = None /\ r.token = None
    BY DEF Idle
  <1> HIDE DEF r
  <1>4. Busy(r)
    BY <1>a, <1>b, <1>2, Constants
    DEF Busy, Holds, Placed, Entering, Counting, Clearing, Coding,
      Asserting, Minted, Leaving, Kinds, Pcs
  <1> QED BY <1>1, <1>2, <1>3, <1>4 DEF Has, For

(* An assertion. *)
LEMMA AskFinishStarts ==
    ASSUME Requests, World, NEW c \in Caller, NEW ch \in 1 .. made, AskFinish(c, ch)
    PROVE  \E r \in Request : /\ Start(c, r) /\ Busy(r)
                             /\ Has(r, None, "finish", FALSE)
                             /\ For(r, ch, ch,
                                    (IF assertion[ch] = None THEN "count" ELSE "assert"))
                             /\ (r.stale <=> (ch \in consumed))
  <1> DEFINE st == ch \in consumed
  <1> DEFINE r == [Idle EXCEPT !.op = "finish", !.key = ch, !.ch = ch, !.agent = assertion[ch],
                              !.pc = IF assertion[ch] = None THEN "count" ELSE "assert",
                              !.stale = st]
  <1>a. ch \in Serial /\ ch \in Key
    BY Constants DEF World, Serial
  <1>b. assertion[ch] \in Agent \cup {None}
    BY <1>a DEF World
  <1>s. st \in BOOLEAN
    OBVIOUS
  <1>3. Start(c, r)
    BY DEF AskFinish
  <1> HIDE DEF st
  <1>1. r \in Request
    BY <1>a, <1>b, <1>s, Constants DEF Idle, Request, Kinds, Pcs
  <1>2. /\ r.op = "finish" /\ r.pc = (IF assertion[ch] = None THEN "count" ELSE "assert")
        /\ r.agent = assertion[ch] /\ r.key = ch /\ r.ch = ch
        /\ r.mfa = FALSE /\ r.session = None
        /\ r.stale = st /\ r.doc = None /\ r.token = None
    BY DEF Idle
  <1> HIDE DEF r
  <1>4. Busy(r)
    BY <1>a, <1>b, <1>2, Constants
    DEF Busy, Holds, Placed, Entering, Counting, Clearing, Coding,
      Asserting, Minted, Leaving, Kinds, Pcs
  <1> QED BY <1>1, <1>2, <1>3, <1>4 DEF st, Has, For

(* A step-up. *)
LEMMA AskStepUpStarts ==
    ASSUME Requests, World, NEW c \in Caller, NEW n \in 1 .. made, AskStepUp(c, n)
    PROVE  \E r \in Request : /\ Start(c, r) /\ Busy(r)
                             /\ Has(r, None, "stepUp", agent[access[n].agent].otp)
                             /\ For(r, access[n].agent, None,
                                    (IF agent[access[n].agent].otp THEN "mint" ELSE "enter"))
                             /\ (r.stale <=> FALSE)
  <1> DEFINE r == [Idle EXCEPT !.op = "stepUp", !.agent = access[n].agent, !.key = access[n].agent,
                              !.mfa = agent[access[n].agent].otp,
                              !.pc = IF agent[access[n].agent].otp THEN "mint" ELSE "enter"]
  <1>a. access[n].agent \in Agent /\ access[n].agent \in Key
    <2>1. n \in Serial /\ access[n] \in Access
      BY Constants DEF World, Serial, AskStepUp
    <2> QED BY <2>1, Constants DEF Access
  <1>b. agent[access[n].agent].otp \in BOOLEAN
    BY <1>a DEF World, Doc
  <1>3. Start(c, r)
    BY DEF AskStepUp
  <1>1. r \in Request
    BY <1>a, <1>b, Constants DEF Idle, Request, Kinds, Pcs
  <1>2. /\ r.op = "stepUp" /\ r.pc = (IF agent[access[n].agent].otp THEN "mint" ELSE "enter")
        /\ r.agent = access[n].agent /\ r.key = access[n].agent /\ r.ch = None
        /\ r.mfa = agent[access[n].agent].otp /\ r.session = None
        /\ r.stale = FALSE /\ r.doc = None /\ r.token = None
    BY DEF Idle
  <1> HIDE DEF r
  <1>4. Busy(r)
    BY <1>a, <1>b, <1>2, Constants
    DEF Busy, Holds, Placed, Entering, Counting, Clearing, Coding,
      Asserting, Minted, Leaving, Kinds, Pcs
  <1> QED BY <1>1, <1>2, <1>3, <1>4 DEF Has, For

(* A renewal. *)
LEMMA AskRenewStarts ==
    ASSUME Requests, World, NEW c \in Caller, NEW n \in 1 .. made, AskRenew(c, n)
    PROVE  \E r \in Request : /\ Start(c, r) /\ Busy(r)
                             /\ Has(r, n, "renew", refresh[n].mfa)
                             /\ For(r, None, None,
                                    "ttl")
                             /\ (r.stale <=> (n \in ended))
  <1> DEFINE st == n \in ended
  <1> DEFINE r == [Idle EXCEPT !.op = "renew", !.pc = "ttl", !.agent = refresh[n].agent,
                              !.mfa = refresh[n].mfa, !.session = n, !.stale = st]
  <1>a. n \in Serial /\ refresh[n].agent \in Agent /\ refresh[n].mfa \in BOOLEAN
    <2>1. n \in Serial /\ refresh[n] \in Refresh
      BY Constants DEF World, Serial, AskRenew
    <2> QED BY <2>1, Constants DEF Refresh
  <1>s. st \in BOOLEAN
    OBVIOUS
  <1>3. Start(c, r)
    BY DEF AskRenew
  <1> HIDE DEF st
  <1>1. r \in Request
    BY <1>a, <1>s, Constants DEF Idle, Request, Kinds, Pcs
  <1>2. /\ r.op = "renew" /\ r.pc = "ttl"
        /\ r.agent = refresh[n].agent /\ r.key = None /\ r.ch = None
        /\ r.mfa = refresh[n].mfa /\ r.session = n
        /\ r.stale = st /\ r.doc = None /\ r.token = None
    BY DEF Idle
  <1> HIDE DEF r
  <1>4. Busy(r)
    BY <1>a, <1>2, Constants
    DEF Busy, Holds, Placed, Entering, Counting, Clearing, Coding,
      Asserting, Minted, Leaving, Kinds, Pcs
  <1> QED BY <1>1, <1>2, <1>3, <1>4 DEF st, Has, For

(* A logout. *)
LEMMA AskLogoutStarts ==
    ASSUME Requests, World, NEW c \in Caller, NEW n \in 1 .. made, AskLogout(c, n)
    PROVE  \E r \in Request : /\ Start(c, r) /\ Busy(r)
                             /\ Has(r, (IF access[n] = None THEN None ELSE access[n].session), "logout", FALSE)
                             /\ For(r, None, None,
                                    "delAccess")
                             /\ (r.stale <=> FALSE)
  <1> DEFINE r == [Idle EXCEPT !.op = "logout", !.pc = "delAccess", !.token = n,
                              !.session = IF access[n] = None THEN None ELSE access[n].session]
  <1>a. n \in Serial
    BY Constants DEF World, Serial
  <1>b. (IF access[n] = None THEN None ELSE access[n].session) \in Serial \cup {None}
    BY <1>a DEF World, Access
  <1>3. Start(c, r)
    BY DEF AskLogout
  <1>1. r \in Request
    BY <1>a, <1>b, Constants DEF Idle, Request, Kinds, Pcs
  <1>2. /\ r.op = "logout" /\ r.pc = "delAccess"
        /\ r.agent = None /\ r.key = None /\ r.ch = None
        /\ r.mfa = FALSE /\ r.session = (IF access[n] = None THEN None ELSE access[n].session)
        /\ r.stale = FALSE /\ r.doc = None /\ r.token = n
    BY DEF Idle
  <1> HIDE DEF r
  <1>4. Busy(r)
    BY <1>a, <1>b, <1>2, Constants
    DEF Busy, Holds, Placed, Entering, Counting, Clearing, Coding,
      Asserting, Minted, Leaving, Kinds, Pcs
  <1> QED BY <1>1, <1>2, <1>3, <1>4 DEF Has, For

-----------------------------------------------------------------------------
(* The stores and the counters keep their types.                            *)
LEMMA StepWorld ==
    ASSUME Requests, World, NEW c \in Caller, Step(c)
    PROVE  World'
  <1>1. CASE \/ Recheck(c) \/ Look(c) \/ WrongPassword(c) \/ RightPassword(c)
             \/ InactivePreflight(c) \/ Count(c) \/ SetWindow(c) \/ SetBlock(c)
    <2>1. UNCHANGED <<agent, refresh, access, challenge, assertion, given, ended, consumed,
                      plan, edits, made>>
      BY <1>1 DEF Recheck, Look, WrongPassword, RightPassword, InactivePreflight, Count,
           SetWindow, SetBlock, sessions, factors, world, bounds
    <2> QED BY <2>1 DEF World
  <1>2. CASE \/ ClearCounter(c) \/ LiftBlock(c) \/ Gate(c) \/ GetChallenge(c) \/ WrongCode(c)
             \/ RightCode(c) \/ WrongAssertion(c) \/ RightAssertion(c)
    <2>1. UNCHANGED <<agent, refresh, access, challenge, assertion, given, ended, consumed,
                      plan, edits, made>>
      BY <1>2 DEF ClearCounter, LiftBlock, Gate, GetChallenge, WrongCode, RightCode,
           WrongAssertion, RightAssertion, sessions, factors, world, bounds
    <2> QED BY <2>1 DEF World
  <1>3. CASE MakeChallenge(c) \/ NoCode(c) \/ ConsumeChallenge(c) \/ DropChallenge(c)
    <2>1. UNCHANGED <<agent, refresh, access, assertion, given, ended, consumed, plan, edits, made>>
      BY <1>3 DEF MakeChallenge, NoCode, ConsumeChallenge, DropChallenge, sessions, world, bounds
    <2>2. CASE MakeChallenge(c)
      <3>1. req[c].agent \in Agent
        BY <2>2, Awaits DEF MakeChallenge, Pcs, Busy, Holds
      <3>2. challenge' \in [Serial -> Agent \cup {None}]
        BY <2>2, <3>1 DEF MakeChallenge, World
      <3> QED BY <2>1, <3>2 DEF World
    <2>3. CASE NoCode(c) \/ ConsumeChallenge(c) \/ DropChallenge(c)
      <3>1. challenge' \in [Serial -> Agent \cup {None}]
        BY <2>3 DEF NoCode, ConsumeChallenge, DropChallenge, World
      <3> QED BY <2>1, <3>1 DEF World
    <2> QED BY <1>3, <2>2, <2>3
  <1>4. CASE StoreAssertion(c) \/ DropAssertion(c)
    <2>1. UNCHANGED <<agent, refresh, access, challenge, given, ended, consumed, plan, edits, made>>
      BY <1>4 DEF StoreAssertion, DropAssertion, sessions, world, bounds
    <2>2. assertion' \in [Serial -> Agent \cup {None}]
      <3>1. CASE StoreAssertion(c)
        <4>1. req[c].agent \in Agent
          BY <3>1, Awaits DEF StoreAssertion, Pcs, Busy, Holds
        <4> QED BY <3>1, <4>1 DEF StoreAssertion, World
      <3>2. CASE DropAssertion(c)
        BY <3>2 DEF DropAssertion, World
      <3> QED BY <1>4, <3>1, <3>2
    <2> QED BY <2>1, <2>2 DEF World
  <1>5. CASE WriteSignCount(c)
    <2>1. UNCHANGED <<refresh, access, challenge, assertion, given, ended, consumed, plan, edits, made>>
      BY <1>5 DEF WriteSignCount, sessions, factors, world, bounds
    <2>2. req[c].agent \in Agent /\ req[c].doc \in Doc
      BY <1>5, Awaits DEF WriteSignCount, Pcs, Busy, Holds, Asserting
    <2>3. req[c].doc.otp \in BOOLEAN /\ req[c].doc.key \in BOOLEAN
      BY <2>2 DEF Doc
    <2> DEFINE a == req[c].agent
               otp == req[c].doc.otp
               key == req[c].doc.key
    <2>4. agent' = [agent EXCEPT ![a].otp = otp, ![a].key = key]
      BY <1>5 DEF WriteSignCount
    <2>5. a \in Agent /\ otp \in BOOLEAN /\ key \in BOOLEAN
      BY <2>2, <2>3
    <2> HIDE DEF a, otp, key
    <2>6. [agent[a] EXCEPT !.otp = otp, !.key = key] \in Doc
      BY <2>5 DEF World, Doc
    <2>7. agent' = [agent EXCEPT ![a] = [agent[a] EXCEPT !.otp = otp, !.key = key]]
      BY <2>4, <2>5 DEF World
    <2>8. agent' \in [Agent -> Doc]
      BY <2>5, <2>6, <2>7 DEF World
    <2> QED BY <2>1, <2>8 DEF World
  <1>6. CASE StoreRefresh(c)
    <2>1. UNCHANGED <<agent, access, challenge, assertion, given, ended, consumed, plan, edits, made>>
      BY <1>6 DEF StoreRefresh, factors, world, bounds
    <2>2. req[c].agent \in Agent /\ req[c].mfa \in BOOLEAN
      BY <1>6, Awaits DEF StoreRefresh, Pcs, Busy, Holds, Request
    <2>3. [agent |-> req[c].agent, mfa |-> req[c].mfa, ttl |-> FALSE] \in Refresh
      BY <2>2 DEF Refresh
    <2>4. refresh' \in [Serial -> Refresh \cup {None}]
      BY <1>6, <2>3 DEF StoreRefresh, World
    <2> QED BY <2>1, <2>4 DEF World
  <1>7. CASE ExpireRefresh(c)
    <2>1. UNCHANGED <<agent, access, challenge, assertion, given, ended, consumed, plan, edits, made>>
      BY <1>7 DEF ExpireRefresh, factors, world, bounds
    <2> DEFINE s == req[c].session
    <2>2. s \in Serial
      BY <1>7, Awaits DEF ExpireRefresh, Pcs, Busy, Holds, Minted
    <2>3. refresh' = refresh \/ (refresh[s] # None /\ refresh' = [refresh EXCEPT ![s].ttl = TRUE])
      BY <1>7 DEF ExpireRefresh
    <2> HIDE DEF s
    <2>4. CASE refresh[s] # None /\ refresh' = [refresh EXCEPT ![s].ttl = TRUE]
      <3>1. refresh[s] \in Refresh
        BY <2>2, <2>4 DEF World
      <3>2. [refresh[s] EXCEPT !.ttl = TRUE] \in Refresh
        BY <3>1 DEF Refresh
      <3>3. refresh' \in [Serial -> Refresh \cup {None}]
        BY <2>2, <2>4, <3>2 DEF World
      <3> QED BY <2>1, <3>3 DEF World
    <2>5. CASE refresh' = refresh
      BY <2>1, <2>5 DEF World
    <2> QED BY <2>3, <2>4, <2>5
  <1>8. CASE StoreAccess(c)
    <2>1. UNCHANGED <<agent, refresh, challenge, assertion, ended, plan, edits, made>>
      BY <1>8 DEF StoreAccess, factors, bounds
    <2>2. Busy(req[c]) /\ req[c] \in Request /\ req[c].pc = "access"
      BY <1>8, Awaits DEF StoreAccess, Pcs
    <2>3. req[c].agent \in Agent /\ req[c].mfa \in BOOLEAN /\ req[c].session \in Serial
      BY <2>2 DEF Busy, Holds, Request, Minted
    <2>4. req[c].n \in Serial /\ (req[c].ch # None => req[c].ch \in Serial)
      <3>1. req[c].n \in 1 .. made
        BY <2>2, IdleOK, Constants DEF Requests, Planned, Busy
      <3> QED BY <3>1, <2>2, Constants DEF World, Serial, Request
    <2>5. [agent |-> req[c].agent, session |-> req[c].session, mfa |-> req[c].mfa] \in Access
      BY <2>3 DEF Access
    <2>6. CASE UNCHANGED <<access, given, consumed>>
      BY <2>1, <2>6 DEF World
    <2>7. CASE /\ access' = [access EXCEPT ![req[c].n] =
                     [agent |-> req[c].agent, session |-> req[c].session, mfa |-> req[c].mfa]]
               /\ given' = given \cup {req[c].n}
               /\ consumed' = IF req[c].mfa /\ req[c].ch # None
                              THEN consumed \cup {req[c].ch} ELSE consumed
      <3>1. access' \in [Serial -> Access \cup {None}]
        BY <2>5, <2>7 DEF World
      <3>2. given' \subseteq Serial
        BY <2>4, <2>7 DEF World
      <3>3. consumed' \subseteq Serial
        BY <2>4, <2>7 DEF World
      <3> QED BY <2>1, <3>1, <3>2, <3>3 DEF World
    <2> QED BY <1>8, <2>6, <2>7 DEF StoreAccess
  <1>9. CASE DeleteAccess(c)
    <2>1. UNCHANGED <<agent, refresh, challenge, assertion, given, ended, consumed, plan, edits, made>>
      BY <1>9 DEF DeleteAccess, factors, world, bounds
    <2>2. access' \in [Serial -> Access \cup {None}]
      BY <1>9 DEF DeleteAccess, World
    <2> QED BY <2>1, <2>2 DEF World
  <1>10. CASE DeleteRefresh(c)
    <2>1. UNCHANGED <<agent, access, challenge, assertion, given, consumed, plan, edits, made>>
      BY <1>10 DEF DeleteRefresh, factors, bounds
    <2>2. req[c].session \in Serial
      BY <1>10, Awaits DEF DeleteRefresh, Pcs, Busy, Holds
    <2>3. refresh' \in [Serial -> Refresh \cup {None}] /\ ended' \subseteq Serial
      BY <1>10, <2>2 DEF DeleteRefresh, World
    <2> QED BY <2>1, <2>3 DEF World
  <1> QED BY <1>1, <1>2, <1>3, <1>4, <1>5, <1>6, <1>7, <1>8, <1>9, <1>10 DEF Step

LEMMA StepCounters ==
    ASSUME Requests, Counters, NEW c \in Caller, Step(c)
    PROVE  Counters'
  <1>1. CASE \/ Recheck(c) \/ WrongPassword(c) \/ RightPassword(c) \/ MakeChallenge(c) \/ Gate(c)
             \/ GetChallenge(c) \/ NoCode(c) \/ WrongCode(c) \/ RightCode(c) \/ ConsumeChallenge(c)
    BY <1>1 DEF Recheck, WrongPassword, RightPassword, MakeChallenge, Gate, GetChallenge, NoCode,
         WrongCode, RightCode, ConsumeChallenge, counters, Counters
  <1>2. CASE \/ StoreAssertion(c) \/ WrongAssertion(c) \/ RightAssertion(c) \/ WriteSignCount(c)
             \/ DropAssertion(c) \/ DropChallenge(c) \/ StoreRefresh(c) \/ ExpireRefresh(c)
             \/ StoreAccess(c) \/ DeleteAccess(c) \/ DeleteRefresh(c)
    BY <1>2 DEF StoreAssertion, WrongAssertion, RightAssertion, WriteSignCount, DropAssertion,
         DropChallenge, StoreRefresh, ExpireRefresh, StoreAccess, DeleteAccess, DeleteRefresh,
         counters, Counters
  <1>3. CASE Look(c)
    <2> DEFINE a == req[c].agent
               n == tries[a] + 1
    <2>1. a \in Agent
      BY <1>3, Awaits DEF Look, Pcs, Busy, Holds, Entering
    <2>2. n \in Nat
      BY <2>1 DEF Counters
    <2>3. tries' = [tries EXCEPT ![a] = n]
      BY <1>3, <2>1 DEF Look, Counters
    <2> HIDE DEF n
    <2>4. tries' \in [Agent -> Nat]
      BY <2>2, <2>3 DEF Counters
    <2> QED BY <1>3, <2>4 DEF Look, Counters
  <1>4. CASE InactivePreflight(c)
    <2> DEFINE a == req[c].agent
               n == IF tries[a] = 0 THEN 0 ELSE tries[a] - 1
    <2>1. a \in Agent
      BY <1>4, Awaits DEF InactivePreflight, Pcs, Busy, Holds, Entering
    <2>2. tries[a] \in Nat
      BY <2>1 DEF Counters
    <2>3. n \in Nat
      BY <2>2
    <2>4. tries' = [tries EXCEPT ![a] = n]
      BY <1>4, <2>1 DEF InactivePreflight, Counters
    <2> HIDE DEF n
    <2>5. tries' \in [Agent -> Nat]
      BY <2>3, <2>4 DEF Counters
    <2> QED BY <1>4, <2>5 DEF InactivePreflight, Counters
  <1>5. CASE Count(c)
    <2> DEFINE k == req[c].key
    <2>1. k \in Key
      BY <1>5, Awaits DEF Count, Pcs, Busy, Holds, Counting
    <2>2. fails[k] + 1 \in Nat
      BY <2>1 DEF Counters
    <2>3. fails' \in [Key -> Nat]
      BY <1>5, <2>2 DEF Count, Counters
    <2> QED BY <1>5, <2>3 DEF Count, Counters
  <1>6. CASE SetWindow(c)
    <2> DEFINE b == fails[req[c].key] > 0
    <2>1. b \in BOOLEAN /\ window' = [window EXCEPT ![req[c].key] = b]
      BY <1>6 DEF SetWindow
    <2> HIDE DEF b
    <2>2. window' \in [Key -> BOOLEAN]
      BY <2>1 DEF Counters
    <2> QED BY <1>6, <2>2 DEF SetWindow, Counters
  <1>7. CASE SetBlock(c)
    <2>1. blocked' \in [Key -> BOOLEAN]
      BY <1>7 DEF SetBlock, Counters
    <2> QED BY <1>7, <2>1 DEF SetBlock, Counters
  <1>8. CASE ClearCounter(c)
    <2>1. fails' \in [Key -> Nat]
      BY <1>8 DEF ClearCounter, Counters
    <2>2. window' \in [Key -> BOOLEAN]
      BY <1>8 DEF ClearCounter, Counters
    <2>3. tries' \in [Agent -> Nat]
      BY <1>8 DEF ClearCounter, Counters
    <2> QED BY <1>8, <2>1, <2>2, <2>3 DEF ClearCounter, Counters
  <1>9. CASE LiftBlock(c)
    <2>1. blocked' \in [Key -> BOOLEAN]
      BY <1>9 DEF LiftBlock, Counters
    <2>2. tries' \in [Agent -> Nat]
      BY <1>9 DEF LiftBlock, Counters
    <2> QED BY <1>9, <2>1, <2>2 DEF LiftBlock, Counters
  <1> QED BY <1>1, <1>2, <1>3, <1>4, <1>5, <1>6, <1>7, <1>8, <1>9 DEF Step

(* A request is asked: one more is made, and nothing else changes.          *)
LEMMA AskAsked ==
    ASSUME Requests, World, NEW c \in Caller, Ask(c)
    PROVE  /\ \E r \in Request : Asked(c, r)
           /\ UNCHANGED <<agent, refresh, access, challenge, assertion, fails, window, blocked,
                          tries, given, ended, consumed, plan, edits>>
  <1>1. CASE \E a \in Agent : AskPreflight(c, a)
    <2>1. PICK a \in Agent : AskPreflight(c, a)
      BY <1>1
    <2>2. \E r \in Request : Asked(c, r)
      BY <2>1, AskPreflightStarts, Starts
    <2> QED BY <2>1, <2>2 DEF AskPreflight, sessions, factors, counters, world, bounds
  <1>2. CASE \E a \in Agent, ch \in {None} \cup 1 .. made : AskLogin(c, a, ch)
    <2>1. PICK a \in Agent, ch \in {None} \cup 1 .. made : AskLogin(c, a, ch)
      BY <1>2
    <2>2. \E r \in Request : Asked(c, r)
      BY <2>1, AskLoginStarts, Starts
    <2> QED BY <2>1, <2>2 DEF AskLogin, sessions, factors, counters, world, bounds
  <1>3. CASE \E ch \in 1 .. made : AskVerify(c, ch)
    <2>1. PICK ch \in 1 .. made : AskVerify(c, ch)
      BY <1>3
    <2>2. \E r \in Request : Asked(c, r)
      BY <2>1, AskVerifyStarts, Starts
    <2> QED BY <2>1, <2>2 DEF AskVerify, sessions, factors, counters, world, bounds
  <1>4. CASE \E ch \in 1 .. made : AskBegin(c, ch)
    <2>1. PICK ch \in 1 .. made : AskBegin(c, ch)
      BY <1>4
    <2>2. \E r \in Request : Asked(c, r)
      BY <2>1, AskBeginStarts, Starts
    <2> QED BY <2>1, <2>2 DEF AskBegin, sessions, factors, counters, world, bounds
  <1>5. CASE \E ch \in 1 .. made : AskFinish(c, ch)
    <2>1. PICK ch \in 1 .. made : AskFinish(c, ch)
      BY <1>5
    <2>2. \E r \in Request : Asked(c, r)
      BY <2>1, AskFinishStarts, Starts
    <2> QED BY <2>1, <2>2 DEF AskFinish, sessions, factors, counters, world, bounds
  <1>6. CASE \E n \in 1 .. made : AskStepUp(c, n)
    <2>1. PICK n \in 1 .. made : AskStepUp(c, n)
      BY <1>6
    <2>2. \E r \in Request : Asked(c, r)
      BY <2>1, AskStepUpStarts, Starts
    <2> QED BY <2>1, <2>2 DEF AskStepUp, sessions, factors, counters, world, bounds
  <1>7. CASE \E n \in 1 .. made : AskRenew(c, n)
    <2>1. PICK n \in 1 .. made : AskRenew(c, n)
      BY <1>7
    <2>2. \E r \in Request : Asked(c, r)
      BY <2>1, AskRenewStarts, Starts
    <2> QED BY <2>1, <2>2 DEF AskRenew, sessions, factors, counters, world, bounds
  <1>8. CASE \E n \in 1 .. made : AskLogout(c, n)
    <2>1. PICK n \in 1 .. made : AskLogout(c, n)
      BY <1>8
    <2>2. \E r \in Request : Asked(c, r)
      BY <2>1, AskLogoutStarts, Starts
    <2> QED BY <2>1, <2>2 DEF AskLogout, sessions, factors, counters, world, bounds
  <1> QED BY <1>1, <1>2, <1>3, <1>4, <1>5, <1>6, <1>7, <1>8 DEF Ask


(* What only a few of the calls change.                                     *)
LEMMA StepMade ==
    ASSUME NEW c \in Caller, Step(c)
    PROVE  UNCHANGED <<plan, made>>
  <1>1. CASE \/ Recheck(c) \/ Look(c) \/ WrongPassword(c) \/ RightPassword(c)
             \/ InactivePreflight(c) \/ Count(c) \/ SetWindow(c) \/ SetBlock(c)
             \/ ClearCounter(c) \/ LiftBlock(c) \/ MakeChallenge(c) \/ Gate(c)
    BY <1>1 DEF Recheck, Look, WrongPassword, RightPassword, InactivePreflight, Count, SetWindow,
         SetBlock, ClearCounter, LiftBlock, MakeChallenge, Gate, bounds
  <1>2. CASE \/ GetChallenge(c) \/ NoCode(c) \/ WrongCode(c) \/ RightCode(c)
             \/ ConsumeChallenge(c) \/ StoreAssertion(c) \/ WrongAssertion(c) \/ RightAssertion(c)
    BY <1>2 DEF GetChallenge, NoCode, WrongCode, RightCode, ConsumeChallenge, StoreAssertion,
         WrongAssertion, RightAssertion, bounds
  <1>3. CASE \/ WriteSignCount(c) \/ DropAssertion(c) \/ DropChallenge(c) \/ StoreRefresh(c)
             \/ ExpireRefresh(c) \/ StoreAccess(c) \/ DeleteAccess(c) \/ DeleteRefresh(c)
    BY <1>3 DEF WriteSignCount, DropAssertion, DropChallenge, StoreRefresh, ExpireRefresh,
         StoreAccess, DeleteAccess, DeleteRefresh, bounds
  <1> QED BY <1>1, <1>2, <1>3 DEF Step

LEMMA StepRefresh ==
    ASSUME NEW c \in Caller, Step(c), ~StoreRefresh(c), ~ExpireRefresh(c), ~DeleteRefresh(c)
    PROVE  refresh' = refresh /\ ended' = ended
  <1>1. CASE \/ Recheck(c) \/ Look(c) \/ WrongPassword(c) \/ RightPassword(c)
             \/ InactivePreflight(c) \/ Count(c) \/ SetWindow(c) \/ SetBlock(c)
             \/ ClearCounter(c) \/ LiftBlock(c) \/ MakeChallenge(c) \/ Gate(c)
    BY <1>1 DEF Recheck, Look, WrongPassword, RightPassword, InactivePreflight, Count, SetWindow,
         SetBlock, ClearCounter, LiftBlock, MakeChallenge, Gate, world, sessions
  <1>2. CASE \/ GetChallenge(c) \/ NoCode(c) \/ WrongCode(c) \/ RightCode(c)
             \/ ConsumeChallenge(c) \/ StoreAssertion(c) \/ WrongAssertion(c) \/ RightAssertion(c)
    BY <1>2 DEF GetChallenge, NoCode, WrongCode, RightCode, ConsumeChallenge, StoreAssertion,
         WrongAssertion, RightAssertion, world, sessions
  <1>3. CASE \/ WriteSignCount(c) \/ DropAssertion(c) \/ DropChallenge(c)
             \/ StoreAccess(c) \/ DeleteAccess(c)
    BY <1>3 DEF WriteSignCount, DropAssertion, DropChallenge, StoreAccess, DeleteAccess, world, sessions
  <1> QED BY <1>1, <1>2, <1>3 DEF Step

(* A request that steps is in progress, and one that goes on without a      *)
(* session had none.                                                        *)
LEMMA StepBusy ==
    ASSUME NEW c \in Caller, Step(c)
    PROVE  req[c] # Idle
  <1>1. \E p \in Pcs : At(c, p)
    <2>1. CASE \/ Recheck(c) \/ Look(c) \/ WrongPassword(c) \/ RightPassword(c)
               \/ InactivePreflight(c) \/ Count(c) \/ SetWindow(c) \/ SetBlock(c)
               \/ ClearCounter(c) \/ LiftBlock(c) \/ MakeChallenge(c) \/ Gate(c)
      BY <2>1 DEF Recheck, Look, WrongPassword, RightPassword, InactivePreflight, Count, SetWindow,
           SetBlock, ClearCounter, LiftBlock, MakeChallenge, Gate, At, Pcs
    <2>2. CASE \/ GetChallenge(c) \/ NoCode(c) \/ WrongCode(c) \/ RightCode(c)
               \/ ConsumeChallenge(c) \/ StoreAssertion(c) \/ WrongAssertion(c) \/ RightAssertion(c)
      BY <2>2 DEF GetChallenge, NoCode, WrongCode, RightCode, ConsumeChallenge, StoreAssertion,
           WrongAssertion, RightAssertion, At, Pcs
    <2>3. CASE \/ WriteSignCount(c) \/ DropAssertion(c) \/ DropChallenge(c) \/ StoreRefresh(c)
               \/ ExpireRefresh(c) \/ StoreAccess(c) \/ DeleteAccess(c) \/ DeleteRefresh(c)
      BY <2>3 DEF WriteSignCount, DropAssertion, DropChallenge, StoreRefresh, ExpireRefresh,
           StoreAccess, DeleteAccess, DeleteRefresh, At, Pcs
    <2> QED BY <2>1, <2>2, <2>3 DEF Step
  <1> QED BY <1>1, IdleOK, Constants DEF At

LEMMA StepTypes ==
    ASSUME Types, NEW c \in Caller, Step(c)
    PROVE  Types' /\ Moved(c)
  <1>1. Moved(c) /\ World' /\ Counters'
    BY StepMoved, StepWorld, StepCounters DEF Types
  <1>2. UNCHANGED <<plan, made>>
    BY StepMade
  <1> QED BY <1>1, <1>2, Kept DEF Types

LEMMA AskTypes ==
    ASSUME Types, NEW c \in Caller, Ask(c)
    PROVE  Types'
  <1>1. PICK r \in Request : Asked(c, r)
    BY AskAsked DEF Types
  <1>2. UNCHANGED <<agent, refresh, access, challenge, assertion, fails, window, blocked,
                    tries, given, ended, consumed, plan, edits>>
    BY AskAsked DEF Types
  <1>3. Requests' /\ made' \in 0 .. plan.requests
    BY <1>1, <1>2, AskedKept DEF Types
  <1>4. World'
    BY <1>2, <1>3 DEF Types, World
  <1>5. Counters'
    BY <1>2 DEF Types, Counters
  <1> QED BY <1>3, <1>4, <1>5 DEF Types

LEMMA ExpiryTypes ==
    ASSUME Types, Expiry
    PROVE  Types'
  <1>1. UNCHANGED <<req, plan, made, edits, agent, given, ended, consumed>>
    BY DEF Expiry, AccessExpires, RefreshExpires, ChallengeExpires, AssertionExpires, WindowEnds,
       BlockEnds, bounds, world
  <1>2. Requests'
    BY <1>1 DEF Types, Requests, Planned
  <1>3. CASE \/ \E n \in Serial : AccessExpires(n) \/ RefreshExpires(n)
             \/ \E n \in Serial : ChallengeExpires(n) \/ AssertionExpires(n)
    <2>1. Counters'
      BY <1>3 DEF Types, Counters, AccessExpires, RefreshExpires, ChallengeExpires,
         AssertionExpires, counters
    <2>2. refresh' \in [Serial -> Refresh \cup {None}] /\ access' \in [Serial -> Access \cup {None}]
      BY <1>3 DEF Types, World, AccessExpires, RefreshExpires, ChallengeExpires,
         AssertionExpires, sessions
    <2>3. challenge' \in [Serial -> Agent \cup {None}] /\ assertion' \in [Serial -> Agent \cup {None}]
      BY <1>3 DEF Types, World, AccessExpires, RefreshExpires, ChallengeExpires,
         AssertionExpires, factors
    <2> QED BY <1>1, <1>2, <2>1, <2>2, <2>3 DEF Types, World
  <1>4. CASE \E k \in Key : WindowEnds(k) \/ BlockEnds(k)
    <2>1. World'
      BY <1>1, <1>4 DEF Types, World, WindowEnds, BlockEnds, sessions, factors
    <2>2. PICK k \in Key : WindowEnds(k) \/ BlockEnds(k)
      BY <1>4
    <2>3. Counters
      BY DEF Types
    <2>4. CASE WindowEnds(k)
      <3>1. fails' \in [Key -> Nat]
        BY <2>3, <2>4 DEF Counters, WindowEnds
      <3>2. window' \in [Key -> BOOLEAN]
        BY <2>3, <2>4 DEF Counters, WindowEnds
      <3>3. tries' \in [Agent -> Nat]
        BY <2>3, <2>4 DEF Counters, WindowEnds
      <3> QED BY <1>2, <2>1, <2>3, <2>4, <3>1, <3>2, <3>3 DEF Types, Counters, WindowEnds
    <2>5. CASE BlockEnds(k)
      <3>1. blocked' \in [Key -> BOOLEAN]
        BY <2>3, <2>5 DEF Counters, BlockEnds
      <3>2. tries' \in [Agent -> Nat]
        BY <2>3, <2>5 DEF Counters, BlockEnds
      <3> QED BY <1>2, <2>1, <2>3, <2>5, <3>1, <3>2 DEF Types, Counters, BlockEnds
    <2> QED BY <2>2, <2>4, <2>5
  <1> QED BY <1>3, <1>4 DEF Expiry

LEMMA EditTypes ==
    ASSUME Types, NEW a \in Agent, EditAgent(a)
    PROVE  Types'
  <1>1. UNCHANGED <<req, plan, made, refresh, access, challenge, assertion, given, ended, consumed>>
        /\ Counters'
    BY DEF EditAgent, sessions, factors, counters, world, Types, Counters
  <1>2. Requests'
    BY <1>1 DEF Types, Requests, Planned
  <1>3. plan.docs \subseteq Doc /\ plan.edits \in Nat
    BY Constants DEF Types, World
  <1>4. agent' \in [Agent -> Doc]
    BY <1>3 DEF EditAgent, Types, World
  <1>5. edits' \in 0 .. plan.edits
    BY <1>3 DEF EditAgent, Types, World
  <1> QED BY <1>1, <1>2, <1>4, <1>5 DEF Types, World

LEMMA TypesInit ==
    ASSUME Init
    PROVE  Types
  <1>1. req \in [Caller -> Request] /\ \A c \in Caller : req[c] = Idle
    BY IdleOK DEF Init
  <1>2. Requests
    BY <1>1 DEF Requests
  <1>3. plan.docs \subseteq Doc /\ plan.edits \in Nat /\ plan.requests \in Nat /\ plan \in Plans
    BY Constants DEF Init
  <1>4. World
    BY <1>3 DEF Init, World
  <1>5. Counters
    BY DEF Init, Counters
  <1> QED BY <1>2, <1>4, <1>5 DEF Types

LEMMA TypesNext ==
    ASSUME Types, [Next]_vars
    PROVE  Types'
  <1>1. CASE \E c \in Caller : Ask(c) \/ Step(c)
    BY <1>1, AskTypes, StepTypes
  <1>2. CASE Expiry
    BY <1>2, ExpiryTypes
  <1>3. CASE \E a \in Agent : EditAgent(a)
    BY <1>3, EditTypes
  <1>4. CASE UNCHANGED vars
    BY <1>4 DEF vars, sessions, factors, counters, world, bounds, Types, Requests, World, Counters, Planned
  <1> QED BY <1>1, <1>2, <1>3, <1>4 DEF Next

LEMMA TypesOK ==
    ASSUME Types
    PROVE  TypeOK
  <1>1. \A c \in Caller : req[c] = Idle \/ (req[c].op \in plan.kinds /\ req[c].pc \in Pcs
                                            /\ req[c].n \in 1 .. made)
    BY DEF Types, Requests, Busy, Planned
  <1> QED BY <1>1 DEF Types, Requests, World, Counters, TypeOK

(* The sessions, the challenges, the counters and the requests keep their   *)
(* types, whatever calls interleave: the record of what a request read has  *)
(* at every await the fields the next call uses.                            *)
THEOREM TypeCorrect == Spec => []TypeOK
  <1>1. Init => Types
    BY TypesInit
  <1>2. Types /\ [Next]_vars => Types'
    BY TypesNext
  <1>3. Types => TypeOK
    BY TypesOK
  <1> QED BY <1>1, <1>2, <1>3, PTL DEF Spec


-----------------------------------------------------------------------------
(* A session that was not minted is in nobody's hands: this is why storing  *)
(* its refresh token cannot bring back a session that was ended.            *)
Unborn(n) ==
    /\ n \notin ended /\ refresh[n] = None
    /\ \A m \in Serial : access[m] = None \/ access[m].session # n
    /\ \A c \in Caller : req[c].session # n

(* A request that may still mint the session of its number.                 *)
Pending(c, n) ==
    /\ req[c] # Idle /\ req[c].op \notin {"renew", "logout"}
    /\ req[c].session = None /\ req[c].n = n

Alone == \A c, d \in Caller : c # d /\ req[c] # Idle /\ req[d] # Idle => req[c].n # req[d].n

Ending ==
    /\ Alone
    /\ \A n \in Serial : n > made => Unborn(n)
    /\ \A c \in Caller, n \in Serial : Pending(c, n) => Unborn(n)
    /\ EndedStaysEnded

(* The call that stores the refresh token of a new session.                 *)
LEMMA StoredSession ==
    ASSUME Requests, NEW c \in Caller, StoreRefresh(c)
    PROVE  /\ req'[c].session = req[c].n /\ req'[c].pc = "ttl" /\ req'[c] # Idle
           /\ req[c] # Idle /\ req[c].session = None
           /\ req[c].op \notin {"renew", "logout"} /\ req[c].n \in 1 .. made
  <1> DEFINE r == [req[c] EXCEPT !.pc = "ttl", !.session = req[c].n]
  <1>1. "mint" \in Pcs /\ At(c, "mint")
    BY DEF StoreRefresh, Pcs
  <1>2. Busy(req[c]) /\ req[c] \in Request /\ req[c].pc = "mint" /\ req[c] # Idle
    BY <1>1, Awaits, IdleOK, Constants DEF Busy
  <1>3. req' = [req EXCEPT ![c] = r] /\ req'[c] = r
    BY <1>2 DEF StoreRefresh, Requests
  <1>4. r.session = req[c].n /\ r.pc = "ttl"
    BY <1>2 DEF Request
  <1> HIDE DEF r
  <1>a. "ttl" # None
    BY Constants DEF Pcs
  <1>5. req'[c] # Idle
    BY <1>3, <1>4, <1>a, IdleOK
  <1>6. req[c].session = None /\ req[c].op \notin {"renew", "logout"}
    BY <1>2 DEF Busy, Placed, Minted, Leaving
  <1> QED BY <1>2, <1>3, <1>4, <1>5, <1>6 DEF Requests, Planned

LEMMA UnbornKept ==
    ASSUME Types, NEW c \in Caller, Step(c), NEW n \in Serial, Unborn(n),
           ~(StoreRefresh(c) /\ n = req[c].n)
    PROVE  Unborn(n)'
  <1>1. Moved(c) /\ n # None
    BY StepTypes, Constants
  <1>2. /\ n \notin ended' /\ refresh'[n] = None
        /\ \A m \in Serial : access'[m] = None \/ access'[m].session # n
        /\ ~StoreRefresh(c) => ~At(c, "mint")
    <2>1. CASE \/ Recheck(c) \/ Look(c) \/ WrongPassword(c) \/ RightPassword(c)
               \/ InactivePreflight(c) \/ Count(c) \/ SetWindow(c) \/ SetBlock(c)
               \/ ClearCounter(c) \/ LiftBlock(c) \/ MakeChallenge(c) \/ Gate(c)
      BY <2>1 DEF Recheck, Look, WrongPassword, RightPassword, InactivePreflight, Count, SetWindow,
           SetBlock, ClearCounter, LiftBlock, MakeChallenge, Gate, world, sessions, Unborn, At
    <2>2. CASE \/ GetChallenge(c) \/ NoCode(c) \/ WrongCode(c) \/ RightCode(c)
               \/ ConsumeChallenge(c) \/ StoreAssertion(c) \/ WrongAssertion(c) \/ RightAssertion(c)
      BY <2>2 DEF GetChallenge, NoCode, WrongCode, RightCode, ConsumeChallenge, StoreAssertion,
           WrongAssertion, RightAssertion, world, sessions, Unborn, At
    <2>3. CASE WriteSignCount(c) \/ DropAssertion(c) \/ DropChallenge(c)
      BY <2>3 DEF WriteSignCount, DropAssertion, DropChallenge, world, sessions, Unborn, At
    <2>4. CASE StoreRefresh(c)
      <3>1. refresh'[n] = refresh[n]
        BY <2>4 DEF StoreRefresh, Types, World
      <3> QED BY <2>4, <3>1 DEF StoreRefresh, world, Unborn
    <2>5. CASE ExpireRefresh(c)
      <3>1. refresh'[n] = None
        BY <2>5 DEF ExpireRefresh, Unborn, Types, World
      <3> QED BY <2>5, <3>1 DEF ExpireRefresh, world, Unborn, At
    <2>6. CASE StoreAccess(c)
      <3>1. \A m \in Serial : access'[m] = access[m] \/ access'[m].session = req[c].session
        BY <2>6 DEF StoreAccess, Types, World
      <3> QED BY <2>6, <3>1 DEF StoreAccess, Unborn, At
    <2>7. CASE DeleteAccess(c)
      <3>1. \A m \in Serial : access'[m] = access[m] \/ access'[m] = None
        BY <2>7 DEF DeleteAccess, Types, World
      <3> QED BY <2>7, <3>1 DEF DeleteAccess, Unborn, At, world
    <2>8. CASE DeleteRefresh(c)
      <3>1. refresh'[n] = None
        BY <2>8 DEF DeleteRefresh, Unborn, Types, World
      <3> QED BY <2>8, <3>1 DEF DeleteRefresh, Unborn, At
    <2> QED BY <2>1, <2>2, <2>3, <2>4, <2>5, <2>6, <2>7, <2>8 DEF Step
  <1>3. ASSUME NEW d \in Caller PROVE req'[d].session # n
    <2>1. CASE d # c
      BY <1>1, <2>1 DEF Moved, Others, Unborn
    <2>2. CASE d = c /\ ~StoreRefresh(c)
      BY <1>1, <1>2, <2>2, IdleOK DEF Moved, Unborn
    <2>3. CASE d = c /\ StoreRefresh(c)
      BY <2>3, StoredSession DEF Types
    <2> QED BY <2>1, <2>2, <2>3
  <1> QED BY <1>2, <1>3 DEF Unborn

(* A step of a request keeps the freshness of the sessions to come.         *)
LEMMA EndingStep ==
    ASSUME Types, Ending, NEW c \in Caller, Step(c)
    PROVE  Ending'
  <1>1. Moved(c) /\ Types' /\ made' = made
    <2>1. UNCHANGED made
      BY StepMade
    <2> QED BY <2>1, StepTypes
  <1>2. \A d \in Caller : req'[d] # Idle => req[d] # Idle /\ req'[d].n = req[d].n /\ req'[d].op = req[d].op
    <2>1. req[c] # Idle
      BY StepBusy DEF Types
    <2> QED BY <1>1, <2>1 DEF Moved, Others, Same
  <1>3. Alone'
    BY <1>2 DEF Ending, Alone
  <1>4. ASSUME NEW n \in Serial, n > made
        PROVE  Unborn(n)'
    <2>1. ~(StoreRefresh(c) /\ n = req[c].n)
      BY <1>4, StoredSession, Constants DEF Types, World
    <2> QED BY <1>4, <2>1, UnbornKept DEF Ending
  <1>5. ASSUME NEW d \in Caller, NEW n \in Serial, Pending(d, n)'
        PROVE  Unborn(n)'
    <2>1. /\ req[d] # Idle /\ req[d].n = n /\ req[d].op \notin {"renew", "logout"}
          /\ req'[d].session = None
      BY <1>2, <1>5 DEF Pending
    <2>3. req[d].session = None
      <3>1. CASE d # c
        BY <1>1, <2>1, <3>1 DEF Moved, Others
      <3>2. CASE d = c /\ At(c, "mint")
        BY <3>2, Awaits DEF Types, Busy, Placed, Pcs, Minted, Leaving
      <3>3. CASE d = c /\ ~At(c, "mint")
        BY <1>1, <1>5, <2>1, <3>3 DEF Moved, Pending
      <3> QED BY <3>1, <3>2, <3>3
    <2>4. Unborn(n)
      BY <2>1, <2>3 DEF Ending, Pending
    <2>5. ~(StoreRefresh(c) /\ n = req[c].n)
      <3>1. SUFFICES ASSUME StoreRefresh(c), n = req[c].n PROVE FALSE
        OBVIOUS
      <3>2. req[c] # Idle /\ req'[c].session = req[c].n
        BY <3>1, StoredSession DEF Types
      <3>3. d = c
        BY <2>1, <3>1, <3>2 DEF Ending, Alone
      <3> QED BY <2>1, <3>1, <3>2, <3>3, Constants
    <2> QED BY <2>4, <2>5, UnbornKept
  <1>6. EndedStaysEnded'
    <2>1. CASE StoreRefresh(c)
      <3>1. Unborn(req[c].n)
        BY <2>1, StoredSession, Constants DEF Types, Ending, Pending, World, Serial
      <3>2. req[c].n \notin ended /\ ended' = ended
        BY <2>1, <3>1 DEF Unborn, StoreRefresh, world
      <3> QED BY <2>1, <3>2 DEF StoreRefresh, Ending, EndedStaysEnded, Types, World
    <2>2. CASE ExpireRefresh(c)
      BY <2>2 DEF ExpireRefresh, world, Ending, EndedStaysEnded, Types, World
    <2>3. CASE DeleteRefresh(c)
      <3>1. req[c].session \in Serial
        BY <2>3, Awaits DEF DeleteRefresh, Pcs, Types, Busy, Holds
      <3> QED BY <2>3, <3>1 DEF DeleteRefresh, Ending, EndedStaysEnded, Types, World
    <2>4. CASE ~StoreRefresh(c) /\ ~ExpireRefresh(c) /\ ~DeleteRefresh(c)
      <3>1. refresh' = refresh /\ ended' = ended
        BY <2>4, StepRefresh
      <3> QED BY <3>1 DEF Ending, EndedStaysEnded
    <2> QED BY <2>1, <2>2, <2>3, <2>4
  <1> QED BY <1>1, <1>3, <1>4, <1>5, <1>6 DEF Ending

LEMMA AskedSession ==
    ASSUME Types, NEW c \in Caller, Ask(c)
    PROVE  /\ \E r \in Request : Asked(c, r)
           /\ \A n \in Serial : Unborn(n) => req'[c].session # n
  <1>a. Requests /\ World
    BY DEF Types
  <1>1. CASE \E a \in Agent : AskPreflight(c, a)
    <2>1. PICK a \in Agent : AskPreflight(c, a)
      BY <1>1
    <2>2. PICK r \in Request : Start(c, r) /\ Busy(r) /\ r.session = None
      BY <1>a, <2>1, AskPreflightStarts DEF Has
    <2>3. Asked(c, r) /\ req'[c].session = None
      BY <2>2, Starts DEF Types, Asked
    <2> QED BY <2>3, Constants
  <1>2. CASE \E a \in Agent, ch \in {None} \cup 1 .. made : AskLogin(c, a, ch)
    <2>1. PICK a \in Agent, ch \in {None} \cup 1 .. made : AskLogin(c, a, ch)
      BY <1>2
    <2>2. PICK r \in Request : Start(c, r) /\ Busy(r) /\ r.session = None
      BY <1>a, <2>1, AskLoginStarts DEF Has
    <2>3. Asked(c, r) /\ req'[c].session = None
      BY <2>2, Starts DEF Types, Asked
    <2> QED BY <2>3, Constants
  <1>3. CASE \E ch \in 1 .. made : AskVerify(c, ch)
    <2>1. PICK ch \in 1 .. made : AskVerify(c, ch)
      BY <1>3
    <2>2. PICK r \in Request : Start(c, r) /\ Busy(r) /\ r.session = None
      BY <1>a, <2>1, AskVerifyStarts DEF Has
    <2>3. Asked(c, r) /\ req'[c].session = None
      BY <2>2, Starts DEF Types, Asked
    <2> QED BY <2>3, Constants
  <1>4. CASE \E ch \in 1 .. made : AskBegin(c, ch)
    <2>1. PICK ch \in 1 .. made : AskBegin(c, ch)
      BY <1>4
    <2>2. PICK r \in Request : Start(c, r) /\ Busy(r) /\ r.session = None
      BY <1>a, <2>1, AskBeginStarts DEF Has
    <2>3. Asked(c, r) /\ req'[c].session = None
      BY <2>2, Starts DEF Types, Asked
    <2> QED BY <2>3, Constants
  <1>5. CASE \E ch \in 1 .. made : AskFinish(c, ch)
    <2>1. PICK ch \in 1 .. made : AskFinish(c, ch)
      BY <1>5
    <2>2. PICK r \in Request : Start(c, r) /\ Busy(r) /\ r.session = None
      BY <1>a, <2>1, AskFinishStarts DEF Has
    <2>3. Asked(c, r) /\ req'[c].session = None
      BY <2>2, Starts DEF Types, Asked
    <2> QED BY <2>3, Constants
  <1>6. CASE \E n \in 1 .. made : AskStepUp(c, n)
    <2>1. PICK n \in 1 .. made : AskStepUp(c, n)
      BY <1>6
    <2>2. PICK r \in Request : Start(c, r) /\ Busy(r) /\ r.session = None
      BY <1>a, <2>1, AskStepUpStarts DEF Has
    <2>3. Asked(c, r) /\ req'[c].session = None
      BY <2>2, Starts DEF Types, Asked
    <2> QED BY <2>3, Constants
  <1>7. CASE \E n \in 1 .. made : AskRenew(c, n)
    <2>1. PICK n \in 1 .. made : AskRenew(c, n)
      BY <1>7
    <2>2. PICK r \in Request : Start(c, r) /\ Busy(r)
                            /\ r.session = n
      BY <1>a, <2>1, AskRenewStarts DEF Has
    <2>3. Asked(c, r) /\ req'[c].session = n
      BY <2>2, Starts DEF Types, Asked
    <2>4. n \in Serial
      BY Constants DEF Types, World, Serial
    <2> QED BY <2>1, <2>3, <2>4, Constants DEF Unborn, AskRenew, Asked
  <1>8. CASE \E n \in 1 .. made : AskLogout(c, n)
    <2>1. PICK n \in 1 .. made : AskLogout(c, n)
      BY <1>8
    <2>2. PICK r \in Request : Start(c, r) /\ Busy(r)
                            /\ r.session = (IF access[n] = None THEN None ELSE access[n].session)
      BY <1>a, <2>1, AskLogoutStarts DEF Has
    <2>3. Asked(c, r) /\ req'[c].session = (IF access[n] = None THEN None ELSE access[n].session)
      BY <2>2, Starts DEF Types, Asked
    <2>4. n \in Serial
      BY Constants DEF Types, World, Serial
    <2> QED BY <2>1, <2>3, <2>4, Constants DEF Unborn, AskLogout, Asked
  <1> QED BY <1>1, <1>2, <1>3, <1>4, <1>5, <1>6, <1>7, <1>8 DEF Ask

LEMMA EndingAsk ==
    ASSUME Types, Ending, NEW c \in Caller, Ask(c)
    PROVE  Ending'
  <1>1. PICK r \in Request : Asked(c, r)
    BY AskedSession
  <1>2. UNCHANGED <<refresh, access, ended>>
    BY AskAsked DEF Types
  <1>3. ASSUME NEW n \in Serial, Unborn(n) PROVE Unborn(n)'
    BY <1>1, <1>2, <1>3, AskedSession DEF Unborn, Asked, Others
  <1>4. made \in Nat /\ made' = made + 1 /\ req'[c].n = made + 1 /\ made + 1 \in Serial /\ req[c] = Idle
    <2>1. made \in 0 .. plan.requests /\ made < plan.requests /\ plan.requests \in 0 .. MaxRequests
      BY <1>1, Constants DEF Types, World, Asked
    <2> QED BY <1>1, <2>1, Constants DEF Asked, Serial
  <1>5. \A d \in Caller : req[d] # Idle => req[d].n \in 1 .. made
    BY DEF Types, Requests, Planned
  <1>6. Alone'
    <2>1. SUFFICES ASSUME NEW d \in Caller, NEW e \in Caller, d # e, req'[d] # Idle, req'[e] # Idle
                   PROVE  req'[d].n # req'[e].n
      BY DEF Alone
    <2>2. CASE d = c
      <3>1. req'[e] = req[e] /\ req[e].n \in 1 .. made
        BY <1>1, <1>5, <2>1, <2>2 DEF Asked, Others
      <3> QED BY <1>4, <2>2, <3>1
    <2>3. CASE e = c
      <3>1. req'[d] = req[d] /\ req[d].n \in 1 .. made
        BY <1>1, <1>5, <2>1, <2>3 DEF Asked, Others
      <3> QED BY <1>4, <2>3, <3>1
    <2>4. CASE d # c /\ e # c
      BY <1>1, <2>1, <2>4 DEF Asked, Others, Ending, Alone
    <2> QED BY <2>2, <2>3, <2>4
  <1>7. ASSUME NEW n \in Serial, n > made' PROVE Unborn(n)'
    <2>1. n > made
      BY <1>4, <1>7, Constants
    <2> QED BY <1>3, <2>1 DEF Ending
  <1>8. ASSUME NEW d \in Caller, NEW n \in Serial, Pending(d, n)' PROVE Unborn(n)'
    <2>1. CASE d = c
      <3>1. n = made + 1
        BY <1>4, <1>8, <2>1 DEF Pending
      <3>2. n > made
        BY <1>4, <3>1
      <3> QED BY <1>3, <3>2 DEF Ending
    <2>2. CASE d # c
      <3>1. Pending(d, n)
        BY <1>1, <1>8, <2>2 DEF Asked, Others, Pending
      <3> QED BY <1>3, <3>1 DEF Ending
    <2> QED BY <2>1, <2>2
  <1>9. EndedStaysEnded'
    BY <1>2 DEF Ending, EndedStaysEnded
  <1> QED BY <1>6, <1>7, <1>8, <1>9 DEF Ending

LEMMA EndingOther ==
    ASSUME Types, Ending, Expiry \/ (\E a \in Agent : EditAgent(a)) \/ UNCHANGED vars
    PROVE  Ending'
  <1>1. UNCHANGED <<req, made, ended>>
    BY DEF Expiry, AccessExpires, RefreshExpires, ChallengeExpires, AssertionExpires, WindowEnds,
       BlockEnds, EditAgent, world, vars
  <1>2. /\ \A n \in Serial : refresh'[n] = refresh[n] \/ refresh'[n] = None
        /\ \A n \in Serial : access'[n] = access[n] \/ access'[n] = None
    <2>1. CASE \/ \E n \in Serial : AccessExpires(n) \/ RefreshExpires(n)
      BY <2>1 DEF AccessExpires, RefreshExpires, Types, World
    <2>2. CASE UNCHANGED <<refresh, access>>
      BY <2>2
    <2> QED BY <2>1, <2>2 DEF Expiry, ChallengeExpires, AssertionExpires, WindowEnds, BlockEnds,
               EditAgent, vars, sessions
  <1>3. \A n \in Serial : Unborn(n) => Unborn(n)'
    BY <1>1, <1>2 DEF Unborn
  <1>4. \A c \in Caller, n \in Serial : Pending(c, n)' => Unborn(n)'
    BY <1>1, <1>3 DEF Ending, Pending
  <1>6. \A n \in Serial : n > made' => Unborn(n)'
    BY <1>1, <1>3 DEF Ending
  <1>7. Alone'
    BY <1>1 DEF Ending, Alone
  <1>8. EndedStaysEnded'
    BY <1>1, <1>2 DEF Ending, EndedStaysEnded, Types, World
  <1> QED BY <1>4, <1>6, <1>7, <1>8 DEF Ending

LEMMA EndingInit ==
    ASSUME Init
    PROVE  Ending
  <1>1. \A c \in Caller : req[c] = Idle
    BY DEF Init
  <1>2. \A n \in Serial : Unborn(n)
    BY <1>1, IdleOK, Constants DEF Init, Unborn
  <1> QED BY <1>1, <1>2 DEF Init, Ending, Pending, Alone, EndedStaysEnded

(* A session a logout ended is never stored again, whatever renewals read   *)
(* its refresh token before the logout deleted it: no request in progress   *)
(* holds the name of a session it has yet to mint, and a renewal writes     *)
(* nothing but the time to live of a key that exists.                       *)
THEOREM EndedIsFinal == Spec => []EndedStaysEnded
  <1> DEFINE Inv == Types /\ Ending
  <1>1. Init => Inv
    BY TypesInit, EndingInit
  <1>2. Inv /\ [Next]_vars => Inv'
    <2>1. SUFFICES ASSUME Inv, [Next]_vars PROVE Ending'
      BY TypesNext
    <2>2. CASE \E c \in Caller : Ask(c) \/ Step(c)
      BY <2>1, <2>2, EndingAsk, EndingStep
    <2>3. CASE Expiry \/ (\E a \in Agent : EditAgent(a)) \/ UNCHANGED vars
      BY <2>1, <2>3, EndingOther
    <2> QED BY <2>1, <2>2, <2>3 DEF Next
  <1>3. Inv => EndedStaysEnded
    BY DEF Ending
  <1> QED BY <1>1, <1>2, <1>3, PTL DEF Spec

-----------------------------------------------------------------------------
(* A challenge is good once.  A name is old when the request it was made by *)
(* is over: nobody stores a challenge under it again.                       *)
Old(n) == n \in 1 .. made /\ \A d \in Caller : req[d] # Idle => req[d].n # n
Spent(n) == Old(n) /\ challenge[n] = None

(* What a request with a second factor holds of its challenge.              *)
Factor(r) ==
    /\ r.pc \in {"ask", "code", "consume"} \cup Asserting => Old(r.ch)
    /\ r.op = "finish" /\ r.pc \in Clearing => Old(r.ch)
    /\ r.op = "finish" /\ r.pc \in {"mint"} \cup Minted => Spent(r.ch)
    /\ r.op \in {"login", "verify"} /\ r.mfa => Spent(r.ch)
    /\ r.op \in {"login", "verify"} /\ r.stale =>
         r.ch \in consumed /\ ~r.mfa /\ r.pc \notin {"code", "consume"}
    /\ r.op \in {"stepUp", "renew"} => r.ch = None

Spending ==
    /\ \A n \in Serial : challenge[n] # None \/ assertion[n] # None => Old(n)
    /\ \A n \in consumed : Spent(n)
    /\ \A c \in Caller : Factor(req[c])

(* What is stored under the name of a challenge by a step.                  *)
LEMMA StepFactors ==
    ASSUME Types, NEW c \in Caller, Step(c), NEW n \in Serial
    PROVE  /\ \/ challenge'[n] \in {challenge[n], None}
              \/ MakeChallenge(c) /\ n = req[c].n
           /\ \/ assertion'[n] \in {assertion[n], None}
              \/ StoreAssertion(c) /\ n = req[c].ch
  <1>1. CASE \/ Recheck(c) \/ Look(c) \/ WrongPassword(c) \/ RightPassword(c)
             \/ InactivePreflight(c) \/ Count(c) \/ SetWindow(c) \/ SetBlock(c)
             \/ ClearCounter(c) \/ LiftBlock(c) \/ Gate(c)
    BY <1>1 DEF Recheck, Look, WrongPassword, RightPassword, InactivePreflight, Count, SetWindow,
         SetBlock, ClearCounter, LiftBlock, Gate, factors
  <1>2. CASE GetChallenge(c) \/ WrongCode(c) \/ RightCode(c) \/ WrongAssertion(c) \/ RightAssertion(c)
             \/ WriteSignCount(c) \/ StoreRefresh(c) \/ ExpireRefresh(c) \/ StoreAccess(c)
             \/ DeleteAccess(c) \/ DeleteRefresh(c)
    BY <1>2 DEF GetChallenge, WrongCode, RightCode, WrongAssertion, RightAssertion, WriteSignCount,
         StoreRefresh, ExpireRefresh, StoreAccess, DeleteAccess, DeleteRefresh, factors
  <1>3. CASE MakeChallenge(c) \/ NoCode(c) \/ ConsumeChallenge(c) \/ DropChallenge(c)
    BY <1>3 DEF MakeChallenge, NoCode, ConsumeChallenge, DropChallenge, Types, World
  <1>4. CASE StoreAssertion(c) \/ DropAssertion(c)
    BY <1>4 DEF StoreAssertion, DropAssertion, Types, World
  <1> QED BY <1>1, <1>2, <1>3, <1>4 DEF Step

(* Only the answer of a session with a second factor uses a challenge up.   *)
LEMMA StepConsumed ==
    ASSUME Types, NEW c \in Caller, Step(c)
    PROVE  \/ consumed' = consumed
           \/ /\ StoreAccess(c) /\ req[c].mfa /\ req[c].ch # None
              /\ consumed' = consumed \cup {req[c].ch}
  <1>1. CASE \/ Recheck(c) \/ Look(c) \/ WrongPassword(c) \/ RightPassword(c)
             \/ InactivePreflight(c) \/ Count(c) \/ SetWindow(c) \/ SetBlock(c)
             \/ ClearCounter(c) \/ LiftBlock(c) \/ MakeChallenge(c) \/ Gate(c)
    BY <1>1 DEF Recheck, Look, WrongPassword, RightPassword, InactivePreflight, Count, SetWindow,
         SetBlock, ClearCounter, LiftBlock, MakeChallenge, Gate, world
  <1>2. CASE \/ GetChallenge(c) \/ NoCode(c) \/ WrongCode(c) \/ RightCode(c)
             \/ ConsumeChallenge(c) \/ StoreAssertion(c) \/ WrongAssertion(c) \/ RightAssertion(c)
    BY <1>2 DEF GetChallenge, NoCode, WrongCode, RightCode, ConsumeChallenge, StoreAssertion,
         WrongAssertion, RightAssertion, world
  <1>3. CASE \/ WriteSignCount(c) \/ DropAssertion(c) \/ DropChallenge(c) \/ StoreRefresh(c)
             \/ ExpireRefresh(c) \/ DeleteAccess(c) \/ DeleteRefresh(c)
    BY <1>3 DEF WriteSignCount, DropAssertion, DropChallenge, StoreRefresh, ExpireRefresh,
         DeleteAccess, DeleteRefresh, world
  <1>4. CASE StoreAccess(c)
    BY <1>4 DEF StoreAccess
  <1> QED BY <1>1, <1>2, <1>3, <1>4 DEF Step

(* An old name stays old, and a spent challenge spent.                      *)
LEMMA OldStays ==
    ASSUME Types, NEW c \in Caller, Step(c), NEW n, Old(n)
    PROVE  Old(n)' /\ (Spent(n) => Spent(n)')
  <1>1. Moved(c) /\ made' = made /\ req[c] # Idle
    <2>1. UNCHANGED made
      BY StepMade
    <2> QED BY <2>1, StepTypes, StepBusy
  <1>2. Old(n)'
    BY <1>1 DEF Old, Moved, Others, Same
  <1>3. ~(MakeChallenge(c) /\ n = req[c].n)
    BY <1>1 DEF Old
  <1>4. n \in Serial
    BY Constants DEF Old, Types, World, Serial
  <1> QED BY <1>2, <1>3, <1>4, StepFactors DEF Spent

(* A request that only goes on keeps what it holds of its challenge, if it  *)
(* comes to no await that asks for more.                                    *)
LEMMA FactorKept ==
    ASSUME Types, Spending, NEW c \in Caller, Step(c), Same(req'[c], req[c]),
           req'[c].mfa = req[c].mfa,
           req'[c].pc \in {"ask", "code", "consume"} \cup Asserting => Old(req[c].ch),
           req'[c].pc \in {"code", "consume"} =>
             req[c].pc \in {"code", "consume"} \/ challenge[req[c].ch] # None,
           req[c].op = "finish" /\ req'[c].pc \in Clearing => Old(req[c].ch),
           req[c].op = "finish" /\ req'[c].pc \in {"mint"} \cup Minted => Spent(req[c].ch)
    PROVE  Factor(req[c])'
  <1> DEFINE ch == req[c].ch
  <1>1. Factor(req[c]) /\ consumed \subseteq consumed' /\ (ch \in consumed => Spent(ch))
    BY StepConsumed DEF Spending
  <1>2. (Old(ch) => Old(ch)') /\ (Spent(ch) => Spent(ch)')
    <2>1. PICK n : n = ch
      OBVIOUS
    <2>2. ch' = ch
      BY DEF Same
    <2>3. (Old(n) => Old(n)') /\ (Spent(n) => Spent(n)')
      BY OldStays DEF Spent
    <2> QED BY <2>1, <2>2, <2>3 DEF Old, Spent
  <1>4. Factor(req[c])' <=>
          /\ req'[c].pc \in {"ask", "code", "consume"} \cup Asserting => Old(ch)'
          /\ req'[c].op = "finish" /\ req'[c].pc \in Clearing => Old(ch)'
          /\ req'[c].op = "finish" /\ req'[c].pc \in {"mint"} \cup Minted => Spent(ch)'
          /\ req'[c].op \in {"login", "verify"} /\ req'[c].mfa => Spent(ch)'
          /\ req'[c].op \in {"login", "verify"} /\ req'[c].stale =>
               ch \in consumed' /\ ~req'[c].mfa /\ req'[c].pc \notin {"code", "consume"}
          /\ req'[c].op \in {"stepUp", "renew"} => ch = None
    BY DEF Factor, Same, Old, Spent
  <1>5. req'[c].op = req[c].op /\ req'[c].ch = ch /\ req'[c].stale = req[c].stale
    BY DEF Same
  <1>6. req'[c].pc \in {"ask", "code", "consume"} \cup Asserting => Old(ch)'
    BY <1>2
  <1>7. req'[c].op = "finish" /\ req'[c].pc \in Clearing => Old(ch)'
    BY <1>2, <1>5
  <1>8. req'[c].op = "finish" /\ req'[c].pc \in {"mint"} \cup Minted => Spent(ch)'
    BY <1>2, <1>5
  <1>9. req'[c].op \in {"login", "verify"} /\ req'[c].mfa => Spent(ch)'
    BY <1>1, <1>2, <1>5 DEF Factor
  <1>10. req'[c].op \in {"login", "verify"} /\ req'[c].stale =>
               ch \in consumed' /\ ~req'[c].mfa /\ req'[c].pc \notin {"code", "consume"}
    BY <1>1, <1>5 DEF Factor, Spent
  <1>11. req'[c].op \in {"stepUp", "renew"} => ch = None
    BY <1>1, <1>5 DEF Factor
  <1> QED BY <1>4, <1>6, <1>7, <1>8, <1>9, <1>10, <1>11

(* The calls after which a request only goes on.                            *)
LEMMA FactorGoing ==
    ASSUME Types, Spending, NEW c \in Caller, Step(c),
           \/ WrongPassword(c) \/ RightPassword(c) \/ ClearCounter(c) \/ NoCode(c)
           \/ WrongCode(c) \/ RightCode(c) \/ WrongAssertion(c)
           \/ WriteSignCount(c) \/ ExpireRefresh(c)
           \/ ~End(c) /\ (Recheck(c) \/ Count(c) \/ DeleteAccess(c))
    PROVE  Factor(req[c])'
  <1>a. Factor(req[c])
    BY DEF Spending
  <1>1. CASE WrongPassword(c) /\ Go(c, "count")
    <2>1. At(c, "password") /\ "password" \in Pcs /\ "count" \in Pcs
      BY <1>1 DEF WrongPassword, Pcs
    <2>2. /\ Busy(req[c]) /\ req[c].pc = "password" /\ Same(req'[c], req[c]) /\ req'[c].pc = "count"
          /\ req'[c].mfa = req[c].mfa
      BY <1>1, <2>1, GoesMoved DEF Types
    <2> QED BY <1>a, <1>1, <2>2, FactorKept DEF Busy, Placed, Clearing, Asserting, Minted, Factor
  <1>2. CASE RightPassword(c) /\ Go(c, "clear")
    <2>1. At(c, "password") /\ "password" \in Pcs /\ "clear" \in Pcs
      BY <1>2 DEF RightPassword, Pcs
    <2>2. /\ Busy(req[c]) /\ req[c].pc = "password" /\ Same(req'[c], req[c]) /\ req'[c].pc = "clear"
          /\ req'[c].mfa = req[c].mfa
      BY <1>2, <2>1, GoesMoved DEF Types
    <2> QED BY <1>a, <1>2, <2>2, FactorKept DEF Busy, Placed, Clearing, Asserting, Minted, Factor
  <1>3. CASE ClearCounter(c) /\ Go(c, "lift")
    <2>1. At(c, "clear") /\ "clear" \in Pcs /\ "lift" \in Pcs
      BY <1>3 DEF ClearCounter, Pcs
    <2>2. /\ Busy(req[c]) /\ req[c].pc = "clear" /\ Same(req'[c], req[c]) /\ req'[c].pc = "lift"
          /\ req'[c].mfa = req[c].mfa
      BY <1>3, <2>1, GoesMoved DEF Types
    <2> QED BY <1>a, <1>3, <2>2, FactorKept DEF Busy, Placed, Clearing, Asserting, Minted, Factor
  <1>4. CASE NoCode(c) /\ Go(c, "count")
    <2>1. At(c, "code") /\ "code" \in Pcs /\ "count" \in Pcs
      BY <1>4 DEF NoCode, Pcs
    <2>2. /\ Busy(req[c]) /\ req[c].pc = "code" /\ Same(req'[c], req[c]) /\ req'[c].pc = "count"
          /\ req'[c].mfa = req[c].mfa
      BY <1>4, <2>1, GoesMoved DEF Types
    <2> QED BY <1>a, <1>4, <2>2, FactorKept DEF Busy, Placed, Clearing, Asserting, Minted, Factor
  <1>5. CASE WrongCode(c) /\ Go(c, "count")
    <2>1. At(c, "code") /\ "code" \in Pcs /\ "count" \in Pcs
      BY <1>5 DEF WrongCode, Pcs
    <2>2. /\ Busy(req[c]) /\ req[c].pc = "code" /\ Same(req'[c], req[c]) /\ req'[c].pc = "count"
          /\ req'[c].mfa = req[c].mfa
      BY <1>5, <2>1, GoesMoved DEF Types
    <2> QED BY <1>a, <1>5, <2>2, FactorKept DEF Busy, Placed, Clearing, Asserting, Minted, Factor
  <1>6. CASE RightCode(c) /\ Go(c, "consume")
    <2>1. At(c, "code") /\ "code" \in Pcs /\ "consume" \in Pcs
      BY <1>6 DEF RightCode, Pcs
    <2>2. /\ Busy(req[c]) /\ req[c].pc = "code" /\ Same(req'[c], req[c]) /\ req'[c].pc = "consume"
          /\ req'[c].mfa = req[c].mfa
      BY <1>6, <2>1, GoesMoved DEF Types
    <2> QED BY <1>a, <1>6, <2>2, FactorKept DEF Busy, Placed, Clearing, Asserting, Minted, Factor
  <1>7. CASE WrongAssertion(c) /\ Go(c, "count")
    <2>1. At(c, "assert") /\ "assert" \in Pcs /\ "count" \in Pcs
      BY <1>7 DEF WrongAssertion, Pcs
    <2>2. /\ Busy(req[c]) /\ req[c].pc = "assert" /\ Same(req'[c], req[c]) /\ req'[c].pc = "count"
          /\ req'[c].mfa = req[c].mfa
      BY <1>7, <2>1, GoesMoved DEF Types
    <2> QED BY <1>a, <1>7, <2>2, FactorKept DEF Busy, Placed, Clearing, Asserting, Minted, Factor
  <1>8. CASE WriteSignCount(c) /\ Go(c, "asserted")
    <2>1. At(c, "sign") /\ "sign" \in Pcs /\ "asserted" \in Pcs
      BY <1>8 DEF WriteSignCount, Pcs
    <2>2. /\ Busy(req[c]) /\ req[c].pc = "sign" /\ Same(req'[c], req[c]) /\ req'[c].pc = "asserted"
          /\ req'[c].mfa = req[c].mfa
      BY <1>8, <2>1, GoesMoved DEF Types
    <2> QED BY <1>a, <1>8, <2>2, FactorKept DEF Busy, Placed, Clearing, Asserting, Minted, Factor
  <1>9. CASE ExpireRefresh(c) /\ Go(c, "access")
    <2>1. At(c, "ttl") /\ "ttl" \in Pcs /\ "access" \in Pcs
      BY <1>9 DEF ExpireRefresh, Pcs
    <2>2. /\ Busy(req[c]) /\ req[c].pc = "ttl" /\ Same(req'[c], req[c]) /\ req'[c].pc = "access"
          /\ req'[c].mfa = req[c].mfa
      BY <1>9, <2>1, GoesMoved DEF Types
    <2> QED BY <1>a, <1>9, <2>2, FactorKept DEF Busy, Placed, Clearing, Asserting, Minted, Factor
  <1>10. CASE Count(c) /\ Go(c, "window")
    <2>1. At(c, "count") /\ "count" \in Pcs /\ "window" \in Pcs
      BY <1>10 DEF Count, Pcs
    <2>2. /\ Busy(req[c]) /\ req[c].pc = "count" /\ Same(req'[c], req[c]) /\ req'[c].pc = "window"
          /\ req'[c].mfa = req[c].mfa
      BY <1>10, <2>1, GoesMoved DEF Types
    <2> QED BY <1>a, <1>10, <2>2, FactorKept DEF Busy, Placed, Clearing, Asserting, Minted, Factor
  <1>11. CASE Count(c) /\ Go(c, "block")
    <2>1. At(c, "count") /\ "count" \in Pcs /\ "block" \in Pcs
      BY <1>11 DEF Count, Pcs
    <2>2. /\ Busy(req[c]) /\ req[c].pc = "count" /\ Same(req'[c], req[c]) /\ req'[c].pc = "block"
          /\ req'[c].mfa = req[c].mfa
      BY <1>11, <2>1, GoesMoved DEF Types
    <2> QED BY <1>a, <1>11, <2>2, FactorKept DEF Busy, Placed, Clearing, Asserting, Minted, Factor
  <1>12. CASE DeleteAccess(c) /\ Go(c, "delRefresh")
    <2>1. At(c, "delAccess") /\ "delAccess" \in Pcs /\ "delRefresh" \in Pcs
      BY <1>12 DEF DeleteAccess, Pcs
    <2>2. /\ Busy(req[c]) /\ req[c].pc = "delAccess" /\ Same(req'[c], req[c]) /\ req'[c].pc = "delRefresh"
          /\ req'[c].mfa = req[c].mfa
      BY <1>12, <2>1, GoesMoved DEF Types
    <2> QED BY <1>a, <1>12, <2>2, FactorKept DEF Busy, Placed, Clearing, Asserting, Minted, Factor
  <1>13. CASE Recheck(c) /\ Go(c, "look")
    <2>1. PICK p \in Pcs : At(c, p) /\ p \in {"recheck", "enter"}
      BY <1>13 DEF Recheck, Pcs, At
    <2>2. "look" \in Pcs
      BY DEF Pcs
    <2>3. Same(req'[c], req[c]) /\ req'[c].pc = "look" /\ req'[c].mfa = req[c].mfa
      BY <1>13, <2>1, <2>2, GoesMoved DEF Types
    <2> QED BY <2>3, FactorKept DEF Clearing, Asserting, Minted
  <1> QED
    BY <1>1, <1>2, <1>3, <1>4, <1>5, <1>6, <1>7, <1>8, <1>9, <1>10, <1>11, <1>12, <1>13
    DEF WrongPassword, RightPassword, ClearCounter, NoCode, WrongCode, RightCode, WrongAssertion,
        WriteSignCount, ExpireRefresh, Recheck, Count, DeleteAccess

(* The calls after which a request goes on with what it read.               *)
LEMMA FactorReading ==
    ASSUME Types, Spending, NEW c \in Caller, Step(c), ~End(c),
           Look(c) \/ Gate(c) \/ GetChallenge(c) \/ RightAssertion(c) \/ StoreRefresh(c)
    PROVE  Factor(req[c])'
  <1>a. Factor(req[c])
    BY DEF Spending
  <1>1. CASE Look(c)
    <2> DEFINE r == [req[c] EXCEPT !.pc = "password", !.doc = agent[req[c].agent]]
    <2>1. At(c, "look") /\ "look" \in Pcs
      BY <1>1 DEF Look, Pcs
    <2>2. Busy(req[c]) /\ req[c] \in Request /\ req[c].pc = "look"
      BY <2>1, Awaits DEF Types
    <2>3. req' = [req EXCEPT ![c] = r]
      BY <1>1 DEF Look, Types, Requests
    <2>4. Same(r, req[c]) /\ r.pc = "password" /\ r.mfa = req[c].mfa
      BY <2>2 DEF Request, Same
    <2> HIDE DEF r
    <2>5. req'[c] = r
      BY <2>3 DEF Types, Requests
    <2> QED BY <1>a, <1>1, <2>2, <2>4, <2>5, FactorKept DEF Busy, Placed, Clearing, Asserting, Minted, Factor
  <1>2. CASE Gate(c)
    <2> DEFINE r == [req[c] EXCEPT !.pc = "get", !.key = req[c].ch]
    <2>1. At(c, "gate") /\ "gate" \in Pcs
      BY <1>2 DEF Gate, Pcs
    <2>2. Busy(req[c]) /\ req[c] \in Request /\ req[c].pc = "gate"
      BY <2>1, Awaits DEF Types
    <2>3. req' = [req EXCEPT ![c] = r]
      BY <1>2 DEF Gate, Types, Requests
    <2>4. Same(r, req[c]) /\ r.pc = "get" /\ r.mfa = req[c].mfa
      BY <2>2 DEF Request, Same
    <2> HIDE DEF r
    <2>5. req'[c] = r
      BY <2>3 DEF Types, Requests
    <2> QED BY <1>a, <1>2, <2>2, <2>4, <2>5, FactorKept DEF Busy, Placed, Clearing, Asserting, Minted, Factor
  <1>3. CASE GetChallenge(c) /\ Go(c, "count")
    <2>1. At(c, "get") /\ "get" \in Pcs /\ "count" \in Pcs
      BY <1>3 DEF GetChallenge, Pcs
    <2>2. /\ Busy(req[c]) /\ req[c].pc = "get" /\ Same(req'[c], req[c]) /\ req'[c].pc = "count"
          /\ req'[c].mfa = req[c].mfa
      BY <1>3, <2>1, GoesMoved DEF Types
    <2> QED BY <1>a, <1>3, <2>2, FactorKept DEF Busy, Placed, Clearing, Asserting, Minted, Factor
  <1>4. CASE GetChallenge(c) /\ ~Go(c, "count")
    <2> DEFINE r == [req[c] EXCEPT !.pc = "code", !.doc = challenge[req[c].ch]]
    <2>1. At(c, "get") /\ "get" \in Pcs
      BY <1>4 DEF GetChallenge, Pcs
    <2>2. Busy(req[c]) /\ req[c] \in Request /\ req[c].pc = "get"
      BY <2>1, Awaits DEF Types
    <2>3. req' = [req EXCEPT ![c] = r]
      BY <1>4 DEF GetChallenge, Types, Requests
    <2>4. Same(r, req[c]) /\ r.pc = "code" /\ r.mfa = req[c].mfa
      BY <2>2 DEF Request, Same
    <2> HIDE DEF r
    <2>5. req'[c] = r
      BY <2>3 DEF Types, Requests
    <2>6. challenge[req[c].ch] # None /\ req[c].ch \in Serial
      BY <1>4, <2>2 DEF GetChallenge, Busy, Holds, Coding
    <2>7. Old(req[c].ch)
      BY <2>6 DEF Spending
    <2> QED BY <1>a, <1>4, <2>6, <2>7, <2>2, <2>4, <2>5, FactorKept DEF Busy, Placed, Clearing, Asserting, Minted, Factor
  <1>5. CASE RightAssertion(c)
    <2> DEFINE r == [req[c] EXCEPT !.pc = "sign", !.doc = agent[req[c].agent]]
    <2>1. At(c, "assert") /\ "assert" \in Pcs
      BY <1>5 DEF RightAssertion, Pcs
    <2>2. Busy(req[c]) /\ req[c] \in Request /\ req[c].pc = "assert"
      BY <2>1, Awaits DEF Types
    <2>3. req' = [req EXCEPT ![c] = r]
      BY <1>5 DEF RightAssertion, Types, Requests
    <2>4. Same(r, req[c]) /\ r.pc = "sign" /\ r.mfa = req[c].mfa
      BY <2>2 DEF Request, Same
    <2> HIDE DEF r
    <2>5. req'[c] = r
      BY <2>3 DEF Types, Requests
    <2> QED BY <1>a, <1>5, <2>2, <2>4, <2>5, FactorKept DEF Busy, Placed, Clearing, Asserting, Minted, Factor
  <1>6. CASE StoreRefresh(c)
    <2> DEFINE r == [req[c] EXCEPT !.pc = "ttl", !.session = req[c].n]
    <2>1. At(c, "mint") /\ "mint" \in Pcs
      BY <1>6 DEF StoreRefresh, Pcs
    <2>2. Busy(req[c]) /\ req[c] \in Request /\ req[c].pc = "mint"
      BY <2>1, Awaits DEF Types
    <2>3. req' = [req EXCEPT ![c] = r]
      BY <1>6 DEF StoreRefresh, Types, Requests
    <2>4. Same(r, req[c]) /\ r.pc = "ttl" /\ r.mfa = req[c].mfa
      BY <2>2 DEF Request, Same
    <2> HIDE DEF r
    <2>5. req'[c] = r
      BY <2>3 DEF Types, Requests
    <2> QED BY <1>a, <1>6, <2>2, <2>4, <2>5, FactorKept DEF Busy, Placed, Clearing, Asserting, Minted, Factor
  <1> QED BY <1>1, <1>2, <1>3, <1>4, <1>5, <1>6

(* The three calls that delete what a second factor was checked against,    *)
(* and the one after which the first factor is done.                        *)
LEMMA FactorPassing ==
    ASSUME Types, Spending, NEW c \in Caller, Step(c), ~End(c),
           ConsumeChallenge(c) \/ DropAssertion(c) \/ DropChallenge(c) \/ LiftBlock(c)
    PROVE  Factor(req[c])'
  <1>a. Factor(req[c])
    BY DEF Spending
  <1>b. Old(req[c].ch) => Old(req[c].ch)'
    <2>a. req'[c] # Idle
      <3>1. /\ req' \in [Caller -> Request] /\ req \in [Caller -> Request]
            /\ \A d \in Caller \ {c} : req'[d] = req[d]
        BY StepTypes DEF Moved, Others, Types, Requests
      <3>2. req'[c] = Idle => req' = [req EXCEPT ![c] = Idle]
        BY <3>1
      <3> QED BY <3>2 DEF End
    <2>1. req'[c].ch = req[c].ch
      BY <2>a, StepTypes DEF Moved, Same
    <2>2. PICK n : n = req[c].ch
      OBVIOUS
    <2>3. Old(n) => Old(n)'
      BY OldStays
    <2> QED BY <2>1, <2>2, <2>3 DEF Old
  <1>1. CASE ConsumeChallenge(c)
    <2>1. At(c, "consume") /\ "consume" \in Pcs /\ "count" \in Pcs
      BY <1>1 DEF ConsumeChallenge, Pcs
    <2>2. /\ Busy(req[c]) /\ req[c] \in Request /\ req[c].pc = "consume" /\ req[c].ch \in Serial
          /\ req[c].op \in {"login", "verify"}
      BY <2>1, Awaits DEF Types, Busy, Holds, Placed, Coding
    <2>3. Old(req[c].ch) /\ ~(req[c].op \in {"login", "verify"} /\ req[c].stale)
      BY <1>a, <2>2 DEF Factor
    <2>4. challenge'[req[c].ch] = None
      BY <1>1, <2>2 DEF ConsumeChallenge, Types, World
    <2>5. CASE Go(c, "count")
      <3>1. Same(req'[c], req[c]) /\ req'[c].pc = "count" /\ req'[c].mfa = req[c].mfa
        BY <2>1, <2>5, GoesMoved DEF Types
      <3> QED BY <3>1, FactorKept DEF Clearing, Asserting, Minted
    <2>6. CASE ~Go(c, "count")
      <3> DEFINE r == [req[c] EXCEPT !.pc = "clear", !.agent = req[c].doc, !.mfa = TRUE]
      <3>1. req' = [req EXCEPT ![c] = r]
        BY <1>1, <2>6 DEF ConsumeChallenge, Verified, Types, Requests
      <3>2. Same(r, req[c]) /\ r.pc = "clear"
        BY <2>2 DEF Request, Same
      <3> HIDE DEF r
      <3>3. Same(req'[c], req[c]) /\ req'[c].pc = "clear"
        BY <3>1, <3>2 DEF Types, Requests
      <3> QED
        BY <1>b, <2>2, <2>3, <2>4, <3>3 DEF Factor, Spent, Same, Asserting, Minted
    <2> QED BY <2>5, <2>6
  <1>2. CASE DropAssertion(c)
    <2> DEFINE r == [req[c] EXCEPT !.pc = "clear", !.mfa = TRUE]
    <2>1. At(c, "asserted") /\ "asserted" \in Pcs
      BY <1>2 DEF DropAssertion, Pcs
    <2>2. Busy(req[c]) /\ req[c] \in Request /\ req[c].pc = "asserted" /\ req[c].op = "finish"
      BY <2>1, Awaits DEF Types, Busy, Placed, Asserting
    <2>3. req' = [req EXCEPT ![c] = r]
      BY <1>2 DEF DropAssertion, Types, Requests
    <2>4. Same(r, req[c]) /\ r.pc = "clear"
      BY <2>2 DEF Request, Same
    <2> HIDE DEF r
    <2>5. Same(req'[c], req[c]) /\ req'[c].pc = "clear"
      BY <2>3, <2>4 DEF Types, Requests
    <2> QED BY <1>a, <1>b, <2>2, <2>5 DEF Factor, Same, Asserting, Minted
  <1>3. CASE DropChallenge(c)
    <2>1. At(c, "drop") /\ "drop" \in Pcs /\ "mint" \in Pcs /\ Go(c, "mint")
      BY <1>3 DEF DropChallenge, Pcs
    <2>2. /\ Busy(req[c]) /\ req[c].pc = "drop" /\ req[c].op = "finish" /\ req[c].ch \in Serial
          /\ Same(req'[c], req[c]) /\ req'[c].pc = "mint"
      BY <2>1, GoesMoved DEF Types, Busy, Holds, Placed, Asserting
    <2>3. challenge'[req[c].ch] = None
      BY <1>3, <2>2 DEF DropChallenge, Types, World
    <2> QED BY <1>a, <1>b, <2>2, <2>3 DEF Factor, Spent, Same, Asserting, Minted
  <1>4. CASE LiftBlock(c)
    <2>1. At(c, "lift") /\ "lift" \in Pcs /\ {"challenge", "mint", "gate", "drop"} \subseteq Pcs
      BY <1>4 DEF LiftBlock, Pcs
    <2>2. /\ Busy(req[c]) /\ req[c] \in Request /\ req[c].pc = "lift"
          /\ req[c].op = "finish" => Old(req[c].ch) /\ req[c].key \notin Agent
      BY <1>a, <2>1, Awaits, Constants DEF Types, Busy, Holds, Clearing, Factor
    <2>3. CASE (Go(c, "challenge") \/ Go(c, "gate") \/ Go(c, "mint")) /\ req[c].op # "finish"
      <3>1. PICK q \in {"challenge", "gate", "mint"} : Go(c, q)
        BY <2>3
      <3>2. Same(req'[c], req[c]) /\ req'[c].pc = q /\ req'[c].mfa = req[c].mfa
        BY <2>1, <3>1, GoesMoved DEF Types
      <3> QED BY <2>3, <3>2, FactorKept DEF Clearing, Asserting, Minted
    <2>5. CASE Go(c, "drop") /\ req[c].op = "finish"
      <3>1. Same(req'[c], req[c]) /\ req'[c].pc = "drop" /\ req'[c].mfa = req[c].mfa
        BY <2>1, <2>5, GoesMoved DEF Types
      <3> QED BY <2>2, <2>5, <3>1, FactorKept DEF Clearing, Asserting, Minted
    <2>4. CASE req' = [req EXCEPT ![c].pc = "mint", ![c].mfa = TRUE] /\ req[c].op = "stepUp"
      <3> DEFINE r == [req[c] EXCEPT !.pc = "mint", !.mfa = TRUE]
      <3>1. req' = [req EXCEPT ![c] = r]
        BY <2>4 DEF Types, Requests
      <3>2. Same(r, req[c]) /\ r.pc = "mint"
        BY <2>2 DEF Request, Same
      <3> HIDE DEF r
      <3>3. Same(req'[c], req[c]) /\ req'[c].pc = "mint"
        BY <3>1, <3>2 DEF Types, Requests
      <3>4. req[c].ch = None
        BY <1>a, <2>4 DEF Factor
      <3> QED BY <2>4, <3>3, <3>4 DEF Factor, Same, Asserting, Clearing, Minted
    <2>6. req[c].key \in Agent => req[c].op \in {"login", "preflight", "stepUp"}
      BY <2>2 DEF Busy, Placed, Clearing
    <2> QED BY <1>4, <2>2, <2>3, <2>4, <2>5, <2>6 DEF LiftBlock, AfterPassword
  <1> QED BY <1>1, <1>2, <1>3, <1>4

LEMMA FactorEnding ==
    ASSUME Types, Spending, NEW c \in Caller, End(c)
    PROVE  Factor(req[c])'
  <1>1. req'[c] = Idle
    BY Ends DEF Types, Requests
  <1>2. None \notin Pcs /\ None \notin Kinds
    BY Constants
  <1> QED BY <1>1, <1>2, IdleOK DEF Factor, Clearing, Asserting, Minted, Pcs, Kinds

(* A step of a request keeps what is known of the challenges.               *)
LEMMA SpendingStep ==
    ASSUME Types, Alone, Spending, NEW c \in Caller, Step(c)
    PROVE  Spending'
  <1>1. Moved(c) /\ made' = made /\ req[c] # Idle /\ Types'
    <2>1. UNCHANGED made
      BY StepMade
    <2> QED BY <2>1, StepTypes, StepBusy
  <1>2. \A n : Old(n) => Old(n)' /\ (Spent(n) => Spent(n)')
    BY OldStays
  <1>3. Factor(req[c])'
    <2>1. CASE End(c)
      BY <2>1, FactorEnding
    <2>2. CASE ~End(c)
      BY <2>2, FactorGoing, FactorReading, FactorPassing
      DEF Step, InactivePreflight, SetWindow, SetBlock, MakeChallenge, StoreAssertion, StoreAccess,
          DeleteRefresh
    <2> QED BY <2>1, <2>2
  <1>4. ASSUME NEW d \in Caller
        PROVE  Factor(req[d])'
    <2>1. CASE d = c
      BY <1>3, <2>1
    <2>2. CASE d # c
      <3>1. req'[d] = req[d] /\ Factor(req[d])
        BY <1>1, <2>2 DEF Moved, Others, Spending
      <3>2. consumed \subseteq consumed'
        BY StepConsumed
      <3>3. PICK n : n = req[d].ch
        OBVIOUS
      <3>4. (Old(n) => Old(n)') /\ (Spent(n) => Spent(n)')
        BY <1>2 DEF Spent
      <3> QED BY <3>1, <3>2, <3>3, <3>4 DEF Factor, Old, Spent
    <2> QED BY <2>1, <2>2
  <1>5. ASSUME NEW n \in Serial, challenge'[n] # None \/ assertion'[n] # None
        PROVE  Old(n)'
    <2>1. CASE Old(n)
      BY <1>2, <2>1
    <2>2. CASE ~Old(n)
      <3>1. challenge[n] = None /\ assertion[n] = None
        BY <2>2 DEF Spending
      <3>2. ~(StoreAssertion(c) /\ n = req[c].ch)
        BY <2>2 DEF Spending, Factor, StoreAssertion, At
      <3>3. MakeChallenge(c) /\ n = req[c].n
        BY <1>5, <3>1, <3>2, StepFactors
      <3>4. req'[c] = Idle /\ n \in 1 .. made
        BY <1>1, <3>3, Ends DEF MakeChallenge, Types, Requests, Planned
      <3>5. \A d \in Caller : req'[d] # Idle => req'[d].n # n
        BY <1>1, <3>3, <3>4 DEF Alone, Moved, Others
      <3> QED BY <1>1, <3>4, <3>5 DEF Old
    <2> QED BY <2>1, <2>2
  <1>6. ASSUME NEW n \in consumed'
        PROVE  Spent(n)'
    <2>1. CASE n \in consumed
      BY <1>2, <2>1 DEF Spending, Spent
    <2>2. CASE n \notin consumed
      <3>1. StoreAccess(c) /\ req[c].mfa /\ req[c].ch # None /\ n = req[c].ch
        BY <1>6, <2>2, StepConsumed
      <3>2. "access" \in Pcs /\ At(c, "access")
        BY <3>1 DEF StoreAccess, Pcs
      <3>3. req[c].pc = "access" /\ req[c].op \in {"login", "verify", "finish", "stepUp", "renew"}
        BY <3>2, Awaits DEF Types, Busy, Placed, Minted
      <3>4. Spent(n)
        BY <3>1, <3>3 DEF Spending, Factor, Minted
      <3> QED BY <1>2, <3>4 DEF Spent
    <2> QED BY <2>1, <2>2
  <1> QED BY <1>4, <1>5, <1>6 DEF Spending

(* A new request has no second factor yet, and if the challenge it names is *)
(* spent it is past nothing that asks for one.                              *)
LEMMA AskedFactor ==
    ASSUME Types, Spending, NEW c \in Caller, Ask(c)
    PROVE  \E r \in Request : Asked(c, r) /\ Factor(req'[c])
  <1>a. Requests /\ World
    BY DEF Types
  <1>1. CASE \E a \in Agent : AskPreflight(c, a)
    <2>1. PICK a \in Agent : AskPreflight(c, a)
      BY <1>1
    <2>2. PICK r \in Request : /\ Start(c, r) /\ Busy(r) /\ Has(r, None, "preflight", FALSE)
                            /\ For(r, a, None, IF blocked[a] THEN "count" ELSE "look")
      BY <1>a, <2>1, AskPreflightStarts
    <2>3. Asked(c, r)
      BY <1>a, <2>2, Starts
    <2>4. req'[c].op = "preflight" /\ req'[c].pc \in {"count", "look"}
      BY <2>2, <2>3 DEF Asked, Has, For
    <2> QED BY <2>3, <2>4 DEF Asked, Factor, Clearing, Asserting, Minted
  <1>2. CASE \E a \in Agent, ch \in {None} \cup 1 .. made : AskLogin(c, a, ch)
    <2>1. PICK a \in Agent, ch \in {None} \cup 1 .. made : AskLogin(c, a, ch)
      BY <1>2
    <2>2. PICK r \in Request : Start(c, r) /\ Busy(r) /\ r.op = "login" /\ r.mfa = FALSE /\ r.ch = ch /\ r.pc = "recheck"
                            /\ (r.stale <=> ch \in consumed)
      BY <1>a, <2>1, AskLoginStarts DEF Has, For
    <2>3. Asked(c, r)
      BY <1>a, <2>2, Starts
    <2>4. /\ req'[c].op = "login" /\ req'[c].pc = "recheck" /\ req'[c].mfa = FALSE
          /\ req'[c].stale => req'[c].ch \in consumed
      BY <2>2, <2>3 DEF Asked
    <2> QED BY <2>3, <2>4 DEF Asked, Factor, Clearing, Asserting, Minted
  <1>3. CASE \E ch \in 1 .. made : AskVerify(c, ch)
    <2>1. PICK ch \in 1 .. made : AskVerify(c, ch)
      BY <1>3
    <2>2. PICK r \in Request : Start(c, r) /\ Busy(r) /\ r.op = "verify" /\ r.mfa = FALSE /\ r.ch = ch /\ r.pc = "get"
                            /\ (r.stale <=> ch \in consumed)
      BY <1>a, <2>1, AskVerifyStarts DEF Has, For
    <2>3. Asked(c, r)
      BY <1>a, <2>2, Starts
    <2>4. /\ req'[c].op = "verify" /\ req'[c].pc = "get" /\ req'[c].mfa = FALSE
          /\ req'[c].stale => req'[c].ch \in consumed
      BY <2>2, <2>3 DEF Asked
    <2> QED BY <2>3, <2>4 DEF Asked, Factor, Clearing, Asserting, Minted
  <1>4. CASE \E ch \in 1 .. made : AskBegin(c, ch)
    <2>1. PICK ch \in 1 .. made : AskBegin(c, ch)
      BY <1>4
    <2>2. PICK r \in Request : Start(c, r) /\ Busy(r) /\ r.op = "begin" /\ r.ch = ch /\ r.pc = "ask"
      BY <1>a, <2>1, AskBeginStarts DEF Has, For
    <2>3. Asked(c, r)
      BY <1>a, <2>2, Starts
    <2>4. req'[c].op = "begin" /\ req'[c].pc = "ask" /\ req'[c].ch = ch
      BY <2>2, <2>3 DEF Asked
    <2>5. Old(ch)
      BY <1>a, <2>1, Constants DEF AskBegin, Spending, World, Serial
    <2> QED BY <2>3, <2>4, <2>5 DEF Asked, Factor, Clearing, Asserting, Minted
  <1>5. CASE \E ch \in 1 .. made : AskFinish(c, ch)
    <2>1. PICK ch \in 1 .. made : AskFinish(c, ch)
      BY <1>5
    <2>2. PICK r \in Request : Start(c, r) /\ Busy(r) /\ r.op = "finish" /\ r.ch = ch
                            /\ r.pc = (IF assertion[ch] = None THEN "count" ELSE "assert")
      BY <1>a, <2>1, AskFinishStarts DEF Has, For
    <2>3. Asked(c, r)
      BY <1>a, <2>2, Starts
    <2>4. /\ req'[c].op = "finish" /\ req'[c].ch = ch
          /\ req'[c].pc = (IF assertion[ch] = None THEN "count" ELSE "assert")
      BY <2>2, <2>3 DEF Asked
    <2>5. assertion[ch] # None => Old(ch)
      BY <1>a, Constants DEF Spending, World, Serial
    <2> QED BY <2>3, <2>4, <2>5 DEF Asked, Factor, Clearing, Asserting, Minted
  <1>6. CASE \E n \in 1 .. made : AskStepUp(c, n)
    <2>1. PICK n \in 1 .. made : AskStepUp(c, n)
      BY <1>6
    <2>2. PICK r \in Request : Start(c, r) /\ Busy(r) /\ r.op = "stepUp" /\ r.ch = None
                            /\ r.pc = (IF agent[access[n].agent].otp THEN "mint" ELSE "enter")
      BY <1>a, <2>1, AskStepUpStarts DEF Has, For
    <2>3. Asked(c, r)
      BY <1>a, <2>2, Starts
    <2>4. req'[c].op = "stepUp" /\ req'[c].ch = None /\ req'[c].pc \in {"mint", "enter"}
      BY <2>2, <2>3 DEF Asked
    <2> QED BY <2>3, <2>4 DEF Asked, Factor, Clearing, Asserting, Minted
  <1>7. CASE \E n \in 1 .. made : AskRenew(c, n)
    <2>1. PICK n \in 1 .. made : AskRenew(c, n)
      BY <1>7
    <2>2. PICK r \in Request : Start(c, r) /\ Busy(r) /\ r.op = "renew" /\ r.ch = None /\ r.pc = "ttl"
      BY <1>a, <2>1, AskRenewStarts DEF Has, For
    <2>3. Asked(c, r)
      BY <1>a, <2>2, Starts
    <2>4. req'[c].op = "renew" /\ req'[c].ch = None /\ req'[c].pc = "ttl"
      BY <2>2, <2>3 DEF Asked
    <2> QED BY <2>3, <2>4 DEF Asked, Factor, Clearing, Asserting, Minted
  <1>8. CASE \E n \in 1 .. made : AskLogout(c, n)
    <2>1. PICK n \in 1 .. made : AskLogout(c, n)
      BY <1>8
    <2>2. PICK r \in Request : Start(c, r) /\ Busy(r) /\ r.op = "logout" /\ r.ch = None /\ r.pc = "delAccess"
      BY <1>a, <2>1, AskLogoutStarts DEF Has, For
    <2>3. Asked(c, r)
      BY <1>a, <2>2, Starts
    <2>4. req'[c].op = "logout" /\ req'[c].pc = "delAccess"
      BY <2>2, <2>3 DEF Asked
    <2> QED BY <2>3, <2>4 DEF Asked, Factor, Clearing, Asserting, Minted
  <1> QED BY <1>1, <1>2, <1>3, <1>4, <1>5, <1>6, <1>7, <1>8 DEF Ask

(* A new request takes a new name, and leaves what is stored alone.         *)
LEMMA SpendingAsk ==
    ASSUME Types, Spending, NEW c \in Caller, Ask(c)
    PROVE  Spending'
  <1>1. PICK r \in Request : Asked(c, r) /\ Factor(req'[c])
    BY AskedFactor
  <1>2. UNCHANGED <<challenge, assertion, consumed>>
    BY AskAsked DEF Types
  <1>3. made \in Nat /\ made' = made + 1 /\ req'[c].n = made + 1
    BY <1>1, Constants DEF Asked, Types, World
  <1>4. ASSUME NEW n, Old(n)
        PROVE  Old(n)'
    BY <1>1, <1>3, <1>4 DEF Asked, Others, Old
  <1>5. ASSUME NEW d \in Caller
        PROVE  Factor(req[d])'
    <2>1. Factor(req'[d])
      BY <1>1 DEF Asked, Others, Spending
    <2>2. PICK n : n = req'[d].ch
      OBVIOUS
    <2>3. (Old(n) => Old(n)') /\ (Spent(n) => Spent(n)')
      BY <1>2, <1>4 DEF Spent
    <2> QED BY <1>2, <2>1, <2>2, <2>3 DEF Factor, Old, Spent
  <1>6. \A n \in Serial : challenge'[n] # None \/ assertion'[n] # None => Old(n)'
    BY <1>2, <1>4 DEF Spending
  <1>7. \A n \in consumed' : Spent(n)'
    BY <1>2, <1>4 DEF Spending, Spent
  <1> QED BY <1>5, <1>6, <1>7 DEF Spending

LEMMA SpendingOther ==
    ASSUME Types, Spending, Expiry \/ (\E a \in Agent : EditAgent(a)) \/ UNCHANGED vars
    PROVE  Spending'
  <1>1. UNCHANGED <<req, made, consumed>>
    BY DEF Expiry, AccessExpires, RefreshExpires, ChallengeExpires, AssertionExpires, WindowEnds,
       BlockEnds, EditAgent, world, vars
  <1>2. /\ \A n \in Serial : challenge'[n] \in {challenge[n], None}
        /\ \A n \in Serial : assertion'[n] \in {assertion[n], None}
    <2>1. CASE \E n \in Serial : ChallengeExpires(n) \/ AssertionExpires(n)
      BY <2>1 DEF ChallengeExpires, AssertionExpires, Types, World
    <2>2. CASE UNCHANGED <<challenge, assertion>>
      BY <2>2
    <2> QED BY <2>1, <2>2 DEF Expiry, AccessExpires, RefreshExpires, WindowEnds, BlockEnds,
               EditAgent, vars, factors
  <1>3. ASSUME NEW n, Old(n)
        PROVE  Old(n)' /\ (Spent(n) => Spent(n)')
    <2>1. n \in Serial
      BY <1>3, Constants DEF Old, Types, World, Serial
    <2> QED BY <1>1, <1>2, <1>3, <2>1 DEF Old, Spent
  <1>4. ASSUME NEW d \in Caller
        PROVE  Factor(req[d])'
    <2>1. Factor(req[d]) /\ req'[d] = req[d]
      BY <1>1 DEF Spending
    <2>2. PICK n : n = req[d].ch
      OBVIOUS
    <2>3. (Old(n) => Old(n)') /\ (Spent(n) => Spent(n)')
      BY <1>3 DEF Spent
    <2> QED BY <1>1, <2>1, <2>2, <2>3 DEF Factor, Old, Spent
  <1>5. \A n \in Serial : challenge'[n] # None \/ assertion'[n] # None => Old(n)'
    BY <1>2, <1>3 DEF Spending
  <1>6. \A n \in consumed' : Spent(n)'
    BY <1>1, <1>3 DEF Spending, Spent
  <1> QED BY <1>4, <1>5, <1>6 DEF Spending

(* A challenge for which a session was answered with a second factor serves *)
(* no request that starts later, however logins, codes, assertions and      *)
(* their expiry overlap: it was deleted before the session was stored, and  *)
(* its name is never used again (verifyTotpChallenge).                      *)
THEOREM ChallengeUsedOnce == Spec => []ChallengeOnce
  <1> DEFINE Inv == Types /\ Ending /\ Spending
  <1>1. Init => Inv
    <2>1. SUFFICES ASSUME Init PROVE Spending
      BY TypesInit, EndingInit
    <2>2. None \notin Pcs /\ None \notin Kinds
      BY Constants
    <2> QED BY <2>1, <2>2, IdleOK
        DEF Init, Spending, Factor, Clearing, Asserting, Minted, Pcs, Kinds
  <1>2. Inv /\ [Next]_vars => Inv'
    <2>1. SUFFICES ASSUME Inv, [Next]_vars PROVE Ending' /\ Spending'
      BY TypesNext
    <2>2. CASE \E c \in Caller : Ask(c) \/ Step(c)
      <3>1. Alone
        BY <2>1 DEF Ending
      <3> QED BY <2>1, <2>2, <3>1, EndingAsk, EndingStep, SpendingAsk, SpendingStep
    <2>3. CASE Expiry \/ (\E a \in Agent : EditAgent(a)) \/ UNCHANGED vars
      BY <2>1, <2>3, EndingOther, SpendingOther
    <2> QED BY <2>1, <2>2, <2>3 DEF Next
  <1>3. Inv => ChallengeOnce
    BY DEF Spending, Factor, ChallengeOnce
  <1> QED BY <1>1, <1>2, <1>3, PTL DEF Spec

-----------------------------------------------------------------------------
(* The login, the preflight and the step-up implement Throttle.             *)

Watch == [c \in Caller |-> Place(req[c])]
Ours == <<fails[Watched], window[Watched], blocked[Watched], tries[Watched]>>
Quiet == Watch' = Watch /\ UNCHANGED Ours

(* A request on the counters of the watched agent.                          *)
Seen(c) == req[c].key = Watched

LEMMA Untouched ==
    ASSUME UNCHANGED counters
    PROVE  UNCHANGED Ours
  <1>1. fails' = fails /\ window' = window /\ blocked' = blocked /\ tries' = tries
    BY DEF counters
  <1> QED BY <1>1, Zenon DEF Ours

LEMMA PlaceIs ==
    ASSUME NEW r
    PROVE  /\ r.key # Watched => Place(r) = "out"
           /\ r.pc \notin {"recheck", "look", "password", "clear", "count", "window", "block", "lift"}
              => Place(r) = "out"
           /\ r.key = Watched =>
                /\ r.pc \in {"recheck", "look"} => Place(r) = "in"
                /\ r.pc \in {"password", "clear"} => Place(r) = "trying"
                /\ r.pc = "count" => Place(r) = IF r.doc = None THEN "knock" ELSE "trying"
                /\ r.pc = "window" => Place(r) = "window"
                /\ r.pc = "block" => Place(r) = "block"
                /\ r.pc = "lift" => Place(r) = "lift"
  BY DEF Place

LEMMA IdlePlace == Place(Idle) = "out"
  BY IdleOK, Constants, PlaceIs

LEMMA WatchMoves ==
    ASSUME NEW c \in Caller, Others(c)
    PROVE  Watch' = [Watch EXCEPT ![c] = Place(req'[c])] /\ T!Move(c, Place(req'[c]))
  <1>1. Watch' = [Watch EXCEPT ![c] = Place(req'[c])]
    BY DEF Watch, Others
  <1> QED BY <1>1 DEF T!Move, Watch

LEMMA WatchStays ==
    ASSUME NEW c \in Caller, Others(c), Place(req'[c]) = Place(req[c])
    PROVE  Watch' = Watch
  BY DEF Watch, Others

(* The counters of another key, or none.                                    *)
LEMMA Unseen ==
    ASSUME Types, NEW c \in Caller, Step(c), ~Seen(c)
    PROVE  Quiet
  <1>1. Moved(c)
    BY StepTypes
  <1>2. Place(req[c]) = "out" /\ Place(req'[c]) = "out"
    <2>1. CASE req'[c] = Idle
      BY <2>1, IdlePlace, PlaceIs DEF Seen
    <2>2. CASE req'[c].key = req[c].key \/ req'[c].key \in Serial
      BY <2>2, PlaceIs, Constants DEF Seen
    <2> QED BY <1>1, <2>1, <2>2 DEF Moved
  <1>3. Watch' = Watch
    BY <1>1, <1>2, WatchStays DEF Moved
  <1>4. /\ fails \in [Key -> Nat] /\ tries \in [Agent -> Nat] /\ Watched \in Key /\ Watched \in Agent
        /\ window \in [Key -> BOOLEAN] /\ blocked \in [Key -> BOOLEAN]
    BY Constants DEF Types, Counters
  <1>5. CASE UNCHANGED counters
    BY <1>3, <1>5, Untouched DEF Quiet
  <1>6. CASE Look(c) \/ InactivePreflight(c)
    <2>1. req[c].agent # Watched
      BY <1>6, Awaits DEF Look, InactivePreflight, Types, Pcs, Busy, Holds, Entering, Seen
    <2>2. tries'[Watched] = tries[Watched]
      BY <1>4, <1>6, <2>1 DEF Look, InactivePreflight
    <2>3. fails' = fails /\ window' = window /\ blocked' = blocked
      BY <1>6 DEF Look, InactivePreflight
    <2> QED BY <1>3, <2>2, <2>3, Zenon DEF Quiet, Ours
  <1>7. CASE Count(c) \/ SetWindow(c) \/ SetBlock(c) \/ ClearCounter(c) \/ LiftBlock(c)
    <2>1. fails'[Watched] = fails[Watched]
      BY <1>4, <1>7 DEF Count, SetWindow, SetBlock, ClearCounter, LiftBlock, Seen
    <2>2. tries'[Watched] = tries[Watched]
      BY <1>4, <1>7 DEF Count, SetWindow, SetBlock, ClearCounter, LiftBlock, Seen
    <2>3. blocked'[Watched] = blocked[Watched]
      BY <1>4, <1>7 DEF Count, SetWindow, SetBlock, ClearCounter, LiftBlock, Seen
    <2>4. window'[Watched] = window[Watched]
      <3>1. \/ window' = window
            \/ window' = [window EXCEPT ![req[c].key] = fails[req[c].key] > 0]
            \/ window' = [window EXCEPT ![req[c].key] = FALSE]
        BY <1>7 DEF Count, SetWindow, SetBlock, ClearCounter, LiftBlock
      <3> QED BY <1>4, <3>1, Zenon DEF Seen
    <2> QED BY <1>3, <2>1, <2>2, <2>3, <2>4, Zenon DEF Quiet, Ours
  <1> QED
    BY <1>5, <1>6, <1>7
    DEF Step, Recheck, WrongPassword, RightPassword, MakeChallenge, Gate, GetChallenge, NoCode,
        WrongCode, RightCode, ConsumeChallenge, StoreAssertion, WrongAssertion, RightAssertion,
        WriteSignCount, DropAssertion, DropChallenge, StoreRefresh, ExpireRefresh, StoreAccess,
        DeleteAccess, DeleteRefresh

(* The second factor and the session, after the counters of the agent.      *)
LEMMA SeenPast ==
    ASSUME Types, NEW c \in Caller, Step(c), Seen(c),
           req[c].pc \notin {"recheck", "enter", "look", "password", "clear", "count", "window",
                           "block", "lift"}
    PROVE  Quiet
  <1>1. Moved(c) /\ Place(req[c]) = "out"
    BY StepTypes, PlaceIs
  <1>2. \A p \in Coding \cup Asserting : ~At(c, p)
    BY Awaits, Constants DEF Coding, Asserting, Pcs, Types, Busy, Holds, Seen
  <1>3. /\ MakeChallenge(c) \/ Gate(c) \/ StoreAssertion(c) \/ StoreRefresh(c) \/ ExpireRefresh(c)
           \/ StoreAccess(c) \/ DeleteAccess(c) \/ DeleteRefresh(c)
    <2>1. /\ ~Recheck(c) /\ ~Look(c) /\ ~WrongPassword(c) /\ ~RightPassword(c)
          /\ ~InactivePreflight(c) /\ ~Count(c) /\ ~SetWindow(c) /\ ~SetBlock(c)
          /\ ~ClearCounter(c) /\ ~LiftBlock(c)
      BY DEF Recheck, Look, WrongPassword, RightPassword, InactivePreflight, Count, SetWindow,
         SetBlock, ClearCounter, LiftBlock, At
    <2>2. /\ ~GetChallenge(c) /\ ~NoCode(c) /\ ~WrongCode(c) /\ ~RightCode(c)
          /\ ~ConsumeChallenge(c) /\ ~WrongAssertion(c) /\ ~RightAssertion(c)
          /\ ~WriteSignCount(c) /\ ~DropAssertion(c) /\ ~DropChallenge(c)
      BY <1>2 DEF GetChallenge, NoCode, WrongCode, RightCode, ConsumeChallenge, WrongAssertion,
         RightAssertion, WriteSignCount, DropAssertion, DropChallenge, Coding, Asserting
    <2> QED BY <2>1, <2>2 DEF Step
  <1>4. Place(req'[c]) = "out"
    <2>1. CASE End(c)
      BY <2>1, EndsMoved, IdlePlace DEF Types
    <2>2. CASE Gate(c) /\ ~End(c)
      <3>1. req[c].ch \in Serial /\ req[c] \in Request
        BY <2>2, Awaits DEF Gate, Pcs, Types, Busy, Holds
      <3>2. req' = [req EXCEPT ![c] = [req[c] EXCEPT !.pc = "get", !.key = req[c].ch]]
        BY <2>2 DEF Gate, Types, Requests
      <3>3. req'[c].key = req[c].ch
        BY <3>1, <3>2 DEF Types, Requests, Request
      <3> QED BY <3>1, <3>3, PlaceIs, Constants
    <2>3. CASE StoreRefresh(c)
      BY <2>3, StoredSession, PlaceIs DEF Types
    <2>4. CASE Go(c, "access")
      <3>1. req'[c].pc = "access"
        BY <2>4, Goes DEF Types, Requests, Pcs
      <3> QED BY <3>1, PlaceIs
    <2>5. CASE Go(c, "delRefresh")
      <3>1. req'[c].pc = "delRefresh"
        BY <2>5, Goes DEF Types, Requests, Pcs
      <3> QED BY <3>1, PlaceIs
    <2> QED BY <1>3, <2>1, <2>2, <2>3, <2>4, <2>5
            DEF MakeChallenge, StoreAssertion, ExpireRefresh, StoreAccess, DeleteAccess, DeleteRefresh
  <1>5. UNCHANGED counters
    BY <1>3 DEF MakeChallenge, Gate, StoreAssertion, StoreRefresh, ExpireRefresh, StoreAccess,
       DeleteAccess, DeleteRefresh
  <1> QED BY <1>1, <1>4, <1>5, WatchStays, Untouched DEF Quiet, Moved

(* The block is read, the password looked at.                               *)
LEMMA SeenEntering ==
    ASSUME Types, NEW c \in Caller, Step(c), Seen(c), req[c].pc \in Entering
    PROVE  T!Next \/ Quiet
  <1>0. /\ fails \in [Key -> Nat] /\ tries \in [Agent -> Nat] /\ Watched \in Key /\ Watched \in Agent
        /\ window \in [Key -> BOOLEAN] /\ blocked \in [Key -> BOOLEAN]
    BY Constants DEF Types, Counters
  <1>1. Watch[c] = Place(req[c]) /\ Moved(c) /\ Others(c) /\ req[c].agent = Watched
        /\ req \in [Caller -> Request] /\ req[c] \in Request
    <2>1. \E p \in Pcs : At(c, p)
      BY DEF Entering, At, Pcs
    <2> QED BY <2>1, Awaits, StepTypes DEF Watch, Moved, Types, Requests, Busy, Holds, Seen
  <1>2. ASSUME NEW q \in Pcs, Go(c, q)
        PROVE  req'[c].pc = q /\ req'[c].key = Watched /\ req'[c].doc = req[c].doc
    BY <1>1, <1>2, Goes DEF Seen
  <1>3. End(c) => req'[c] = Idle
    BY <1>1, Ends
  <1>4. T!Move(c, Place(req'[c]))
    BY <1>1, WatchMoves
  <1>5. CASE Recheck(c)
    <2>1. req[c].pc \in {"recheck", "enter"} /\ UNCHANGED Ours
      BY <1>5, Untouched DEF Recheck
    <2>2. CASE blocked[Watched]
      <3>1. Place(req'[c]) = "out"
        BY <1>3, <1>5, <2>2, IdlePlace DEF Recheck, Seen
      <3>2. CASE req[c].pc = "recheck"
        <4>1. Place(req[c]) = "in"
          BY <3>2, PlaceIs DEF Seen
        <4>2. T!Leave(c)
          BY <1>1, <1>4, <2>1, <3>1, <4>1 DEF T!Leave, Ours, Watch
        <4> QED BY <4>2 DEF T!Next
      <3>3. CASE req[c].pc = "enter"
        <4>1. Place(req[c]) = "out"
          BY <3>3, PlaceIs
        <4> QED BY <1>1, <2>1, <3>1, <4>1, WatchStays DEF Quiet
      <3> QED BY <2>1, <3>2, <3>3
    <2>3. CASE ~blocked[Watched]
      <3>1. Go(c, "look") /\ "look" \in Pcs
        BY <1>5, <2>3 DEF Recheck, Seen, Pcs
      <3>2. Place(req'[c]) = "in"
        BY <1>2, <3>1, PlaceIs
      <3>3. CASE req[c].pc = "recheck"
        <4>1. Place(req[c]) = "in"
          BY <3>3, PlaceIs DEF Seen
        <4> QED BY <1>1, <2>1, <3>2, <4>1, WatchStays DEF Quiet
      <3>4. CASE req[c].pc = "enter"
        <4>1. Place(req[c]) = "out"
          BY <3>4, PlaceIs
        <4>2. T!Enter(c)
          BY <1>1, <1>4, <2>1, <2>3, <3>2, <4>1 DEF T!Enter, Ours, Watch
        <4> QED BY <4>2 DEF T!Next
      <3> QED BY <2>1, <3>3, <3>4
    <2> QED BY <2>2, <2>3
  <1>6. CASE Look(c)
    <2>1. Place(req[c]) = "in"
      BY <1>6, PlaceIs DEF Look, At, Seen
    <2>2. req'[c].pc = "password" /\ req'[c].key = Watched
      <3>1. req' = [req EXCEPT ![c] = [req[c] EXCEPT !.pc = "password", !.doc = agent[req[c].agent]]]
        BY <1>1, <1>6 DEF Look
      <3> QED BY <1>1, <3>1 DEF Request, Seen
    <2>3. Place(req'[c]) = "trying"
      BY <2>2, PlaceIs
    <2>4. tries'[Watched] = tries[Watched] + 1
      BY <1>0, <1>1, <1>6 DEF Look
    <2>5. fails' = fails /\ window' = window /\ blocked' = blocked
      BY <1>6 DEF Look
    <2>6. T!Try(c)
      BY <1>1, <1>4, <2>1, <2>3, <2>4, <2>5 DEF T!Try, Watch
    <2> QED BY <2>6 DEF T!Next
  <1>7. CASE WrongPassword(c) \/ RightPassword(c)
    <2>1. Place(req[c]) = "trying" /\ req[c].doc # None
      <3>1. At(c, "password") /\ "password" \in Pcs
        BY <1>7 DEF WrongPassword, RightPassword, Pcs
      <3>2. req[c].doc \in Doc
        BY <3>1, Awaits DEF Types, Busy, Holds
      <3> QED BY <3>1, <3>2, PlaceIs, Constants DEF At, Seen
    <2>2. UNCHANGED Ours /\ (Go(c, "count") \/ Go(c, "clear")) /\ "count" \in Pcs /\ "clear" \in Pcs
      BY <1>7, Untouched DEF WrongPassword, RightPassword, Pcs
    <2>3. Place(req'[c]) = "trying"
      BY <1>2, <2>1, <2>2, PlaceIs
    <2> QED BY <1>1, <2>1, <2>2, <2>3, WatchStays DEF Quiet
  <1>8. CASE InactivePreflight(c)
    <2>1. Place(req[c]) = "trying"
      BY <1>8, PlaceIs DEF InactivePreflight, At, Seen
    <2>2. Place(req'[c]) = "out"
      BY <1>3, <1>8, IdlePlace DEF InactivePreflight
    <2>3. tries'[Watched] = IF tries[Watched] = 0 THEN 0 ELSE tries[Watched] - 1
      BY <1>0, <1>1, <1>8 DEF InactivePreflight
    <2>4. fails' = fails /\ window' = window /\ blocked' = blocked
      BY <1>8 DEF InactivePreflight
    <2>5. T!Excuse(c)
      BY <1>1, <1>4, <2>1, <2>2, <2>3, <2>4 DEF T!Excuse, Watch
    <2> QED BY <2>5 DEF T!Next
  <1> QED
    BY <1>5, <1>6, <1>7, <1>8
    DEF Step, Count, SetWindow, SetBlock, ClearCounter, LiftBlock, MakeChallenge, Gate,
        GetChallenge, NoCode, WrongCode, RightCode, ConsumeChallenge, StoreAssertion, WrongAssertion,
        RightAssertion, WriteSignCount, DropAssertion, DropChallenge, StoreRefresh, ExpireRefresh,
        StoreAccess, DeleteAccess, DeleteRefresh, At, Entering

(* The failure is counted, or the counter and the block are cleared.        *)
LEMMA SeenCounting ==
    ASSUME Types, NEW c \in Caller, Step(c), Seen(c), req[c].pc \in Counting \cup Clearing
    PROVE  T!Next
  <1>0. /\ fails \in [Key -> Nat] /\ tries \in [Agent -> Nat] /\ Watched \in Key /\ Watched \in Agent
        /\ window \in [Key -> BOOLEAN] /\ blocked \in [Key -> BOOLEAN] /\ Threshold \in Nat
        /\ Threshold >= 2
    BY Constants DEF Types, Counters
  <1>1. Watch[c] = Place(req[c]) /\ Moved(c) /\ Others(c)
        /\ req \in [Caller -> Request] /\ req[c] \in Request
    <2>1. \E p \in Pcs : At(c, p)
      BY DEF Counting, Clearing, At, Pcs
    <2> QED BY <2>1, Awaits, StepTypes DEF Watch, Moved, Types, Requests
  <1>2. ASSUME NEW q \in Pcs, Go(c, q)
        PROVE  req'[c].pc = q /\ req'[c].key = Watched
    BY <1>1, <1>2, Goes DEF Seen
  <1>3. End(c) => req'[c] = Idle
    BY <1>1, Ends
  <1>4. T!Move(c, Place(req'[c]))
    BY <1>1, WatchMoves
  <1>5. CASE Count(c)
    <2> DEFINE n == fails[Watched] + 1
    <2>1. Place(req[c]) \in {"trying", "knock"}
      BY <1>5, PlaceIs DEF Count, At, Seen
    <2>2. n \in Nat /\ fails'[Watched] = n /\ window' = window /\ blocked' = blocked /\ tries' = tries
      BY <1>0, <1>5 DEF Count, Seen
    <2>3. /\ n = 1 => Go(c, "window")
          /\ n # 1 /\ n < Threshold => End(c)
          /\ n # 1 /\ ~(n < Threshold) => Go(c, "block")
      BY <1>5 DEF Count, Seen
    <2>4. Place(req'[c]) = T!Counted(n)
      <3>1. CASE n = 1
        <4>1. req'[c].pc = "window" /\ req'[c].key = Watched
          BY <1>2, <2>3, <3>1 DEF Pcs
        <4> QED BY <3>1, <4>1, PlaceIs DEF T!Counted
      <3>2. CASE n # 1 /\ n < Threshold
        BY <1>3, <2>3, <3>2, IdlePlace DEF T!Counted
      <3>3. CASE n # 1 /\ ~(n < Threshold)
        <4>1. req'[c].pc = "block" /\ req'[c].key = Watched
          BY <1>2, <2>3, <3>3 DEF Pcs
        <4> QED BY <3>3, <4>1, PlaceIs DEF T!Counted
      <3> QED BY <3>1, <3>2, <3>3
    <2>5. T!Count(c)
      BY <1>1, <1>4, <2>1, <2>2, <2>4 DEF T!Count, Watch
    <2> QED BY <2>5 DEF T!Next
  <1>6. CASE SetWindow(c)
    <2>1. Place(req[c]) = "window"
      BY <1>6, PlaceIs DEF SetWindow, At, Seen
    <2>2. Place(req'[c]) = "out"
      BY <1>3, <1>6, IdlePlace DEF SetWindow
    <2>3. window'[Watched] = (fails[Watched] > 0)
      <3>1. window' = [window EXCEPT ![Watched] = fails[Watched] > 0]
        BY <1>6 DEF SetWindow, Seen
      <3> QED BY <1>0, <3>1, Zenon
    <2>4. fails' = fails /\ blocked' = blocked /\ tries' = tries
      BY <1>6 DEF SetWindow
    <2>5. T!Move(c, IF Threshold <= 1 THEN "block" ELSE "out")
      BY <1>0, <1>4, <2>2
    <2>6. T!SetWindow(c)
      BY <1>1, <2>1, <2>3, <2>4, <2>5 DEF T!SetWindow, Watch
    <2> QED BY <2>6 DEF T!Next
  <1>7. CASE SetBlock(c)
    <2>1. Place(req[c]) = "block"
      BY <1>7, PlaceIs DEF SetBlock, At, Seen
    <2>2. Place(req'[c]) = "out"
      BY <1>3, <1>7, IdlePlace DEF SetBlock
    <2>3. blocked'[Watched] = TRUE /\ fails' = fails /\ window' = window /\ tries' = tries
      BY <1>0, <1>7 DEF SetBlock, Seen
    <2>4. T!Block(c)
      BY <1>1, <1>4, <2>1, <2>2, <2>3 DEF T!Block, Watch
    <2> QED BY <2>4 DEF T!Next
  <1>8. CASE ClearCounter(c)
    <2>1. Place(req[c]) = "trying"
      BY <1>8, PlaceIs DEF ClearCounter, At, Seen
    <2>2. Place(req'[c]) = "lift"
      <3>1. req'[c].pc = "lift" /\ req'[c].key = Watched
        BY <1>2, <1>8 DEF ClearCounter, Pcs
      <3> QED BY <3>1, PlaceIs
    <2>3. window'[Watched] = FALSE /\ fails'[Watched] = 0 /\ tries'[Watched] = 0 /\ blocked' = blocked
      BY <1>0, <1>8 DEF ClearCounter, Seen
    <2>4. T!Clear(c)
      BY <1>1, <1>4, <2>1, <2>2, <2>3 DEF T!Clear, Watch
    <2> QED BY <2>4 DEF T!Next
  <1>9. CASE LiftBlock(c)
    <2>1. Place(req[c]) = "lift"
      BY <1>9, PlaceIs DEF LiftBlock, At, Seen
    <2>2. Place(req'[c]) = "out"
      <3>1. AfterPassword(c)
        BY <1>0, <1>9 DEF LiftBlock, Seen
      <3>2. \/ End(c) \/ Go(c, "challenge") \/ Go(c, "mint") \/ Go(c, "gate")
            \/ req' = [req EXCEPT ![c].pc = "mint", ![c].mfa = TRUE]
        BY <3>1 DEF AfterPassword
      <3>3. CASE End(c)
        BY <1>3, <3>3, IdlePlace
      <3>4. CASE Go(c, "challenge") \/ Go(c, "mint") \/ Go(c, "gate")
        <4>1. req'[c].pc \in {"challenge", "mint", "gate"}
          BY <1>2, <3>4 DEF Pcs
        <4> QED BY <4>1, PlaceIs
      <3>5. CASE req' = [req EXCEPT ![c].pc = "mint", ![c].mfa = TRUE]
        <4>1. req' = [req EXCEPT ![c] = [req[c] EXCEPT !.pc = "mint", !.mfa = TRUE]]
          BY <1>1, <3>5
        <4>2. req'[c].pc = "mint"
          BY <1>1, <4>1 DEF Request
        <4> QED BY <4>2, PlaceIs
      <3> QED BY <3>2, <3>3, <3>4, <3>5
    <2>3. blocked'[Watched] = FALSE /\ tries'[Watched] = 0 /\ fails' = fails /\ window' = window
      BY <1>0, <1>9 DEF LiftBlock, Seen
    <2>4. T!Lift(c)
      BY <1>1, <1>4, <2>1, <2>2, <2>3 DEF T!Lift, Watch
    <2> QED BY <2>4 DEF T!Next
  <1> QED
    BY <1>5, <1>6, <1>7, <1>8, <1>9
    DEF Step, Recheck, Look, WrongPassword, RightPassword, InactivePreflight, MakeChallenge, Gate,
        GetChallenge, NoCode, WrongCode, RightCode, ConsumeChallenge, StoreAssertion, WrongAssertion,
        RightAssertion, WriteSignCount, DropAssertion, DropChallenge, StoreRefresh, ExpireRefresh,
        StoreAccess, DeleteAccess, DeleteRefresh, At, Counting, Clearing

LEMMA AskPreflightDoc ==
    ASSUME Requests, World, NEW c \in Caller, NEW a \in Agent, AskPreflight(c, a)
    PROVE  req'[c].doc = None
  <1> DEFINE s == [[Idle EXCEPT !.op = "preflight", !.pc = IF blocked[a] THEN "count" ELSE "look",
                                !.agent = a, !.key = a] EXCEPT !.n = made + 1]
  <1>1. req' = [req EXCEPT ![c] = s]
    BY DEF AskPreflight, Start
  <1>2. s.doc = None
    BY DEF Idle
  <1> QED BY <1>1, <1>2 DEF Requests

(* A new request reads the block of its agent, or none.                     *)
LEMMA AskWatch ==
    ASSUME Types, NEW c \in Caller, Ask(c)
    PROVE  T!Next \/ Quiet
  <1>a. Requests /\ World
    BY DEF Types
  <1>b. UNCHANGED <<fails, window, blocked, tries>>
    BY <1>a, AskAsked
  <1>c. UNCHANGED Ours
    BY <1>b, Zenon DEF Ours
  <1>d. ASSUME NEW r \in Request, Asked(c, r)
        PROVE  Others(c) /\ T!Move(c, Place(req'[c])) /\ Place(req[c]) = "out" /\ Watch[c] = "out"
               /\ req'[c].key = r.key /\ req'[c].pc = r.pc /\ req'[c].doc = r.doc
    BY <1>d, WatchMoves, IdlePlace DEF Asked, Watch
  <1>e. ASSUME NEW r \in Request, Asked(c, r), Place(req'[c]) = "out"
        PROVE  Quiet
    BY <1>c, <1>d, <1>e, WatchStays DEF Quiet
  <1>1. CASE \E a \in Agent : AskPreflight(c, a)
    <2>1. PICK a \in Agent : AskPreflight(c, a)
      BY <1>1
    <2>2. PICK r \in Request : Start(c, r) /\ Busy(r) /\ r.key = a
                            /\ r.pc = (IF blocked[a] THEN "count" ELSE "look")
      BY <1>a, <2>1, AskPreflightStarts DEF For
    <2>3. Asked(c, r)
      BY <1>a, <2>2, Starts
    <2>4. req'[c].key = a /\ req'[c].pc = r.pc
      BY <1>d, <2>2, <2>3
    <2>5. CASE a # Watched
      BY <1>e, <2>3, <2>4, <2>5, PlaceIs
    <2>6. CASE a = Watched /\ ~blocked[a]
      <3>1. Place(req'[c]) = "in" /\ ~blocked[Watched]
        BY <2>1, <2>2, <2>4, <2>6, PlaceIs DEF AskPreflight
      <3>2. T!Enter(c)
        BY <1>c, <1>d, <2>3, <3>1 DEF T!Enter, Watch, Ours
      <3> QED BY <3>2 DEF T!Next
    <2>7. CASE a = Watched /\ blocked[a]
      <3>0. req'[c].doc = None
        BY <2>1, <2>7, AskPreflightDoc DEF Types
      <3>1. Place(req'[c]) = "knock" /\ blocked[Watched]
        BY <2>2, <2>4, <2>7, <3>0, PlaceIs
      <3>2. T!Knock(c)
        BY <1>c, <1>d, <2>3, <3>1 DEF T!Knock, Watch, Ours
      <3> QED BY <3>2 DEF T!Next
    <2> QED BY <2>5, <2>6, <2>7
  <1>2. CASE \E a \in Agent, ch \in {None} \cup 1 .. made : AskLogin(c, a, ch)
    <2>1. PICK a \in Agent, ch \in {None} \cup 1 .. made : AskLogin(c, a, ch)
      BY <1>2
    <2>2. PICK r \in Request : Start(c, r) /\ Busy(r) /\ r.key = a
                            /\ r.pc = "recheck"
      BY <1>a, <2>1, AskLoginStarts DEF For
    <2>3. Asked(c, r)
      BY <1>a, <2>2, Starts
    <2>4. req'[c].key = a /\ req'[c].pc = r.pc
      BY <1>d, <2>2, <2>3
    <2>5. CASE a # Watched
      BY <1>e, <2>3, <2>4, <2>5, PlaceIs
    <2>6. CASE a = Watched
      <3>1. Place(req'[c]) = "in" /\ ~blocked[Watched]
        BY <2>1, <2>2, <2>4, <2>6, PlaceIs DEF AskLogin
      <3>2. T!Enter(c)
        BY <1>c, <1>d, <2>3, <3>1 DEF T!Enter, Watch, Ours
      <3> QED BY <3>2 DEF T!Next
    <2> QED BY <2>5, <2>6
  <1>3. CASE \E ch \in 1 .. made : AskVerify(c, ch)
    <2>1. PICK ch \in 1 .. made : AskVerify(c, ch)
      BY <1>3
    <2>2. PICK r \in Request : Start(c, r) /\ Busy(r) /\ r.key = ch
      BY <1>a, <2>1, AskVerifyStarts DEF For
    <2>3. Asked(c, r)
      BY <1>a, <2>2, Starts
    <2>4. req'[c].key = ch /\ ch \in Serial
      BY <1>d, <2>2, <2>3, Constants DEF Types, World, Serial
    <2>5. ch # Watched
      BY <2>4, Constants
    <2> QED BY <1>e, <2>3, <2>4, <2>5, PlaceIs
  <1>4. CASE \E ch \in 1 .. made : AskBegin(c, ch)
    <2>1. PICK ch \in 1 .. made : AskBegin(c, ch)
      BY <1>4
    <2>2. PICK r \in Request : Start(c, r) /\ Busy(r) /\ r.key = None
      BY <1>a, <2>1, AskBeginStarts DEF For
    <2>3. Asked(c, r)
      BY <1>a, <2>2, Starts
    <2>4. req'[c].key = None
      BY <1>d, <2>2, <2>3
    <2> QED BY <1>e, <2>3, <2>4, PlaceIs, Constants
  <1>5. CASE \E ch \in 1 .. made : AskFinish(c, ch)
    <2>1. PICK ch \in 1 .. made : AskFinish(c, ch)
      BY <1>5
    <2>2. PICK r \in Request : Start(c, r) /\ Busy(r) /\ r.key = ch
      BY <1>a, <2>1, AskFinishStarts DEF For
    <2>3. Asked(c, r)
      BY <1>a, <2>2, Starts
    <2>4. req'[c].key = ch /\ ch \in Serial
      BY <1>d, <2>2, <2>3, Constants DEF Types, World, Serial
    <2>5. ch # Watched
      BY <2>4, Constants
    <2> QED BY <1>e, <2>3, <2>4, <2>5, PlaceIs
  <1>6. CASE \E n \in 1 .. made : AskStepUp(c, n)
    <2>1. PICK n \in 1 .. made : AskStepUp(c, n)
      BY <1>6
    <2>2. PICK r \in Request : Start(c, r) /\ Busy(r) /\ r.key = access[n].agent
                            /\ r.pc = (IF agent[access[n].agent].otp THEN "mint" ELSE "enter")
      BY <1>a, <2>1, AskStepUpStarts DEF For
    <2>3. Asked(c, r)
      BY <1>a, <2>2, Starts
    <2>4. req'[c].pc \in {"mint", "enter"}
      BY <1>d, <2>2, <2>3
    <2> QED BY <1>e, <2>3, <2>4, PlaceIs
  <1>7. CASE \E n \in 1 .. made : AskRenew(c, n)
    <2>1. PICK n \in 1 .. made : AskRenew(c, n)
      BY <1>7
    <2>2. PICK r \in Request : Start(c, r) /\ Busy(r) /\ r.key = None
      BY <1>a, <2>1, AskRenewStarts DEF For
    <2>3. Asked(c, r)
      BY <1>a, <2>2, Starts
    <2>4. req'[c].key = None
      BY <1>d, <2>2, <2>3
    <2> QED BY <1>e, <2>3, <2>4, PlaceIs, Constants
  <1>8. CASE \E n \in 1 .. made : AskLogout(c, n)
    <2>1. PICK n \in 1 .. made : AskLogout(c, n)
      BY <1>8
    <2>2. PICK r \in Request : Start(c, r) /\ Busy(r) /\ r.key = None
      BY <1>a, <2>1, AskLogoutStarts DEF For
    <2>3. Asked(c, r)
      BY <1>a, <2>2, Starts
    <2>4. req'[c].key = None
      BY <1>d, <2>2, <2>3
    <2> QED BY <1>e, <2>3, <2>4, PlaceIs, Constants
  <1> QED BY <1>1, <1>2, <1>3, <1>4, <1>5, <1>6, <1>7, <1>8 DEF Ask

(* The time of a key is over, an agent is edited, or nothing happens.       *)
LEMMA OtherWatch ==
    ASSUME Types, Expiry \/ (\E a \in Agent : EditAgent(a)) \/ UNCHANGED vars
    PROVE  T!Next \/ Quiet
  <1>1. Watch' = Watch
    <2>1. req' = req
      BY DEF Expiry, AccessExpires, RefreshExpires, ChallengeExpires, AssertionExpires, WindowEnds,
         BlockEnds, EditAgent, vars
    <2> QED BY <2>1 DEF Watch
  <1>2. /\ fails \in [Key -> Nat] /\ tries \in [Agent -> Nat] /\ Watched \in Key /\ Watched \in Agent
        /\ window \in [Key -> BOOLEAN] /\ blocked \in [Key -> BOOLEAN]
    BY Constants DEF Types, Counters
  <1>3. CASE UNCHANGED counters
    BY <1>1, <1>3, Untouched DEF Quiet
  <1>4. ASSUME NEW k \in Key, WindowEnds(k)
        PROVE  T!Next \/ Quiet
    <2>1. blocked' = blocked
      BY <1>4 DEF WindowEnds
    <2>2. CASE k # Watched
      <3>1. fails'[Watched] = fails[Watched] /\ tries'[Watched] = tries[Watched]
        BY <1>2, <1>4, <2>2 DEF WindowEnds
      <3>2. window'[Watched] = window[Watched]
        BY <1>2, <1>4, <2>2 DEF WindowEnds
      <3> QED BY <1>1, <2>1, <3>1, <3>2, Zenon DEF Quiet, Ours
    <2>3. CASE k = Watched
      <3>1. window[Watched] /\ fails'[Watched] = 0 /\ tries'[Watched] = 0 /\ window'[Watched] = FALSE
        BY <1>2, <1>4, <2>3 DEF WindowEnds
      <3>2. T!WindowEnds
        BY <1>1, <2>1, <3>1 DEF T!WindowEnds, Watch
      <3> QED BY <3>2 DEF T!Next
    <2> QED BY <2>2, <2>3
  <1>5. ASSUME NEW k \in Key, BlockEnds(k)
        PROVE  T!Next \/ Quiet
    <2>1. fails' = fails /\ window' = window
      BY <1>5 DEF BlockEnds
    <2>2. CASE k # Watched
      <3>1. blocked'[Watched] = blocked[Watched] /\ tries'[Watched] = tries[Watched]
        BY <1>2, <1>5, <2>2 DEF BlockEnds
      <3> QED BY <1>1, <2>1, <3>1, Zenon DEF Quiet, Ours
    <2>3. CASE k = Watched
      <3>1. blocked[Watched] /\ tries'[Watched] = 0 /\ blocked'[Watched] = FALSE
        BY <1>2, <1>5, <2>3 DEF BlockEnds
      <3>2. T!BlockEnds
        BY <1>1, <2>1, <3>1 DEF T!BlockEnds, Watch
      <3> QED BY <3>2 DEF T!Next
    <2> QED BY <2>2, <2>3
  <1> QED
    BY <1>3, <1>4, <1>5
    DEF Expiry, AccessExpires, RefreshExpires, ChallengeExpires, AssertionExpires, EditAgent, vars

(* The login, the preflight and the step-up keep the promise of Throttle    *)
(* for any agent and any number of requests, though the second factor shares *)
(* the keys' code, a preflight counts failures while the agent is blocked,  *)
(* and the block is read twice by a login and once by a step-up.            *)
THEOREM LoginThrottled == Spec => LoginIsThrottled
  <1>1. Init => T!Init
    <2> SUFFICES ASSUME Init PROVE T!Init
      OBVIOUS
    <2>1. [c \in Caller |-> Place(req[c])] = [c \in Caller |-> "out"]
      BY IdlePlace DEF Init
    <2>2. Watched \in Key /\ Watched \in Agent
      BY Constants
    <2> QED BY <2>1, <2>2 DEF Init, T!Init
  <1>2. Types /\ [Next]_vars => [T!Next]_(T!vars)
    <2> SUFFICES ASSUME Types, [Next]_vars
                 PROVE  T!Next \/ Quiet
      BY DEF T!vars, Watch, Ours, Quiet
    <2>1. ASSUME NEW c \in Caller, Step(c)
          PROVE  T!Next \/ Quiet
      <3>1. CASE ~Seen(c)
        BY <2>1, <3>1, Unseen
      <3>2. CASE Seen(c) /\ req[c].pc \in Entering
        BY <2>1, <3>2, SeenEntering
      <3>3. CASE Seen(c) /\ req[c].pc \in Counting \cup Clearing
        BY <2>1, <3>3, SeenCounting
      <3>4. CASE Seen(c) /\ req[c].pc \notin Entering \cup Counting \cup Clearing
        BY <2>1, <3>4, SeenPast DEF Entering, Counting, Clearing
      <3> QED BY <3>1, <3>2, <3>3, <3>4
    <2> QED BY <2>1, AskWatch, OtherWatch DEF Next
  <1>3. Init => Types
    BY TypesInit
  <1>4. Types /\ [Next]_vars => Types'
    BY TypesNext
  <1> QED BY <1>1, <1>2, <1>3, <1>4, PTL DEF Spec, LoginIsThrottled, T!Spec

(* Throttle as its proofs see it.                                           *)
B == INSTANCE Throttle_proofs WITH
       fails <- fails[Watched], window <- window[Watched], blocked <- blocked[Watched],
       tries <- tries[Watched], at <- [c \in Caller |-> Place(req[c])]

LEMMA SameFinite ==
    (IsFiniteSet(Caller) => B!IsFiniteSet(Caller)) /\ Cardinality(Caller) = B!Cardinality(Caller)
  BY DEF IsFiniteSet, B!IsFiniteSet, Cardinality, B!Cardinality

LEMMA SameCounters == (T!Init => B!Init) /\ ([T!Next]_(T!vars) => [B!Next]_(B!vars))
  <1>1. T!Init => B!Init
    BY DEF T!Init, B!Init
  <1>2. [T!Next]_(T!vars) => [B!Next]_(B!vars)
    BY DEF T!Next, B!Next, T!vars, B!vars, T!Move, B!Move, T!Enter, B!Enter, T!Leave, B!Leave,
           T!Try, B!Try, T!Counted, B!Counted, T!Count, B!Count, T!Knock, B!Knock,
           T!SetWindow, B!SetWindow, T!Block, B!Block, T!Excuse, B!Excuse, T!Clear, B!Clear,
           T!Lift, B!Lift, T!WindowEnds, B!WindowEnds, T!BlockEnds, B!BlockEnds
  <1> QED BY <1>1, <1>2

(* The passwords checked of an agent are bounded, for any finite number of  *)
(* requests at once and any agent: what Throttle promises (validateUser).   *)
THEOREM LoginTriesBounded ==
    ASSUME IsFiniteSet(Caller)
    PROVE  Spec => []TriesBounded
  <1>1. Threshold \in Nat \ {0}
    BY SessionsAssumption DEF SessionsAssumption
  <1>2. B!Spec => []B!TriesBounded
    BY <1>1, SameFinite, B!Bounded, PTL
  <1>3. B!TriesBounded => TriesBounded
    BY SameFinite DEF B!TriesBounded, TriesBounded
  <1>4. Spec => T!Spec
    BY LoginThrottled, PTL DEF LoginIsThrottled
  <1> QED BY <1>2, <1>3, <1>4, SameCounters, PTL DEF T!Spec, B!Spec
=============================================================================
