--------------------------- MODULE Identities_proofs ---------------------------
(* Proofs about Identities, for every collection, every mix of requests and  *)
(* any number of them at once: what is sent about a number is refused by the *)
(* identities of which it is not the primary number; a pair that was ignored *)
(* stays hidden; documents stay documents; a master has the numbers of the   *)
(* identities that were merged into it, as often as it was given them.       *)
EXTENDS Identities, SequenceTheorems, FiniteSetTheorems, WellFoundedInduction, TLAPS

(* The first match exists and is the first.                                  *)
LEMMA MinIsFirst ==
    ASSUME NEW S \in SUBSET Nat, S # {}
    PROVE  Min(S) \in S /\ \A y \in S : Min(S) <= y
  <1>1. PICK x \in S : \A y \in S : <<y, x>> \notin OpToRel(<, Nat)
    BY NatLessThanWellFounded, WFMin, Zenon
  <1>2. \A y \in S : y \in Nat /\ x \in Nat /\ ~(y < x)
    BY <1>1, Zenon DEF OpToRel
  <1>3. \A y \in S : x <= y
    BY <1>2
  <1> QED BY <1>3 DEF Min

LEMMA FirstMatch ==
    ASSUME Stored \subseteq Id, NEW n
    PROVE  \/ FindOne(n) = None /\ \A i \in Stored : ~Matches(i, n)
           \/ /\ FindOne(n) \in Stored /\ Matches(FindOne(n), n)
              /\ \A i \in Stored : Matches(i, n) => FindOne(n) <= i
  <1> DEFINE found == {i \in Stored : Matches(i, n)}
  <1>1. found \in SUBSET Nat
    BY IdentitiesAssumption
  <1>2. CASE found = {}
    BY <1>2 DEF FindOne
  <1>3. CASE found # {}
    <2> DEFINE m == Min(found)
    <2>1. m \in found /\ \A i \in found : m <= i
      BY <1>1, <1>3, MinIsFirst
    <2>2. FindOne(n) = m
      BY <1>3 DEF FindOne
    <2> QED BY <2>1, <2>2
  <1> QED BY <1>2, <1>3

-----------------------------------------------------------------------------
(* The invariant, in named parts.                                            *)

DocFields == {"num", "type", "uid", "key", "primary", "src", "dest", "state", "deleted",
              "synced", "ignored", "print"}
RequestFields == {"op", "pc", "n", "body", "at", "read", "state", "print", "pair", "from",
                  "to"}

(* The documents and the requests have their fields.                         *)
Shaped(d) == DOMAIN d = DocFields

Shapes ==
    /\ Stored \subseteq Id
    /\ \A i \in Stored : Shaped(docs[i])
    /\ DOMAIN req = Caller /\ DOMAIN touched = Caller
    /\ \A c \in Caller : DOMAIN req[c] = RequestFields

(* A document read, or made from what was read, is of the type of the one it *)
(* replaces: the type of an identity never changes.                          *)
Faithful(d, i) == i \in Stored /\ Shaped(d) /\ d.type = docs[i].type

Writing(c) ==
    LET r == req[c]
    IN  /\ r.pc = "save" => r.at \in Stored
        /\ r.pc = "second" => r.pair[1] \in Stored /\ Faithful(r.from[1], r.pair[2])
        /\ r.pc \in {"backend", "first", "last"} =>
             /\ Faithful(r.to[1], r.pair[1]) /\ Faithful(r.to[2], r.pair[2])

Writers == \A c \in Caller : Writing(c)

(* What an upsert has looked at: an identity that matches and that it might  *)
(* not write comes after the one it found, which may be written.             *)
Looked(c) ==
    req[c].op = "upsert" /\ req[c].pc \in {"check", "match", "store"} =>
      \A i \in Stored :
        Matches(i, req[c].n) =>
          \/ docs[i].primary \in {None, Plain(req[c].n)}
          \/ {i, req[c].at} \cap touched[c] # {}
          \/ /\ req[c].at \in Stored /\ req[c].at < i
             /\ Matches(req[c].at, req[c].n)

UpsertsLooked == \A c \in Caller : Looked(c)

SInv == Shapes /\ Writers /\ UpsertsLooked

-----------------------------------------------------------------------------
(* Documents made from documents.                                            *)

LEMMA Field ==
    ASSUME NEW d, Shaped(d), NEW f \in DocFields \ {"type"}, NEW v
    PROVE  /\ Shaped([d EXCEPT ![f] = v]) /\ [d EXCEPT ![f] = v].type = d.type
           /\ f # "primary" => [d EXCEPT ![f] = v].primary = d.primary
           /\ f # "num" => [d EXCEPT ![f] = v].num = d.num
           /\ f # "ignored" => [d EXCEPT ![f] = v].ignored = d.ignored
           /\ [d EXCEPT ![f] = v][f] = v
  BY DEF Shaped, DocFields

LEMMA ShapedMaster ==
    ASSUME NEW d, Shaped(d), NEW e, NEW i
    PROVE  /\ Shaped(Master(d, e, i)) /\ Master(d, e, i).type = d.type
           /\ Master(d, e, i).ignored = d.ignored
  <1> DEFINE p == Primary(d.num)
             n == d.num \o e.num
  <1>1. Master(d, e, i) = [d EXCEPT !.primary = p, !.num = n, !.state = "TO_VALIDATE",
                                    !.src = i]
    BY Zenon DEF Master
  <1> HIDE DEF p, n
  <1> QED BY <1>1 DEF Shaped, DocFields

LEMMA ShapedMerged ==
    ASSUME NEW d, Shaped(d), NEW i
    PROVE  /\ Shaped(Merged(d, i)) /\ Merged(d, i).type = d.type
           /\ Merged(d, i).ignored = d.ignored
  <1> DEFINE n == Prefixed(d.num)
  <1>1. Merged(d, i) = [d EXCEPT !.dest = i, !.num = n, !.state = "DONT_SYNC"]
    BY Zenon DEF Merged
  <1> HIDE DEF n
  <1> QED BY <1>1 DEF Shaped, DocFields

LEMMA ShapedReleased ==
    ASSUME NEW d, Shaped(d), NEW e
    PROVE  /\ Shaped(Released(d, e)) /\ Released(d, e).type = d.type
           /\ Released(d, e).ignored = d.ignored
  <1> DEFINE n == Without(d.num, Unprefixed(e.num))
  <1>1. Released(d, e) = [d EXCEPT !.num = n, !.src = None, !.primary = None,
                                   !.state = "TO_VALIDATE"]
    BY Zenon DEF Released
  <1> HIDE DEF n
  <1> QED BY <1>1 DEF Shaped, DocFields

LEMMA ShapedRestored ==
    ASSUME NEW d, Shaped(d)
    PROVE  /\ Shaped(Restored(d)) /\ Restored(d).type = d.type
           /\ Restored(d).ignored = d.ignored
  <1> DEFINE n == IF d.num = <<>> THEN d.num ELSE [d.num EXCEPT ![1].gone = FALSE]
  <1>1. Restored(d) = [d EXCEPT !.dest = None, !.state = "TO_VALIDATE", !.num = n]
    BY Zenon DEF Restored
  <1> HIDE DEF n
  <1> QED BY <1>1 DEF Shaped, DocFields

LEMMA ShapedUpdated ==
    ASSUME NEW d, Shaped(d), NEW r
    PROVE  /\ Shaped(Updated(d, r)) /\ Updated(d, r).type = d.type
           /\ Updated(d, r).primary = d.primary /\ Updated(d, r).ignored = d.ignored
  <1> DEFINE u == r.body.uid
             k == r.body.key
             t == r.state
             n == IF r.body.whole THEN <<Plain(r.n)>> ELSE d.num
  <1>1. Updated(d, r) = [d EXCEPT !.uid = u, !.key = k, !.state = t, !.num = n]
    BY Zenon DEF Updated
  <1> HIDE DEF u, k, t, n
  <1> QED BY <1>1 DEF Shaped, DocFields

LEMMA ShapedFirst ==
    ASSUME NEW i, NEW r
    PROVE  Shaped(First(i)) /\ Shaped(Inserted(r)) /\ Inserted(r).primary = None
  BY DEF Shaped, DocFields, First, Inserted

-----------------------------------------------------------------------------
(* What a step may do to the documents.                                      *)

Same(i) ==
    docs'[i].num = docs[i].num /\ docs'[i].primary = docs[i].primary

Moves ==
    /\ Stored \subseteq Stored' /\ Stored' \subseteq Id
    /\ \A i \in Stored :
         /\ Shaped(docs'[i]) /\ docs'[i].type = docs[i].type
         /\ Same(i) \/ \A c \in Upserting : i \in touched'[c]
    /\ \A i \in Stored' \ Stored : Shaped(docs'[i]) /\ docs'[i].primary = None
    /\ plan' = plan

(* Nothing happens to the documents.                                         *)
LEMMA Still ==
    ASSUME Shapes, docs' = docs, plan' = plan
    PROVE  Moves
  BY DEF Moves, Same, Shapes, Stored

(* One document is replaced by another of its type.                          *)
LEMMA Replaced ==
    ASSUME Shapes, NEW i, NEW read, NEW new, NEW alone, Faithful(new, i),
           Replace(i, read, new, alone), plan' = plan
    PROVE  Moves /\ DOMAIN touched' = Caller
           /\ \A c \in Caller : touched[c] \subseteq touched'[c]
  <1>1. docs' = [docs EXCEPT ![i] = new] /\ i \in Stored /\ Shaped(new) /\ new.type = docs[i].type
    BY DEF Replace, Faithful
  <1>2. Stored' = Stored /\ docs'[i] = new /\ \A x \in Stored \ {i} : docs'[x] = docs[x]
    BY <1>1 DEF Stored
  <1>3. CASE Links(docs[i]) = Links(new)
    <2>1. touched' = touched /\ Same(i)
      BY <1>2, <1>3 DEF Replace, Links, Same
    <2> QED BY <1>1, <1>2, <2>1 DEF Moves, Same, Shapes
  <1>4. CASE Links(docs[i]) # Links(new)
    <2>1. touched' = [c \in Caller |-> IF c \in Upserting THEN touched[c] \cup {i}
                                      ELSE touched[c]]
      BY <1>4 DEF Replace
    <2>2. \A c \in Upserting : c \in Caller
      BY DEF Upserting
    <2>3. \A c \in Upserting : i \in touched'[c]
      BY <2>1, <2>2
    <2> QED BY <1>1, <1>2, <2>1, <2>3 DEF Moves, Same, Shapes
  <1> QED BY <1>3, <1>4

(* A field of a document that is neither its type nor a link.                *)
Aside == {"state", "deleted", "synced", "print"}

LEMMA SetAside ==
    ASSUME Shapes, NEW i, NEW f \in Aside, NEW v, docs' = [docs EXCEPT ![i][f] = v],
           plan' = plan
    PROVE  Moves
  <1>1. Stored' = Stored /\ \A x \in Stored : docs'[x] = IF x = i THEN [docs[x] EXCEPT ![f] = v]
                                                      ELSE docs[x]
    BY DEF Stored
  <1>2. f \in DocFields \ {"type", "num", "primary"}
    BY DEF Aside, DocFields
  <1>3. \A x \in Stored : Shaped(docs'[x]) /\ docs'[x].type = docs[x].type /\ Same(x)
    BY <1>1, <1>2, Field DEF Shapes, Same
  <1> QED BY <1>1, <1>3 DEF Moves, Shapes

LEMMA SetTwoAside ==
    ASSUME Shapes, NEW i, NEW f \in Aside, NEW v, NEW g \in Aside, NEW w,
           docs' = [docs EXCEPT ![i][f] = v, ![i][g] = w], plan' = plan
    PROVE  Moves
  <1>1. Stored' = Stored
        /\ \A x \in Stored : docs'[x] = IF x = i THEN [[docs[x] EXCEPT ![f] = v] EXCEPT ![g] = w]
                                         ELSE docs[x]
    BY DEF Stored
  <1>2. f \in DocFields \ {"type", "num", "primary"} /\ g \in DocFields \ {"type", "num", "primary"}
    BY DEF Aside, DocFields
  <1>3. ASSUME NEW x \in Stored
        PROVE  Shaped(docs'[x]) /\ docs'[x].type = docs[x].type /\ Same(x)
    <2> DEFINE d == [docs[x] EXCEPT ![f] = v]
    <2>1. Shaped(d) /\ d.type = docs[x].type /\ d.primary = docs[x].primary
          /\ d.num = docs[x].num
      BY <1>2, Field DEF Shapes
    <2> HIDE DEF d
    <2>2. Shaped([d EXCEPT ![g] = w]) /\ [d EXCEPT ![g] = w].type = d.type
          /\ [d EXCEPT ![g] = w].primary = d.primary /\ [d EXCEPT ![g] = w].num = d.num
      BY <1>2, <2>1, Field
    <2>3. docs'[x] = IF x = i THEN [d EXCEPT ![g] = w] ELSE docs[x]
      BY <1>1 DEF d
    <2> QED BY <2>1, <2>2, <2>3 DEF Shapes, Same
  <1> QED BY <1>1, <1>3 DEF Moves, Shapes

(* What a step does to the documents keeps what the requests hold true, but  *)
(* for the one that makes the step.                                          *)
LEMMA WritersKept ==
    ASSUME Shapes, Moves, NEW i, NEW d, Faithful(d, i)
    PROVE  Faithful(d, i)'
  BY DEF Moves, Faithful

LEMMA MatchesKept ==
    ASSUME Moves, NEW i \in Stored, NEW n, Same(i)
    PROVE  Matches(i, n)' <=> Matches(i, n)
  <1>1. docs'[i].num = docs[i].num /\ docs'[i].type = docs[i].type /\ plan' = plan
    BY DEF Moves, Same
  <1> QED BY <1>1, Zenon DEF Matches, Home

LEMMA LookedKept ==
    ASSUME Shapes, Moves, NEW c \in Caller, Looked(c),
           req'[c].op = req[c].op,
           req[c].pc \in {"check", "match", "store"},
           req'[c].n = req[c].n, req'[c].at = req[c].at,
           touched[c] \subseteq touched'[c]
    PROVE  Looked(c)'
  <1> DEFINE n == req[c].n
             at == req[c].at
             mine == touched[c]
             later == touched'[c]
  <1> SUFFICES ASSUME req[c].op = "upsert", NEW i \in Stored', Matches(i, n)'
               PROVE  \/ docs'[i].primary \in {None, Plain(n)}
                      \/ {i, at} \cap later # {}
                      \/ at \in Stored' /\ at < i /\ Matches(at, n)'
    BY DEF Looked
  <1>1. c \in Upserting
    BY DEF Upserting
  <1>2. CASE i \notin Stored
    BY <1>2 DEF Moves
  <1>3. CASE i \in Stored /\ i \notin later
    <2>1. Same(i)
      BY <1>1, <1>3 DEF Moves
    <2>2. Matches(i, n) /\ docs'[i].primary = docs[i].primary
      BY <1>3, <2>1, MatchesKept DEF Same
    <2>3. \/ docs[i].primary \in {None, Plain(n)}
          \/ {i, at} \cap mine # {}
          \/ at \in Stored /\ at < i /\ Matches(at, n)
      BY <1>3, <2>2 DEF Looked
    <2>4. CASE at \in Stored /\ at < i /\ Matches(at, n)
      <3>1. at \in Stored' /\ (Same(at) \/ at \in later)
        BY <1>1, <2>4 DEF Moves
      <3>2. Same(at) => Matches(at, n)'
        BY <2>4, MatchesKept
      <3> QED BY <2>4, <3>1, <3>2
    <2> QED BY <2>2, <2>3, <2>4
  <1> QED BY <1>2, <1>3

-----------------------------------------------------------------------------
(* The parts of the invariant, action by action.                             *)

(* The requests that a step leaves alone.                                    *)
Others(c) ==
    /\ DOMAIN req' = Caller /\ DOMAIN touched' = Caller
    /\ \A d \in Caller \ {c} : req'[d] = req[d] /\ touched[d] \subseteq touched'[d]

(* It is enough to look at the request that makes the step.                  *)
LEMMA Enough ==
    ASSUME SInv, Moves, NEW c \in Caller, Others(c),
           DOMAIN req'[c] = RequestFields, Writing(c)', Looked(c)'
    PROVE  SInv'
  <1>1. Shapes'
    <2>1. \A d \in Caller : DOMAIN req'[d] = RequestFields
      BY DEF Others, SInv, Shapes
    <2>2. Stored' \subseteq Id /\ \A i \in Stored' : Shaped(docs'[i])
      BY DEF Moves
    <2> QED BY <2>1, <2>2 DEF Shapes, Others
  <1>2. Writers'
    <2> SUFFICES ASSUME NEW d \in Caller, d # c PROVE Writing(d)'
      BY DEF Writers
    <2>1. req'[d] = req[d]
      BY DEF Others
    <2>2. \A x : x \in Stored => x \in Stored'
      BY DEF Moves
    <2>3. \A e, x : Faithful(e, x) => Faithful(e, x)'
      BY WritersKept DEF SInv
    <2>4. Writing(d)
      BY DEF SInv, Writers
    <2> QED BY <2>1, <2>2, <2>3, <2>4 DEF Writing
  <1>3. UpsertsLooked'
    <2> SUFFICES ASSUME NEW d \in Caller, d # c
                 PROVE  Looked(d)'
      BY DEF UpsertsLooked
    <2>1. req'[d] = req[d] /\ touched[d] \subseteq touched'[d]
      BY DEF Others
    <2>2. CASE req[d].pc \in {"check", "match", "store"}
      BY <2>1, <2>2, LookedKept DEF SInv, UpsertsLooked
    <2>3. CASE req[d].pc \notin {"check", "match", "store"}
      BY <2>1, <2>3 DEF Looked
    <2> QED BY <2>2, <2>3
  <1> QED BY <1>1, <1>2, <1>3 DEF SInv

(* The record of a caller without a request.                                 *)
LEMMA IdleShape ==
    /\ DOMAIN Idle = RequestFields /\ Idle.op = "upsert" /\ Idle.pc = "idle"
  BY DEF Idle, RequestFields

(* A request that goes on elsewhere than among the steps the invariant is    *)
(* about.                                                                    *)
Watched == {"save", "second", "backend", "first", "last", "check", "match", "store"}

LEMMA Leaves ==
    ASSUME SInv, Moves, NEW c \in Caller, NEW r, req' = [req EXCEPT ![c] = r],
           DOMAIN r = RequestFields, r.pc \notin Watched,
           DOMAIN touched' = Caller, \A d \in Caller : touched[d] \subseteq touched'[d]
    PROVE  SInv'
  <1>1. DOMAIN req' = Caller /\ req'[c] = r /\ \A d \in Caller \ {c} : req'[d] = req[d]
    BY DEF SInv, Shapes
  <1>2. Others(c)
    BY <1>1 DEF Others
  <1>3. Writing(c)' /\ Looked(c)'
    BY <1>1 DEF Writing, Looked, Watched
  <1> QED BY <1>1, <1>2, <1>3, Enough

LEMMA LeavesIdle ==
    ASSUME SInv, Moves, NEW c \in Caller, Ends(c),
           DOMAIN touched' = Caller, \A d \in Caller : touched[d] \subseteq touched'[d]
    PROVE  SInv'
  <1>1. Idle.pc \notin Watched
    BY IdleShape DEF Watched
  <1> QED BY <1>1, IdleShape, Leaves DEF Ends

(* A request that is made, or goes on, without a write.                      *)
LEMMA Goes ==
    ASSUME SInv, docs' = docs, plan' = plan, touched' = touched,
           NEW c \in Caller, NEW r, req' = [req EXCEPT ![c] = r], DOMAIN r = RequestFields,
           Writing(c)', Looked(c)'
    PROVE  SInv'
  <1>1. Moves
    BY Still DEF SInv
  <1>2. Others(c) /\ req'[c] = r
    BY DEF Others, SInv, Shapes
  <1> QED BY <1>1, <1>2, Enough

LEMMA UpsertLookSInv ==
    ASSUME SInv, NEW c \in Caller, UpsertLook(c)
    PROVE  SInv'
  <1>1. PICK n \in Number, b \in Body :
          /\ FindOne(n) # None => Updatable(docs[FindOne(n)], n)
          /\ req' = [req EXCEPT ![c] =
               [Idle EXCEPT !.op = "upsert", !.pc = "check", !.n = n, !.body = b,
                            !.at = FindOne(n),
                            !.read = IF FindOne(n) = None THEN None ELSE docs[FindOne(n)]]]
    BY Zenon DEF UpsertLook
  <1>find. PICK at : at = FindOne(n)
    OBVIOUS
  <1> DEFINE read == IF at = None THEN None ELSE docs[at]
             r == [Idle EXCEPT !.op = "upsert", !.pc = "check", !.n = n, !.body = b,
                               !.at = at, !.read = read]
  <1>2. req' = [req EXCEPT ![c] = r]
    BY <1>find, <1>1, Zenon
  <1>3. /\ docs' = docs /\ plan' = plan /\ Stored' = Stored
        /\ touched' = [touched EXCEPT ![c] = {}]
    BY DEF UpsertLook, Stored
  <1>4. \/ \A i \in Stored : ~Matches(i, n)
        \/ /\ at \in Stored /\ Matches(at, n) /\ docs[at].primary \in {None, Plain(n)}
           /\ \A i \in Stored : Matches(i, n) => at <= i
    <2>1. None \notin Stored
      BY IdentitiesAssumption DEF SInv, Shapes
    <2>2. Stored \subseteq Id
      BY DEF SInv, Shapes
    <2> QED BY <1>find, <1>1, <2>1, <2>2, FirstMatch DEF Updatable
  <1> HIDE DEF read
  <1>5. DOMAIN r = RequestFields /\ r.op = "upsert" /\ r.pc = "check" /\ r.n = n /\ r.at = at
    BY IdleShape DEF RequestFields
  <1> HIDE DEF r
  <1>6. req'[c] = r /\ Others(c)
    BY <1>2, <1>3 DEF Others, SInv, Shapes
  <1>7. Moves
    BY <1>3, Still DEF SInv
  <1>8. Writing(c)'
    BY <1>5, <1>6 DEF Writing
  <1>9. Looked(c)'
    <2>1. \A x \in Stored : Matches(x, n)' <=> Matches(x, n)
      BY <1>3, <1>7, MatchesKept DEF Same
    <2>2. ASSUME NEW i \in Stored, Matches(i, n)'
          PROVE  \/ docs[i].primary \in {None, Plain(n)}
                 \/ at \in Stored /\ at < i /\ Matches(at, n)'
      <3>1. Matches(i, n)
        BY <2>1, <2>2
      <3>2. at \in Stored /\ Matches(at, n) /\ docs[at].primary \in {None, Plain(n)} /\ at <= i
        BY <1>4, <3>1
      <3>3. Matches(at, n)'
        BY <2>1, <3>2
      <3>4. at \in Nat /\ i \in Nat
        BY <3>2, IdentitiesAssumption DEF SInv, Shapes
      <3> QED BY <3>2, <3>3, <3>4
    <2>3. \A i \in Stored' : i \in Stored /\ docs'[i].primary = docs[i].primary
      BY <1>3
    <2> QED BY <1>3, <1>5, <1>6, <2>2, <2>3 DEF Looked
  <1> QED BY <1>5, <1>6, <1>7, <1>8, <1>9, Enough

(* An upsert compares the identity it found with what it was sent.           *)
LEMMA UpsertCheckSInv ==
    ASSUME SInv, NEW c \in Caller, UpsertCheck(c)
    PROVE  SInv'
  <1>1. PICK s, p : req' = [req EXCEPT ![c] = [req[c] EXCEPT !.pc = "match", !.state = s,
                                                 !.read = None, !.print = p]]
    BY Zenon DEF UpsertCheck
  <1> DEFINE r == [req[c] EXCEPT !.pc = "match", !.state = s, !.read = None, !.print = p]
  <1>2. /\ docs' = docs /\ plan' = plan /\ touched' = touched
        /\ req[c].op = "upsert" /\ req[c].pc = "check"
    BY DEF UpsertCheck, history
  <1>3. /\ DOMAIN r = RequestFields /\ r.op = "upsert" /\ r.pc = "match"
        /\ r.n = req[c].n /\ r.at = req[c].at
    BY <1>2 DEF SInv, Shapes, RequestFields
  <1>4. req'[c] = r
    BY <1>1 DEF SInv, Shapes
  <1>5. Looked(c)'
    <2>1. Moves /\ Looked(c)
      BY <1>2, Still DEF SInv, UpsertsLooked
    <2> QED BY <1>2, <1>3, <1>4, <2>1, LookedKept DEF SInv
  <1>6. Writing(c)'
    BY <1>3, <1>4 DEF Writing
  <1> QED BY <1>1, <1>2, <1>3, <1>5, <1>6, Goes

LEMMA UpsertMatchSInv ==
    ASSUME SInv, NEW c \in Caller, UpsertMatch(c)
    PROVE  SInv'
  <1> DEFINE r == [req[c] EXCEPT !.pc = "store"]
  <1>1. req' = [req EXCEPT ![c] = Idle] \/ req' = [req EXCEPT ![c] = r]
    BY Zenon DEF UpsertMatch
  <1>2. /\ docs' = docs /\ plan' = plan /\ touched' = touched
        /\ req[c].op = "upsert" /\ req[c].pc = "match"
    BY DEF UpsertMatch, history
  <1>3. Moves /\ Looked(c)
    BY <1>2, Still DEF SInv, UpsertsLooked
  <1>4. CASE req' = [req EXCEPT ![c] = Idle]
    BY <1>2, <1>3, <1>4, LeavesIdle DEF Ends, SInv, Shapes
  <1>5. CASE req' = [req EXCEPT ![c] = r]
    <2>1. /\ DOMAIN r = RequestFields /\ r.op = "upsert" /\ r.pc = "store"
          /\ r.n = req[c].n /\ r.at = req[c].at
      BY <1>2 DEF SInv, Shapes, RequestFields
    <2>2. req'[c] = r
      BY <1>5 DEF SInv, Shapes
    <2>3. Looked(c)'
      BY <1>2, <1>3, <2>1, <2>2, LookedKept DEF SInv
    <2>4. Writing(c)'
      BY <2>1, <2>2 DEF Writing
    <2> QED BY <1>2, <1>5, <2>1, <2>3, <2>4, Goes
  <1> QED BY <1>1, <1>4, <1>5

LEMMA EditAskSInv ==
    ASSUME SInv, NEW c \in Caller, EditAsk(c)
    PROVE  SInv'
  <1>1. PICK i \in Stored, b \in Body : req' = [req EXCEPT ![c] =
              [Idle EXCEPT !.op = "edit", !.pc = "save", !.body = b, !.at = i,
                           !.read = docs[i]]]
    BY Zenon DEF EditAsk
  <1> DEFINE d == docs[i]
             r == [Idle EXCEPT !.op = "edit", !.pc = "save", !.body = b, !.at = i,
                               !.read = d]
  <1>2. docs' = docs /\ plan' = plan /\ touched' = touched
    BY DEF EditAsk, history
  <1>3. req' = [req EXCEPT ![c] = r]
    BY <1>1, Zenon
  <1> HIDE DEF d
  <1>4. DOMAIN r = RequestFields /\ r.op = "edit" /\ r.pc = "save" /\ r.at = i
    BY IdleShape DEF RequestFields
  <1> HIDE DEF r
  <1>5. req'[c] = r
    BY <1>3 DEF SInv, Shapes
  <1>6. Writing(c)' /\ Looked(c)'
    BY <1>2, <1>4, <1>5 DEF Writing, Looked, Stored
  <1> QED BY <1>2, <1>3, <1>4, <1>6, Goes

(* A request that holds two documents, or the first of them.                 *)
LEMMA HoldingShape ==
    ASSUME NEW op, NEW pc, NEW pair, NEW from, NEW to
    PROVE  LET r == Holding(op, pc, pair, from, to)
           IN  /\ DOMAIN r = RequestFields /\ r.pc = pc /\ r.pair = pair /\ r.from = from
               /\ r.to = to
  BY IdleShape DEF Holding, RequestFields

LEMMA HoldsOne ==
    ASSUME SInv, NEW c \in Caller, NEW op, NEW i \in Stored, NEW j \in Stored,
           docs' = docs, plan' = plan, touched' = touched,
           req' = [req EXCEPT ![c] = Holding(op, "second", <<j, i>>, <<docs[i]>>, <<>>)]
    PROVE  SInv'
  <1> DEFINE r == Holding(op, "second", <<j, i>>, <<docs[i]>>, <<>>)
  <1>1. DOMAIN r = RequestFields /\ r.pc = "second" /\ r.pair = <<j, i>> /\ r.from = <<docs[i]>>
    BY HoldingShape
  <1>2. req' = [req EXCEPT ![c] = r]
    OBVIOUS
  <1> HIDE DEF r
  <1>3. req'[c] = r
    BY <1>2 DEF SInv, Shapes
  <1>4. r.pair[1] = j /\ r.pair[2] = i /\ r.from[1] = docs[i]
    BY <1>1
  <1>5. Faithful(docs[i], i)
    BY DEF Faithful, SInv, Shapes
  <1>6. Writing(c)'
    BY <1>1, <1>3, <1>4, <1>5 DEF Writing, Faithful, Stored
  <1>7. Looked(c)'
    BY <1>1, <1>3 DEF Looked
  <1> QED BY <1>1, <1>2, <1>6, <1>7, Goes

LEMMA HoldsTwo ==
    ASSUME SInv, NEW c \in Caller, NEW op, NEW pc \in {"backend", "first"}, NEW pair,
           NEW e, NEW d, NEW from, Faithful(e, pair[1]), Faithful(d, pair[2]),
           docs' = docs, plan' = plan, touched' = touched,
           req' = [req EXCEPT ![c] = Holding(op, pc, pair, from, <<e, d>>)]
    PROVE  SInv'
  <1> DEFINE r == Holding(op, pc, pair, from, <<e, d>>)
  <1>1. DOMAIN r = RequestFields /\ r.pc = pc /\ r.pair = pair /\ r.to = <<e, d>>
    BY HoldingShape
  <1>2. req' = [req EXCEPT ![c] = r]
    OBVIOUS
  <1> HIDE DEF r
  <1>3. req'[c] = r
    BY <1>2 DEF SInv, Shapes
  <1>4. r.to[1] = e /\ r.to[2] = d
    BY <1>1
  <1>5. Writing(c)'
    BY <1>1, <1>3, <1>4 DEF Writing, Faithful, Stored
  <1>6. Looked(c)'
    BY <1>1, <1>3 DEF Looked
  <1> QED BY <1>1, <1>2, <1>5, <1>6, Goes

LEMMA ReadMasterSInv ==
    ASSUME SInv, NEW c \in Caller, NEW op, ReadMaster(c, op)
    PROVE  SInv'
  <1>1. PICK i \in Stored, j \in Stored :
          req' = [req EXCEPT ![c] = Holding(op, "second", <<j, i>>, <<docs[i]>>, <<>>)]
    BY Zenon DEF ReadMaster
  <1>2. docs' = docs /\ plan' = plan /\ touched' = touched
    BY DEF ReadMaster, Ask, history
  <1> QED BY <1>1, <1>2, HoldsOne

LEMMA FusionReadSInv ==
    ASSUME SInv, NEW c \in Caller, FusionRead(c)
    PROVE  SInv'
  <1> DEFINE pair == req[c].pair
             d1 == req[c].from[1]
             d2 == docs[pair[1]]
             pc == IF d2.synced THEN "backend" ELSE "first"
  <1>1. /\ docs' = docs /\ plan' = plan /\ touched' = touched /\ req[c].pc = "second"
    BY DEF FusionRead, history
  <1>2. \/ Ends(c)
        \/ req' = [req EXCEPT ![c] = Holding("fusion", pc, pair, <<d2, d1>>,
                     <<Merged(d2, pair[2]), Master(d1, d2, pair[1])>>)]
    BY Zenon DEF FusionRead
  <1>3. pair[1] \in Stored /\ Faithful(d1, pair[2])
    BY <1>1 DEF SInv, Writers, Writing
  <1>4. Faithful(Merged(d2, pair[2]), pair[1])
    BY <1>3, ShapedMerged DEF Faithful, SInv, Shapes
  <1>5. Faithful(Master(d1, d2, pair[1]), pair[2])
    BY <1>3, ShapedMaster DEF Faithful
  <1>6. Moves
    BY <1>1, Still DEF SInv
  <1>7. CASE Ends(c)
    BY <1>1, <1>6, <1>7, LeavesIdle DEF SInv, Shapes
  <1>8. pc \in {"backend", "first"}
    OBVIOUS
  <1> HIDE DEF pc, d1, d2, pair
  <1> QED BY <1>1, <1>2, <1>4, <1>5, <1>7, <1>8, HoldsTwo

LEMMA CancelReadSInv ==
    ASSUME SInv, NEW c \in Caller, CancelRead(c)
    PROVE  SInv'
  <1> DEFINE pair == req[c].pair
             d1 == req[c].from[1]
             d2 == docs[pair[1]]
  <1>1. /\ docs' = docs /\ plan' = plan /\ touched' = touched /\ req[c].pc = "second"
    BY DEF CancelRead, history
  <1>2. \/ Ends(c)
        \/ req' = [req EXCEPT ![c] = Holding("cancel", "first", pair, <<d2, d1>>,
                                             <<Restored(d2), Released(d1, d2)>>)]
    BY Zenon DEF CancelRead
  <1>3. pair[1] \in Stored /\ Faithful(d1, pair[2])
    BY <1>1 DEF SInv, Writers, Writing
  <1>4. Faithful(Restored(d2), pair[1])
    BY <1>3, ShapedRestored DEF Faithful, SInv, Shapes
  <1>5. Faithful(Released(d1, d2), pair[2])
    BY <1>3, ShapedReleased DEF Faithful
  <1>6. Moves
    BY <1>1, Still DEF SInv
  <1>7. CASE Ends(c)
    BY <1>1, <1>6, <1>7, LeavesIdle DEF SInv, Shapes
  <1> HIDE DEF d1, d2, pair
  <1> QED BY <1>1, <1>2, <1>4, <1>5, <1>7, HoldsTwo

LEMMA IgnoreAskSInv ==
    ASSUME SInv, NEW c \in Caller, NEW op, IgnoreAsk(c, op)
    PROVE  SInv'
  <1> DEFINE Set(x, y) == IF op = "ignore" THEN docs[x].ignored \cup {y}
                          ELSE docs[x].ignored \ {y}
             New(x, y) == [docs[x] EXCEPT !.ignored = Set(x, y)]
  <1>1. PICK i \in Stored, j \in Stored :
          req' = [req EXCEPT ![c] = Holding(op, "first", <<i, j>>, <<docs[i], docs[j]>>,
                                            <<New(i, j), New(j, i)>>)]
    BY Zenon DEF IgnoreAsk
  <1>2. docs' = docs /\ plan' = plan /\ touched' = touched
    BY DEF IgnoreAsk, Ask, history
  <1> HIDE DEF Set
  <1>3. ASSUME NEW x \in Stored, NEW y
        PROVE  Faithful(New(x, y), x)
    <2>1. Shaped(docs[x]) /\ "ignored" \in DocFields \ {"type"}
      BY DEF SInv, Shapes, DocFields
    <2>2. Shaped([docs[x] EXCEPT !["ignored"] = Set(x, y)])
          /\ [docs[x] EXCEPT !["ignored"] = Set(x, y)].type = docs[x].type
      BY <2>1, Field
    <2> QED BY <2>2 DEF Faithful
  <1> HIDE DEF New
  <1>4. Faithful(New(i, j), <<i, j>>[1]) /\ Faithful(New(j, i), <<i, j>>[2])
    BY <1>3
  <1> QED BY <1>1, <1>2, <1>4, HoldsTwo

-----------------------------------------------------------------------------
(* The steps that write.                                                     *)

LEMMA UpsertStoreSInv ==
    ASSUME SInv, NEW c \in Caller, UpsertStore(c)
    PROVE  SInv'
  <1>1. PICK i : i = FindOne(req[c].n)
    OBVIOUS
  <1> DEFINE new == Updated(docs[i], req[c])
  <1>2. /\ plan' = plan /\ i # None
        /\ \/ Ends(c) /\ docs' = docs /\ touched' = touched
           \/ ToStamp(c, i) /\ Replace(i, new, new, TRUE)
    BY <1>1 DEF UpsertStore
  <1>3. i \in Stored
    BY <1>1, <1>2, FirstMatch DEF SInv, Shapes
  <1>4. Faithful(new, i)
    BY <1>3, ShapedUpdated DEF Faithful, SInv, Shapes
  <1> HIDE DEF new
  <1>5. CASE Ends(c) /\ docs' = docs /\ touched' = touched
    BY <1>2, <1>5, Still, LeavesIdle DEF SInv, Shapes
  <1>6. CASE ToStamp(c, i) /\ Replace(i, new, new, TRUE)
    <2> DEFINE r == [[req[c] EXCEPT !.pc = "stamp"] EXCEPT !.at = i]
    <2>1. req' = [req EXCEPT ![c] = r]
      BY <1>6 DEF ToStamp
    <2>2. DOMAIN r = RequestFields /\ r.pc = "stamp"
      BY DEF SInv, Shapes, RequestFields
    <2>3. /\ Moves /\ DOMAIN touched' = Caller
          /\ \A d \in Caller : touched[d] \subseteq touched'[d]
      BY <1>2, <1>4, <1>6, Replaced DEF SInv
    <2>4. r.pc \notin Watched
      BY <2>2 DEF Watched
    <2> HIDE DEF r
    <2> QED BY <2>1, <2>2, <2>3, <2>4, Leaves
  <1> QED BY <1>2, <1>5, <1>6

LEMMA UpsertInsertSInv ==
    ASSUME SInv, NEW c \in Caller, UpsertInsert(c)
    PROVE  SInv'
  <1>1. PICK i : i = Min(Id \ Stored)
    OBVIOUS
  <1> DEFINE new == Inserted(req[c])
  <1>2. /\ plan' = plan /\ touched' = touched
        /\ \/ Ends(c) /\ docs' = docs
           \/ /\ Stored # Id /\ ToStamp(c, i)
              /\ docs' = [x \in Stored \cup {i} |-> IF x = i THEN new ELSE docs[x]]
    BY <1>1, Zenon DEF UpsertInsert
  <1>3. Shaped(new) /\ new.primary = None
    BY ShapedFirst
  <1> HIDE DEF new
  <1>4. CASE Ends(c) /\ docs' = docs
    BY <1>2, <1>4, Still, LeavesIdle DEF SInv, Shapes
  <1>5. CASE /\ Stored # Id /\ ToStamp(c, i)
             /\ docs' = [x \in Stored \cup {i} |-> IF x = i THEN new ELSE docs[x]]
    <2> DEFINE r == [[req[c] EXCEPT !.pc = "stamp"] EXCEPT !.at = i]
    <2>1. req' = [req EXCEPT ![c] = r]
      BY <1>5 DEF ToStamp
    <2>2. DOMAIN r = RequestFields /\ r.pc = "stamp"
      BY DEF SInv, Shapes, RequestFields
    <2>3. i \in Id \ Stored
      <3>1. Id \ Stored \in SUBSET Nat /\ Id \ Stored # {}
        BY <1>5, IdentitiesAssumption DEF SInv, Shapes
      <3> QED BY <1>1, <3>1, MinIsFirst
    <2>4. /\ Stored' = Stored \cup {i} /\ docs'[i] = new
          /\ \A x \in Stored : docs'[x] = docs[x]
      BY <1>5, <2>3 DEF Stored
    <2>5. Moves
      BY <1>2, <1>3, <2>3, <2>4 DEF Moves, Same, SInv, Shapes
    <2>6. r.pc \notin Watched
      BY <2>2 DEF Watched
    <2> HIDE DEF r
    <2>7. DOMAIN touched' = Caller /\ \A d \in Caller : touched[d] \subseteq touched'[d]
      BY <1>2 DEF SInv, Shapes
    <2> QED BY <2>1, <2>2, <2>5, <2>6, <2>7, Leaves
  <1> QED BY <1>2, <1>4, <1>5

LEMMA StampSInv ==
    ASSUME SInv, NEW c \in Caller, Stamp(c)
    PROVE  SInv'
  <1> DEFINE p == req[c].print
             i == req[c].at
  <1>1. /\ docs' = [docs EXCEPT ![i]["print"] = p] /\ plan' = plan /\ touched' = touched
        /\ Ends(c)
    BY Zenon DEF Stamp, history
  <1> HIDE DEF p, i
  <1>2. Moves
    BY <1>1, SetAside DEF Aside, SInv
  <1> QED BY <1>1, <1>2, LeavesIdle DEF SInv, Shapes

LEMMA EditSaveSInv ==
    ASSUME SInv, NEW c \in Caller, EditSave(c)
    PROVE  SInv'
  <1> DEFINE i == req[c].at
             u == req[c].body.uid
             k == req[c].body.key
             n == req[c].read.num
             d == docs[i]
             new == [d EXCEPT !.uid = u, !.key = k, !.num = n, !.state = "TO_VALIDATE"]
             p == PrintOf(new)
             r == [[[req[c] EXCEPT !.pc = "stamp"] EXCEPT !.read = None] EXCEPT !.print = p]
  <1>1. /\ plan' = plan
        /\ \/ Ends(c) /\ docs' = docs /\ touched' = touched
           \/ Replace(i, new, new, TRUE) /\ req' = [req EXCEPT ![c] = r]
    BY Zenon DEF EditSave
  <1>2. i \in Stored
    BY DEF EditSave, SInv, Writers, Writing
  <1> HIDE DEF p
  <1>3. DOMAIN r = RequestFields /\ r.pc = "stamp"
    BY DEF SInv, Shapes, RequestFields
  <1> HIDE DEF r
  <1> HIDE DEF u, k, n
  <1>4. Shaped(new) /\ new.type = d.type
    <2>1. Shaped(d)
      BY <1>2 DEF SInv, Shapes
    <2> HIDE DEF d
    <2> QED BY <2>1, Zenon DEF Shaped, DocFields
  <1> HIDE DEF new
  <1>5. Faithful(new, i)
    BY <1>2, <1>4 DEF Faithful
  <1>6. CASE Ends(c) /\ docs' = docs /\ touched' = touched
    BY <1>1, <1>6, Still, LeavesIdle DEF SInv, Shapes
  <1>7. CASE Replace(i, new, new, TRUE) /\ req' = [req EXCEPT ![c] = r]
    <2>1. /\ Moves /\ DOMAIN touched' = Caller
          /\ \A e \in Caller : touched[e] \subseteq touched'[e]
      BY <1>1, <1>5, <1>7, Replaced DEF SInv
    <2>2. r.pc \notin Watched
      BY <1>3 DEF Watched
    <2> QED BY <1>3, <1>7, <2>1, <2>2, Leaves
  <1> QED BY <1>1, <1>6, <1>7

(* A request that holds what it is to write goes on to another write.        *)
LEMMA HoldsOn ==
    ASSUME SInv, Moves, NEW c \in Caller, req[c].pc \in {"backend", "first"},
           NEW pc \in {"first", "last"}, req' = [req EXCEPT ![c].pc = pc],
           DOMAIN touched' = Caller, \A d \in Caller : touched[d] \subseteq touched'[d]
    PROVE  SInv'
  <1> DEFINE r == [req[c] EXCEPT !.pc = pc]
  <1>1. DOMAIN r = RequestFields /\ r.pc = pc /\ r.pair = req[c].pair /\ r.to = req[c].to
    BY DEF SInv, Shapes, RequestFields
  <1>2. req'[c] = r /\ Others(c)
    BY DEF SInv, Shapes, Others
  <1> HIDE DEF r
  <1>3. Faithful(req[c].to[1], req[c].pair[1]) /\ Faithful(req[c].to[2], req[c].pair[2])
    BY DEF SInv, Writers, Writing
  <1>4. \A d, i : Faithful(d, i) => Faithful(d, i)'
    BY WritersKept DEF SInv
  <1>5. Writing(c)'
    BY <1>1, <1>2, <1>3, <1>4 DEF Writing
  <1>6. Looked(c)'
    BY <1>1, <1>2 DEF Looked
  <1> QED BY <1>1, <1>2, <1>5, <1>6, Enough

LEMMA FusionBackendSInv ==
    ASSUME SInv, NEW c \in Caller, FusionBackend(c)
    PROVE  SInv'
  <1> DEFINE j == req[c].pair[1]
  <1>1. /\ plan' = plan /\ touched' = touched /\ req[c].pc = "backend"
        /\ \/ /\ docs' = [docs EXCEPT ![j]["state"] = "DONT_SYNC", ![j]["deleted"] = TRUE]
              /\ req' = [req EXCEPT ![c].pc = "first"]
           \/ /\ docs' = [docs EXCEPT ![j]["state"] = "ON_ERROR", ![j]["synced"] = FALSE]
              /\ Ends(c)
    BY Zenon DEF FusionBackend, history
  <1> HIDE DEF j
  <1>2. "state" \in Aside /\ "deleted" \in Aside /\ "synced" \in Aside
    BY DEF Aside
  <1>3. DOMAIN touched' = Caller /\ \A d \in Caller : touched[d] \subseteq touched'[d]
    BY <1>1 DEF SInv, Shapes
  <1>4. CASE /\ docs' = [docs EXCEPT ![j]["state"] = "DONT_SYNC", ![j]["deleted"] = TRUE]
             /\ req' = [req EXCEPT ![c].pc = "first"]
    <2>1. Moves
      BY <1>1, <1>2, <1>4, SetTwoAside, Zenon DEF SInv
    <2> QED BY <1>1, <1>3, <1>4, <2>1, HoldsOn
  <1>5. CASE /\ docs' = [docs EXCEPT ![j]["state"] = "ON_ERROR", ![j]["synced"] = FALSE]
             /\ Ends(c)
    <2>1. Moves
      BY <1>1, <1>2, <1>5, SetTwoAside, Zenon DEF SInv
    <2> QED BY <1>3, <1>5, <2>1, LeavesIdle
  <1> QED BY <1>1, <1>4, <1>5

LEMMA WriteFirstSInv ==
    ASSUME SInv, NEW c \in Caller, WriteFirst(c)
    PROVE  SInv'
  <1>1. PICK i, read, new, alone :
          /\ i = req[c].pair[1] /\ new = req[c].to[1]
          /\ plan' = plan /\ req[c].pc = "first"
          /\ \/ Ends(c) /\ docs' = docs /\ touched' = touched
             \/ Replace(i, read, new, alone) /\ req' = [req EXCEPT ![c].pc = "last"]
    BY Zenon DEF WriteFirst, Write
  <1>2. Faithful(new, i)
    BY <1>1 DEF SInv, Writers, Writing
  <1>3. CASE Ends(c) /\ docs' = docs /\ touched' = touched
    BY <1>1, <1>3, Still, LeavesIdle DEF SInv, Shapes
  <1>4. CASE Replace(i, read, new, alone) /\ req' = [req EXCEPT ![c].pc = "last"]
    <2>1. /\ Moves /\ DOMAIN touched' = Caller
          /\ \A e \in Caller : touched[e] \subseteq touched'[e]
      BY <1>1, <1>2, <1>4, Replaced DEF SInv
    <2> QED BY <1>1, <1>4, <2>1, HoldsOn
  <1> QED BY <1>1, <1>3, <1>4

LEMMA WriteLastSInv ==
    ASSUME SInv, NEW c \in Caller, WriteLast(c)
    PROVE  SInv'
  <1>1. PICK i, read, new, alone :
          /\ i = req[c].pair[2] /\ new = req[c].to[2]
          /\ plan' = plan /\ req[c].pc = "last" /\ Ends(c)
          /\ Replace(i, read, new, alone)
    BY Zenon DEF WriteLast, Write
  <1>2. Faithful(new, i)
    BY <1>1 DEF SInv, Writers, Writing
  <1>3. /\ Moves /\ DOMAIN touched' = Caller
        /\ \A e \in Caller : touched[e] \subseteq touched'[e]
    BY <1>1, <1>2, Replaced DEF SInv
  <1> QED BY <1>1, <1>3, LeavesIdle

LEMMA WriteAloneSInv ==
    ASSUME SInv, NEW c \in Caller, WriteAlone(c)
    PROVE  SInv'
  <1>1. docs' = docs /\ plan' = plan /\ touched' = touched /\ Ends(c)
    BY DEF WriteAlone
  <1> QED BY <1>1, Still, LeavesIdle DEF SInv, Shapes

LEMMA DeleteSInv ==
    ASSUME SInv, NEW c \in Caller, Delete(c)
    PROVE  SInv'
  <1>1. PICK i \in Stored :
          docs' = [docs EXCEPT ![i]["state"] = "DONT_SYNC", ![i]["deleted"] = TRUE]
    BY Zenon DEF Delete
  <1>2. plan' = plan /\ touched' = touched /\ req' = req
    BY DEF Delete, history
  <1>3. "state" \in Aside /\ "deleted" \in Aside
    BY DEF Aside
  <1>4. Moves
    BY <1>1, <1>2, <1>3, SetTwoAside, Zenon DEF SInv
  <1>5. Others(c) /\ DOMAIN req'[c] = RequestFields
    BY <1>2 DEF Others, SInv, Shapes
  <1>6. \A d, x : Faithful(d, x) => Faithful(d, x)'
    BY <1>4, WritersKept DEF SInv
  <1>7. Writing(c)'
    <2>1. Writing(c) /\ Stored \subseteq Stored'
      BY <1>4 DEF SInv, Writers, Moves
    <2> QED BY <1>2, <1>6, <2>1 DEF Writing
  <1>8. Looked(c)'
    <2>1. CASE req[c].pc \in {"check", "match", "store"}
      BY <1>2, <1>4, <2>1, LookedKept DEF SInv, UpsertsLooked
    <2>2. CASE req[c].pc \notin {"check", "match", "store"}
      BY <1>2, <2>2 DEF Looked
    <2> QED BY <2>1, <2>2
  <1> QED BY <1>4, <1>5, <1>7, <1>8, Enough

-----------------------------------------------------------------------------
LEMMA InitSInv ==
    ASSUME Init
    PROVE  SInv
  <1>1. Stored = {i \in Id : plan.born[i] # None}
        /\ \A i \in Stored : docs[i] = First(i)
    BY DEF Init, Stored
  <1>2. DOMAIN req = Caller /\ DOMAIN touched = Caller
        /\ \A c \in Caller : req[c] = Idle
    BY DEF Init
  <1>3. Shapes
    BY <1>1, <1>2, ShapedFirst, IdleShape DEF Shapes
  <1>4. Writers
    BY <1>2, IdleShape DEF Writers, Writing
  <1>5. UpsertsLooked
    BY <1>2, IdleShape DEF UpsertsLooked, Looked
  <1> QED BY <1>3, <1>4, <1>5 DEF SInv

LEMMA NextSInv ==
    ASSUME SInv, [Next]_vars
    PROVE  SInv'
  <1>1. CASE UNCHANGED vars
    BY <1>1, Zenon DEF vars, history, SInv, Shapes, Writers, Writing, Faithful, Shaped, Stored,
         UpsertsLooked, Looked, Matches, Home
  <1>2. ASSUME NEW c \in Caller, UpsertLook(c) \/ UpsertCheck(c) \/ UpsertMatch(c)
        PROVE  SInv'
    BY <1>2, UpsertLookSInv, UpsertCheckSInv, UpsertMatchSInv
  <1>3. ASSUME NEW c \in Caller, UpsertStore(c) \/ UpsertInsert(c) \/ Stamp(c)
        PROVE  SInv'
    BY <1>3, UpsertStoreSInv, UpsertInsertSInv, StampSInv
  <1>4. ASSUME NEW c \in Caller, EditAsk(c) \/ EditSave(c) \/ Delete(c)
        PROVE  SInv'
    BY <1>4, EditAskSInv, EditSaveSInv, DeleteSInv
  <1>5. ASSUME NEW c \in Caller,
               FusionAsk(c) \/ FusionRead(c) \/ FusionBackend(c) \/ CancelAsk(c) \/ CancelRead(c)
        PROVE  SInv'
    BY <1>5, ReadMasterSInv, FusionReadSInv, FusionBackendSInv, CancelReadSInv
       DEF FusionAsk, CancelAsk
  <1>6. ASSUME NEW c \in Caller, IgnoreAsk(c, "ignore") \/ IgnoreAsk(c, "unignore")
        PROVE  SInv'
    BY <1>6, IgnoreAskSInv
  <1>7. ASSUME NEW c \in Caller, WriteFirst(c) \/ WriteLast(c) \/ WriteAlone(c)
        PROVE  SInv'
    BY <1>7, WriteFirstSInv, WriteLastSInv, WriteAloneSInv
  <1> QED BY <1>1, <1>2, <1>3, <1>4, <1>5, <1>6, <1>7 DEF Next

(* What the theorem says of a step.                                          *)
Refuses(c) ==
    req[c].pc = "store" /\ req'[c].pc = "stamp" =>
      \/ docs'[req'[c].at].primary \in {None, Plain(req[c].n)}
      \/ {req'[c].at, req[c].at} \cap touched[c] # {}

(* A step of one request leaves the others where they are.                   *)
Only(c) == \A d \in Caller \ {c} : req'[d] = req[d]

LEMMA OneAtATime ==
    ASSUME SInv, NEW c \in Caller, NEW r, req' = [req EXCEPT ![c] = r]
    PROVE  Only(c) /\ req'[c] = r
  BY DEF SInv, Shapes, Only

LEMMA StoreRefuses ==
    ASSUME SInv, NEW c \in Caller, UpsertStore(c)
    PROVE  Only(c) /\ Refuses(c)
  <1>1. PICK i : i = FindOne(req[c].n)
    OBVIOUS
  <1> DEFINE n == req[c].n
             at == req[c].at
             new == Updated(docs[i], req[c])
  <1>2. /\ req[c].op = "upsert" /\ req[c].pc = "store" /\ i # None
        /\ \/ Ends(c)
           \/ ToStamp(c, i) /\ Replace(i, new, new, TRUE)
    BY <1>1 DEF UpsertStore
  <1>3. /\ i \in Stored /\ Matches(i, n)
        /\ \A x \in Stored : Matches(x, n) => i <= x
    BY <1>1, <1>2, FirstMatch DEF SInv, Shapes
  <1>4. new.primary = docs[i].primary
    BY <1>3, ShapedUpdated DEF SInv, Shapes
  <1> HIDE DEF new
  <1>5. CASE Ends(c)
    <2>1. req' = [req EXCEPT ![c] = Idle]
      BY <1>5 DEF Ends
    <2> QED BY <2>1, OneAtATime, IdleShape DEF Refuses
  <1>6. CASE ToStamp(c, i) /\ Replace(i, new, new, TRUE)
    <2> DEFINE r == [[req[c] EXCEPT !.pc = "stamp"] EXCEPT !.at = i]
    <2>1. req' = [req EXCEPT ![c] = r]
      BY <1>6 DEF ToStamp
    <2>2. r.at = i
      BY DEF SInv, Shapes, RequestFields
    <2> HIDE DEF r
    <2>3. Only(c) /\ req'[c].at = i
      BY <2>1, <2>2, OneAtATime
    <2>4. docs'[i].primary = docs[i].primary
      BY <1>3, <1>4, <1>6 DEF Replace, Stored
    <2>5. \/ docs[i].primary \in {None, Plain(n)}
          \/ {i, at} \cap touched[c] # {}
          \/ at \in Stored /\ at < i /\ Matches(at, n)
      BY <1>2, <1>3 DEF SInv, UpsertsLooked, Looked
    <2>6. ~(at \in Stored /\ at < i /\ Matches(at, n))
      <3> SUFFICES ASSUME at \in Stored, Matches(at, n)
                   PROVE  ~(at < i)
        OBVIOUS
      <3>1. i <= at
        BY <1>3
      <3>2. i \in Nat /\ at \in Nat
        BY <1>3, IdentitiesAssumption DEF SInv, Shapes
      <3> HIDE DEF at
      <3> QED BY <3>1, <3>2
    <2> QED BY <2>3, <2>4, <2>5, <2>6 DEF Refuses
  <1> QED BY <1>2, <1>5, <1>6

LEMMA InsertRefuses ==
    ASSUME SInv, NEW c \in Caller, UpsertInsert(c)
    PROVE  Only(c) /\ Refuses(c)
  <1>1. PICK i : i = Min(Id \ Stored)
    OBVIOUS
  <1> DEFINE new == Inserted(req[c])
  <1>2. \/ Ends(c)
        \/ /\ ToStamp(c, i)
           /\ docs' = [x \in Stored \cup {i} |-> IF x = i THEN new ELSE docs[x]]
    BY <1>1, Zenon DEF UpsertInsert
  <1>3. new.primary = None
    BY ShapedFirst
  <1> HIDE DEF new
  <1>4. CASE Ends(c)
    <2>1. req' = [req EXCEPT ![c] = Idle]
      BY <1>4 DEF Ends
    <2> QED BY <2>1, OneAtATime, IdleShape DEF Refuses
  <1>5. CASE /\ ToStamp(c, i)
             /\ docs' = [x \in Stored \cup {i} |-> IF x = i THEN new ELSE docs[x]]
    <2> DEFINE r == [[req[c] EXCEPT !.pc = "stamp"] EXCEPT !.at = i]
    <2>1. req' = [req EXCEPT ![c] = r]
      BY <1>5 DEF ToStamp
    <2>2. r.at = i
      BY DEF SInv, Shapes, RequestFields
    <2> HIDE DEF r
    <2>3. Only(c) /\ req'[c].at = i
      BY <2>1, <2>2, OneAtATime
    <2>4. docs'[i].primary = None
      BY <1>3, <1>5
    <2> QED BY <2>3, <2>4 DEF Refuses
  <1> QED BY <1>2, <1>4, <1>5

(* No other step goes from the place before a write to the one after it.     *)
LEMMA OthersRefuse ==
    ASSUME SInv, NEW c \in Caller, NEW r, req' = [req EXCEPT ![c] = r],
           req[c].pc # "store" \/ r.pc # "stamp"
    PROVE  Only(c) /\ Refuses(c)
  BY OneAtATime DEF Refuses

LEMMA StepRefuses ==
    ASSUME SInv, NEW c \in Caller,
           \/ UpsertLook(c) \/ UpsertCheck(c) \/ UpsertMatch(c) \/ UpsertStore(c)
           \/ UpsertInsert(c) \/ Stamp(c) \/ EditAsk(c) \/ EditSave(c)
           \/ FusionAsk(c) \/ FusionRead(c) \/ FusionBackend(c) \/ CancelAsk(c)
           \/ CancelRead(c) \/ IgnoreAsk(c, "ignore") \/ IgnoreAsk(c, "unignore")
           \/ WriteFirst(c) \/ WriteLast(c) \/ WriteAlone(c)
    PROVE  Only(c) /\ Refuses(c)
  <1>1. CASE UpsertStore(c) \/ UpsertInsert(c)
    BY <1>1, StoreRefuses, InsertRefuses
  <1>2. CASE UpsertLook(c)
    <2>1. req[c].pc = "idle" /\ \E r : req' = [req EXCEPT ![c] = r]
      BY <1>2, Zenon DEF UpsertLook
    <2> QED BY <2>1, OthersRefuse
  <1>3. CASE UpsertCheck(c) \/ UpsertMatch(c)
    <2>1. req[c].pc \in {"check", "match"} /\ \E r : req' = [req EXCEPT ![c] = r]
      BY <1>3, Zenon DEF UpsertCheck, UpsertMatch
    <2> QED BY <2>1, OthersRefuse
  <1>4. CASE Stamp(c)
    <2>1. req[c].pc = "stamp" /\ \E r : req' = [req EXCEPT ![c] = r]
      BY <1>4, Zenon DEF Stamp, Ends
    <2> QED BY <2>1, OthersRefuse
  <1>5. CASE EditAsk(c) \/ EditSave(c)
    <2>1. req[c].pc \in {"idle", "save"} /\ \E r : req' = [req EXCEPT ![c] = r]
      BY <1>5, Zenon DEF EditAsk, EditSave, Ends
    <2> QED BY <2>1, OthersRefuse
  <1>6. CASE FusionAsk(c) \/ CancelAsk(c) \/ IgnoreAsk(c, "ignore") \/ IgnoreAsk(c, "unignore")
    <2>1. req[c].pc = "idle" /\ \E r : req' = [req EXCEPT ![c] = r]
      BY <1>6, Zenon DEF FusionAsk, CancelAsk, IgnoreAsk, ReadMaster, Ask
    <2> QED BY <2>1, OthersRefuse
  <1>7. CASE FusionRead(c) \/ CancelRead(c)
    <2>1. req[c].pc = "second" /\ \E r : req' = [req EXCEPT ![c] = r]
      BY <1>7, Zenon DEF FusionRead, CancelRead, Ends
    <2> QED BY <2>1, OthersRefuse
  <1>8. CASE FusionBackend(c)
    <2>1. req[c].pc = "backend"
          /\ (req' = [req EXCEPT ![c].pc = "first"] \/ req' = [req EXCEPT ![c] = Idle])
      BY <1>8, Zenon DEF FusionBackend, Ends
    <2> QED BY <2>1, OthersRefuse
  <1>9. CASE WriteFirst(c)
    <2>1. req[c].pc = "first"
          /\ (req' = [req EXCEPT ![c].pc = "last"] \/ req' = [req EXCEPT ![c] = Idle])
      BY <1>9, Zenon DEF WriteFirst, Ends
    <2> QED BY <2>1, OthersRefuse
  <1>10. CASE WriteLast(c) \/ WriteAlone(c)
    <2>1. req[c].pc = "last" /\ \E r : req' = [req EXCEPT ![c] = r]
      BY <1>10, Zenon DEF WriteLast, WriteAlone, Ends
    <2> QED BY <2>1, OthersRefuse
  <1> QED BY <1>1, <1>2, <1>3, <1>4, <1>5, <1>6, <1>7, <1>8, <1>9, <1>10

LEMMA NextRefuses ==
    ASSUME SInv, [Next]_vars
    PROVE  \A c \in Caller : Refuses(c)
  <1> SUFFICES ASSUME NEW c \in Caller, NEW d \in Caller, Next \/ UNCHANGED vars
               PROVE  Refuses(c)
    OBVIOUS
  <1>1. CASE req' = req
    BY <1>1 DEF Refuses
  <1>2. CASE \E e \in Caller : Only(e) /\ Refuses(e)
    BY <1>2 DEF Only, Refuses
  <1>3. UNCHANGED vars => req' = req
    BY DEF vars
  <1>4. ASSUME NEW e \in Caller, Delete(e) PROVE req' = req
    BY <1>4 DEF Delete
  <1> QED BY <1>1, <1>2, <1>3, <1>4, StepRefuses DEF Next

(* What a crawler sends about a number is written to no identity whose       *)
(* primary number is another, for any number of requests at once, although   *)
(* the write evaluates the filters again and checks nothing; unless the      *)
(* links of that identity, or of the one the request looked at, were changed *)
(* in between (upsertWithFingerprint).                                       *)
THEOREM SecondaryIsRefused == Spec => SecondaryRefused
  <1>1. Init => SInv
    BY InitSInv
  <1>2. SInv /\ [Next]_vars => SInv'
    BY NextSInv
  <1>3. SInv /\ [Next]_vars =>
          [\A c \in Caller : req[c].pc = "store" /\ req'[c].pc = "stamp" =>
             LET i == req'[c].at
             IN  \/ docs'[i].primary \in {None, Plain(req[c].n)}
                 \/ {i, req[c].at} \cap touched[c] # {}]_vars
    BY NextRefuses, Zenon DEF Refuses
  <1> QED BY <1>1, <1>2, <1>3, PTL DEF Spec, SecondaryRefused
-----------------------------------------------------------------------------
(* Ignored pairs. One of the two documents has the mark, and no request that *)
(* is about another pair is about to take it away.                           *)

Kept(i, j) == i \in Stored /\ j \in docs[i].ignored /\ ~Undone(i, j)

Hides == \A p \in hidden : \E i, j \in p : i # j /\ p = {i, j} /\ Kept(i, j)

(* A request to ignore a pair is about two documents, and marks both.        *)
Marks(r) ==
    r.op = "ignore" /\ r.pc \in {"first", "last"} =>
      /\ r.pair[1] # r.pair[2]
      /\ r.pair[2] \in r.to[1].ignored /\ r.pair[1] \in r.to[2].ignored

Marking == \A c \in Caller : Marks(req[c])

HInv == SInv /\ Marking /\ Hides

(* It is enough to look at the request that makes the step, and at the mark  *)
(* of a document that has one.                                               *)
LEMMA HidesKept ==
    ASSUME HInv, NEW c \in Caller, Only(c), Stored \subseteq Stored',
           DOMAIN req' = Caller, Marks(req'[c]),
           \A p \in hidden' \ hidden : \E i, j \in p : i # j /\ p = {i, j} /\ Kept(i, j)',
           \A i, j : i # j /\ {i, j} \in hidden' /\ Kept(i, j) =>
             j \in docs'[i].ignored /\ ~Undoing(req'[c], i, j)
    PROVE  Marking' /\ Hides'
  <1>1. Marking'
    BY DEF HInv, Marking, Only
  <1>2. ASSUME NEW p \in hidden'
        PROVE  \E i, j \in p : i # j /\ p = {i, j} /\ Kept(i, j)'
    <2> SUFFICES ASSUME p \in hidden
                 PROVE  \E i, j \in p : i # j /\ p = {i, j} /\ Kept(i, j)'
      BY <1>2
    <2>1. PICK i \in p, j \in p : i # j /\ p = {i, j} /\ Kept(i, j)
      BY <1>2 DEF HInv, Hides
    <2>2. j \in docs'[i].ignored /\ ~Undoing(req'[c], i, j)
      BY <1>2, <2>1
    <2>3. \A d \in Caller : ~Undoing(req'[d], i, j)
      BY <2>1, <2>2 DEF Only, Kept, Undone
    <2>4. ~Undone(i, j)'
      BY <2>3 DEF Undone, Undoing, Pair
    <2> QED BY <2>1, <2>2, <2>4 DEF Kept
  <1> QED BY <1>1, <1>2 DEF Hides

(* A step that leaves the marks alone, of a request that is about to write   *)
(* no second document.                                                       *)
Harmless(r) == r.pc \notin {"second", "backend", "first", "last"}

LEMMA HarmlessHides ==
    ASSUME HInv, NEW c \in Caller, NEW r, req' = [req EXCEPT ![c] = r], Harmless(r),
           hidden' \subseteq hidden, Stored \subseteq Stored',
           \A i \in Stored : docs'[i].ignored = docs[i].ignored
    PROVE  Marking' /\ Hides'
  <1>1. Only(c) /\ req'[c] = r /\ DOMAIN req' = Caller
    BY OneAtATime DEF HInv, SInv, Shapes
  <1>2. Marks(req'[c]) /\ \A i, j : ~Undoing(req'[c], i, j)
    BY <1>1 DEF Harmless, Marks, Undoing
  <1> QED BY <1>1, <1>2, HidesKept DEF Kept

LEMMA IdleHarmless == Harmless(Idle)
  BY IdleShape DEF Harmless

(* The marks of a document of which another field is set.                    *)
LEMMA AsideMarks ==
    ASSUME SInv, NEW i, NEW f \in Aside, NEW v, docs' = [docs EXCEPT ![i][f] = v]
    PROVE  Stored' = Stored /\ \A x \in Stored : docs'[x].ignored = docs[x].ignored
  <1>1. f \in DocFields \ {"type"} /\ f # "ignored"
    BY DEF Aside, DocFields
  <1>2. Stored' = Stored
        /\ \A x \in Stored : docs'[x] = IF x = i THEN [docs[x] EXCEPT ![f] = v] ELSE docs[x]
    BY DEF Stored
  <1> QED BY <1>1, <1>2, Field DEF SInv, Shapes

LEMMA TwoAsideMarks ==
    ASSUME SInv, NEW i, NEW f \in Aside, NEW v, NEW g \in Aside, NEW w,
           docs' = [docs EXCEPT ![i][f] = v, ![i][g] = w]
    PROVE  Stored' = Stored /\ \A x \in Stored : docs'[x].ignored = docs[x].ignored
  <1>1. /\ f \in DocFields \ {"type"} /\ f # "ignored"
        /\ g \in DocFields \ {"type"} /\ g # "ignored"
    BY DEF Aside, DocFields
  <1>2. Stored' = Stored
        /\ \A x \in Stored : docs'[x] = IF x = i THEN [[docs[x] EXCEPT ![f] = v] EXCEPT ![g] = w]
                                         ELSE docs[x]
    BY DEF Stored
  <1>3. ASSUME NEW x \in Stored
        PROVE  docs'[x].ignored = docs[x].ignored
    <2> DEFINE d == [docs[x] EXCEPT ![f] = v]
    <2>1. Shaped(d) /\ d.ignored = docs[x].ignored
      BY <1>1, Field DEF SInv, Shapes
    <2> HIDE DEF d
    <2>2. [d EXCEPT ![g] = w].ignored = d.ignored
      BY <1>1, <2>1, Field
    <2>3. docs'[x] = IF x = i THEN [d EXCEPT ![g] = w] ELSE docs[x]
      BY <1>2 DEF d
    <2> QED BY <2>1, <2>2, <2>3
  <1> QED BY <1>2, <1>3

LEMMA ReplaceMarks ==
    ASSUME NEW i \in Stored, NEW read, NEW new, NEW alone, Replace(i, read, new, alone)
    PROVE  /\ Stored' = Stored /\ docs'[i] = new
           /\ \A x \in Stored \ {i} : docs'[x] = docs[x]
  BY DEF Replace, Stored

-----------------------------------------------------------------------------
(* Upserts, edits and deletions leave the marks alone.                       *)

LEMMA UpsertHides ==
    ASSUME HInv, NEW c \in Caller,
           UpsertLook(c) \/ UpsertCheck(c) \/ UpsertMatch(c) \/ EditAsk(c) \/ WriteAlone(c)
    PROVE  Marking' /\ Hides'
  <1>1. docs' = docs /\ hidden' = hidden /\ Stored' = Stored
    BY DEF UpsertLook, UpsertCheck, UpsertMatch, EditAsk, WriteAlone, history, Stored
  <1>2. CASE UpsertLook(c)
    <2>1. PICK n \in Number, b \in Body : req' = [req EXCEPT ![c] =
            [Idle EXCEPT !.op = "upsert", !.pc = "check", !.n = n, !.body = b,
                         !.at = FindOne(n),
                         !.read = IF FindOne(n) = None THEN None ELSE docs[FindOne(n)]]]
      BY <1>2, Zenon DEF UpsertLook
    <2> DEFINE i == FindOne(n)
               read == IF i = None THEN None ELSE docs[i]
               r == [Idle EXCEPT !.op = "upsert", !.pc = "check", !.n = n, !.body = b, !.at = i,
                                 !.read = read]
    <2> HIDE DEF read
    <2>2. Harmless(r)
      BY IdleShape DEF Harmless, RequestFields
    <2> HIDE DEF r
    <2>3. req' = [req EXCEPT ![c] = r]
      BY <2>1, Zenon DEF r, read
    <2> QED BY <1>1, <2>2, <2>3, HarmlessHides
  <1>3. CASE UpsertCheck(c)
    <2>1. PICK s, p : req' = [req EXCEPT ![c] = [req[c] EXCEPT !.pc = "match", !.state = s,
                                                    !.read = None, !.print = p]]
      BY <1>3, Zenon DEF UpsertCheck
    <2> DEFINE r == [req[c] EXCEPT !.pc = "match", !.state = s, !.read = None, !.print = p]
    <2>2. Harmless(r)
      BY DEF Harmless, HInv, SInv, Shapes, RequestFields
    <2> HIDE DEF r
    <2>3. req' = [req EXCEPT ![c] = r]
      BY <2>1 DEF r
    <2> QED BY <1>1, <2>2, <2>3, HarmlessHides
  <1>4. CASE UpsertMatch(c)
    <2> DEFINE r == [req[c] EXCEPT !.pc = "store"]
    <2>1. req' = [req EXCEPT ![c] = Idle] \/ req' = [req EXCEPT ![c] = r]
      BY <1>4, Zenon DEF UpsertMatch
    <2>2. Harmless(r)
      BY DEF Harmless, HInv, SInv, Shapes, RequestFields
    <2> HIDE DEF r
    <2> QED BY <1>1, <2>1, <2>2, IdleHarmless, HarmlessHides
  <1>5. CASE EditAsk(c)
    <2>1. PICK i \in Stored, b \in Body : req' = [req EXCEPT ![c] =
            [Idle EXCEPT !.op = "edit", !.pc = "save", !.body = b, !.at = i,
                         !.read = docs[i]]]
      BY <1>5, Zenon DEF EditAsk
    <2> DEFINE d == docs[i]
               r == [Idle EXCEPT !.op = "edit", !.pc = "save", !.body = b, !.at = i,
                                 !.read = d]
    <2>2. Harmless(r)
      BY IdleShape DEF Harmless, RequestFields
    <2> HIDE DEF r
    <2>3. req' = [req EXCEPT ![c] = r]
      BY <2>1 DEF r
    <2> QED BY <1>1, <2>2, <2>3, HarmlessHides
  <1>6. CASE WriteAlone(c)
    BY <1>1, <1>6, IdleHarmless, HarmlessHides DEF WriteAlone, Ends
  <1> QED BY <1>2, <1>3, <1>4, <1>5, <1>6

LEMMA StoreHides ==
    ASSUME HInv, NEW c \in Caller, UpsertStore(c)
    PROVE  Marking' /\ Hides'
  <1>1. PICK i : i = FindOne(req[c].n)
    OBVIOUS
  <1> DEFINE new == Updated(docs[i], req[c])
             r == [[req[c] EXCEPT !.pc = "stamp"] EXCEPT !.at = i]
  <1>2. /\ hidden' = hidden /\ i # None
        /\ \/ Ends(c) /\ docs' = docs
           \/ req' = [req EXCEPT ![c] = r] /\ Replace(i, new, new, TRUE)
    BY <1>1 DEF UpsertStore, ToStamp
  <1>3. i \in Stored
    BY <1>1, <1>2, FirstMatch DEF HInv, SInv, Shapes
  <1>4. new.ignored = docs[i].ignored
    BY <1>3, ShapedUpdated DEF HInv, SInv, Shapes
  <1>5. Harmless(r)
    BY DEF Harmless, HInv, SInv, Shapes, RequestFields
  <1> HIDE DEF new, r
  <1>6. CASE Ends(c) /\ docs' = docs
    BY <1>2, <1>6, IdleHarmless, HarmlessHides DEF Ends, Stored
  <1>7. CASE req' = [req EXCEPT ![c] = r] /\ Replace(i, new, new, TRUE)
    BY <1>2, <1>3, <1>4, <1>5, <1>7, ReplaceMarks, HarmlessHides
  <1> QED BY <1>2, <1>6, <1>7

LEMMA InsertHides ==
    ASSUME HInv, NEW c \in Caller, UpsertInsert(c)
    PROVE  Marking' /\ Hides'
  <1>1. PICK i : i = Min(Id \ Stored)
    OBVIOUS
  <1> DEFINE new == Inserted(req[c])
             r == [[req[c] EXCEPT !.pc = "stamp"] EXCEPT !.at = i]
  <1>2. /\ hidden' = hidden
        /\ \/ Ends(c) /\ docs' = docs
           \/ /\ Stored # Id /\ req' = [req EXCEPT ![c] = r]
              /\ docs' = [x \in Stored \cup {i} |-> IF x = i THEN new ELSE docs[x]]
    BY <1>1, Zenon DEF UpsertInsert, ToStamp
  <1>3. Harmless(r)
    BY DEF Harmless, HInv, SInv, Shapes, RequestFields
  <1> HIDE DEF new, r
  <1>4. CASE Ends(c) /\ docs' = docs
    <2>1. hidden' = hidden /\ Stored' = Stored
      BY <1>2, <1>4 DEF Stored
    <2> QED BY <1>4, <2>1, IdleHarmless, HarmlessHides DEF Ends
  <1>5. CASE /\ Stored # Id /\ req' = [req EXCEPT ![c] = r]
             /\ docs' = [x \in Stored \cup {i} |-> IF x = i THEN new ELSE docs[x]]
    <2>1. i \in Id \ Stored
      <3>1. Id \ Stored \in SUBSET Nat /\ Id \ Stored # {}
        BY <1>5, IdentitiesAssumption DEF HInv, SInv, Shapes
      <3> QED BY <1>1, <3>1, MinIsFirst
    <2>2. Stored \subseteq Stored' /\ \A x \in Stored : docs'[x] = docs[x]
      BY <1>5, <2>1 DEF Stored
    <2> QED BY <1>2, <1>3, <1>5, <2>2, HarmlessHides
  <1> QED BY <1>2, <1>4, <1>5

LEMMA StampHides ==
    ASSUME HInv, NEW c \in Caller, Stamp(c)
    PROVE  Marking' /\ Hides'
  <1> DEFINE p == req[c].print
             i == req[c].at
  <1>1. docs' = [docs EXCEPT ![i]["print"] = p] /\ hidden' = hidden /\ Ends(c)
    BY Zenon DEF Stamp, history
  <1> HIDE DEF p, i
  <1>2. Stored' = Stored /\ \A x \in Stored : docs'[x].ignored = docs[x].ignored
    BY <1>1, AsideMarks DEF Aside, HInv
  <1> QED BY <1>1, <1>2, IdleHarmless, HarmlessHides DEF Ends

LEMMA EditSaveHides ==
    ASSUME HInv, NEW c \in Caller, EditSave(c)
    PROVE  Marking' /\ Hides'
  <1> DEFINE i == req[c].at
             u == req[c].body.uid
             k == req[c].body.key
             n == req[c].read.num
             d == docs[i]
             new == [d EXCEPT !.uid = u, !.key = k, !.num = n, !.state = "TO_VALIDATE"]
             p == PrintOf(new)
             r == [[[req[c] EXCEPT !.pc = "stamp"] EXCEPT !.read = None] EXCEPT !.print = p]
  <1>1. /\ hidden' = hidden
        /\ \/ Ends(c) /\ docs' = docs
           \/ Replace(i, new, new, TRUE) /\ req' = [req EXCEPT ![c] = r]
    BY Zenon DEF EditSave
  <1>2. i \in Stored
    BY DEF EditSave, HInv, SInv, Writers, Writing
  <1> HIDE DEF p
  <1>3. Harmless(r)
    BY DEF Harmless, HInv, SInv, Shapes, RequestFields
  <1> HIDE DEF r
  <1> HIDE DEF u, k, n
  <1>4. new.ignored = d.ignored
    <2>1. Shaped(d)
      BY <1>2 DEF HInv, SInv, Shapes
    <2> HIDE DEF d
    <2> QED BY <2>1, Zenon DEF Shaped, DocFields
  <1> HIDE DEF new
  <1>5. CASE Ends(c) /\ docs' = docs
    BY <1>1, <1>5, IdleHarmless, HarmlessHides DEF Ends, Stored
  <1>6. CASE Replace(i, new, new, TRUE) /\ req' = [req EXCEPT ![c] = r]
    BY <1>1, <1>2, <1>3, <1>4, <1>6, ReplaceMarks, HarmlessHides
  <1> QED BY <1>1, <1>5, <1>6

LEMMA DeleteHides ==
    ASSUME HInv, NEW c \in Caller, Delete(c)
    PROVE  Marking' /\ Hides'
  <1>1. PICK i \in Stored :
          docs' = [docs EXCEPT ![i]["state"] = "DONT_SYNC", ![i]["deleted"] = TRUE]
    BY Zenon DEF Delete
  <1>2. hidden' = hidden /\ req' = req
    BY DEF Delete, history
  <1>3. Stored' = Stored /\ \A x \in Stored : docs'[x].ignored = docs[x].ignored
    BY <1>1, TwoAsideMarks DEF Aside, HInv
  <1>4. \A x, y : Kept(x, y) => ~Undoing(req'[c], x, y)
    BY <1>2 DEF Kept, Undone
  <1>5. Only(c) /\ DOMAIN req' = Caller /\ Marks(req'[c])
    BY <1>2 DEF Only, HInv, SInv, Shapes, Marking
  <1> QED BY <1>2, <1>3, <1>4, <1>5, HidesKept DEF Kept

-----------------------------------------------------------------------------
(* The operations on two identities.                                         *)

LEMMA ReadMasterHides ==
    ASSUME HInv, NEW c \in Caller, NEW op, ReadMaster(c, op)
    PROVE  Marking' /\ Hides'
  <1>1. PICK i \in Stored, j \in Stored :
          req' = [req EXCEPT ![c] = Holding(op, "second", <<j, i>>, <<docs[i]>>, <<>>)]
    BY Zenon DEF ReadMaster
  <1>2. docs' = docs /\ hidden' = hidden /\ Stored' = Stored
    BY DEF ReadMaster, Ask, history, Stored
  <1> DEFINE r == Holding(op, "second", <<j, i>>, <<docs[i]>>, <<>>)
  <1>3. r.pc = "second" /\ r.pair[2] = i /\ r.from[1] = docs[i]
    BY HoldingShape
  <1>4. req' = [req EXCEPT ![c] = r]
    BY <1>1
  <1> HIDE DEF r
  <1>5. Only(c) /\ req'[c] = r /\ DOMAIN req' = Caller
    BY <1>4, OneAtATime DEF HInv, SInv, Shapes
  <1>6. \A x, y : Kept(x, y) => ~Undoing(r, x, y)
    BY <1>3 DEF Kept, Undoing
  <1>7. Marks(r)
    BY <1>3 DEF Marks
  <1> QED BY <1>2, <1>5, <1>6, <1>7, HidesKept DEF Kept

(* The documents to write have the marks of those that were read.            *)
LEMMA TwoReadHides ==
    ASSUME HInv, NEW c \in Caller, NEW op, op # "ignore", NEW pc \in {"backend", "first"},
           NEW from, NEW e, NEW d, req[c].pc = "second",
           docs' = docs, hidden' = hidden,
           req' = [req EXCEPT ![c] = Holding(op, pc, req[c].pair, from, <<e, d>>)],
           e.ignored = docs[req[c].pair[1]].ignored, d.ignored = req[c].from[1].ignored
    PROVE  Marking' /\ Hides'
  <1> DEFINE r == Holding(op, pc, req[c].pair, from, <<e, d>>)
  <1>1. r.pc = pc /\ r.pair = req[c].pair /\ r.to[1] = e /\ r.to[2] = d /\ r.op = op
    BY HoldingShape, IdleShape DEF Holding, RequestFields
  <1>2. req' = [req EXCEPT ![c] = r]
    OBVIOUS
  <1> HIDE DEF r
  <1>3. Only(c) /\ req'[c] = r /\ DOMAIN req' = Caller
    BY <1>2, OneAtATime DEF HInv, SInv, Shapes
  <1>4. ASSUME NEW x, NEW y, Kept(x, y)
        PROVE  ~Undoing(r, x, y)
    <2>1. ~Undoing(req[c], x, y) /\ y \in docs[x].ignored
      BY <1>4 DEF Kept, Undone
    <2> QED BY <1>1, <2>1 DEF Undoing, Pair
  <1>5. Marks(r)
    BY <1>1 DEF Marks
  <1> QED BY <1>3, <1>4, <1>5, HidesKept DEF Kept, Stored

LEMMA FusionReadHides ==
    ASSUME HInv, NEW c \in Caller, FusionRead(c)
    PROVE  Marking' /\ Hides'
  <1> DEFINE pair == req[c].pair
             d1 == req[c].from[1]
             d2 == docs[pair[1]]
             pc == IF d2.synced THEN "backend" ELSE "first"
  <1>1. docs' = docs /\ hidden' = hidden /\ req[c].pc = "second"
    BY DEF FusionRead, history
  <1>2. \/ Ends(c)
        \/ req' = [req EXCEPT ![c] = Holding("fusion", pc, pair, <<d2, d1>>,
                     <<Merged(d2, pair[2]), Master(d1, d2, pair[1])>>)]
    BY Zenon DEF FusionRead
  <1>3. Shaped(d1) /\ Shaped(d2)
    BY <1>1 DEF HInv, SInv, Writers, Writing, Faithful, Shapes
  <1>4. Merged(d2, pair[2]).ignored = d2.ignored
        /\ Master(d1, d2, pair[1]).ignored = d1.ignored
    BY <1>3, ShapedMerged, ShapedMaster
  <1>5. pc \in {"backend", "first"}
    OBVIOUS
  <1> HIDE DEF pc
  <1>6. CASE Ends(c)
    BY <1>1, <1>6, IdleHarmless, HarmlessHides DEF Ends, Stored
  <1>7. CASE req' = [req EXCEPT ![c] = Holding("fusion", pc, pair, <<d2, d1>>,
                       <<Merged(d2, pair[2]), Master(d1, d2, pair[1])>>)]
    <2> DEFINE e == Merged(d2, pair[2])
               d == Master(d1, d2, pair[1])
               from == <<d2, d1>>
    <2>1. req' = [req EXCEPT ![c] = Holding("fusion", pc, req[c].pair, from, <<e, d>>)]
      BY <1>7
    <2>2. e.ignored = docs[req[c].pair[1]].ignored /\ d.ignored = req[c].from[1].ignored
      BY <1>4
    <2> HIDE DEF e, d, from
    <2> QED BY <1>1, <1>5, <2>1, <2>2, TwoReadHides
  <1> QED BY <1>2, <1>6, <1>7

LEMMA CancelReadHides ==
    ASSUME HInv, NEW c \in Caller, CancelRead(c)
    PROVE  Marking' /\ Hides'
  <1> DEFINE pair == req[c].pair
             d1 == req[c].from[1]
             d2 == docs[pair[1]]
  <1>1. docs' = docs /\ hidden' = hidden /\ req[c].pc = "second"
    BY DEF CancelRead, history
  <1>2. \/ Ends(c)
        \/ req' = [req EXCEPT ![c] = Holding("cancel", "first", pair, <<d2, d1>>,
                                             <<Restored(d2), Released(d1, d2)>>)]
    BY Zenon DEF CancelRead
  <1>3. Shaped(d1) /\ Shaped(d2)
    BY <1>1 DEF HInv, SInv, Writers, Writing, Faithful, Shapes
  <1>4. Restored(d2).ignored = d2.ignored /\ Released(d1, d2).ignored = d1.ignored
    BY <1>3, ShapedRestored, ShapedReleased
  <1>5. CASE Ends(c)
    BY <1>1, <1>5, IdleHarmless, HarmlessHides DEF Ends, Stored
  <1> QED BY <1>1, <1>2, <1>4, <1>5, TwoReadHides

LEMMA IgnoreAskHides ==
    ASSUME HInv, NEW c \in Caller, NEW op, IgnoreAsk(c, op)
    PROVE  Marking' /\ Hides'
  <1> DEFINE Set(x, y) == IF op = "ignore" THEN docs[x].ignored \cup {y}
                          ELSE docs[x].ignored \ {y}
             New(x, y) == [docs[x] EXCEPT !.ignored = Set(x, y)]
  <1>1. PICK i \in Stored, j \in Stored :
          /\ i < j
          /\ req' = [req EXCEPT ![c] = Holding(op, "first", <<i, j>>, <<docs[i], docs[j]>>,
                                               <<New(i, j), New(j, i)>>)]
    BY Zenon DEF IgnoreAsk
  <1>2. docs' = docs /\ hidden' = hidden /\ Stored' = Stored
    BY DEF IgnoreAsk, Ask, history, Stored
  <1>3. i # j
    <2>1. i \in Nat /\ j \in Nat
      BY <1>1, IdentitiesAssumption DEF HInv, SInv, Shapes
    <2> QED BY <1>1, <2>1
  <1>4. New(i, j).ignored = Set(i, j) /\ New(j, i).ignored = Set(j, i)
    <2>1. Shaped(docs[i]) /\ Shaped(docs[j])
      BY DEF HInv, SInv, Shapes
    <2> HIDE DEF Set
    <2> QED BY <2>1 DEF Shaped, DocFields
  <1> DEFINE r == Holding(op, "first", <<i, j>>, <<docs[i], docs[j]>>, <<New(i, j), New(j, i)>>)
  <1>5. /\ r.pc = "first" /\ r.op = op /\ r.pair = <<i, j>>
        /\ r.to[1] = New(i, j) /\ r.to[2] = New(j, i)
    BY HoldingShape, IdleShape DEF Holding, RequestFields
  <1>6. req' = [req EXCEPT ![c] = r]
    BY <1>1
  <1> HIDE DEF r, New
  <1>7. Only(c) /\ req'[c] = r /\ DOMAIN req' = Caller
    BY <1>6, OneAtATime DEF HInv, SInv, Shapes
  <1>8. Marks(r)
    BY <1>3, <1>4, <1>5 DEF Marks
  <1>9. ASSUME NEW x, NEW y, Kept(x, y)
        PROVE  ~Undoing(r, x, y)
    <2> SUFFICES ASSUME Undoing(r, x, y)
                 PROVE  FALSE
      OBVIOUS
    <2>1. y \in docs[x].ignored
      BY <1>9 DEF Kept
    <2>2. {i, j} # {x, y}
      BY <1>5 DEF Undoing, Pair
    <2>3. \/ x = i /\ y \notin Set(i, j)
          \/ x = j /\ y \notin Set(j, i)
      BY <1>4, <1>5 DEF Undoing
    <2> QED BY <2>1, <2>2, <2>3
  <1> QED BY <1>2, <1>7, <1>8, <1>9, HidesKept DEF Kept

LEMMA FusionBackendHides ==
    ASSUME HInv, NEW c \in Caller, FusionBackend(c)
    PROVE  Marking' /\ Hides'
  <1> DEFINE j == req[c].pair[1]
             r == [req[c] EXCEPT !.pc = "first"]
  <1>1. /\ hidden' = hidden /\ req[c].pc = "backend" /\ req[c].op = "fusion"
        /\ \/ /\ docs' = [docs EXCEPT ![j]["state"] = "DONT_SYNC", ![j]["deleted"] = TRUE]
              /\ req' = [req EXCEPT ![c] = r]
           \/ /\ docs' = [docs EXCEPT ![j]["state"] = "ON_ERROR", ![j]["synced"] = FALSE]
              /\ Ends(c)
    BY Zenon DEF FusionBackend, history
  <1>2. /\ r.pc = "first" /\ r.op = "fusion" /\ r.pair = req[c].pair /\ r.to = req[c].to
    BY <1>1 DEF HInv, SInv, Shapes, RequestFields
  <1> HIDE DEF j, r
  <1>3. Stored' = Stored /\ \A x \in Stored : docs'[x].ignored = docs[x].ignored
    <2>1. "state" \in Aside /\ "deleted" \in Aside /\ "synced" \in Aside
      BY DEF Aside
    <2>2. CASE docs' = [docs EXCEPT ![j]["state"] = "DONT_SYNC", ![j]["deleted"] = TRUE]
      BY <2>1, <2>2, TwoAsideMarks, Zenon DEF HInv
    <2>3. CASE docs' = [docs EXCEPT ![j]["state"] = "ON_ERROR", ![j]["synced"] = FALSE]
      BY <2>1, <2>3, TwoAsideMarks, Zenon DEF HInv
    <2> QED BY <1>1, <2>2, <2>3
  <1>4. CASE Ends(c)
    BY <1>1, <1>3, <1>4, IdleHarmless, HarmlessHides DEF Ends
  <1>5. CASE req' = [req EXCEPT ![c] = r]
    <2>1. Only(c) /\ req'[c] = r /\ DOMAIN req' = Caller
      BY <1>5, OneAtATime DEF HInv, SInv, Shapes
    <2>2. Marks(r)
      BY <1>2 DEF Marks
    <2>3. \A x, y : Undoing(r, x, y) => Undoing(req[c], x, y)
      BY <1>1, <1>2 DEF Undoing, Pair
    <2>4. \A x, y : Kept(x, y) => ~Undoing(r, x, y)
      BY <2>3 DEF Kept, Undone
    <2> QED BY <1>1, <1>3, <2>1, <2>2, <2>4, HidesKept DEF Kept
  <1> QED BY <1>1, <1>4, <1>5

(* The mark of a document that is written: it is in what was read, or the    *)
(* request makes it.                                                         *)
LEMMA MarkWritten ==
    ASSUME HInv, NEW c \in Caller, NEW k \in {1, 2},
           \/ k = 1 /\ req[c].pc = "first"
           \/ k = 2 /\ req[c].pc = "last",
           NEW x, NEW y, x # y, Kept(x, y), x = req[c].pair[k],
           Pair(req[c]) # {x, y} \/ req[c].op = "ignore"
    PROVE  y \in req[c].to[k].ignored
  <1>1. CASE Pair(req[c]) # {x, y}
    <2>1. ~Undoing(req[c], x, y)
      BY DEF Kept, Undone
    <2> QED BY <1>1, <2>1 DEF Undoing
  <1>2. CASE Pair(req[c]) = {x, y} /\ req[c].op = "ignore"
    <2>1. Marks(req[c])
      BY DEF HInv, Marking
    <2> QED BY <1>2, <2>1 DEF Marks, Pair
  <1> QED BY <1>1, <1>2

LEMMA WriteFirstHides ==
    ASSUME HInv, NEW c \in Caller, WriteFirst(c)
    PROVE  Marking' /\ Hides'
  <1> DEFINE q == req[c]
             r == [req[c] EXCEPT !.pc = "last"]
  <1>1. PICK i, read, new, alone :
          /\ i = req[c].pair[1] /\ new = req[c].to[1] /\ req[c].pc = "first"
          /\ \/ Ends(c) /\ docs' = docs /\ hidden' = hidden
             \/ /\ Replace(i, read, new, alone) /\ req' = [req EXCEPT ![c] = r]
                /\ hidden' = IF req[c].op = "ignore" THEN hidden ELSE hidden \ {Pair(req[c])}
    BY Zenon DEF WriteFirst, Write
  <1>2. /\ r.pc = "last" /\ r.op = q.op /\ r.pair = q.pair /\ r.to = q.to
    BY DEF HInv, SInv, Shapes, RequestFields
  <1>3. i \in Stored
    BY <1>1 DEF HInv, SInv, Writers, Writing, Faithful
  <1> HIDE DEF r
  <1>4. CASE Ends(c) /\ docs' = docs /\ hidden' = hidden
    BY <1>4, IdleHarmless, HarmlessHides DEF Ends, Stored
  <1>5. CASE /\ Replace(i, read, new, alone) /\ req' = [req EXCEPT ![c] = r]
             /\ hidden' = IF req[c].op = "ignore" THEN hidden ELSE hidden \ {Pair(req[c])}
    <2>1. Only(c) /\ req'[c] = r /\ DOMAIN req' = Caller
      BY <1>5, OneAtATime DEF HInv, SInv, Shapes
    <2>2. Stored' = Stored /\ docs'[i] = new /\ \A x \in Stored \ {i} : docs'[x] = docs[x]
      BY <1>3, <1>5, ReplaceMarks
    <2>3. Marks(r)
      BY <1>1, <1>2 DEF Marks, HInv, Marking
    <2>4. \A x, y : Undoing(r, x, y) => Undoing(q, x, y)
      BY <1>1, <1>2 DEF Undoing, Pair
    <2>5. ASSUME NEW x, NEW y, x # y, {x, y} \in hidden', Kept(x, y)
          PROVE  y \in docs'[x].ignored /\ ~Undoing(r, x, y)
      <3>1. ~Undoing(r, x, y) /\ x \in Stored /\ y \in docs[x].ignored
        BY <2>4, <2>5 DEF Kept, Undone
      <3>2. Pair(q) # {x, y} \/ q.op = "ignore"
        BY <1>5, <2>5
      <3>3. x = i => y \in new.ignored
        BY <1>1, <2>5, <3>2, MarkWritten
      <3> QED BY <2>2, <3>1, <3>3
    <2>6. hidden' \subseteq hidden
      BY <1>5
    <2> QED BY <2>1, <2>2, <2>3, <2>5, <2>6, HidesKept
  <1> QED BY <1>1, <1>4, <1>5

LEMMA WriteLastHides ==
    ASSUME HInv, NEW c \in Caller, WriteLast(c)
    PROVE  Marking' /\ Hides'
  <1> DEFINE q == req[c]
             a == q.pair[1]
             b == q.pair[2]
  <1>1. PICK i, read, new, alone :
          /\ i = req[c].pair[2] /\ new = req[c].to[2] /\ req[c].pc = "last"
          /\ Replace(i, read, new, alone) /\ Ends(c)
    BY Zenon DEF WriteLast, Write
  <1>2. hidden' = IF q.op # "ignore" THEN hidden \ {Pair(q)}
                  ELSE IF Marked(docs', q.pair) /\ ~(Undone(a, b) /\ Undone(b, a))
                  THEN hidden \cup {Pair(q)}
                  ELSE hidden
    BY DEF WriteLast
  <1>3. i \in Stored /\ a \in Stored
    BY <1>1 DEF HInv, SInv, Writers, Writing, Faithful
  <1>4. Only(c) /\ req'[c] = Idle /\ DOMAIN req' = Caller
    BY <1>1, OneAtATime DEF Ends, HInv, SInv, Shapes
  <1>5. Stored' = Stored /\ docs'[i] = new /\ \A x \in Stored \ {i} : docs'[x] = docs[x]
    BY <1>1, <1>3, ReplaceMarks
  <1>6. Marks(Idle) /\ \A x, y : ~Undoing(Idle, x, y)
    BY IdleShape DEF Marks, Undoing
  <1>7. ASSUME NEW x, NEW y, x # y, {x, y} \in hidden', Kept(x, y)
        PROVE  y \in docs'[x].ignored
    <2>1. x \in Stored /\ y \in docs[x].ignored
      BY <1>7 DEF Kept
    <2>2. Pair(q) # {x, y} \/ q.op = "ignore"
      BY <1>2, <1>7
    <2>3. x = i => y \in new.ignored
      BY <1>1, <1>7, <2>2, MarkWritten
    <2> QED BY <1>5, <2>1, <2>3
  <1>8. ASSUME NEW p \in hidden' \ hidden
        PROVE  \E x, y \in p : x # y /\ p = {x, y} /\ Kept(x, y)'
    <2>1. /\ q.op = "ignore" /\ p = {a, b} /\ b \in docs'[a].ignored /\ a \in docs'[b].ignored
          /\ ~Undone(a, b) \/ ~Undone(b, a)
      BY <1>2, <1>8 DEF Marked, Pair
    <2>2. a # b
      BY <1>1, <2>1 DEF HInv, Marking, Marks
    <2>3. ASSUME NEW x, NEW y, ~Undone(x, y)
          PROVE  ~Undone(x, y)'
      <3>1. \A d \in Caller : ~Undoing(req'[d], x, y)
        BY <1>4, <1>6, <2>3 DEF Only, Undone
      <3> QED BY <3>1 DEF Undone, Undoing, Pair
    <2>4. CASE ~Undone(a, b)
      <3>1. \A x, y : x = a /\ y = b => Kept(x, y)'
        BY <1>3, <1>5, <2>1, <2>3, <2>4 DEF Kept
      <3> QED BY <2>1, <2>2, <3>1
    <2>5. CASE ~Undone(b, a)
      <3>1. \A x, y : x = b /\ y = a => Kept(x, y)'
        BY <1>1, <1>3, <1>5, <2>1, <2>3, <2>5 DEF Kept
      <3> QED BY <2>1, <2>2, <3>1
    <2> QED BY <2>1, <2>4, <2>5
  <1> QED BY <1>4, <1>5, <1>6, <1>7, <1>8, HidesKept

-----------------------------------------------------------------------------
LEMMA InitHInv ==
    ASSUME Init
    PROVE  HInv
  <1>1. hidden = {} /\ \A c \in Caller : req[c] = Idle
    BY DEF Init
  <1> QED BY <1>1, InitSInv, IdleShape DEF HInv, Hides, Marking, Marks

LEMMA NextHInv ==
    ASSUME HInv, [Next]_vars
    PROVE  HInv'
  <1>1. SInv'
    BY NextSInv DEF HInv
  <1>2. CASE UNCHANGED vars
    <2>1. docs' = docs /\ req' = req /\ hidden' = hidden
      BY <1>2 DEF vars, history
    <2>2. Marking'
      BY <2>1, Zenon DEF HInv, Marking, Marks
    <2>3. \A i, j : Kept(i, j) => Kept(i, j)'
      BY <2>1, Zenon DEF Kept, Stored, Undone, Undoing, Pair
    <2>4. Hides'
      BY <2>1, <2>3 DEF HInv, Hides
    <2> QED BY <1>1, <2>2, <2>4 DEF HInv
  <1>3. ASSUME NEW c \in Caller,
               UpsertLook(c) \/ UpsertCheck(c) \/ UpsertMatch(c) \/ EditAsk(c) \/ WriteAlone(c)
        PROVE  Marking' /\ Hides'
    BY <1>3, UpsertHides
  <1>4. ASSUME NEW c \in Caller,
               UpsertStore(c) \/ UpsertInsert(c) \/ Stamp(c) \/ EditSave(c) \/ Delete(c)
        PROVE  Marking' /\ Hides'
    BY <1>4, StoreHides, InsertHides, StampHides, EditSaveHides, DeleteHides
  <1>5. ASSUME NEW c \in Caller,
               FusionAsk(c) \/ FusionRead(c) \/ FusionBackend(c) \/ CancelAsk(c) \/ CancelRead(c)
        PROVE  Marking' /\ Hides'
    BY <1>5, ReadMasterHides, FusionReadHides, FusionBackendHides, CancelReadHides
       DEF FusionAsk, CancelAsk
  <1>6. ASSUME NEW c \in Caller, IgnoreAsk(c, "ignore") \/ IgnoreAsk(c, "unignore")
        PROVE  Marking' /\ Hides'
    BY <1>6, IgnoreAskHides
  <1>7. ASSUME NEW c \in Caller, WriteFirst(c) \/ WriteLast(c)
        PROVE  Marking' /\ Hides'
    BY <1>7, WriteFirstHides, WriteLastHides
  <1>8. ASSUME Next
        PROVE  Marking' /\ Hides'
    BY <1>3, <1>4, <1>5, <1>6, <1>7, <1>8 DEF Next
  <1> QED BY <1>1, <1>2, <1>8 DEF HInv

(* One mark is enough for searchDoubles.                                     *)
LEMMA OneMarkHides ==
    ASSUME HInv
    PROVE  IgnoredStaysHidden
  <1> SUFFICES ASSUME NEW p \in hidden, NEW g \in SearchDoubles, p \subseteq g
               PROVE  FALSE
    BY DEF IgnoredStaysHidden
  <1>1. PICK i \in p, j \in p : i # j /\ Kept(i, j)
    BY DEF HInv, Hides
  <1>2. ~SomeIgnores(g)
    BY DEF SearchDoubles
  <1> QED BY <1>1, <1>2 DEF SomeIgnores, Kept

(* A pair that operators asked to ignore is proposed no more, for any        *)
(* collection and any number of requests at once, unless two requests that   *)
(* overlap the one that ignores write its two documents back as they were    *)
(* (ignoreFusionForIdentities, searchDoubles).                               *)
THEOREM IgnoredIsHidden == Spec => []IgnoredStaysHidden
  <1>1. Init => HInv
    BY InitHInv
  <1>2. HInv /\ [Next]_vars => HInv'
    BY NextHInv
  <1>3. HInv => IgnoredStaysHidden
    BY OneMarkHides
  <1> QED BY <1>1, <1>2, <1>3, PTL DEF Spec

-----------------------------------------------------------------------------
(* Types. The document that each operation writes is one.                    *)

(* Lists of numbers: one occurrence that is taken out, and all those that    *)
(* removeInjectedValues takes out one after the other.                       *)
Taken(v, t) ==
    IF \E k \in DOMAIN t : t[k] = v
    THEN LET k == Min({x \in DOMAIN t : t[x] = v})
         IN  SubSeq(t, 1, k - 1) \o SubSeq(t, k + 1, Len(t))
    ELSE t

LEMMA WithoutByStep ==
    ASSUME NEW s, NEW injected, Len(injected) \in Nat
    PROVE  \E f : /\ f[0] = s /\ Without(s, injected) = f[Len(injected)]
                  /\ \A k \in 1 .. Len(injected) : f[k] = Taken(injected[k], f[k - 1])
  <1> DEFINE left[k \in 0 .. Len(injected)] ==
               IF k = 0 THEN s ELSE Taken(injected[k], left[k - 1])
             N == Len(injected)
             Step(f, n) == [k \in 0 .. n |-> IF k = 0 THEN s ELSE Taken(injected[k], f[k - 1])]
  <1>1. Without(s, injected) = left[N]
    BY DEF Without, Taken
  <1>2. left = CHOOSE f : f = Step(f, N)
    OBVIOUS
  <1> HIDE DEF left
  <1>4. ASSUME NEW n \in 0 .. N
        PROVE  \E f : f = Step(f, n)
    <2> DEFINE Bad == {x \in 0 .. N : ~ \E f : f = Step(f, x)}
               m == Min(Bad)
    <2> SUFFICES ASSUME Bad # {}
                 PROVE  FALSE
      BY <1>4
    <2>1. m \in Bad /\ \A x \in Bad : m <= x
      <3>1. Bad \in SUBSET Nat
        OBVIOUS
      <3> HIDE DEF Bad
      <3> QED BY <3>1, MinIsFirst
    <2> HIDE DEF m
    <2>2. m # 0
      <3>1. [k \in 0 .. 0 |-> s] = Step([k \in 0 .. 0 |-> s], 0)
        OBVIOUS
      <3> QED BY <2>1, <3>1
    <2>3. m - 1 \in 0 .. N /\ m - 1 \notin Bad
      <3>1. m \in 0 .. N
        BY <2>1
      <3> HIDE DEF Bad
      <3> QED BY <2>1, <2>2, <3>1
    <2>4. PICK f : f = Step(f, m - 1)
      BY <2>3
    <2> DEFINE g == [k \in 0 .. m |-> IF k < m THEN f[k] ELSE Taken(injected[m], f[m - 1])]
    <2>5. ASSUME NEW k \in 0 .. m
          PROVE  g[k] = IF k = 0 THEN s ELSE Taken(injected[k], g[k - 1])
      BY <2>1, <2>2, <2>3, <2>4
    <2>6. g = Step(g, m)
      BY <2>5
    <2> QED BY <2>1, <2>6
  <1>5. left = Step(left, N)
    <2>1. \E f : f = Step(f, N)
      BY <1>4
    <2> HIDE DEF Step
    <2> QED BY <1>2, <2>1
  <1>6. left[0] = s /\ \A k \in 1 .. N : left[k] = Taken(injected[k], left[k - 1])
    BY <1>5
  <1> QED BY <1>1, <1>6

LEMMA TakenOut ==
    ASSUME NEW S, NEW t \in Seq(S), NEW v
    PROVE  \/ Taken(v, t) = t /\ \A k \in DOMAIN t : t[k] # v
           \/ \E m \in 1 .. Len(t) :
                /\ t[m] = v /\ \A k \in 1 .. m - 1 : t[k] # v
                /\ Taken(v, t) \in Seq(S) /\ Len(Taken(v, t)) = Len(t) - 1
                /\ \A k \in 1 .. Len(t) - 1 : Taken(v, t)[k] = t[IF k < m THEN k ELSE k + 1]
  <1> SUFFICES ASSUME \E k \in DOMAIN t : t[k] = v
               PROVE  \E m \in 1 .. Len(t) :
                        /\ t[m] = v /\ \A k \in 1 .. m - 1 : t[k] # v
                        /\ Taken(v, t) \in Seq(S) /\ Len(Taken(v, t)) = Len(t) - 1
                        /\ \A k \in 1 .. Len(t) - 1 : Taken(v, t)[k] = t[IF k < m THEN k ELSE k + 1]
    BY DEF Taken
  <1> DEFINE At == {x \in DOMAIN t : t[x] = v}
             m == Min(At)
             a == SubSeq(t, 1, m - 1)
             b == SubSeq(t, m + 1, Len(t))
  <1>1. At \in SUBSET Nat /\ At # {} /\ DOMAIN t = 1 .. Len(t) /\ Len(t) \in Nat
    OBVIOUS
  <1>2. m \in At /\ \A x \in At : m <= x
    BY <1>1, MinIsFirst
  <1>3. Taken(v, t) = a \o b
    BY DEF Taken
  <1> HIDE DEF m
  <1>4. m \in 1 .. Len(t) /\ t[m] = v /\ \A k \in 1 .. m - 1 : t[k] # v
    BY <1>1, <1>2
  <1>5. /\ a \in Seq(S) /\ b \in Seq(S) /\ Len(a) = m - 1 /\ Len(b) = Len(t) - m
        /\ \A k \in 1 .. m - 1 : a[k] = t[k]
        /\ \A k \in 1 .. Len(t) - m : b[k] = t[m + k]
    <2>1. \A k \in DOMAIN t : t[k] \in S
      OBVIOUS
    <2>2. /\ a \in Seq(S) /\ Len(a) = m - 1 /\ \A k \in 1 .. m - 1 : a[k] = t[k]
      BY <1>1, <1>4, <2>1, SubSeqProperties
    <2>3. /\ b \in Seq(S) /\ Len(b) = Len(t) - m /\ \A k \in 1 .. Len(t) - m : b[k] = t[m + k]
      <3>1. m + 1 \in Int /\ Len(t) \in Int /\ \A k \in m + 1 .. Len(t) : t[k] \in S
        BY <1>1, <1>4, <2>1
      <3>2. /\ b \in Seq(S)
            /\ Len(b) = IF m + 1 <= Len(t) THEN Len(t) - (m + 1) + 1 ELSE 0
            /\ \A k \in 1 .. Len(t) - (m + 1) + 1 : b[k] = t[m + 1 + k - 1]
        BY <3>1, SubSeqProperties
      <3> HIDE DEF b
      <3>3. Len(b) = Len(t) - m
        <4>1. m \in Nat /\ Len(t) \in Nat /\ m <= Len(t)
          BY <1>1, <1>4
        <4>2. Len(b) = IF m + 1 <= Len(t) THEN Len(t) - (m + 1) + 1 ELSE 0
          BY <3>2
        <4> HIDE DEF At
        <4> QED BY <4>1, <4>2
      <3>4. ASSUME NEW k \in 1 .. Len(t) - m PROVE b[k] = t[m + k]
        <4>1. k \in 1 .. Len(t) - (m + 1) + 1 /\ m + 1 + k - 1 = m + k
          BY <1>1, <1>4
        <4> QED BY <3>2, <4>1
      <3> QED BY <3>2, <3>3, <3>4
    <2> QED BY <2>2, <2>3
  <1> HIDE DEF a, b
  <1>6. a \o b \in Seq(S) /\ Len(a \o b) = Len(t) - 1
    <2>1. a \o b \in Seq(S) /\ Len(a \o b) = Len(a) + Len(b)
      BY <1>5, ConcatProperties
    <2>2. Len(a) + Len(b) = Len(t) - 1
      BY <1>1, <1>4, <1>5
    <2> QED BY <2>1, <2>2
  <1>7. ASSUME NEW k \in 1 .. Len(t) - 1
        PROVE  (a \o b)[k] = t[IF k < m THEN k ELSE k + 1]
    <2>1. (a \o b)[k] = IF k <= Len(a) THEN a[k] ELSE b[k - Len(a)]
      <3>1. k \in 1 .. Len(a) + Len(b)
        BY <1>1, <1>4, <1>5
      <3> QED BY <1>5, <3>1, ConcatProperties
    <2>2. CASE k < m
      BY <1>1, <1>4, <1>5, <2>1, <2>2
    <2>3. CASE ~(k < m)
      <3>1. k - (m - 1) \in 1 .. Len(t) - m /\ m + (k - (m - 1)) = k + 1 /\ ~(k <= m - 1)
        BY <1>1, <1>4, <2>3
      <3>2. b[k - (m - 1)] = t[k + 1]
        BY <1>5, <3>1
      <3> QED BY <1>5, <2>1, <2>3, <3>1, <3>2
    <2> QED BY <2>2, <2>3
  <1> QED BY <1>3, <1>4, <1>6, <1>7

(* A list without the values that were injected, although each may be taken  *)
(* out of what the ones before it have left.                                 *)
LEMMA WithoutTyped ==
    ASSUME NEW s \in Seq(Entry), NEW injected \in Seq(Entry)
    PROVE  Without(s, injected) \in Seq(Entry)
  <1> DEFINE N == Len(injected)
  <1>1. N \in Nat
    OBVIOUS
  <1>2. PICK f : /\ f[0] = s /\ Without(s, injected) = f[N]
                 /\ \A k \in 1 .. N : f[k] = Taken(injected[k], f[k - 1])
    BY <1>1, WithoutByStep
  <1>3. ASSUME NEW v, NEW t \in Seq(Entry)
        PROVE  Taken(v, t) \in Seq(Entry)
    BY TakenOut
  <1> HIDE DEF N
  <1>4. ASSUME NEW n \in 0 .. N
        PROVE  f[n] \in Seq(Entry)
    <2> DEFINE Bad == {x \in 0 .. N : f[x] \notin Seq(Entry)}
               m == Min(Bad)
    <2> SUFFICES ASSUME Bad # {}
                 PROVE  FALSE
      BY <1>4
    <2>1. m \in Bad /\ \A x \in Bad : m <= x
      <3>1. Bad \in SUBSET Nat
        OBVIOUS
      <3> HIDE DEF Bad
      <3> QED BY <3>1, MinIsFirst
    <2> HIDE DEF m
    <2>2. m \in 1 .. N /\ m - 1 \in 0 .. N /\ f[m] \notin Seq(Entry)
      BY <1>1, <1>2, <2>1
    <2>3. m - 1 \notin Bad
      <3> HIDE DEF Bad
      <3> QED BY <2>1, <2>2
    <2>4. f[m - 1] \in Seq(Entry)
      BY <2>2, <2>3
    <2> QED BY <1>2, <1>3, <2>2, <2>4
  <1> QED BY <1>1, <1>2, <1>4

(* What the operations make of entries, lists and documents.                 *)
LEMMA EntryTyped ==
    /\ \A n \in Number \cup {None} : Plain(n) \in Entry /\ <<Plain(n)>> \in Seq(Entry)
    /\ \A e \in Entry, g \in BOOLEAN : [e EXCEPT !.gone = g] \in Entry
  BY DEF Entry, Plain

LEMMA ListTyped ==
    ASSUME NEW num \in Seq(Entry)
    PROVE  /\ Prefixed(num) \in Seq(Entry) /\ Unprefixed(num) \in Seq(Entry)
           /\ Primary(num) \in Entry \cup {None}
           /\ (IF num = <<>> THEN num ELSE [num EXCEPT ![1].gone = FALSE]) \in Seq(Entry)
  <1>1. CASE num = <<>>
    <2>1. [of |-> None, gone |-> TRUE] \in Entry
      BY DEF Entry
    <2>2. Unprefixed(num) = <<>>
      BY <1>1 DEF Unprefixed
    <2>3. Prefixed(num) \in Seq(Entry)
      BY <1>1, <2>1 DEF Prefixed
    <2>4. Primary(num) = None
      BY <1>1 DEF Primary
    <2> QED BY <1>1, <2>2, <2>3, <2>4
  <1>2. CASE num # <<>>
    <2>1. num[1] \in Entry /\ 1 \in 1 .. Len(num) /\ Len(num) \in Nat
      BY <1>2
    <2>2. ASSUME NEW g \in BOOLEAN
          PROVE  [num EXCEPT ![1].gone = g] \in Seq(Entry)
      <3> DEFINE e == [num[1] EXCEPT !.gone = g]
      <3>1. e \in Entry
        BY <2>1, EntryTyped
      <3>2. [num EXCEPT ![1].gone = g] = [num EXCEPT ![1] = e]
        OBVIOUS
      <3> HIDE DEF e
      <3> QED BY <2>1, <3>1, <3>2, ExceptSeq
    <2>3. Unprefixed(num) \in Seq(Entry)
      <3>0. \A k \in DOMAIN num : num[k] \in Entry
        OBVIOUS
      <3>1. \A k \in DOMAIN num : Plain(num[k].of) \in Entry
        BY <3>0 DEF Entry, Plain
      <3>2. DOMAIN num = 1 .. Len(num)
        BY LenProperties
      <3> DEFINE u == Unprefixed(num)
      <3>3. u = [k \in 1 .. Len(num) |-> Plain(num[k].of)]
        BY <3>2 DEF Unprefixed
      <3> HIDE DEF u
      <3>4. u \in Seq(Entry)
        BY <2>1, <3>1, <3>2, <3>3
      <3> QED BY <3>4 DEF u
    <2>4. Prefixed(num) \in Seq(Entry)
      BY <1>2, <2>2 DEF Prefixed
    <2>5. Primary(num) \in Entry
      BY <1>2, <2>1 DEF Primary
    <2> QED BY <1>2, <2>2, <2>3, <2>4, <2>5
  <1> QED BY <1>1, <1>2

LEMMA MasterTyped ==
    ASSUME NEW d \in Doc, NEW e \in Doc, NEW i \in Id
    PROVE  Master(d, e, i) \in Doc
  <1> DEFINE p == Primary(d.num)
             n == d.num \o e.num
  <1>1. Master(d, e, i) = [d EXCEPT !.primary = p, !.num = n, !.state = "TO_VALIDATE",
                                    !.src = i]
    BY Zenon DEF Master
  <1>2. d.num \in Seq(Entry) /\ e.num \in Seq(Entry)
    BY DEF Doc
  <1>3. p \in Entry \cup {None} /\ n \in Seq(Entry)
    BY <1>2, ListTyped, ConcatProperties
  <1> HIDE DEF p, n
  <1> QED BY <1>1, <1>3 DEF Doc, State

LEMMA MergedTyped ==
    ASSUME NEW d \in Doc, NEW i \in Id
    PROVE  Merged(d, i) \in Doc
  <1> DEFINE n == Prefixed(d.num)
  <1>1. Merged(d, i) = [d EXCEPT !.dest = i, !.num = n, !.state = "DONT_SYNC"]
    BY Zenon DEF Merged
  <1>2. n \in Seq(Entry)
    BY ListTyped DEF Doc
  <1> HIDE DEF n
  <1> QED BY <1>1, <1>2 DEF Doc, State

LEMMA ReleasedTyped ==
    ASSUME NEW d \in Doc, NEW e \in Doc
    PROVE  Released(d, e) \in Doc
  <1> DEFINE n == Without(d.num, Unprefixed(e.num))
  <1>1. Released(d, e) = [d EXCEPT !.num = n, !.src = None, !.primary = None,
                                   !.state = "TO_VALIDATE"]
    BY Zenon DEF Released
  <1>2. d.num \in Seq(Entry) /\ e.num \in Seq(Entry)
    BY DEF Doc
  <1>3. n \in Seq(Entry)
    BY <1>2, ListTyped, WithoutTyped
  <1> HIDE DEF n
  <1> QED BY <1>1, <1>3 DEF Doc, State

LEMMA RestoredTyped ==
    ASSUME NEW d \in Doc
    PROVE  Restored(d) \in Doc
  <1> DEFINE n == IF d.num = <<>> THEN d.num ELSE [d.num EXCEPT ![1].gone = FALSE]
  <1>1. Restored(d) = [d EXCEPT !.dest = None, !.state = "TO_VALIDATE", !.num = n]
    BY Zenon DEF Restored
  <1>2. n \in Seq(Entry)
    BY ListTyped DEF Doc
  <1> HIDE DEF n
  <1> QED BY <1>1, <1>2 DEF Doc, State

LEMMA UpdatedTyped ==
    ASSUME NEW d \in Doc, NEW u \in Uid, NEW k \in Key, NEW t \in State,
           NEW n \in Seq(Entry)
    PROVE  [d EXCEPT !.uid = u, !.key = k, !.state = t, !.num = n] \in Doc
  BY DEF Doc

LEMMA PrintTyped ==
    ASSUME NEW d \in Doc
    PROVE  PrintOf(d) \in Prints
  BY DEF Doc, Prints, PrintOf

LEMMA StampedTyped ==
    ASSUME NEW d \in Doc
    PROVE  /\ \A p \in Prints : [d EXCEPT !.print = p] \in Doc
           /\ \A s \in SUBSET Id : [d EXCEPT !.ignored = s] \in Doc
           /\ [d EXCEPT !.state = "DONT_SYNC", !.deleted = TRUE] \in Doc
           /\ [d EXCEPT !.state = "ON_ERROR", !.synced = FALSE] \in Doc
  BY DEF Doc, State

LEMMA InsertedTyped ==
    ASSUME NEW n \in Number, NEW r, r.n = n, r.body.uid \in Uid, r.body.key \in Key,
           r.state \in State, Home(n) \in Types
    PROVE  Inserted(r) \in Doc
  BY EntryTyped DEF Inserted, Doc

-----------------------------------------------------------------------------
(* What a request holds at the places where it uses it.                      *)
Works(r) ==
    /\ r.pc \in {"check", "match", "store"} => r.n \in Number /\ r.body \in Body
    /\ r.pc \in {"match", "store", "stamp"} => r.print \in Prints
    /\ r.pc = "save" => r.read \in Doc /\ r.body \in Body
    /\ r.pc = "second" => r.from[1] \in Doc
    /\ r.pc \in {"backend", "first", "last"} => r.to[1] \in Doc /\ r.to[2] \in Doc

TInv == SInv /\ TypeOK /\ \A c \in Caller : Works(req[c])

DocsTyped == Stored \subseteq Id /\ docs \in [Stored -> Doc]

HistoryTyped ==
    /\ own \in [Id -> Number \cup {None}] /\ touched \in [Caller -> SUBSET Id]
    /\ hidden \subseteq SUBSET Id /\ clean \in BOOLEAN

(* It is enough to look at the request that makes the step.                  *)
LEMMA StepTyped ==
    ASSUME TInv, NEW c \in Caller, NEW r, req' = [req EXCEPT ![c] = r], RequestOK(r), Works(r),
           DocsTyped', HistoryTyped', plan' = plan, count' \in Nat
    PROVE  TypeOK' /\ \A d \in Caller : Works(req'[d])
  <1>1. req'[c] = r /\ DOMAIN req' = Caller /\ \A d \in Caller \ {c} : req'[d] = req[d]
    BY DEF TInv, TypeOK
  <1>2. \A d \in Caller : RequestOK(req'[d]) /\ Works(req'[d])
    BY <1>1 DEF TInv, TypeOK
  <1>3. \A d \in Caller : RequestOK(req[d])'
    BY <1>2 DEF RequestOK
  <1>4. plan' \in Plans
    BY DEF TInv, TypeOK
  <1> QED BY <1>1, <1>2, <1>3, <1>4, Zenon DEF TypeOK, DocsTyped, HistoryTyped

LEMMA IdleTyped == RequestOK(Idle) /\ Works(Idle)
  <1>1. <<>> \in Seq(Id) /\ <<>> \in Seq(Doc)
    OBVIOUS
  <1> QED BY <1>1 DEF Idle, RequestOK, Works, Ops, State

LEMMA HistoryKept ==
    ASSUME TypeOK, UNCHANGED history
    PROVE  HistoryTyped'
  BY DEF TypeOK, history, HistoryTyped

LEMMA DocsKept ==
    ASSUME TypeOK, docs' = docs
    PROVE  DocsTyped'
  BY DEF TypeOK, DocsTyped, Stored

LEMMA ReplaceTyped ==
    ASSUME TypeOK, NEW i \in Stored, NEW read, NEW new \in Doc, NEW alone,
           Replace(i, read, new, alone)
    PROVE  DocsTyped' /\ touched' \in [Caller -> SUBSET Id] /\ clean' \in BOOLEAN
  <1>1. Stored' = Stored /\ docs' \in [Stored' -> Doc]
    BY DEF TypeOK, Replace, Stored
  <1>2. touched' \in [Caller -> SUBSET Id]
    <2>1. \/ touched' = touched
          \/ touched' = [c \in Caller |-> IF c \in Upserting THEN touched[c] \cup {i}
                                         ELSE touched[c]]
      BY DEF Replace
    <2>2. i \in Id /\ touched \in [Caller -> SUBSET Id]
      BY DEF TypeOK
    <2> QED BY <2>1, <2>2
  <1>3. clean' \in BOOLEAN
    BY Zenon DEF Replace
  <1> QED BY <1>1, <1>2, <1>3 DEF TypeOK, DocsTyped

-----------------------------------------------------------------------------
LEMMA UpsertLookTyped ==
    ASSUME TInv, NEW c \in Caller, UpsertLook(c)
    PROVE  TypeOK' /\ \A d \in Caller : Works(req'[d])
  <1>1. PICK n \in Number, b \in Body : req' = [req EXCEPT ![c] =
          [Idle EXCEPT !.op = "upsert", !.pc = "check", !.n = n, !.body = b,
                       !.at = FindOne(n),
                       !.read = IF FindOne(n) = None THEN None ELSE docs[FindOne(n)]]]
    BY Zenon DEF UpsertLook
  <1> DEFINE i == FindOne(n)
             read == IF i = None THEN None ELSE docs[i]
             r == [Idle EXCEPT !.op = "upsert", !.pc = "check", !.n = n, !.body = b, !.at = i,
                               !.read = read]
  <1>2. i \in Id \cup {None} /\ read \in Doc \cup {None}
    BY FirstMatch DEF TInv, TypeOK
  <1>3. req' = [req EXCEPT ![c] = r]
    BY <1>1, Zenon
  <1> HIDE DEF i, read
  <1>4. RequestOK(r) /\ Works(r)
    BY <1>2, IdleTyped DEF RequestOK, Works, Idle, Ops
  <1> HIDE DEF r
  <1>5. HistoryTyped'
    <2>1. /\ touched' = [touched EXCEPT ![c] = {}] /\ own' = own /\ hidden' = hidden
          /\ clean' = clean
      BY DEF UpsertLook
    <2> QED BY <2>1 DEF TInv, TypeOK, HistoryTyped
  <1>6. docs' = docs /\ plan' = plan /\ count' \in Nat
    BY DEF UpsertLook, Start, TInv, TypeOK
  <1> QED BY <1>3, <1>4, <1>5, <1>6, DocsKept, StepTyped DEF TInv

LEMMA UpsertCheckTyped ==
    ASSUME TInv, NEW c \in Caller, UpsertCheck(c)
    PROVE  TypeOK' /\ \A d \in Caller : Works(req'[d])
  <1> DEFINE q == req[c]
             s == IF q.body.valid /\ ~UidTaken(q.read, q.at, q.body) THEN "TO_VALIDATE"
                  ELSE "TO_COMPLETE"
             n == IF q.body.whole \/ q.read = None THEN <<Plain(q.n)>> ELSE q.read.num
             p == [num |-> n, uid |-> q.body.uid, key |-> q.body.key]
             r == [req[c] EXCEPT !.pc = "match", !.state = s, !.read = None, !.print = p]
  <1>1. /\ req' = [req EXCEPT ![c] = r] /\ q.pc = "check"
        /\ docs' = docs /\ plan' = plan /\ count' = count /\ UNCHANGED history
    BY Zenon DEF UpsertCheck
  <1>2. RequestOK(q) /\ q.n \in Number /\ q.body \in Body /\ DOMAIN q = RequestFields
    BY <1>1 DEF TInv, TypeOK, Works, SInv, Shapes
  <1>3. s \in State
    BY DEF State
  <1>4. p \in Prints
    <2>1. q.body.uid \in Uid /\ q.body.key \in Key
      BY <1>2, IdentitiesAssumption DEF Bodies
    <2>2. q.read # None => q.read.num \in Seq(Entry)
      BY <1>2 DEF RequestOK, Doc
    <2>3. n \in Seq(Entry)
      BY <1>2, <2>2, EntryTyped
    <2> HIDE DEF n
    <2> QED BY <2>1, <2>3 DEF Prints
  <1> HIDE DEF s, p
  <1>5. RequestOK(r) /\ Works(r)
    BY <1>2, <1>3, <1>4 DEF RequestOK, Works, RequestFields
  <1> HIDE DEF r
  <1>6. count' \in Nat
    BY <1>1 DEF TInv, TypeOK
  <1> QED BY <1>1, <1>5, <1>6, DocsKept, HistoryKept, StepTyped DEF TInv

LEMMA UpsertMatchTyped ==
    ASSUME TInv, NEW c \in Caller, UpsertMatch(c)
    PROVE  TypeOK' /\ \A d \in Caller : Works(req'[d])
  <1> DEFINE q == req[c]
             r == [req[c] EXCEPT !.pc = "store"]
  <1>1. /\ req' = [req EXCEPT ![c] = Idle] \/ req' = [req EXCEPT ![c] = r]
        /\ q.pc = "match"
        /\ docs' = docs /\ plan' = plan /\ count' = count /\ UNCHANGED history
    BY Zenon DEF UpsertMatch
  <1>2. RequestOK(q) /\ Works(q) /\ DOMAIN q = RequestFields
    BY DEF TInv, TypeOK, SInv, Shapes
  <1>3. RequestOK(r) /\ Works(r)
    BY <1>1, <1>2 DEF RequestOK, Works, RequestFields
  <1> HIDE DEF r
  <1>4. count' \in Nat
    BY <1>1 DEF TInv, TypeOK
  <1> QED BY <1>1, <1>3, <1>4, IdleTyped, DocsKept, HistoryKept, StepTyped DEF TInv

LEMMA UpsertStoreTyped ==
    ASSUME TInv, NEW c \in Caller, UpsertStore(c)
    PROVE  TypeOK' /\ \A d \in Caller : Works(req'[d])
  <1>1. PICK i : i = FindOne(req[c].n)
    OBVIOUS
  <1> DEFINE q == req[c]
             new == Updated(docs[i], q)
             r == [[req[c] EXCEPT !.pc = "stamp"] EXCEPT !.at = i]
  <1>2. /\ i # None /\ q.pc = "store"
        /\ \/ Ends(c) /\ docs' = docs /\ clean' = clean /\ touched' = touched
           \/ req' = [req EXCEPT ![c] = r] /\ Replace(i, new, new, TRUE)
    BY <1>1 DEF UpsertStore, ToStamp
  <1>3. plan' = plan /\ count' \in Nat /\ own' = own /\ hidden' = hidden
    BY DEF UpsertStore, TInv, TypeOK
  <1>4. i \in Stored /\ i \in Id
    BY <1>1, <1>2, FirstMatch DEF TInv, TypeOK
  <1>5. RequestOK(q) /\ Works(q) /\ DOMAIN q = RequestFields
    BY DEF TInv, TypeOK, SInv, Shapes
  <1>6. new \in Doc
    <2> DEFINE u == q.body.uid
               k == q.body.key
               t == q.state
               n == IF q.body.whole THEN <<Plain(q.n)>> ELSE docs[i].num
    <2>1. docs[i] \in Doc
      BY <1>4 DEF TInv, TypeOK
    <2>2. q.n \in Number /\ q.body \in Body
      BY <1>2, <1>5 DEF Works
    <2>3. u \in Uid /\ k \in Key /\ t \in State
      BY <1>5, <2>2, IdentitiesAssumption DEF Bodies, RequestOK
    <2>4. n \in Seq(Entry)
      BY <2>1, <2>2, EntryTyped DEF Doc
    <2>5. new = [docs[i] EXCEPT !.uid = u, !.key = k, !.state = t, !.num = n]
      BY Zenon DEF Updated
    <2> HIDE DEF u, k, t, n, new
    <2> QED BY <2>1, <2>3, <2>4, <2>5, UpdatedTyped
  <1>7. RequestOK(r) /\ Works(r)
    BY <1>2, <1>4, <1>5 DEF RequestOK, Works, RequestFields
  <1> HIDE DEF new, r
  <1>8. CASE Ends(c) /\ docs' = docs /\ clean' = clean /\ touched' = touched
    <2>1. HistoryTyped'
      BY <1>3, <1>8 DEF TInv, TypeOK, HistoryTyped
    <2> QED BY <1>3, <1>8, <2>1, IdleTyped, DocsKept, StepTyped DEF TInv, Ends
  <1>9. CASE req' = [req EXCEPT ![c] = r] /\ Replace(i, new, new, TRUE)
    <2>1. DocsTyped' /\ touched' \in [Caller -> SUBSET Id] /\ clean' \in BOOLEAN
      BY <1>4, <1>6, <1>9, ReplaceTyped DEF TInv
    <2>2. HistoryTyped'
      BY <1>3, <2>1 DEF TInv, TypeOK, HistoryTyped
    <2> QED BY <1>3, <1>7, <1>9, <2>1, <2>2, StepTyped
  <1> QED BY <1>2, <1>8, <1>9

LEMMA UpsertInsertTyped ==
    ASSUME TInv, NEW c \in Caller, UpsertInsert(c)
    PROVE  TypeOK' /\ \A d \in Caller : Works(req'[d])
  <1>1. PICK i : i = Min(Id \ Stored)
    OBVIOUS
  <1> DEFINE q == req[c]
             new == Inserted(q)
             r == [[req[c] EXCEPT !.pc = "stamp"] EXCEPT !.at = i]
  <1>2. \/ Ends(c) /\ docs' = docs /\ own' = own
        \/ /\ Stored # Id /\ req' = [req EXCEPT ![c] = r]
           /\ docs' = [x \in Stored \cup {i} |-> IF x = i THEN new ELSE docs[x]]
           /\ own' = [own EXCEPT ![i] = q.n]
    BY <1>1, Zenon DEF UpsertInsert, ToStamp
  <1>3. /\ plan' = plan /\ count' \in Nat /\ touched' = touched /\ hidden' = hidden
        /\ clean' = clean /\ q.pc = "store"
    BY DEF UpsertInsert, TInv, TypeOK
  <1>4. RequestOK(q) /\ Works(q) /\ DOMAIN q = RequestFields
    BY DEF TInv, TypeOK, SInv, Shapes
  <1>5. q.n \in Number
    BY <1>3, <1>4 DEF Works
  <1>6. new \in Doc
    <2>1. q.body \in Body
      BY <1>3, <1>4 DEF Works
    <2>2. q.body.uid \in Uid /\ q.body.key \in Key /\ q.state \in State
      BY <1>4, <2>1, IdentitiesAssumption DEF Bodies, RequestOK
    <2>3. Home(q.n) \in Types
      <3>1. plan \in Plans
        BY DEF TInv, TypeOK
      <3>2. plan.home \in [Number -> Types]
        BY <3>1, IdentitiesAssumption
      <3> QED BY <1>5, <3>2 DEF Home
    <2> QED BY <1>5, <2>2, <2>3, InsertedTyped
  <1> HIDE DEF new
  <1>7. CASE Ends(c) /\ docs' = docs /\ own' = own
    <2>1. HistoryTyped'
      BY <1>3, <1>7 DEF TInv, TypeOK, HistoryTyped
    <2> QED BY <1>3, <1>7, <2>1, IdleTyped, DocsKept, StepTyped DEF TInv, Ends
  <1>8. CASE /\ Stored # Id /\ req' = [req EXCEPT ![c] = r]
             /\ docs' = [x \in Stored \cup {i} |-> IF x = i THEN new ELSE docs[x]]
             /\ own' = [own EXCEPT ![i] = q.n]
    <2>1. i \in Id
      <3>1. Id \ Stored \in SUBSET Nat /\ Id \ Stored # {}
        BY <1>8, IdentitiesAssumption DEF TInv, TypeOK
      <3> QED BY <1>1, <3>1, MinIsFirst
    <2>2. RequestOK(r) /\ Works(r)
      BY <1>3, <1>4, <2>1 DEF RequestOK, Works, RequestFields
    <2> HIDE DEF r
    <2>3. DocsTyped'
      BY <1>6, <1>8, <2>1 DEF TInv, TypeOK, DocsTyped, Stored
    <2>4. own' \in [Id -> Number \cup {None}]
      BY <1>5, <1>8 DEF TInv, TypeOK
    <2>5. HistoryTyped'
      BY <1>3, <2>4 DEF TInv, TypeOK, HistoryTyped
    <2> QED BY <1>3, <1>8, <2>2, <2>3, <2>5, StepTyped
  <1> QED BY <1>2, <1>7, <1>8

LEMMA StampTyped ==
    ASSUME TInv, NEW c \in Caller, Stamp(c)
    PROVE  TypeOK' /\ \A d \in Caller : Works(req'[d])
  <1> DEFINE p == req[c].print
             i == req[c].at
  <1>1. /\ docs' = [docs EXCEPT ![i].print = p] /\ req' = [req EXCEPT ![c] = Idle]
        /\ plan' = plan /\ count' = count /\ UNCHANGED history /\ req[c].pc = "stamp"
    BY Zenon DEF Stamp, Ends
  <1>2. p \in Prints
    BY <1>1 DEF TInv, Works
  <1> HIDE DEF p, i
  <1>3. DocsTyped'
    <2>1. Stored' = Stored
      BY <1>1 DEF Stored
    <2>2. \A x \in Stored : docs[x] \in Doc
      BY DEF TInv, TypeOK
    <2>3. \A x \in Stored : [docs[x] EXCEPT !.print = p] \in Doc
      BY <1>2, <2>2, StampedTyped
    <2>4. docs' = [x \in Stored |-> IF x = i THEN [docs[x] EXCEPT !.print = p] ELSE docs[x]]
      BY <1>1 DEF TInv, TypeOK
    <2>5. docs' \in [Stored -> Doc]
      BY <2>2, <2>3, <2>4
    <2> QED BY <2>1, <2>5 DEF TInv, TypeOK, DocsTyped
  <1>4. count' \in Nat
    BY <1>1 DEF TInv, TypeOK
  <1> QED BY <1>1, <1>3, <1>4, IdleTyped, HistoryKept, StepTyped DEF TInv

LEMMA EditAskTyped ==
    ASSUME TInv, NEW c \in Caller, EditAsk(c)
    PROVE  TypeOK' /\ \A d \in Caller : Works(req'[d])
  <1>1. PICK i \in Stored, b \in Body : req' = [req EXCEPT ![c] =
              [Idle EXCEPT !.op = "edit", !.pc = "save", !.body = b, !.at = i,
                           !.read = docs[i]]]
    BY Zenon DEF EditAsk
  <1> DEFINE d == docs[i]
             r == [Idle EXCEPT !.op = "edit", !.pc = "save", !.body = b, !.at = i,
                               !.read = d]
  <1>2. d \in Doc /\ i \in Id
    BY DEF TInv, TypeOK
  <1>3. req' = [req EXCEPT ![c] = r]
    BY <1>1, Zenon
  <1> HIDE DEF d
  <1>4. RequestOK(r) /\ Works(r)
    BY <1>2, IdleTyped DEF RequestOK, Works, Idle, Ops
  <1> HIDE DEF r
  <1>5. docs' = docs /\ plan' = plan /\ UNCHANGED history /\ count' \in Nat
    BY DEF EditAsk, Start, TInv, TypeOK
  <1> QED BY <1>3, <1>4, <1>5, DocsKept, HistoryKept, StepTyped DEF TInv

LEMMA EditSaveTyped ==
    ASSUME TInv, NEW c \in Caller, EditSave(c)
    PROVE  TypeOK' /\ \A d \in Caller : Works(req'[d])
  <1> DEFINE q == req[c]
             i == q.at
             u == q.body.uid
             k == q.body.key
             n == q.read.num
             d == docs[i]
             new == [d EXCEPT !.uid = u, !.key = k, !.num = n, !.state = "TO_VALIDATE"]
             p == PrintOf(new)
             r == [[[req[c] EXCEPT !.pc = "stamp"] EXCEPT !.read = None] EXCEPT !.print = p]
  <1>1. /\ plan' = plan /\ q.pc = "save" /\ own' = own /\ hidden' = hidden /\ count' = count
        /\ \/ Ends(c) /\ docs' = docs /\ touched' = touched /\ clean' = clean
           \/ Replace(i, new, new, TRUE) /\ req' = [req EXCEPT ![c] = r]
    BY Zenon DEF EditSave
  <1>2. i \in Stored /\ RequestOK(q) /\ Works(q) /\ DOMAIN q = RequestFields
    BY <1>1 DEF TInv, SInv, Writers, Writing, TypeOK, Shapes
  <1>3. u \in Uid /\ k \in Key /\ n \in Seq(Entry)
    <2>1. q.body \in Body /\ q.read \in Doc
      BY <1>1, <1>2 DEF Works
    <2> QED BY <2>1, IdentitiesAssumption DEF Bodies, Doc
  <1>4. d \in Doc
    BY <1>2 DEF TInv, TypeOK
  <1> HIDE DEF d, u, k, n
  <1>5. new \in Doc
    BY <1>3, <1>4 DEF Doc, State
  <1> HIDE DEF new
  <1>6. p \in Prints
    BY <1>5, PrintTyped
  <1> HIDE DEF p
  <1>7. RequestOK(r) /\ Works(r)
    BY <1>2, <1>6 DEF RequestOK, Works, RequestFields
  <1> HIDE DEF r
  <1>8. count' \in Nat
    BY <1>1 DEF TInv, TypeOK
  <1>9. CASE Ends(c) /\ docs' = docs /\ touched' = touched /\ clean' = clean
    <2>1. HistoryTyped'
      BY <1>1, <1>9 DEF TInv, TypeOK, HistoryTyped
    <2> QED BY <1>1, <1>8, <1>9, <2>1, IdleTyped, DocsKept, StepTyped DEF TInv, Ends
  <1>10. CASE Replace(i, new, new, TRUE) /\ req' = [req EXCEPT ![c] = r]
    <2>1. DocsTyped' /\ touched' \in [Caller -> SUBSET Id] /\ clean' \in BOOLEAN
      BY <1>2, <1>5, <1>10, ReplaceTyped DEF TInv
    <2>2. HistoryTyped'
      BY <1>1, <2>1 DEF TInv, TypeOK, HistoryTyped
    <2> QED BY <1>1, <1>7, <1>8, <1>10, <2>1, <2>2, StepTyped
  <1> QED BY <1>1, <1>9, <1>10

(* What the requests about two identities hold.                              *)
LEMMA HoldingTyped ==
    ASSUME NEW op \in Ops, NEW pc \in {"second", "backend", "first"}, NEW pair \in Seq(Id),
           NEW from \in Seq(Doc), NEW to \in Seq(Doc),
           pc = "second" => from[1] \in Doc,
           pc # "second" => to[1] \in Doc /\ to[2] \in Doc
    PROVE  RequestOK(Holding(op, pc, pair, from, to)) /\ Works(Holding(op, pc, pair, from, to))
  <1> DEFINE r == Holding(op, pc, pair, from, to)
  <1>1. /\ r.op = op /\ r.pc = pc /\ r.pair = pair /\ r.from = from /\ r.to = to
        /\ r.n = Idle.n /\ r.body = Idle.body /\ r.at = Idle.at /\ r.read = Idle.read
        /\ r.state = Idle.state /\ r.print = Idle.print
    BY IdleShape DEF Holding, RequestFields
  <1> HIDE DEF r
  <1>2. RequestOK(r) /\ Works(r)
    BY <1>1, IdleTyped DEF RequestOK, Works
  <1> QED BY <1>2 DEF r

LEMMA ReadMasterTyped ==
    ASSUME TInv, NEW c \in Caller, NEW op \in Ops, ReadMaster(c, op)
    PROVE  TypeOK' /\ \A d \in Caller : Works(req'[d])
  <1>1. PICK i \in Stored, j \in Stored :
          req' = [req EXCEPT ![c] = Holding(op, "second", <<j, i>>, <<docs[i]>>, <<>>)]
    BY Zenon DEF ReadMaster
  <1> DEFINE r == Holding(op, "second", <<j, i>>, <<docs[i]>>, <<>>)
  <1>2. docs[i] \in Doc /\ i \in Id /\ j \in Id
    BY DEF TInv, TypeOK
  <1>3. <<j, i>> \in Seq(Id) /\ <<docs[i]>> \in Seq(Doc) /\ <<>> \in Seq(Doc)
    BY <1>2
  <1>4. RequestOK(r) /\ Works(r)
    BY <1>2, <1>3, HoldingTyped
  <1>5. docs' = docs /\ plan' = plan /\ UNCHANGED history /\ count' \in Nat
    BY DEF ReadMaster, Ask, Start, TInv, TypeOK
  <1>6. req' = [req EXCEPT ![c] = r]
    BY <1>1
  <1> HIDE DEF r
  <1> QED BY <1>4, <1>5, <1>6, DocsKept, HistoryKept, StepTyped DEF TInv

LEMMA TwoReadTyped ==
    ASSUME TInv, NEW c \in Caller, NEW op \in Ops, NEW pc \in {"backend", "first"},
           NEW pair \in Seq(Id), NEW a \in Doc, NEW b \in Doc, NEW e \in Doc, NEW d \in Doc,
           docs' = docs, plan' = plan, UNCHANGED history, count' \in Nat,
           req' = [req EXCEPT ![c] = Holding(op, pc, pair, <<a, b>>, <<e, d>>)]
    PROVE  TypeOK' /\ \A x \in Caller : Works(req'[x])
  <1> DEFINE r == Holding(op, pc, pair, <<a, b>>, <<e, d>>)
  <1>1. <<a, b>> \in Seq(Doc) /\ <<e, d>> \in Seq(Doc)
    OBVIOUS
  <1>2. RequestOK(r) /\ Works(r)
    BY <1>1, HoldingTyped
  <1>3. req' = [req EXCEPT ![c] = r]
    OBVIOUS
  <1> HIDE DEF r
  <1> QED BY <1>2, <1>3, DocsKept, HistoryKept, StepTyped DEF TInv

LEMMA SecondRead ==
    ASSUME TInv, NEW c \in Caller, req[c].pc = "second"
    PROVE  /\ req[c].pair \in Seq(Id) /\ req[c].pair[1] \in Id /\ req[c].pair[2] \in Id
           /\ req[c].from[1] \in Doc /\ docs[req[c].pair[1]] \in Doc
  <1>1. req[c].pair[1] \in Stored /\ req[c].pair[2] \in Stored
    BY DEF TInv, SInv, Writers, Writing, Faithful
  <1> QED BY <1>1 DEF TInv, TypeOK, RequestOK, Works

LEMMA EndsTyped ==
    ASSUME TInv, NEW c \in Caller, Ends(c), docs' = docs, plan' = plan, count' = count,
           UNCHANGED history
    PROVE  TypeOK' /\ \A d \in Caller : Works(req'[d])
  <1>1. count' \in Nat
    BY DEF TInv, TypeOK
  <1> QED BY <1>1, IdleTyped, DocsKept, HistoryKept, StepTyped DEF TInv, Ends

LEMMA FusionReadTyped ==
    ASSUME TInv, NEW c \in Caller, FusionRead(c)
    PROVE  TypeOK' /\ \A d \in Caller : Works(req'[d])
  <1> DEFINE pair == req[c].pair
             d1 == req[c].from[1]
             d2 == docs[pair[1]]
             pc == IF d2.synced THEN "backend" ELSE "first"
             e == Merged(d2, pair[2])
             d == Master(d1, d2, pair[1])
  <1>1. /\ docs' = docs /\ plan' = plan /\ count' = count /\ UNCHANGED history
        /\ req[c].pc = "second"
    BY DEF FusionRead
  <1>2. \/ Ends(c)
        \/ req' = [req EXCEPT ![c] = Holding("fusion", pc, pair, <<d2, d1>>, <<e, d>>)]
    BY Zenon DEF FusionRead
  <1>3. /\ pair \in Seq(Id) /\ pair[1] \in Id /\ pair[2] \in Id /\ d1 \in Doc /\ d2 \in Doc
    BY <1>1, SecondRead
  <1>4. e \in Doc /\ d \in Doc
    BY <1>3, MergedTyped, MasterTyped
  <1>5. pc \in {"backend", "first"} /\ "fusion" \in Ops /\ count' \in Nat
    BY <1>1 DEF Ops, TInv, TypeOK
  <1> HIDE DEF pc, e, d, d1, d2, pair
  <1> QED BY <1>1, <1>2, <1>3, <1>4, <1>5, EndsTyped, TwoReadTyped

LEMMA CancelReadTyped ==
    ASSUME TInv, NEW c \in Caller, CancelRead(c)
    PROVE  TypeOK' /\ \A d \in Caller : Works(req'[d])
  <1> DEFINE pair == req[c].pair
             d1 == req[c].from[1]
             d2 == docs[pair[1]]
             e == Restored(d2)
             d == Released(d1, d2)
  <1>1. /\ docs' = docs /\ plan' = plan /\ count' = count /\ UNCHANGED history
        /\ req[c].pc = "second"
    BY DEF CancelRead
  <1>2. \/ Ends(c)
        \/ req' = [req EXCEPT ![c] = Holding("cancel", "first", pair, <<d2, d1>>, <<e, d>>)]
    BY Zenon DEF CancelRead
  <1>3. /\ pair \in Seq(Id) /\ d1 \in Doc /\ d2 \in Doc
    BY <1>1, SecondRead
  <1>4. e \in Doc /\ d \in Doc
    BY <1>3, RestoredTyped, ReleasedTyped
  <1>5. "first" \in {"backend", "first"} /\ "cancel" \in Ops /\ count' \in Nat
    BY <1>1 DEF Ops, TInv, TypeOK
  <1> HIDE DEF e, d, d1, d2, pair
  <1> QED BY <1>1, <1>2, <1>3, <1>4, <1>5, EndsTyped, TwoReadTyped

LEMMA IgnoreAskTyped ==
    ASSUME TInv, NEW c \in Caller, NEW op \in Ops, IgnoreAsk(c, op)
    PROVE  TypeOK' /\ \A d \in Caller : Works(req'[d])
  <1> DEFINE Set(x, y) == IF op = "ignore" THEN docs[x].ignored \cup {y}
                          ELSE docs[x].ignored \ {y}
             New(x, y) == [docs[x] EXCEPT !.ignored = Set(x, y)]
  <1>1. PICK i \in Stored, j \in Stored :
          req' = [req EXCEPT ![c] = Holding(op, "first", <<i, j>>, <<docs[i], docs[j]>>,
                                            <<New(i, j), New(j, i)>>)]
    BY Zenon DEF IgnoreAsk
  <1>2. docs' = docs /\ plan' = plan /\ UNCHANGED history /\ count' \in Nat
    BY DEF IgnoreAsk, Ask, Start, TInv, TypeOK
  <1>3. docs[i] \in Doc /\ docs[j] \in Doc /\ i \in Id /\ j \in Id
    BY DEF TInv, TypeOK
  <1>4. Set(i, j) \in SUBSET Id /\ Set(j, i) \in SUBSET Id
    BY <1>3 DEF Doc
  <1> HIDE DEF Set
  <1>5. New(i, j) \in Doc /\ New(j, i) \in Doc
    BY <1>3, <1>4, StampedTyped
  <1> HIDE DEF New
  <1>6. <<i, j>> \in Seq(Id) /\ "first" \in {"backend", "first"}
    BY <1>3
  <1> QED BY <1>1, <1>2, <1>3, <1>5, <1>6, TwoReadTyped

-----------------------------------------------------------------------------
(* The flags that a deletion sets, and what a refusal by the backends does.  *)
LEMMA FlaggedTyped ==
    ASSUME TypeOK, NEW i,
           \/ docs' = [docs EXCEPT ![i].state = "DONT_SYNC", ![i].deleted = TRUE]
           \/ docs' = [docs EXCEPT ![i].state = "ON_ERROR", ![i].synced = FALSE]
    PROVE  DocsTyped'
  <1> DEFINE Gone(d) == [d EXCEPT !.state = "DONT_SYNC", !.deleted = TRUE]
             Refusal(d) == [d EXCEPT !.state = "ON_ERROR", !.synced = FALSE]
  <1>1. \A x \in Stored : docs[x] \in Doc
    BY DEF TypeOK
  <1>2. \A x \in Stored : Gone(docs[x]) \in Doc /\ Refusal(docs[x]) \in Doc
    BY <1>1, StampedTyped
  <1>3. \/ docs' = [x \in Stored |-> IF x = i THEN Gone(docs[x]) ELSE docs[x]]
        \/ docs' = [x \in Stored |-> IF x = i THEN Refusal(docs[x]) ELSE docs[x]]
    BY DEF TypeOK, Stored
  <1> HIDE DEF Gone, Refusal
  <1>4. docs' \in [Stored -> Doc]
    BY <1>1, <1>2, <1>3
  <1>5. Stored' = Stored
    BY <1>3 DEF Stored
  <1> QED BY <1>4, <1>5 DEF TypeOK, DocsTyped

LEMMA FusionBackendTyped ==
    ASSUME TInv, NEW c \in Caller, FusionBackend(c)
    PROVE  TypeOK' /\ \A d \in Caller : Works(req'[d])
  <1> DEFINE j == req[c].pair[1]
             q == req[c]
             r == [req[c] EXCEPT !.pc = "first"]
  <1>1. /\ plan' = plan /\ count' = count /\ UNCHANGED history /\ q.pc = "backend"
        /\ \/ docs' = [docs EXCEPT ![j].state = "DONT_SYNC", ![j].deleted = TRUE]
           \/ docs' = [docs EXCEPT ![j].state = "ON_ERROR", ![j].synced = FALSE]
        /\ req' = [req EXCEPT ![c] = r] \/ req' = [req EXCEPT ![c] = Idle]
    BY Zenon DEF FusionBackend, Ends
  <1>2. RequestOK(q) /\ Works(q) /\ DOMAIN q = RequestFields
    BY DEF TInv, TypeOK, SInv, Shapes
  <1>3. RequestOK(r) /\ Works(r)
    BY <1>1, <1>2 DEF RequestOK, Works, RequestFields
  <1> HIDE DEF j, r
  <1>4. DocsTyped' /\ count' \in Nat
    BY <1>1, FlaggedTyped DEF TInv, TypeOK
  <1> QED BY <1>1, <1>3, <1>4, IdleTyped, HistoryKept, StepTyped DEF TInv

LEMMA DeleteTyped ==
    ASSUME TInv, NEW c \in Caller, Delete(c)
    PROVE  TypeOK' /\ \A d \in Caller : Works(req'[d])
  <1>1. PICK i \in Stored : docs' = [docs EXCEPT ![i].state = "DONT_SYNC", ![i].deleted = TRUE]
    BY Zenon DEF Delete
  <1>2. req' = req /\ plan' = plan /\ UNCHANGED history /\ count' \in Nat
    BY DEF Delete, Start, TInv, TypeOK
  <1>3. DocsTyped' /\ HistoryTyped'
    BY <1>1, <1>2, FlaggedTyped, HistoryKept DEF TInv
  <1>4. \A d \in Caller : RequestOK(req[d])' /\ Works(req'[d])
    BY <1>2, Zenon DEF TInv, TypeOK, RequestOK
  <1>5. plan' \in Plans /\ DOMAIN req' = Caller
    BY <1>2 DEF TInv, TypeOK
  <1> QED BY <1>2, <1>3, <1>4, <1>5, Zenon DEF TypeOK, DocsTyped, HistoryTyped

LEMMA WriteFirstTyped ==
    ASSUME TInv, NEW c \in Caller, WriteFirst(c)
    PROVE  TypeOK' /\ \A d \in Caller : Works(req'[d])
  <1> DEFINE q == req[c]
             r == [req[c] EXCEPT !.pc = "last"]
  <1>1. PICK i, read, new, alone :
          /\ i = q.pair[1] /\ new = q.to[1] /\ q.pc = "first"
          /\ \/ Ends(c) /\ docs' = docs /\ hidden' = hidden /\ clean' = clean
                /\ touched' = touched
             \/ /\ Replace(i, read, new, alone) /\ req' = [req EXCEPT ![c] = r]
                /\ hidden' \subseteq hidden
    BY Zenon DEF WriteFirst, Write
  <1>2. plan' = plan /\ count' \in Nat /\ own' = own
    BY DEF WriteFirst, TInv, TypeOK
  <1>3. RequestOK(q) /\ Works(q) /\ DOMAIN q = RequestFields
    BY DEF TInv, TypeOK, SInv, Shapes
  <1>4. i \in Stored /\ new \in Doc
    BY <1>1, <1>3 DEF TInv, SInv, Writers, Writing, Faithful, Works
  <1>5. RequestOK(r) /\ Works(r)
    BY <1>1, <1>3 DEF RequestOK, Works, RequestFields
  <1> HIDE DEF r
  <1>6. CASE Ends(c) /\ docs' = docs /\ hidden' = hidden /\ clean' = clean /\ touched' = touched
    <2>1. HistoryTyped'
      BY <1>2, <1>6 DEF TInv, TypeOK, HistoryTyped
    <2> QED BY <1>2, <1>6, <2>1, IdleTyped, DocsKept, StepTyped DEF TInv, Ends
  <1>7. CASE /\ Replace(i, read, new, alone) /\ req' = [req EXCEPT ![c] = r]
             /\ hidden' \subseteq hidden
    <2>1. DocsTyped' /\ touched' \in [Caller -> SUBSET Id] /\ clean' \in BOOLEAN
      BY <1>4, <1>7, ReplaceTyped DEF TInv
    <2>2. HistoryTyped'
      BY <1>2, <1>7, <2>1 DEF TInv, TypeOK, HistoryTyped
    <2> QED BY <1>2, <1>5, <1>7, <2>1, <2>2, StepTyped
  <1> QED BY <1>1, <1>6, <1>7

LEMMA WriteLastTyped ==
    ASSUME TInv, NEW c \in Caller, WriteLast(c)
    PROVE  TypeOK' /\ \A d \in Caller : Works(req'[d])
  <1> DEFINE q == req[c]
  <1>1. PICK i, read, new, alone :
          /\ i = q.pair[2] /\ new = q.to[2] /\ q.pc = "last"
          /\ Replace(i, read, new, alone) /\ Ends(c)
    BY Zenon DEF WriteLast, Write
  <1>2. plan' = plan /\ count' \in Nat /\ own' = own /\ hidden' \subseteq hidden \cup {Pair(q)}
    BY DEF WriteLast, TInv, TypeOK
  <1>3. i \in Stored /\ new \in Doc /\ q.pair[1] \in Stored
    BY <1>1 DEF TInv, SInv, Writers, Writing, Faithful, Works
  <1>4. Pair(q) \in SUBSET Id
    BY <1>1, <1>3 DEF Pair, TInv, TypeOK
  <1>5. DocsTyped' /\ touched' \in [Caller -> SUBSET Id] /\ clean' \in BOOLEAN
    BY <1>1, <1>3, ReplaceTyped DEF TInv
  <1>6. HistoryTyped'
    BY <1>2, <1>4, <1>5 DEF TInv, TypeOK, HistoryTyped
  <1> QED BY <1>1, <1>2, <1>5, <1>6, IdleTyped, StepTyped DEF Ends

LEMMA WriteAloneTyped ==
    ASSUME TInv, NEW c \in Caller, WriteAlone(c)
    PROVE  TypeOK' /\ \A d \in Caller : Works(req'[d])
  <1>1. /\ Ends(c) /\ docs' = docs /\ plan' = plan /\ count' \in Nat /\ own' = own
        /\ touched' = touched /\ hidden' = hidden
    BY DEF WriteAlone, TInv, TypeOK
  <1>2. clean' \in BOOLEAN
    BY Zenon DEF WriteAlone
  <1>3. HistoryTyped'
    BY <1>1, <1>2 DEF TInv, TypeOK, HistoryTyped
  <1> QED BY <1>1, <1>3, IdleTyped, DocsKept, StepTyped DEF TInv, Ends

-----------------------------------------------------------------------------
LEMMA InitTInv ==
    ASSUME Init
    PROVE  TInv
  <1>1. Stored = {i \in Id : plan.born[i] # None} /\ docs = [i \in Stored |-> First(i)]
    BY DEF Init, Stored
  <1>2. plan.home \in [Number -> Types] /\ plan.born \in [Id -> Number \cup {None}]
    BY IdentitiesAssumption DEF Init
  <1>3. ASSUME NEW i \in Stored
        PROVE  First(i) \in Doc
    <2>1. plan.born[i] \in Number /\ i \in Id
      BY <1>1, <1>2
    <2>2. Home(plan.born[i]) \in Types /\ <<Plain(plan.born[i])>> \in Seq(Entry)
      BY <1>2, <2>1, EntryTyped DEF Home
    <2>3. FirstUid[i] \in Uid /\ FirstKey \in Key
      BY <2>1, IdentitiesAssumption
    <2> QED BY <2>2, <2>3 DEF First, Doc, State
  <1>4. docs \in [Stored -> Doc] /\ Stored \subseteq Id
    <2> HIDE DEF Stored
    <2> QED BY <1>1, <1>3
  <1>5. req = [c \in Caller |-> Idle]
    BY DEF Init
  <1>6. \A c \in Caller : RequestOK(req[c]) /\ Works(req[c])
    BY <1>5, IdleTyped
  <1>7. HistoryTyped
    BY <1>2 DEF Init, HistoryTyped
  <1>8. plan \in Plans /\ count \in Nat
    BY DEF Init
  <1> QED BY <1>4, <1>5, <1>6, <1>7, <1>8, InitSInv DEF TInv, TypeOK, HistoryTyped

LEMMA NextTInv ==
    ASSUME TInv, [Next]_vars
    PROVE  TInv'
  <1>1. SInv'
    BY NextSInv DEF TInv
  <1>2. CASE UNCHANGED vars
    <2>1. /\ docs' = docs /\ req' = req /\ plan' = plan /\ count' = count /\ own' = own
          /\ touched' = touched /\ hidden' = hidden /\ clean' = clean
      BY <1>2 DEF vars, history
    <2>2. TypeOK' /\ \A c \in Caller : Works(req'[c])
      BY <2>1, Zenon DEF TInv, TypeOK, Stored, RequestOK
    <2> QED BY <1>1, <2>2, Zenon DEF TInv, Works
  <1>3. ASSUME NEW c \in Caller, UpsertLook(c) \/ UpsertCheck(c) \/ UpsertMatch(c)
        PROVE  TypeOK' /\ \A d \in Caller : Works(req'[d])
    BY <1>3, UpsertLookTyped, UpsertCheckTyped, UpsertMatchTyped
  <1>4. ASSUME NEW c \in Caller, UpsertStore(c) \/ UpsertInsert(c) \/ Stamp(c)
        PROVE  TypeOK' /\ \A d \in Caller : Works(req'[d])
    BY <1>4, UpsertStoreTyped, UpsertInsertTyped, StampTyped
  <1>5. ASSUME NEW c \in Caller, EditAsk(c) \/ EditSave(c) \/ Delete(c)
        PROVE  TypeOK' /\ \A d \in Caller : Works(req'[d])
    BY <1>5, EditAskTyped, EditSaveTyped, DeleteTyped
  <1>6. ASSUME NEW c \in Caller,
               FusionAsk(c) \/ FusionRead(c) \/ FusionBackend(c) \/ CancelAsk(c) \/ CancelRead(c)
        PROVE  TypeOK' /\ \A d \in Caller : Works(req'[d])
    <2>1. "fusion" \in Ops /\ "cancel" \in Ops
      BY DEF Ops
    <2> QED BY <1>6, <2>1, ReadMasterTyped, FusionReadTyped, FusionBackendTyped,
               CancelReadTyped
            DEF FusionAsk, CancelAsk
  <1>7. ASSUME NEW c \in Caller, IgnoreAsk(c, "ignore") \/ IgnoreAsk(c, "unignore")
        PROVE  TypeOK' /\ \A d \in Caller : Works(req'[d])
    <2>1. "ignore" \in Ops /\ "unignore" \in Ops
      BY DEF Ops
    <2> QED BY <1>7, <2>1, IgnoreAskTyped
  <1>8. ASSUME NEW c \in Caller, WriteFirst(c) \/ WriteLast(c) \/ WriteAlone(c)
        PROVE  TypeOK' /\ \A d \in Caller : Works(req'[d])
    BY <1>8, WriteFirstTyped, WriteLastTyped, WriteAloneTyped
  <1>9. ASSUME Next
        PROVE  TypeOK' /\ \A d \in Caller : Works(req'[d])
    BY <1>3, <1>4, <1>5, <1>6, <1>7, <1>8, <1>9 DEF Next
  <1>10. CASE Next
    BY <1>1, <1>9, <1>10 DEF TInv, Works
  <1> QED BY <1>2, <1>10

(* Every document stays a document of the schema, whatever upserts, edits,   *)
(* fusions and their cancellations overlap: no list of numbers, primary      *)
(* number, link or state gets a value of another kind (identities.schema.ts, *)
(* fusion, cancelFusion).                                                    *)
THEOREM IdentitiesTyped == Spec => []TypeOK
  <1>1. Init => TInv
    BY InitTInv
  <1>2. TInv /\ [Next]_vars => TInv'
    BY NextTInv
  <1>3. TInv => TypeOK
    BY DEF TInv
  <1> QED BY <1>1, <1>2, <1>3, PTL DEF Spec

-----------------------------------------------------------------------------
(* The accounts of the numbers. How often a number is in a list, and in what *)
(* the lists of several identities add up to.                                *)

(* How many times a number is in a list.                                     *)
LEMMA SameSize ==
    ASSUME NEW S, IsFiniteSet(S), NEW T, NEW f \in [S -> T],
           \A x, y \in S : f[x] = f[y] => x = y, \A z \in T : \E x \in S : f[x] = z
    PROVE  IsFiniteSet(T) /\ Cardinality(T) = Cardinality(S)
  <1>1. f \in Bijection(S, T)
    BY DEF Bijection, Injection, Surjection, IsInjective
  <1> QED BY <1>1, FS_Bijection DEF ExistsBijection

LEMMA PlacesCounted ==
    ASSUME NEW S, NEW t \in Seq(S), NEW n
    PROVE  /\ Places(t, n) \subseteq 1 .. Len(t) /\ IsFiniteSet(Places(t, n))
           /\ Cardinality(Places(t, n)) \in Nat
           /\ Cardinality(Places(t, n)) = 0 <=> \A k \in DOMAIN t : t[k].of # n
  <1>1. Places(t, n) \subseteq 1 .. Len(t) /\ Len(t) \in Nat
    BY DEF Places
  <1>2. IsFiniteSet(1 .. Len(t))
    BY <1>1, FS_Interval
  <1>3. IsFiniteSet(Places(t, n)) /\ Cardinality(Places(t, n)) \in Nat
    BY <1>1, <1>2, FS_Subset, FS_CardinalityType
  <1>4. Cardinality(Places(t, n)) = 0 <=> Places(t, n) = {}
    BY <1>3, FS_EmptySet
  <1> QED BY <1>1, <1>3, <1>4 DEF Places

LEMMA PlacesJoined ==
    ASSUME NEW S, NEW s \in Seq(S), NEW t \in Seq(S), NEW n
    PROVE  Cardinality(Places(s \o t, n)) = Cardinality(Places(s, n)) + Cardinality(Places(t, n))
  <1> DEFINE L == Len(s)
             A == Places(s, n)
             B == Places(t, n)
             C == {k \in 1 .. L + Len(t) : k > L /\ (s \o t)[k].of = n}
             f == [k \in B |-> L + k]
  <1>1. /\ s \o t \in Seq(S) /\ Len(s \o t) = L + Len(t)
        /\ \A k \in 1 .. L + Len(t) : (s \o t)[k] = IF k <= L THEN s[k] ELSE t[k - L]
    BY ConcatProperties
  <1>2. L \in Nat /\ Len(t) \in Nat /\ DOMAIN s = 1 .. L /\ DOMAIN t = 1 .. Len(t)
        /\ DOMAIN (s \o t) = 1 .. L + Len(t)
    BY <1>1
  <1>3. IsFiniteSet(A) /\ IsFiniteSet(B) /\ A \subseteq 1 .. L /\ B \subseteq 1 .. Len(t)
    BY PlacesCounted
  <1>4. \A k \in 1 .. Len(t) : k \in B <=> L + k \in C
    <2> SUFFICES ASSUME NEW k \in 1 .. Len(t) PROVE k \in B <=> L + k \in C
      OBVIOUS
    <2>1. L + k \in 1 .. L + Len(t) /\ L + k > L /\ ~(L + k <= L) /\ (L + k) - L = k
      BY <1>2
    <2>2. (s \o t)[L + k] = t[k]
      BY <1>1, <2>1
    <2> QED BY <1>2, <2>1, <2>2 DEF Places
  <1>5. \A z \in C : z - L \in 1 .. Len(t) /\ z = L + (z - L)
    BY <1>2
  <1>6. Places(s \o t, n) = A \cup C /\ A \cap C = {}
    <2>1. \A k \in 1 .. L + Len(t) : k <= L => (k \in Places(s \o t, n) <=> k \in A)
      BY <1>1, <1>2 DEF Places
    <2>2. \A k \in 1 .. L + Len(t) : k > L => (k \in Places(s \o t, n) <=> k \in C)
      BY <1>1, <1>2 DEF Places
    <2>3. Places(s \o t, n) \subseteq 1 .. L + Len(t) /\ C \subseteq 1 .. L + Len(t)
      BY <1>2 DEF Places
    <2>4. \A k \in A : k \in 1 .. L + Len(t) /\ k <= L
      BY <1>2, <1>3
    <2>5. \A k \in C : k > L
      OBVIOUS
    <2>6. \A k \in 1 .. L + Len(t) : k <= L \/ k > L
      BY <1>2
    <2>7. \A k \in A : k \notin C
      BY <1>2, <1>3, <2>5
    <2> HIDE DEF A, C
    <2> QED BY <2>1, <2>2, <2>3, <2>4, <2>5, <2>6, <2>7
  <1> HIDE DEF A, B, C
  <1>7. f \in [B -> C] /\ \A x, y \in B : f[x] = f[y] => x = y
    BY <1>2, <1>3, <1>4
  <1>8. \A z \in C : \E x \in B : f[x] = z
    <2> SUFFICES ASSUME NEW z \in C PROVE \E x \in B : f[x] = z
      OBVIOUS
    <2>1. z - L \in B /\ L + (z - L) = z
      BY <1>4, <1>5
    <2>2. f[z - L] = L + (z - L)
      BY <2>1
    <2> QED BY <2>1, <2>2
  <1> HIDE DEF f
  <1>9. IsFiniteSet(C) /\ Cardinality(C) = Cardinality(B)
    BY <1>3, <1>7, <1>8, SameSize
  <1>10. Cardinality(A \cup C) = Cardinality(A) + Cardinality(C) - 0
    BY <1>3, <1>6, <1>9, FS_Union, FS_EmptySet
  <1>11. Cardinality(A) \in Nat /\ Cardinality(C) \in Nat
    BY <1>3, <1>9, FS_CardinalityType
  <1> QED BY <1>6, <1>9, <1>10, <1>11 DEF A, B

(* A value taken out is counted once less.                                   *)
LEMMA PlacesTaken ==
    ASSUME NEW S, NEW t \in Seq(S), NEW u \in Seq(S), NEW m \in 1 .. Len(t),
           Len(u) = Len(t) - 1,
           \A k \in 1 .. Len(t) - 1 : u[k] = t[IF k < m THEN k ELSE k + 1], NEW n
    PROVE  Cardinality(Places(u, n)) =
             IF t[m].of = n THEN Cardinality(Places(t, n)) - 1 ELSE Cardinality(Places(t, n))
  <1> DEFINE A == Places(t, n) \ {m}
             B == Places(u, n)
             f == [x \in A |-> IF x < m THEN x ELSE x - 1]
  <1>1. Len(t) \in Nat /\ m \in Nat /\ DOMAIN t = 1 .. Len(t) /\ DOMAIN u = 1 .. Len(t) - 1
    OBVIOUS
  <1>2. IsFiniteSet(Places(t, n)) /\ IsFiniteSet(A)
        /\ Cardinality(A) = IF m \in Places(t, n) THEN Cardinality(Places(t, n)) - 1
                            ELSE Cardinality(Places(t, n))
    BY PlacesCounted, FS_RemoveElement
  <1>3. ASSUME NEW x \in A
        PROVE  x \in 1 .. Len(t) /\ x # m /\ f[x] \in B
    <2>1. x \in 1 .. Len(t) /\ x # m /\ t[x].of = n
      BY <1>1 DEF Places
    <2>2. CASE x < m
      <3>1. x \in 1 .. Len(t) - 1 /\ u[x] = t[x] /\ f[x] = x
        BY <1>1, <2>1, <2>2
      <3> QED BY <1>1, <2>1, <3>1 DEF Places
    <2>3. CASE ~(x < m)
      <3>1. x - 1 \in 1 .. Len(t) - 1 /\ ~(x - 1 < m) /\ (x - 1) + 1 = x /\ f[x] = x - 1
        BY <1>1, <2>1, <2>3
      <3>2. u[x - 1] = t[x]
        BY <3>1
      <3> QED BY <1>1, <2>1, <3>1, <3>2 DEF Places
    <2> QED BY <2>2, <2>3
  <1>4. ASSUME NEW z \in B
        PROVE  \E x \in A : f[x] = z
    <2>1. z \in 1 .. Len(t) - 1 /\ u[z].of = n
      BY <1>1 DEF Places
    <2>2. CASE z < m
      <3>1. z \in 1 .. Len(t) /\ z # m /\ t[z].of = n
        BY <1>1, <2>1, <2>2
      <3>2. z \in A
        BY <1>1, <3>1 DEF Places
      <3> QED BY <2>2, <3>2
    <2>3. CASE ~(z < m)
      <3>1. z + 1 \in 1 .. Len(t) /\ z + 1 # m /\ ~(z + 1 < m) /\ (z + 1) - 1 = z
        BY <1>1, <2>1, <2>3
      <3>2. t[z + 1].of = n
        BY <2>1, <2>3
      <3>3. z + 1 \in A
        BY <1>1, <3>1, <3>2 DEF Places
      <3>4. f[z + 1] = z
        BY <3>1, <3>3
      <3> QED BY <3>3, <3>4
    <2> QED BY <2>2, <2>3
  <1>5. m \in Places(t, n) <=> t[m].of = n
    BY <1>1 DEF Places
  <1>6. f \in [A -> B]
    BY <1>3
  <1>7. ASSUME NEW x \in A, NEW y \in A, f[x] = f[y]
        PROVE  x = y
    <2>1. x \in Nat /\ y \in Nat /\ x # m /\ y # m
      BY <1>1, <1>3
    <2>2. (IF x < m THEN x ELSE x - 1) = (IF y < m THEN y ELSE y - 1)
      BY <1>7
    <2> QED BY <1>1, <2>1, <2>2
  <1> HIDE DEF A, B, f
  <1>8. Cardinality(B) = Cardinality(A)
    BY <1>2, <1>4, <1>6, <1>7, SameSize
  <1> QED BY <1>2, <1>5, <1>8 DEF B

(* What is left once values that are all there are taken out.                *)
Plains == {Plain(n) : n \in Number}

LEMMA OneLess ==
    ASSUME NEW t \in Seq(Plains), NEW v \in Number, Cardinality(Places(t, v)) # 0
    PROVE  /\ Taken(Plain(v), t) \in Seq(Plains)
           /\ \A n \in Number : Cardinality(Places(Taken(Plain(v), t), n)) =
                IF v = n THEN Cardinality(Places(t, n)) - 1 ELSE Cardinality(Places(t, n))
  <1> DEFINE e == Plain(v)
             u == Taken(e, t)
  <1>1. \E x \in DOMAIN t : t[x] = e
    <2>1. PICK x \in DOMAIN t : t[x].of = v
      BY PlacesCounted
    <2>2. t[x] \in Plains
      OBVIOUS
    <2>3. PICK w \in Number : t[x] = Plain(w)
      BY <2>2 DEF Plains
    <2> QED BY <2>1, <2>3 DEF Plain
  <1>2. e.of = v
    BY DEF Plain
  <1> HIDE DEF e
  <1>3. PICK x \in 1 .. Len(t) :
          /\ t[x] = e /\ u \in Seq(Plains) /\ Len(u) = Len(t) - 1
          /\ \A y \in 1 .. Len(t) - 1 : u[y] = t[IF y < x THEN y ELSE y + 1]
    BY <1>1, TakenOut
  <1> HIDE DEF u
  <1>4. \A n \in Number : Cardinality(Places(u, n)) =
          IF v = n THEN Cardinality(Places(t, n)) - 1 ELSE Cardinality(Places(t, n))
    BY <1>2, <1>3, PlacesTaken
  <1> QED BY <1>3, <1>4 DEF u, e

(* removeInjectedValues takes out each number as often as it was injected.   *)
LEMMA WithoutCounts ==
    ASSUME NEW s \in Seq(Plains), NEW injected \in Seq(Plains),
           \A n \in Number : Cardinality(Places(injected, n)) <= Cardinality(Places(s, n))
    PROVE  /\ Without(s, injected) \in Seq(Plains)
           /\ \A n \in Number : Cardinality(Places(Without(s, injected), n)) =
                Cardinality(Places(s, n)) - Cardinality(Places(injected, n))
  <1> DEFINE N == Len(injected)
             upTo(k, n) == Places(injected, n) \cap (1 .. k)
             there(n) == Cardinality(Places(s, n))
             out(k, n) == Cardinality(upTo(k, n))
  <1>1. PICK f : /\ f[0] = s /\ Without(s, injected) = f[N]
                 /\ \A k \in 1 .. N : f[k] = Taken(injected[k], f[k - 1])
    BY WithoutByStep
  <1> DEFINE Good(k) == /\ f[k] \in Seq(Plains)
                        /\ \A n \in Number : Cardinality(Places(f[k], n)) = there(n) - out(k, n)
             Bad == {k \in 0 .. N : ~Good(k)}
             m == Min(Bad)
  <1>2. N \in Nat /\ DOMAIN injected = 1 .. N
    OBVIOUS
  <1>3. ASSUME NEW k \in 0 .. N, NEW n
        PROVE  /\ IsFiniteSet(upTo(k, n)) /\ out(k, n) \in Nat
               /\ out(k, n) <= Cardinality(Places(injected, n))
    <2>1. upTo(k, n) \subseteq Places(injected, n) /\ IsFiniteSet(Places(injected, n))
      BY PlacesCounted
    <2> QED BY <2>1, FS_Subset, FS_CardinalityType
  <1>4. ASSUME NEW n
        PROVE  /\ out(0, n) = 0 /\ out(N, n) = Cardinality(Places(injected, n))
               /\ there(n) \in Nat
    <2>1. upTo(0, n) = {} /\ upTo(N, n) = Places(injected, n)
      BY PlacesCounted
    <2> QED BY <2>1, FS_EmptySet, PlacesCounted
  <1>5. ASSUME NEW k \in 1 .. N, NEW n
        PROVE  out(k, n) = IF injected[k].of = n THEN out(k - 1, n) + 1 ELSE out(k - 1, n)
    <2>1. k - 1 \in 0 .. N /\ k \notin upTo(k - 1, n) /\ 1 .. k = (1 .. k - 1) \cup {k}
      BY <1>2
    <2>2. k \in Places(injected, n) <=> injected[k].of = n
      BY <1>2 DEF Places
    <2>3. upTo(k, n) = IF injected[k].of = n THEN upTo(k - 1, n) \cup {k} ELSE upTo(k - 1, n)
      BY <2>1, <2>2
    <2>4. IsFiniteSet(upTo(k - 1, n))
      BY <1>3, <2>1
    <2> HIDE DEF upTo
    <2> QED BY <2>1, <2>3, <2>4, FS_AddElement
  <1> HIDE DEF upTo, there, out
  <1>6. Good(0)
    <2>1. \A n \in Number : there(n) - out(0, n) = there(n)
      BY <1>4
    <2> QED BY <1>1, <2>1 DEF there
  <1>7. ASSUME NEW k \in 1 .. N, Good(k - 1)
        PROVE  Good(k)
    <2> DEFINE t == f[k - 1]
               u == f[k]
    <2>1. PICK v \in Number : injected[k] = Plain(v)
      BY <1>2 DEF Plains
    <2>2. u = Taken(Plain(v), t) /\ t \in Seq(Plains) /\ injected[k].of = v
      BY <1>1, <1>7, <2>1 DEF Plain
    <2>3. \A n \in Number : Cardinality(Places(t, n)) = there(n) - out(k - 1, n)
      BY <1>7
    <2>4. k - 1 \in 0 .. N /\ k \in 0 .. N
      BY <1>2
    <2>5. Cardinality(Places(t, v)) # 0
      <3>1. /\ out(k, v) <= Cardinality(Places(injected, v)) /\ out(k, v) = out(k - 1, v) + 1
            /\ out(k, v) \in Nat /\ out(k - 1, v) \in Nat /\ there(v) \in Nat
        BY <1>3, <1>4, <1>5, <2>2, <2>4
      <3>2. Cardinality(Places(injected, v)) <= there(v)
            /\ Cardinality(Places(injected, v)) \in Nat
        BY PlacesCounted DEF there
      <3> QED BY <2>3, <3>1, <3>2
    <2> HIDE DEF t, u
    <2>6. u \in Seq(Plains)
          /\ \A n \in Number : Cardinality(Places(u, n)) =
               IF v = n THEN Cardinality(Places(t, n)) - 1 ELSE Cardinality(Places(t, n))
      BY <2>2, <2>5, OneLess
    <2>7. ASSUME NEW n \in Number
          PROVE  Cardinality(Places(u, n)) = there(n) - out(k, n)
      <3>1. out(k, n) = IF v = n THEN out(k - 1, n) + 1 ELSE out(k - 1, n)
        BY <1>5, <2>2
      <3>2. out(k - 1, n) \in Nat /\ there(n) \in Nat
        BY <1>3, <1>4, <2>4
      <3> QED BY <2>3, <2>6, <3>1, <3>2
    <2> QED BY <2>6, <2>7 DEF u
  <1> HIDE DEF Good
  <1>8. Good(N)
    <2> SUFFICES ASSUME ~Good(N)
                 PROVE  FALSE
      OBVIOUS
    <2>1. Bad \in SUBSET Nat /\ Bad # {}
      BY <1>2
    <2>2. m \in Bad /\ \A k \in Bad : m <= k
      BY <2>1, MinIsFirst
    <2> HIDE DEF m
    <2>3. m \in 0 .. N /\ ~Good(m) /\ m # 0
      BY <1>6, <2>2
    <2>4. m \in 1 .. N /\ m - 1 \in 0 .. N /\ ~(m <= m - 1)
      BY <1>2, <2>3
    <2>5. Good(m - 1)
      BY <2>2, <2>4
    <2> QED BY <1>7, <2>3, <2>4, <2>5
  <1> QED BY <1>1, <1>4, <1>8 DEF Good, there

(* The first of the list stays, when it is none of those injected.           *)
LEMMA WithoutFirst ==
    ASSUME NEW S, NEW s \in Seq(S), s # <<>>, NEW injected \in Seq(S),
           \A k \in DOMAIN injected : injected[k] # s[1]
    PROVE  Without(s, injected)[1] = s[1]
  <1> DEFINE N == Len(injected)
  <1>1. PICK f : /\ f[0] = s /\ Without(s, injected) = f[N]
                 /\ \A k \in 1 .. N : f[k] = Taken(injected[k], f[k - 1])
    BY WithoutByStep
  <1> DEFINE Good(k) == f[k] \in Seq(S) /\ Len(f[k]) >= 1 /\ f[k][1] = s[1]
             Bad == {k \in 0 .. N : ~Good(k)}
             m == Min(Bad)
  <1>2. N \in Nat /\ DOMAIN injected = 1 .. N
    OBVIOUS
  <1>3. Good(0)
    BY <1>1
  <1>4. ASSUME NEW k \in 1 .. N, Good(k - 1)
        PROVE  Good(k)
    <2> DEFINE t == f[k - 1]
               u == f[k]
               v == injected[k]
    <2>1. u = Taken(v, t) /\ t \in Seq(S) /\ Len(t) >= 1 /\ t[1] # v /\ t[1] = s[1]
      BY <1>1, <1>2, <1>4
    <2> HIDE DEF t, u, v
    <2>2. \/ u = t
          \/ \E x \in 1 .. Len(t) :
               /\ t[x] = v /\ u \in Seq(S) /\ Len(u) = Len(t) - 1
               /\ \A y \in 1 .. Len(t) - 1 : u[y] = t[IF y < x THEN y ELSE y + 1]
      BY <2>1, TakenOut
    <2>3. ASSUME NEW x \in 1 .. Len(t), t[x] = v, u \in Seq(S), Len(u) = Len(t) - 1,
                 \A y \in 1 .. Len(t) - 1 : u[y] = t[IF y < x THEN y ELSE y + 1]
          PROVE  Len(u) >= 1 /\ u[1] = t[1]
      <3>1. x # 1 /\ Len(t) \in Nat
        BY <2>1, <2>3
      <3>2. 1 \in 1 .. Len(t) - 1 /\ 1 < x
        BY <3>1
      <3> QED BY <2>3, <3>1, <3>2
    <2>4. u \in Seq(S) /\ Len(u) >= 1 /\ u[1] = s[1]
      BY <2>1, <2>2, <2>3
    <2> QED BY <2>4 DEF u
  <1> HIDE DEF Good
  <1>5. Good(N)
    <2> SUFFICES ASSUME ~Good(N)
                 PROVE  FALSE
      OBVIOUS
    <2>1. Bad \in SUBSET Nat /\ Bad # {}
      BY <1>2
    <2>2. m \in Bad /\ \A k \in Bad : m <= k
      BY <2>1, MinIsFirst
    <2> HIDE DEF m
    <2>3. m \in 0 .. N /\ ~Good(m) /\ m # 0
      BY <1>3, <2>2
    <2>4. m \in 1 .. N /\ m - 1 \in 0 .. N /\ ~(m <= m - 1)
      BY <1>2, <2>3
    <2>5. Good(m - 1)
      BY <2>2, <2>4
    <2> QED BY <1>4, <2>3, <2>4, <2>5
  <1> QED BY <1>1, <1>5 DEF Good

(* Lists compared by their numbers.                                          *)
Has(s, n) == \E k \in DOMAIN s : s[k].of = n
Amount(s, n) == Cardinality(Places(s, n))

LEMMA Counted ==
    ASSUME NEW S, NEW t \in Seq(S), NEW n
    PROVE  /\ IsFiniteSet(Places(t, n)) /\ Amount(t, n) \in Nat
           /\ Has(t, n) <=> Amount(t, n) >= 1
  <1>1. /\ IsFiniteSet(Places(t, n)) /\ Cardinality(Places(t, n)) \in Nat
        /\ Cardinality(Places(t, n)) = 0 <=> \A k \in DOMAIN t : t[k].of # n
    BY PlacesCounted
  <1>2. Has(t, n) <=> Cardinality(Places(t, n)) # 0
    BY <1>1 DEF Has
  <1> QED BY <1>1, <1>2 DEF Amount

(* The list of an identity that is created.                                  *)
Lone(num, n) == num = <<Plain(n)>>

LEMMA OneNumber ==
    ASSUME NEW n \in Number, NEW one, Lone(one, n)
    PROVE  /\ one \in Seq(Plains) /\ one # <<>> /\ DOMAIN one = {1}
           /\ one[1].of = n /\ one[1].gone = FALSE
  <1> DEFINE e == Plain(n)
  <1>1. e \in Plains /\ e.of = n /\ e.gone = FALSE
    BY DEF Plains, Plain
  <1> HIDE DEF e
  <1>2. <<e>> \in Seq(Plains) /\ <<e>> # <<>> /\ DOMAIN <<e>> = {1} /\ <<e>>[1] = e
    BY <1>1
  <1> QED BY <1>1, <1>2 DEF e, Lone

LEMMA OneCounted ==
    ASSUME NEW n \in Number, NEW one, Lone(one, n), NEW m \in Number
    PROVE  Amount(one, m) = (IF n = m THEN 1 ELSE 0) /\ (Has(one, m) <=> n = m)
  <1>1. DOMAIN one = {1} /\ one[1].of = n
    BY OneNumber
  <1>2. Places(one, m) = IF n = m THEN {1} ELSE {}
    BY <1>1 DEF Places
  <1>3. Has(one, m) <=> n = m
    BY <1>1 DEF Has
  <1> QED BY <1>2, <1>3, FS_EmptySet, FS_Singleton DEF Amount

(* Two lists of the same numbers, prefixed or not.                           *)
LEMMA SameNumbers ==
    ASSUME NEW s, NEW t, DOMAIN s = DOMAIN t, \A k \in DOMAIN s : s[k].of = t[k].of
    PROVE  \A n : /\ Places(s, n) = Places(t, n) /\ Amount(s, n) = Amount(t, n)
                  /\ Has(s, n) <=> Has(t, n)
  <1>1. \A n : Places(s, n) = Places(t, n) /\ (Has(s, n) <=> Has(t, n))
    BY DEF Places, Has
  <1> QED BY <1>1 DEF Amount

LEMMA FirstMarked ==
    ASSUME NEW num \in Seq(Entry), num # <<>>, NEW g \in BOOLEAN
    PROVE  LET t == [num EXCEPT ![1].gone = g]
           IN  /\ t \in Seq(Entry) /\ DOMAIN t = DOMAIN num /\ Len(t) = Len(num)
               /\ \A k \in DOMAIN num : /\ t[k].of = num[k].of
                                        /\ t[k].gone = IF k = 1 THEN g ELSE num[k].gone
  <1>1. num[1] \in Entry /\ 1 \in 1 .. Len(num) /\ Len(num) \in Nat /\ DOMAIN num = 1 .. Len(num)
    OBVIOUS
  <1> DEFINE e == [num[1] EXCEPT !.gone = g]
             t == [num EXCEPT ![1] = e]
  <1>2. e \in Entry /\ e.of = num[1].of /\ e.gone = g
    BY <1>1 DEF Entry
  <1>3. [num EXCEPT ![1].gone = g] = t
    OBVIOUS
  <1> HIDE DEF e
  <1>4. /\ t \in Seq(Entry) /\ Len(t) = Len(num)
        /\ \A k \in DOMAIN num : t[k] = IF k = 1 THEN e ELSE num[k]
    BY <1>1, <1>2, ExceptSeq
  <1>5. DOMAIN t = DOMAIN num
    OBVIOUS
  <1> HIDE DEF t
  <1> QED BY <1>2, <1>3, <1>4, <1>5

(* removePrefix changes no number.                                           *)
LEMMA PlainNumbers ==
    ASSUME NEW num \in Seq(Entry), \A k \in DOMAIN num : num[k].of \in Number
    PROVE  /\ Unprefixed(num) \in Seq(Plains) /\ DOMAIN Unprefixed(num) = DOMAIN num
           /\ \A k \in DOMAIN num : Unprefixed(num)[k].of = num[k].of
  <1> DEFINE u == Unprefixed(num)
  <1>1. DOMAIN num = 1 .. Len(num) /\ Len(num) \in Nat
    OBVIOUS
  <1>2. u = [k \in 1 .. Len(num) |-> Plain(num[k].of)]
    BY <1>1 DEF Unprefixed
  <1>3. \A k \in 1 .. Len(num) : Plain(num[k].of) \in Plains /\ Plain(num[k].of).of = num[k].of
    BY <1>1 DEF Plains, Plain
  <1> HIDE DEF u
  <1>4. u \in Seq(Plains)
    BY <1>1, <1>2, <1>3
  <1>5. DOMAIN u = DOMAIN num /\ \A k \in DOMAIN num : u[k].of = num[k].of
    BY <1>1, <1>2, <1>3
  <1> QED BY <1>4, <1>5 DEF u

(* What the masters were given: p, the master of each identity; g, the list  *)
(* that it was given.                                                        *)
Given(p, g, i, n) == UNION {{j} \X Places(g[j], n) : j \in {x \in Id : p[x] = i}}

(* Identity j, that has no master, gets the master i, to which h gives a list *)
(* for it.                                                                   *)
Joins(p, g, j, i, q, h) ==
    /\ p \in [Id -> Id \cup {None}] /\ j \in Id /\ i \in Id
    /\ p[j] = None /\ q = [p EXCEPT ![j] = i] /\ \A x \in Id \ {j} : h[x] = g[x]

(* What a master was given grows by the list of one identity.                *)
LEMMA GivenJoined ==
    ASSUME NEW p, NEW g, NEW j, NEW i, NEW q, NEW h, Joins(p, g, j, i, q, h), NEW n
    PROVE  /\ Given(q, h, i, n) = Given(p, g, i, n) \cup ({j} \X Places(h[j], n))
           /\ Given(p, g, i, n) \cap ({j} \X Places(h[j], n)) = {}
  <1>1. None \notin Id
    BY IdentitiesAssumption
  <1>2. /\ j \in Id /\ i \in Id /\ p[j] = None
        /\ q[j] = i /\ \A x \in Id \ {j} : q[x] = p[x] /\ h[x] = g[x]
    BY DEF Joins
  <1>3. \A z : z \in Given(q, h, i, n) <=> \E x \in Id : q[x] = i /\ z \in {x} \X Places(h[x], n)
    BY DEF Given
  <1>4. \A z : z \in Given(p, g, i, n) <=> \E x \in Id : p[x] = i /\ z \in {x} \X Places(g[x], n)
    BY DEF Given
  <1>5. Given(q, h, i, n) = Given(p, g, i, n) \cup ({j} \X Places(h[j], n))
    BY <1>1, <1>2, <1>3, <1>4
  <1>6. Given(p, g, i, n) \cap ({j} \X Places(h[j], n)) = {}
    BY <1>1, <1>2, <1>4
  <1> QED BY <1>5, <1>6

(* What the other masters were given stays.                                  *)
LEMMA GivenElsewhere ==
    ASSUME NEW p, NEW g, NEW j, NEW i, NEW q, NEW h, Joins(p, g, j, i, q, h), NEW n,
           NEW y \in Id \ {i}
    PROVE  Given(q, h, y, n) = Given(p, g, y, n)
  <1>1. None \notin Id
    BY IdentitiesAssumption
  <1>2. /\ p[j] = None /\ q[j] = i
        /\ \A x \in Id \ {j} : q[x] = p[x] /\ h[x] = g[x]
    BY DEF Joins
  <1>3. \A x \in Id : q[x] = y => p[x] = y /\ h[x] = g[x]
    BY <1>2
  <1>4. \A x \in Id : p[x] = y => q[x] = y /\ h[x] = g[x]
    BY <1>1, <1>2
  <1> QED BY <1>3, <1>4 DEF Given

LEMMA PairsCounted ==
    ASSUME NEW S, NEW s \in Seq(S), NEW j, NEW n
    PROVE  /\ IsFiniteSet({j} \X Places(s, n))
           /\ Cardinality({j} \X Places(s, n)) = Amount(s, n)
  <1> DEFINE A == Places(s, n)
             f == [k \in A |-> <<j, k>>]
  <1>1. IsFiniteSet(A)
    BY Counted
  <1>2. f \in [A -> {j} \X A]
    OBVIOUS
  <1>3. \A x, y \in A : f[x] = f[y] => x = y
    OBVIOUS
  <1>4. \A z \in {j} \X A : \E x \in A : f[x] = z
    OBVIOUS
  <1> HIDE DEF A, f
  <1>5. IsFiniteSet({j} \X A) /\ Cardinality({j} \X A) = Cardinality(A)
    BY <1>1, <1>2, <1>3, <1>4, SameSize
  <1> QED BY <1>5 DEF A, Amount

LEMMA DisjointSum ==
    ASSUME NEW A, NEW B, IsFiniteSet(A), IsFiniteSet(B), A \cap B = {}
    PROVE  /\ IsFiniteSet(A \cup B) /\ Cardinality(A) \in Nat /\ Cardinality(B) \in Nat
           /\ Cardinality(A \cup B) = Cardinality(A) + Cardinality(B)
  <1>1. IsFiniteSet(A \cup B)
        /\ Cardinality(A \cup B) = Cardinality(A) + Cardinality(B) - Cardinality(A \cap B)
    BY FS_Union
  <1>2. Cardinality(A \cap B) = 0
    BY FS_EmptySet
  <1>3. Cardinality(A) \in Nat /\ Cardinality(B) \in Nat
    BY FS_CardinalityType
  <1> QED BY <1>1, <1>2, <1>3

(* A list injected into a master adds its numbers to what it was given.      *)
LEMMA GivenMore ==
    ASSUME NEW p, NEW g, NEW j, NEW i, NEW q, NEW h, Joins(p, g, j, i, q, h),
           NEW S, h[j] \in Seq(S), NEW n, IsFiniteSet(Given(p, g, i, n))
    PROVE  /\ IsFiniteSet(Given(q, h, i, n)) /\ Cardinality(Given(p, g, i, n)) \in Nat
           /\ Cardinality(Given(q, h, i, n)) = Cardinality(Given(p, g, i, n)) + Amount(h[j], n)
  <1> DEFINE A == Given(p, g, i, n)
             B == {j} \X Places(h[j], n)
  <1>1. Given(q, h, i, n) = A \cup B /\ A \cap B = {}
    BY GivenJoined
  <1>2. IsFiniteSet(A) /\ IsFiniteSet(B) /\ Cardinality(B) = Amount(h[j], n)
    BY PairsCounted
  <1> HIDE DEF A, B
  <1>3. IsFiniteSet(A \cup B) /\ Cardinality(A) \in Nat
        /\ Cardinality(A \cup B) = Cardinality(A) + Cardinality(B)
    BY <1>1, <1>2, DisjointSum
  <1> QED BY <1>1, <1>2, <1>3 DEF A

(* And what is taken back from a master was part of it.                      *)
LEMMA GivenLess ==
    ASSUME NEW p, NEW g, NEW j, NEW i, NEW q, Joins(q, g, j, i, p, g),
           NEW S, g[j] \in Seq(S), NEW n, IsFiniteSet(Given(p, g, i, n))
    PROVE  /\ IsFiniteSet(Given(q, g, i, n)) /\ Cardinality(Given(q, g, i, n)) \in Nat
           /\ Cardinality(Given(p, g, i, n)) = Cardinality(Given(q, g, i, n)) + Amount(g[j], n)
  <1>1. Given(p, g, i, n) = Given(q, g, i, n) \cup ({j} \X Places(g[j], n))
    BY GivenJoined
  <1>2. IsFiniteSet(Given(q, g, i, n))
    BY <1>1, FS_Subset
  <1>3. /\ Cardinality(Given(q, g, i, n)) \in Nat
        /\ Cardinality(Given(p, g, i, n)) = Cardinality(Given(q, g, i, n)) + Amount(g[j], n)
    BY <1>2, GivenMore
  <1> QED BY <1>2, <1>3

(* When a list is counted once at most, it has at most one origin.           *)
LEMMA OneGiver ==
    ASSUME NEW p, NEW g, NEW i, NEW n, IsFiniteSet(Given(p, g, i, n)),
           Cardinality(Given(p, g, i, n)) <= 1,
           NEW j \in Id, p[j] = i, Has(g[j], n), NEW k \in Id, p[k] = i, Has(g[k], n)
    PROVE  j = k
  <1> DEFINE A == Given(p, g, i, n)
  <1>1. PICK x : x \in Places(g[j], n)
    BY DEF Has, Places
  <1>2. PICK y : y \in Places(g[k], n)
    BY DEF Has, Places
  <1>3. <<j, x>> \in A /\ <<k, y>> \in A
    BY <1>1, <1>2 DEF Given
  <1> HIDE DEF A
  <1> SUFFICES ASSUME j # k
               PROVE  FALSE
    OBVIOUS
  <1>4. <<j, x>> # <<k, y>>
    OBVIOUS
  <1> DEFINE a == <<j, x>>
             b == <<k, y>>
  <1>5. a \in A /\ b \in A /\ a # b
    BY <1>3, <1>4
  <1> HIDE DEF a, b
  <1>6. IsFiniteSet(A) /\ Cardinality(A) \in Nat /\ Cardinality(A) <= 1
    BY FS_CardinalityType DEF A
  <1>7. IsFiniteSet(A \ {a}) /\ Cardinality(A \ {a}) = Cardinality(A) - 1
    BY <1>5, <1>6, FS_RemoveElement
  <1>8. Cardinality(A \ {a}) # 0
    BY <1>5, <1>7, FS_EmptySet
  <1>9. Cardinality(A \ {a}) \in Nat
    BY <1>7, FS_CardinalityType
  <1> QED BY <1>6, <1>7, <1>8, <1>9

LEMMA GivenHas ==
    ASSUME NEW p, NEW g, NEW i, NEW n, IsFiniteSet(Given(p, g, i, n))
    PROVE  /\ Cardinality(Given(p, g, i, n)) \in Nat
           /\ \A j \in Id : p[j] = i /\ Has(g[j], n) => Cardinality(Given(p, g, i, n)) >= 1
           /\ Cardinality(Given(p, g, i, n)) >= 1 => \E j \in Id : p[j] = i /\ Has(g[j], n)
  <1> DEFINE A == Given(p, g, i, n)
  <1>1. ASSUME NEW j \in Id, p[j] = i, Has(g[j], n)
        PROVE  A # {}
    <2>1. PICK k : k \in Places(g[j], n)
      BY <1>1 DEF Has, Places
    <2>2. <<j, k>> \in A
      BY <1>1, <2>1 DEF Given
    <2> QED BY <2>2
  <1>2. A # {} => \E j \in Id : p[j] = i /\ Has(g[j], n)
    BY DEF Given, Has, Places
  <1> HIDE DEF A
  <1>3. IsFiniteSet(A) /\ Cardinality(A) \in Nat /\ (Cardinality(A) = 0 <=> A = {})
    BY FS_EmptySet, FS_CardinalityType DEF A
  <1>4. Cardinality(A) >= 1 <=> A # {}
    BY <1>3
  <1> QED BY <1>1, <1>2, <1>3, <1>4 DEF A

-----------------------------------------------------------------------------
(* What holds of the lists for one account of the masters, p and g: master   *)
(* p[j] has counted the list g[j] of j. The documents alone do not say it: a *)
(* fusion writes "dest" before its master has the numbers, and a cancellation*)
(* removes it before they are taken out.                                     *)

(* A document of an identity that is not merged has its numbers plain, and   *)
(* one of an identity that is merged has its first one prefixed.             *)
Tidy(d) ==
    /\ d.num # <<>>
    /\ \A k \in DOMAIN d.num : /\ d.num[k].of \in Number
                               /\ d.num[k].gone <=> (k = 1 /\ d.dest # None)

(* Identities that no master counts; or whose cancellation has begun.        *)
Root(p, y) == p[y] = None \/ docs[y].dest # p[y]

(* A number that an identity holds, but for what its leaving ones gave it.   *)
Holds(p, g, y, n) ==
    Has(docs[y].num, n) /\ \A k \in Id : p[k] = y /\ docs[k].dest # y => ~Has(g[k], n)

Sourced(p) == \A i \in Stored : docs[i].src # None => p[docs[i].src] = i

Neat == \A i \in Stored : Tidy(docs[i]) /\ own[i] \in Number

Booked(p, g) ==
    \A i \in Stored, n \in Number :
      /\ IsFiniteSet(Given(p, g, i, n))
      /\ Amount(docs[i].num, n) = (IF own[i] = n THEN 1 ELSE 0) + Cardinality(Given(p, g, i, n))

Owned == \A y \in Stored, n \in Number : Has(docs[y].num, n) => \E x \in Stored : own[x] = n

Single == \A y \in Stored, n \in Number : Amount(docs[y].num, n) <= 1

OwnFirst == \A y \in Stored : docs[y].num[1].of = own[y]

Apart(p, g) ==
    \A y, z \in Stored, n \in Number :
      y # z /\ Root(p, y) /\ Root(p, z) => ~(Holds(p, g, y, n) /\ Holds(p, g, z, n))

Ghosts(p, g) == p \in [Id -> Id \cup {None}] /\ g \in [Id -> Seq(Plains)]

Accounts(p, g) ==
    /\ Ghosts(p, g) /\ Sourced(p) /\ Neat /\ Booked(p, g) /\ Owned
    /\ CreatedOnce => Single /\ OwnFirst /\ Apart(p, g)

-----------------------------------------------------------------------------
LEMMA StoredTyped ==
    ASSUME TypeOK, NEW i \in Stored
    PROVE  /\ i \in Id /\ docs[i] \in Doc /\ docs[i].num \in Seq(Entry)
           /\ docs[i].src \in Id \cup {None} /\ docs[i].dest \in Id \cup {None}
  BY DEF TypeOK, Doc

(* The links stay as they are.                                               *)
LEMMA AccountsKept ==
    ASSUME NEW p, NEW g, Accounts(p, g), Stored' = Stored, own' = own, Stored \subseteq Id,
           \A i \in Stored : Links(docs'[i]) = Links(docs[i]),
           \A i \in Id : p[i] # None => i \in Stored
    PROVE  Accounts(p, g)'
  <1>1. \A i \in Stored : /\ docs'[i].num = docs[i].num /\ docs'[i].src = docs[i].src
                          /\ docs'[i].dest = docs[i].dest
    BY DEF Links
  <1>2. Sourced(p)'
    BY <1>1, Zenon DEF Accounts, Sourced
  <1>3. Neat'
    BY <1>1, Zenon DEF Accounts, Neat, Tidy
  <1>4. Booked(p, g)'
    BY <1>1, Zenon DEF Accounts, Booked
  <1>5. Owned'
    BY <1>1, Zenon DEF Accounts, Owned
  <1>6. ASSUME CreatedOnce'
        PROVE  (Single /\ OwnFirst /\ Apart(p, g))'
    <2>1. CreatedOnce
      BY <1>6, Zenon DEF CreatedOnce
    <2>2. Single' /\ OwnFirst'
      BY <1>1, <2>1, Zenon DEF Accounts, Single, OwnFirst
    <2>3. \A y \in Stored : Root(p, y)' <=> Root(p, y)
      BY <1>1, Zenon DEF Root
    <2>4. None \notin Id
      BY IdentitiesAssumption
    <2>5. \A y \in Stored, n \in Number : Holds(p, g, y, n)' <=> Holds(p, g, y, n)
      <3> SUFFICES ASSUME NEW y \in Stored, NEW n \in Number
                   PROVE  Holds(p, g, y, n)' <=> Holds(p, g, y, n)
        OBVIOUS
      <3>1. \A k \in Id : p[k] = y => k \in Stored /\ docs'[k].dest = docs[k].dest
        BY <1>1, <2>4
      <3> QED BY <1>1, <3>1, Zenon DEF Holds
    <2>6. Apart(p, g)'
      BY <2>1, <2>3, <2>5, Zenon DEF Accounts, Apart
    <2> QED BY <2>2, <2>6
  <1> QED BY <1>2, <1>3, <1>4, <1>5, <1>6 DEF Accounts, Ghosts

(* An identity is created.                                                   *)
LEMMA AccountsCreated ==
    ASSUME NEW p, NEW g, Accounts(p, g), Stored \subseteq Id, TypeOK,
           NEW i \in Id \ Stored, NEW n \in Number, Stored' = Stored \cup {i},
           \A x \in Stored : docs'[x] = docs[x] /\ own'[x] = own[x],
           docs'[i].num = <<Plain(n)>>, docs'[i].src = None, docs'[i].dest = None, own'[i] = n,
           \A x \in Id : p[x] # None => x \in Stored /\ p[x] \in Stored
    PROVE  Accounts(p, g)'
  <1> DEFINE one == <<Plain(n)>>
  <1>1. /\ one \in Seq(Plains) /\ one # <<>> /\ DOMAIN one = {1} /\ one[1].of = n
        /\ one[1].gone = FALSE
    <2>1. PICK num : num = one
      OBVIOUS
    <2>2. Lone(num, n)
      BY <2>1 DEF Lone
    <2> QED BY <2>1, <2>2, OneNumber
  <1>2. i \notin Stored /\ None \notin Id /\ p[i] = None
    BY IdentitiesAssumption
  <1>3. Sourced(p)'
    <2>1. \A x \in Stored' : docs'[x].src # None => p[docs'[x].src] = x
      BY <1>2 DEF Accounts, Sourced
    <2> QED BY <2>1, Zenon DEF Sourced
  <1>4. Neat'
    <2>1. docs'[i].num = one
      OBVIOUS
    <2>2. Tidy(docs'[i])
      <3> HIDE DEF one
      <3> QED BY <1>1, <2>1 DEF Tidy
    <2>3. \A x \in Stored' : Tidy(docs'[x]) /\ own'[x] \in Number
      BY <2>2 DEF Accounts, Neat
    <2> QED BY <2>3, Zenon DEF Neat, Tidy
  <1>5. \A m \in Number : /\ Amount(one, m) = IF n = m THEN 1 ELSE 0
                          /\ Has(one, m) <=> n = m
    <2>1. PICK num : num = one
      OBVIOUS
    <2>2. Lone(num, n)
      BY <2>1 DEF Lone
    <2>3. ASSUME NEW m \in Number
          PROVE  /\ Amount(num, m) = IF n = m THEN 1 ELSE 0
                 /\ Has(num, m) <=> n = m
      BY <2>2, OneCounted
    <2> QED BY <2>1, <2>3
  <1>6. Booked(p, g)'
    <2>1. ASSUME NEW x \in Stored', NEW m \in Number
          PROVE  /\ IsFiniteSet(Given(p, g, x, m))
                 /\ Amount(docs'[x].num, m) =
                      (IF own'[x] = m THEN 1 ELSE 0) + Cardinality(Given(p, g, x, m))
      <3>1. CASE x \in Stored
        BY <3>1 DEF Accounts, Booked
      <3>2. CASE x = i
        <4>1. Given(p, g, i, m) = {}
          BY <1>2 DEF Given
        <4>2. Amount(docs'[i].num, m) = IF n = m THEN 1 ELSE 0
          BY <1>5
        <4> QED BY <3>2, <4>1, <4>2, FS_EmptySet
      <3> QED BY <3>1, <3>2
    <2> QED BY <2>1, Zenon DEF Booked
  <1>7. Owned'
    <2>1. ASSUME NEW y \in Stored', NEW m \in Number, Has(docs'[y].num, m)
          PROVE  \E x \in Stored' : own'[x] = m
      <3>1. CASE y \in Stored
        BY <2>1, <3>1 DEF Accounts, Owned
      <3>2. CASE y = i
        BY <1>5, <2>1, <3>2
      <3> QED BY <3>1, <3>2
    <2> QED BY <2>1, Zenon DEF Owned
  <1>8. ASSUME CreatedOnce'
        PROVE  (Single /\ OwnFirst /\ Apart(p, g))'
    <2>1. \A x, y \in Stored' : x # y => own'[x] # own'[y]
      BY <1>8 DEF CreatedOnce
    <2>2. CreatedOnce
      BY <2>1 DEF CreatedOnce
    <2>3. Single /\ OwnFirst /\ Apart(p, g)
      BY <2>2 DEF Accounts
    <2>4. Single'
      <3>1. \A y \in Stored', m \in Number : Amount(docs'[y].num, m) <= 1
        BY <1>5, <2>3 DEF Single
      <3> QED BY <3>1, Zenon DEF Single
    <2>5. OwnFirst'
      <3>1. \A y \in Stored' : docs'[y].num[1].of = own'[y]
        BY <1>1, <2>3 DEF OwnFirst
      <3> QED BY <3>1, Zenon DEF OwnFirst
    <2>6. \A y \in Stored : ~Has(docs[y].num, n)
      <3>1. \A x \in Stored : own[x] # n
        BY <1>2, <2>1
      <3> QED BY <3>1 DEF Accounts, Owned
    <2>7. \A y \in Stored : Root(p, y)' => Root(p, y)
      BY Zenon DEF Root
    <2>8. \A y \in Stored, m \in Number : Holds(p, g, y, m)' => Holds(p, g, y, m)
      <3> SUFFICES ASSUME NEW y \in Stored, NEW m \in Number, Holds(p, g, y, m)'
                   PROVE  Holds(p, g, y, m)
        OBVIOUS
      <3>1. \A k \in Id : p[k] = y => k \in Stored /\ docs'[k].dest = docs[k].dest
        BY <1>2
      <3> QED BY <3>1, Zenon DEF Holds
    <2>9. \A m \in Number : Holds(p, g, i, m)' => m = n
      BY <1>5 DEF Holds
    <2>10. \A y \in Stored : ~Holds(p, g, y, n)'
      BY <2>6, Zenon DEF Holds
    <2>11. ASSUME NEW y \in Stored', NEW z \in Stored', NEW m \in Number, y # z,
                  Root(p, y)', Root(p, z)', Holds(p, g, y, m)', Holds(p, g, z, m)'
           PROVE  FALSE
      <3>1. CASE y = i
        BY <2>9, <2>10, <2>11, <3>1
      <3>2. CASE z = i
        BY <2>9, <2>10, <2>11, <3>2
      <3>3. CASE y \in Stored /\ z \in Stored
        BY <2>3, <2>7, <2>8, <2>11, <3>3 DEF Apart
      <3> QED BY <3>1, <3>2, <3>3
    <2>12. Apart(p, g)'
      BY <2>11, Zenon DEF Apart
    <2> QED BY <2>4, <2>5, <2>12
  <1> QED BY <1>3, <1>4, <1>6, <1>7, <1>8 DEF Accounts, Ghosts

(* The prefixes of one document change, its numbers and its source do not.   *)
LEMMA NumbersSame ==
    ASSUME NEW p, NEW g, Accounts(p, g), TypeOK, Stored' = Stored, own' = own,
           \A x \in Stored : /\ docs'[x].src = docs[x].src
                             /\ DOMAIN docs'[x].num = DOMAIN docs[x].num
                             /\ \A k \in DOMAIN docs[x].num : docs'[x].num[k].of = docs[x].num[k].of
    PROVE  /\ Sourced(p)' /\ Booked(p, g)' /\ Owned' /\ (CreatedOnce' => CreatedOnce)
           /\ CreatedOnce => Single' /\ OwnFirst'
           /\ \A x \in Stored : \A n : Has(docs'[x].num, n) <=> Has(docs[x].num, n)
  <1>1. \A x \in Stored : \A n :
          /\ Amount(docs'[x].num, n) = Amount(docs[x].num, n)
          /\ Has(docs'[x].num, n) <=> Has(docs[x].num, n)
    BY SameNumbers
  <1>2. Sourced(p)'
    BY Zenon DEF Accounts, Sourced
  <1>3. Booked(p, g)'
    BY <1>1, Zenon DEF Accounts, Booked
  <1>4. Owned'
    BY <1>1, Zenon DEF Accounts, Owned
  <1>5. CreatedOnce' => CreatedOnce
    BY Zenon DEF CreatedOnce
  <1>6. ASSUME CreatedOnce
        PROVE  Single' /\ OwnFirst'
    <2>1. Single'
      BY <1>1, <1>6, Zenon DEF Accounts, Single
    <2>2. \A y \in Stored : docs'[y].num[1].of = own[y]
      <3> SUFFICES ASSUME NEW y \in Stored
                   PROVE  docs'[y].num[1].of = own[y]
        OBVIOUS
      <3>1. docs[y].num[1].of = own[y] /\ docs[y].num # <<>>
        BY <1>6 DEF Accounts, Neat, Tidy, OwnFirst
      <3>2. docs[y].num \in Seq(Entry)
        BY StoredTyped
      <3>3. 1 \in DOMAIN docs[y].num
        BY <3>1, <3>2
      <3> QED BY <3>1, <3>3
    <2> QED BY <2>1, <2>2, Zenon DEF OwnFirst
  <1> QED BY <1>1, <1>2, <1>3, <1>4, <1>5, <1>6

(* First write of a fusion: j is marked as merged into i, which does not     *)
(* count it yet.                                                             *)
LEMMA AccountsMerged ==
    ASSUME NEW p, NEW g, Accounts(p, g), TypeOK, Stored' = Stored, own' = own,
           NEW j \in Stored, NEW i \in Id, \A x \in Stored \ {j} : docs'[x] = docs[x],
           p[j] = None, docs[j].dest = None,
           docs'[j].num = Prefixed(docs[j].num), docs'[j].src = docs[j].src, docs'[j].dest = i,
           \A x \in Id : p[x] # None => x \in Stored
    PROVE  Accounts(p, g)'
  <1> DEFINE num == docs[j].num
             new == [num EXCEPT ![1].gone = TRUE]
  <1>1. num \in Seq(Entry) /\ num # <<>> /\ None \notin Id
    BY StoredTyped, IdentitiesAssumption DEF Accounts, Neat, Tidy
  <1>2. docs'[j].num = new
    BY <1>1 DEF Prefixed
  <1>3. /\ DOMAIN new = DOMAIN num /\ new \in Seq(Entry) /\ Len(new) = Len(num)
        /\ \A k \in DOMAIN num : /\ new[k].of = num[k].of
                                 /\ new[k].gone = IF k = 1 THEN TRUE ELSE num[k].gone
    BY <1>1, FirstMarked
  <1> HIDE DEF new, num
  <1>4. \A x \in Stored : /\ docs'[x].src = docs[x].src
                          /\ DOMAIN docs'[x].num = DOMAIN docs[x].num
                          /\ \A k \in DOMAIN docs[x].num : docs'[x].num[k].of = docs[x].num[k].of
    BY <1>2, <1>3 DEF num
  <1>5. /\ Sourced(p)' /\ Booked(p, g)' /\ Owned' /\ (CreatedOnce' => CreatedOnce)
        /\ CreatedOnce => Single' /\ OwnFirst'
        /\ \A x \in Stored : \A n : Has(docs'[x].num, n) <=> Has(docs[x].num, n)
    BY <1>4, NumbersSame
  <1>6. Neat'
    <2>1. \A x \in Stored : Tidy(docs[x]) /\ own[x] \in Number
      BY DEF Accounts, Neat
    <2>2. new # <<>>
      BY <1>1, <1>3
    <2>3. \A k \in DOMAIN num : num[k].of \in Number /\ ~num[k].gone
      BY <2>1 DEF Tidy, num
    <2>4. Tidy(docs'[j])
      BY <1>1, <1>2, <1>3, <2>2, <2>3 DEF Tidy
    <2>5. \A x \in Stored : Tidy(docs'[x]) /\ own[x] \in Number
      BY <2>1, <2>4
    <2> QED BY <2>5, Zenon DEF Neat, Tidy
  <1>7. \A y \in Stored : Root(p, y)' <=> Root(p, y)
    <2> SUFFICES ASSUME NEW y \in Stored
                 PROVE  Root(p, y)' <=> Root(p, y)
      OBVIOUS
    <2> QED BY DEF Root
  <1>8. \A y \in Stored, n \in Number : Holds(p, g, y, n)' <=> Holds(p, g, y, n)
    <2> SUFFICES ASSUME NEW y \in Stored, NEW n \in Number
                 PROVE  Holds(p, g, y, n)' <=> Holds(p, g, y, n)
      OBVIOUS
    <2>1. y \in Id
      BY StoredTyped
    <2>2. \A k \in Id : p[k] = y => docs'[k].dest = docs[k].dest
      BY <1>1, <2>1
    <2> QED BY <1>5, <2>2, Zenon DEF Holds
  <1>9. CreatedOnce' => Apart(p, g)'
    BY <1>5, <1>7, <1>8, Zenon DEF Accounts, Apart
  <1> QED BY <1>5, <1>6, <1>9 DEF Accounts, Ghosts

(* First write of a cancellation: j is no longer marked as merged into i,    *)
(* which counts it still.                                                    *)
LEMMA AccountsRestored ==
    ASSUME NEW p, NEW g, Accounts(p, g), TypeOK, Stored' = Stored, own' = own,
           NEW j \in Stored, NEW i \in Stored, \A x \in Stored \ {j} : docs'[x] = docs[x],
           i # j, p[j] = i, docs[j].dest = i, docs[i].dest = None,
           g[j] = Unprefixed(docs[j].num),
           docs'[j].num = [docs[j].num EXCEPT ![1].gone = FALSE],
           docs'[j].src = docs[j].src, docs'[j].dest = None,
           \A x \in Id : p[x] # None => x \in Stored
    PROVE  Accounts(p, g)'
  <1> DEFINE num == docs[j].num
             new == [num EXCEPT ![1].gone = FALSE]
  <1>1. num \in Seq(Entry) /\ num # <<>> /\ None \notin Id /\ i \in Id /\ j \in Id
    BY StoredTyped, IdentitiesAssumption DEF Accounts, Neat, Tidy
  <1>2. docs'[j].num = new
    OBVIOUS
  <1>3. /\ DOMAIN new = DOMAIN num /\ new \in Seq(Entry) /\ Len(new) = Len(num)
        /\ \A k \in DOMAIN num : /\ new[k].of = num[k].of
                                 /\ new[k].gone = IF k = 1 THEN FALSE ELSE num[k].gone
    BY <1>1, FirstMarked
  <1>4. \A n : Has(g[j], n) <=> Has(num, n)
    <2>1. \A k \in DOMAIN num : num[k].of \in Number
      BY DEF Accounts, Neat, Tidy
    <2>2. DOMAIN g[j] = DOMAIN num /\ \A k \in DOMAIN num : g[j][k].of = num[k].of
      BY <1>1, <2>1, PlainNumbers
    <2> QED BY <2>2, SameNumbers
  <1> HIDE DEF new, num
  <1>5. \A x \in Stored : /\ docs'[x].src = docs[x].src
                          /\ DOMAIN docs'[x].num = DOMAIN docs[x].num
                          /\ \A k \in DOMAIN docs[x].num : docs'[x].num[k].of = docs[x].num[k].of
    BY <1>2, <1>3 DEF num
  <1>6. /\ Sourced(p)' /\ Booked(p, g)' /\ Owned' /\ (CreatedOnce' => CreatedOnce)
        /\ CreatedOnce => Single' /\ OwnFirst'
        /\ \A x \in Stored : \A n : Has(docs'[x].num, n) <=> Has(docs[x].num, n)
    BY <1>5, NumbersSame
  <1>7. Neat'
    <2>1. \A x \in Stored : Tidy(docs[x]) /\ own[x] \in Number
      BY DEF Accounts, Neat
    <2>2. new # <<>>
      BY <1>1, <1>3
    <2>3. \A k \in DOMAIN num : num[k].of \in Number /\ (num[k].gone => k = 1)
      BY <2>1 DEF Tidy, num
    <2>4. Tidy(docs'[j])
      BY <1>1, <1>2, <1>3, <2>2, <2>3 DEF Tidy
    <2>5. \A x \in Stored : Tidy(docs'[x]) /\ own[x] \in Number
      BY <2>1, <2>4
    <2> QED BY <2>5, Zenon DEF Neat, Tidy
  <1>8. ASSUME CreatedOnce
        PROVE  Apart(p, g)'
    <2>1. \A y \in Stored \ {j} : Root(p, y)' <=> Root(p, y)
      BY DEF Root
    <2>2. Root(p, i)
      BY <1>1 DEF Root
    <2>3. \A k \in Id \ {j}, y \in Stored :
            p[k] = y => docs'[k].dest = docs[k].dest
      BY <1>1, StoredTyped
    <2>4. ASSUME NEW y \in Stored, NEW n \in Number, Holds(p, g, y, n)'
          PROVE  Holds(p, g, y, n) /\ (y = i => ~Has(g[j], n))
      <3>1. Has(docs[y].num, n)
        BY <1>6, <2>4 DEF Holds
      <3>2. \A k \in Id : p[k] = y /\ docs'[k].dest # y => ~Has(g[k], n)
        BY <2>4 DEF Holds
      <3>3. y = i => ~Has(g[j], n)
        BY <1>1, <3>2
      <3>4. \A k \in Id : p[k] = y /\ docs[k].dest # y => ~Has(g[k], n)
        BY <2>3, <3>2
      <3> QED BY <3>1, <3>3, <3>4 DEF Holds
    <2>5. ASSUME NEW n \in Number, Has(docs[j].num, n)
          PROVE  Holds(p, g, i, n)
      <3>1. Has(g[j], n)
        BY <1>4, <2>5 DEF num
      <3>2. /\ IsFiniteSet(Given(p, g, i, n))
            /\ Amount(docs[i].num, n) =
                 (IF own[i] = n THEN 1 ELSE 0) + Cardinality(Given(p, g, i, n))
        BY DEF Accounts, Booked
      <3>3. /\ Cardinality(Given(p, g, i, n)) \in Nat
            /\ Cardinality(Given(p, g, i, n)) >= 1
        BY <1>1, <3>1, <3>2, GivenHas
      <3>4. Amount(docs[i].num, n) <= 1
        BY <1>8 DEF Accounts, Single
      <3>5. Amount(docs[i].num, n) >= 1 /\ Cardinality(Given(p, g, i, n)) <= 1
        BY <3>2, <3>3, <3>4
      <3>6. Has(docs[i].num, n)
        BY <3>5, StoredTyped, Counted
      <3>7. ASSUME NEW k \in Id, p[k] = i, docs[k].dest # i, Has(g[k], n)
            PROVE  FALSE
        <4>1. k = j
          BY <1>1, <3>1, <3>2, <3>5, <3>7, OneGiver
        <4> QED BY <3>7, <4>1
      <3> QED BY <3>6, <3>7 DEF Holds
    <2>6. \A y, z \in Stored, n \in Number :
            y # z /\ Root(p, y) /\ Root(p, z) => ~(Holds(p, g, y, n) /\ Holds(p, g, z, n))
      BY <1>8 DEF Accounts, Apart
    <2>7. ASSUME NEW z \in Stored \ {j}, NEW n \in Number, Root(p, z)',
                 Holds(p, g, j, n)', Holds(p, g, z, n)'
          PROVE  FALSE
      <3>1. Has(docs[j].num, n)
        BY <2>4, <2>7 DEF Holds
      <3>2. Has(g[j], n) /\ z # i
        BY <1>4, <2>4, <2>7, <3>1 DEF num
      <3>3. Holds(p, g, i, n) /\ Holds(p, g, z, n) /\ Root(p, z)
        BY <2>1, <2>4, <2>5, <2>7, <3>1
      <3> QED BY <2>2, <2>6, <3>2, <3>3
    <2>8. ASSUME NEW y \in Stored, NEW z \in Stored, NEW n \in Number, y # z,
                 Root(p, y)', Root(p, z)', Holds(p, g, y, n)', Holds(p, g, z, n)'
          PROVE  FALSE
      <3>1. CASE y = j
        BY <2>7, <2>8, <3>1
      <3>2. CASE z = j
        BY <2>7, <2>8, <3>2
      <3>3. CASE y # j /\ z # j
        BY <2>1, <2>4, <2>6, <2>8, <3>3
      <3> QED BY <3>1, <3>2, <3>3
    <2> QED BY <2>8, Zenon DEF Apart
  <1> QED BY <1>6, <1>7, <1>8 DEF Accounts, Ghosts

(* What a fusion adds to the list of the master, and who is then counted.    *)
Cat(num, more) == num \o more
Cleared(s, j) ==
    /\ s \in Seq(Entry) /\ DOMAIN s = DOMAIN docs[j].num
    /\ \A k \in DOMAIN s : s[k].of = docs[j].num[k].of /\ s[k].gone = FALSE
Recounted(p, g, q, h, j, i) ==
    q = [p EXCEPT ![j] = i] /\ h = [g EXCEPT ![j] = Unprefixed(docs[j].num)]

(* Last write of a fusion: i gets the numbers of j, and counts them.         *)
LEMMA AccountsJoined ==
    ASSUME NEW p, NEW g, Accounts(p, g), TypeOK, Stored' = Stored, own' = own,
           NEW j \in Stored, NEW i \in Stored, \A x \in Stored \ {i} : docs'[x] = docs[x],
           i # j, p[j] = None, docs[j].dest = i, docs[i].dest = None,
           NEW s, Cleared(s, j),
           docs'[i].num = Cat(docs[i].num, s), docs'[i].src = j, docs'[i].dest = None,
           NEW q, NEW h, Recounted(p, g, q, h, j, i),
           \A k \in Id : p[k] # None => k \in Stored,
           \A k \in Id : p[k] \in {i, j} => docs[k].dest = p[k]
    PROVE  Accounts(q, h)'
  <1> SUFFICES ASSUME s \in Seq(Entry), DOMAIN s = DOMAIN docs[j].num,
                      \A k \in DOMAIN s : s[k].of = docs[j].num[k].of /\ s[k].gone = FALSE,
                      docs'[i].num = docs[i].num \o s, q = [p EXCEPT ![j] = i],
                      h = [g EXCEPT ![j] = Unprefixed(docs[j].num)]
               PROVE  Accounts(q, h)'
    BY DEF Cleared, Recounted, Cat
  <1> DEFINE num == docs[j].num
             u == Unprefixed(num)
             mas == docs[i].num
             new == mas \o s
  <1>1. /\ num \in Seq(Entry) /\ mas \in Seq(Entry) /\ num # <<>> /\ mas # <<>>
        /\ None \notin Id /\ i \in Id /\ j \in Id
    BY StoredTyped, IdentitiesAssumption DEF Accounts, Neat, Tidy
  <1>2. /\ u \in Seq(Plains) /\ DOMAIN u = DOMAIN num
        /\ \A k \in DOMAIN num : u[k].of = num[k].of
        /\ \A k \in DOMAIN num : num[k].of \in Number
    <2>1. \A k \in DOMAIN num : num[k].of \in Number
      BY DEF Accounts, Neat, Tidy
    <2> QED BY <1>1, <2>1, PlainNumbers
  <1>3. p \in [Id -> Id \cup {None}] /\ g \in [Id -> Seq(Plains)]
    BY DEF Accounts, Ghosts
  <1> HIDE DEF u
  <1>4. Ghosts(q, h) /\ h[j] = u /\ \A x \in Id \ {j} : q[x] = p[x] /\ h[x] = g[x]
    BY <1>1, <1>2, <1>3 DEF Ghosts, u
  <1>5. q[j] = i
    BY <1>1, <1>3
  <1>6. Joins(p, g, j, i, q, h)
    BY <1>1, <1>3, <1>4 DEF Joins
  <1> HIDE DEF num, mas, new
  <1>7. \A n : /\ Amount(s, n) = Amount(num, n) /\ Amount(u, n) = Amount(num, n)
               /\ Has(s, n) <=> Has(num, n)
    <2>1. DOMAIN s = DOMAIN num /\ \A k \in DOMAIN s : s[k].of = num[k].of
      BY DEF num
    <2> QED BY <1>2, <2>1, SameNumbers
  <1>8. \A n : /\ Amount(new, n) = Amount(mas, n) + Amount(num, n)
               /\ Amount(mas, n) \in Nat /\ Amount(num, n) \in Nat
               /\ Has(new, n) <=> Has(mas, n) \/ Has(num, n)
    <2> SUFFICES ASSUME NEW n
                 PROVE  /\ Amount(new, n) = Amount(mas, n) + Amount(num, n)
                        /\ Amount(mas, n) \in Nat /\ Amount(num, n) \in Nat
                        /\ Has(new, n) <=> Has(mas, n) \/ Has(num, n)
      OBVIOUS
    <2>1. Amount(new, n) = Amount(mas, n) + Amount(s, n)
      BY <1>1, PlacesJoined DEF Amount, new
    <2>2. new \in Seq(Entry)
      BY <1>1, ConcatProperties DEF new
    <2>3. Amount(mas, n) \in Nat /\ Amount(num, n) \in Nat
      BY <1>1, Counted
    <2>4. Has(mas, n) <=> Amount(mas, n) >= 1
      BY <1>1, Counted
    <2>5. Has(num, n) <=> Amount(num, n) >= 1
      BY <1>1, Counted
    <2>6. Has(new, n) <=> Amount(new, n) >= 1
      BY <2>2, Counted
    <2>7. Amount(s, n) = Amount(num, n)
      BY <1>7
    <2> QED BY <2>1, <2>3, <2>4, <2>5, <2>6, <2>7
  <1>9. docs'[i].num = new
    BY DEF new, mas
  <1>10. Sourced(q)'
    <2>1. ASSUME NEW y \in Stored, docs'[y].src # None
          PROVE  q[docs'[y].src] = y
      <3>1. CASE y = i
        BY <1>5, <3>1
      <3>2. CASE y # i
        <4>1. docs[y].src \in Id /\ p[docs[y].src] = y /\ y \in Id
          BY <2>1, <3>2, StoredTyped DEF Accounts, Sourced
        <4> QED BY <1>1, <1>4, <3>2, <4>1
      <3> QED BY <3>1, <3>2
    <2> QED BY <2>1, Zenon DEF Sourced
  <1>11. Neat'
    <2>1. \A x \in Stored : Tidy(docs[x]) /\ own[x] \in Number
      BY DEF Accounts, Neat
    <2>2. /\ \A k \in DOMAIN mas : mas[k].of \in Number /\ ~mas[k].gone
          /\ \A k \in DOMAIN s : s[k].of \in Number /\ ~s[k].gone
      BY <1>2, <2>1 DEF Tidy, mas, num
    <2>3. /\ Len(new) = Len(mas) + Len(s) /\ new \in Seq(Entry)
          /\ \A k \in 1 .. Len(mas) + Len(s) : new[k] = IF k <= Len(mas) THEN mas[k]
                                                        ELSE s[k - Len(mas)]
      BY <1>1, ConcatProperties DEF new
    <2>4. Len(mas) \in Nat \ {0} /\ Len(s) \in Nat /\ DOMAIN mas = 1 .. Len(mas)
          /\ DOMAIN s = 1 .. Len(s)
      BY <1>1
    <2>5. new # <<>> /\ DOMAIN new = 1 .. Len(mas) + Len(s)
      <3>1. Len(new) # 0
        BY <2>3, <2>4
      <3>2. DOMAIN new = 1 .. Len(new)
        BY <2>3
      <3> QED BY <2>3, <3>1, <3>2
    <2>6. \A k \in DOMAIN new : new[k].of \in Number /\ ~new[k].gone
      <3> SUFFICES ASSUME NEW k \in 1 .. Len(mas) + Len(s)
                   PROVE  new[k].of \in Number /\ ~new[k].gone
        BY <2>5
      <3>1. CASE k <= Len(mas)
        <4>1. k \in DOMAIN mas /\ new[k] = mas[k]
          BY <2>3, <2>4, <3>1
        <4> QED BY <2>2, <4>1
      <3>2. CASE ~(k <= Len(mas))
        <4>1. k - Len(mas) \in DOMAIN s /\ new[k] = s[k - Len(mas)]
          BY <2>3, <2>4, <3>2
        <4> QED BY <2>2, <4>1
      <3> QED BY <3>1, <3>2
    <2>7. Tidy(docs'[i])
      BY <1>9, <2>5, <2>6 DEF Tidy
    <2>8. \A x \in Stored : Tidy(docs'[x]) /\ own[x] \in Number
      BY <2>1, <2>7
    <2> QED BY <2>8, Zenon DEF Neat, Tidy
  <1>12. Booked(q, h)'
    <2>1. ASSUME NEW n \in Number
          PROVE  /\ IsFiniteSet(Given(q, h, i, n))
                 /\ Amount(docs'[i].num, n) =
                      (IF own'[i] = n THEN 1 ELSE 0) + Cardinality(Given(q, h, i, n))
      <3> DEFINE given == Cardinality(Given(p, g, i, n))
                 mine == IF own[i] = n THEN 1 ELSE 0
      <3>1. IsFiniteSet(Given(p, g, i, n)) /\ Amount(mas, n) = mine + given
        BY DEF Accounts, Booked, mas
      <3>2. h[j] \in Seq(Plains) /\ Amount(h[j], n) = Amount(num, n)
        BY <1>2, <1>4, <1>7
      <3>3. /\ IsFiniteSet(Given(q, h, i, n)) /\ given \in Nat
            /\ Cardinality(Given(q, h, i, n)) = given + Amount(h[j], n)
        <4>1. ASSUME Joins(p, g, j, i, q, h), h[j] \in Seq(Plains),
                     IsFiniteSet(Given(p, g, i, n))
              PROVE  /\ IsFiniteSet(Given(q, h, i, n)) /\ given \in Nat
                     /\ Cardinality(Given(q, h, i, n)) = given + Amount(h[j], n)
          BY ONLY <4>1, GivenMore
        <4> QED BY <1>6, <3>1, <3>2, <4>1
      <3>4. Amount(docs'[i].num, n) = Amount(mas, n) + Amount(num, n) /\ Amount(num, n) \in Nat
        BY <1>8, <1>9
      <3>5. mine \in Nat
        OBVIOUS
      <3> HIDE DEF given, mine
      <3>6. Amount(docs'[i].num, n) = mine + Cardinality(Given(q, h, i, n))
        BY <3>1, <3>2, <3>3, <3>4, <3>5
      <3> QED BY <3>3, <3>6 DEF mine
    <2>2. ASSUME NEW x \in Stored \ {i}, NEW n \in Number
          PROVE  /\ IsFiniteSet(Given(q, h, x, n))
                 /\ Amount(docs'[x].num, n) =
                      (IF own'[x] = n THEN 1 ELSE 0) + Cardinality(Given(q, h, x, n))
      <3>1. Given(q, h, x, n) = Given(p, g, x, n)
        <4>1. x \in Id \ {i}
          BY StoredTyped
        <4> QED BY <1>6, <4>1, GivenElsewhere
      <3> QED BY <3>1 DEF Accounts, Booked
    <2>3. \A x \in Stored, n \in Number :
            /\ IsFiniteSet(Given(q, h, x, n))
            /\ Amount(docs'[x].num, n) =
                 (IF own'[x] = n THEN 1 ELSE 0) + Cardinality(Given(q, h, x, n))
      <3> SUFFICES ASSUME NEW x \in Stored, NEW n \in Number
                   PROVE  /\ IsFiniteSet(Given(q, h, x, n))
                          /\ Amount(docs'[x].num, n) =
                               (IF own'[x] = n THEN 1 ELSE 0) + Cardinality(Given(q, h, x, n))
        OBVIOUS
      <3>1. CASE x = i
        BY <2>1, <3>1, Zenon
      <3>2. CASE x \in Stored \ {i}
        BY <2>2, <3>2, Zenon
      <3> QED BY <3>1, <3>2
    <2> QED BY <2>3, Zenon DEF Booked
  <1>13. Owned'
    <2>1. \A y \in Stored, n \in Number : Has(docs'[y].num, n) => \E x \in Stored : own[x] = n
      <3> SUFFICES ASSUME NEW y \in Stored, NEW n \in Number, Has(docs'[y].num, n)
                   PROVE  \E x \in Stored : own[x] = n
        OBVIOUS
      <3>1. \E z \in Stored : Has(docs[z].num, n)
        BY <1>8, <1>9 DEF mas, num
      <3> QED BY <3>1 DEF Accounts, Owned
    <2> QED BY <2>1, Zenon DEF Owned
  <1>14. ASSUME CreatedOnce'
         PROVE  (Single /\ OwnFirst /\ Apart(q, h))'
    <2>1. CreatedOnce
      BY <1>14, Zenon DEF CreatedOnce
    <2>2. Single /\ OwnFirst /\ Apart(p, g)
      BY <2>1 DEF Accounts
    <2>3. \A n \in Number : /\ Holds(p, g, i, n) <=> Has(mas, n)
                            /\ Holds(p, g, j, n) <=> Has(num, n)
      BY DEF Holds, mas, num
    <2>4. Root(p, i) /\ Root(p, j)
      BY <1>1 DEF Root
    <2>5. \A n \in Number : ~(Has(mas, n) /\ Has(num, n))
      BY <2>2, <2>3, <2>4 DEF Apart
    <2>6. Single'
      <3>1. ASSUME NEW y \in Stored, NEW n \in Number
            PROVE  Amount(docs'[y].num, n) <= 1
        <4>1. Amount(mas, n) <= 1 /\ Amount(num, n) <= 1
          BY <2>2 DEF Single, mas, num
        <4>2. Amount(mas, n) = 0 \/ Amount(num, n) = 0
          <5>1. /\ Has(mas, n) <=> Amount(mas, n) >= 1
            BY <1>1, Counted
          <5>2. Has(num, n) <=> Amount(num, n) >= 1
            BY <1>1, Counted
          <5>3. Amount(mas, n) \in Nat /\ Amount(num, n) \in Nat
            BY <1>8
          <5> QED BY <2>5, <5>1, <5>2, <5>3
        <4>3. Amount(new, n) <= 1
          BY <1>8, <4>1, <4>2
        <4> QED BY <1>9, <2>2, <4>3 DEF Single
      <3> QED BY <3>1, Zenon DEF Single
    <2>7. OwnFirst'
      <3>1. new[1] = mas[1]
        <4>1. Len(mas) \in Nat \ {0}
          BY <1>1
        <4>2. 1 \in 1 .. Len(mas) + Len(s) /\ 1 <= Len(mas)
          BY <4>1
        <4> QED BY <1>1, <4>2, ConcatProperties DEF new
      <3>2. \A y \in Stored : docs'[y].num[1].of = own[y]
        BY <1>9, <2>2, <3>1 DEF OwnFirst, mas
      <3> QED BY <3>2, Zenon DEF OwnFirst
    <2>8. \A y \in Stored \ {j} : Root(q, y)' => Root(p, y)
      <3> SUFFICES ASSUME NEW y \in Stored \ {j}, Root(q, y)'
                   PROVE  Root(p, y)
        OBVIOUS
      <3>1. q[y] = p[y] /\ docs'[y].dest = docs[y].dest
        BY <1>4, StoredTyped
      <3> QED BY <3>1 DEF Root
    <2>9. ~Root(q, j)'
      BY <1>1, <1>5 DEF Root
    <2>10. ASSUME NEW y \in Stored \ {i, j}, NEW n \in Number, Holds(q, h, y, n)'
           PROVE  Holds(p, g, y, n)
      <3>1. Has(docs[y].num, n) /\ \A k \in Id : q[k] = y /\ docs'[k].dest # y => ~Has(h[k], n)
        BY <2>10 DEF Holds
      <3>2. ASSUME NEW k \in Id, p[k] = y, docs[k].dest # y
            PROVE  ~Has(g[k], n)
        <4>1. y \in Id
          BY StoredTyped
        <4>2. k # j
          BY <1>1, <3>2, <4>1
        <4>3. q[k] = y /\ h[k] = g[k]
          BY <1>4, <3>2, <4>2
        <4>4. docs'[k].dest # y
          BY <1>1, <3>2, <4>1
        <4> QED BY <3>1, <4>3, <4>4
      <3> QED BY <3>1, <3>2 DEF Holds
    <2>11. ASSUME NEW n \in Number, Holds(q, h, i, n)'
           PROVE  Holds(p, g, i, n) \/ Holds(p, g, j, n)
      BY <1>8, <1>9, <2>3, <2>11 DEF Holds
    <2>12. ASSUME NEW z \in Stored \ {i, j}, NEW n \in Number, Root(q, z)',
                  Holds(q, h, i, n)', Holds(q, h, z, n)'
           PROVE  FALSE
      <3>1. Root(p, z) /\ Holds(p, g, z, n)
        BY <2>8, <2>10, <2>12
      <3>2. ~Holds(p, g, i, n) /\ ~Holds(p, g, j, n)
        BY <2>2, <2>4, <3>1 DEF Apart
      <3> QED BY <2>11, <2>12, <3>2
    <2>13. ASSUME NEW y \in Stored, NEW z \in Stored, NEW n \in Number, y # z,
                  Root(q, y)', Root(q, z)', Holds(q, h, y, n)', Holds(q, h, z, n)'
           PROVE  FALSE
      <3>1. y # j /\ z # j
        BY <2>9, <2>13
      <3>2. CASE y = i
        BY <2>12, <2>13, <3>1, <3>2
      <3>3. CASE z = i
        BY <2>12, <2>13, <3>1, <3>3
      <3>4. CASE y # i /\ z # i
        BY <2>2, <2>8, <2>10, <2>13, <3>1, <3>4 DEF Apart
      <3> QED BY <3>2, <3>3, <3>4
    <2> QED BY <2>6, <2>7, <2>13, Zenon DEF Apart
  <1> QED BY <1>4, <1>10, <1>11, <1>12, <1>13, <1>14 DEF Accounts, Ghosts

(* The list of an identity that is not merged bears no mark.                 *)
LEMMA PlainList ==
    ASSUME NEW d, d.num \in Seq(Entry), Tidy(d), d.dest = None
    PROVE  d.num \in Seq(Plains)
  <1> DEFINE num == d.num
  <1>1. ASSUME NEW k \in DOMAIN num
        PROVE  num[k] \in Entry /\ num[k].of \in Number /\ num[k].gone = FALSE
    <2>1. num[k] \in Entry
      OBVIOUS
    <2>2. num[k].gone \in BOOLEAN
      BY <2>1 DEF Entry
    <2>3. num[k].of \in Number /\ ~num[k].gone
      BY DEF Tidy
    <2> QED BY <2>1, <2>2, <2>3
  <1>2. \A k \in DOMAIN num : num[k] = Plain(num[k].of)
    BY <1>1 DEF Entry, Plain
  <1>3. \A k \in DOMAIN num : num[k] \in Plains
    BY <1>1, <1>2 DEF Plains
  <1> HIDE DEF num
  <1>4. num \in Seq(Plains)
    BY <1>3 DEF num
  <1> QED BY <1>4 DEF num

(* Last write of a cancellation: i gives back what it counted of j.          *)
LEMMA AccountsReleased ==
    ASSUME NEW p, NEW g, Accounts(p, g), TypeOK, Stored' = Stored, own' = own,
           NEW j \in Stored, NEW i \in Stored, \A x \in Stored \ {i} : docs'[x] = docs[x],
           i # j, p[j] = i, docs[j].dest = None, docs[i].dest = None, docs[i].src = j,
           docs'[i].num = Without(docs[i].num, g[j]), docs'[i].src = None, docs'[i].dest = None,
           NEW q, q = [p EXCEPT ![j] = None],
           \A k \in Id : p[k] # None => k \in Stored
    PROVE  Accounts(q, g)'
  <1> DEFINE mas == docs[i].num
             new == Without(mas, g[j])
  <1>1. /\ mas \in Seq(Entry) /\ mas # <<>> /\ Tidy(docs[i])
        /\ None \notin Id /\ i \in Id /\ j \in Id
    BY StoredTyped, IdentitiesAssumption DEF Accounts, Neat, Tidy
  <1>2. mas \in Seq(Plains)
    BY <1>1, PlainList
  <1>3. p \in [Id -> Id \cup {None}] /\ g \in [Id -> Seq(Plains)] /\ g[j] \in Seq(Plains)
    BY <1>1 DEF Accounts, Ghosts
  <1>4. Ghosts(q, g) /\ q[j] = None /\ \A x \in Id \ {j} : q[x] = p[x]
    BY <1>1, <1>3 DEF Ghosts
  <1>5. docs'[i].num = new
    OBVIOUS
  <1> HIDE DEF mas, new
  <1> DEFINE mine(n) == IF own[i] = n THEN 1 ELSE 0
             before(n) == Cardinality(Given(p, g, i, n))
             after(n) == Cardinality(Given(q, g, i, n))
  <1>6. ASSUME NEW n \in Number
        PROVE  /\ Amount(mas, n) = mine(n) + before(n) /\ mine(n) \in Nat
               /\ IsFiniteSet(Given(p, g, i, n)) /\ IsFiniteSet(Given(q, g, i, n))
               /\ after(n) \in Nat /\ Amount(g[j], n) \in Nat
               /\ before(n) = after(n) + Amount(g[j], n)
               /\ Joins(q, g, j, i, p, g)
    <2>1. IsFiniteSet(Given(p, g, i, n)) /\ Amount(mas, n) = mine(n) + before(n)
      BY DEF Accounts, Booked, mas
    <2>2. /\ IsFiniteSet(Given(q, g, i, n)) /\ after(n) \in Nat
          /\ before(n) = after(n) + Amount(g[j], n)
          /\ Joins(q, g, j, i, p, g)
      <3>1. Joins(q, g, j, i, p, g)
        <4>1. q \in [Id -> Id \cup {None}] /\ q[j] = None /\ p = [q EXCEPT ![j] = i]
          BY <1>1, <1>3
        <4> QED BY <1>1, <4>1 DEF Joins
      <3> QED BY <1>3, <2>1, <3>1, GivenLess
    <2>3. Amount(g[j], n) \in Nat
      BY <1>3, Counted
    <2> QED BY <2>1, <2>2, <2>3
  <1> HIDE DEF mine, before, after
  <1>7. /\ new \in Seq(Plains)
        /\ \A n \in Number : Amount(new, n) = mine(n) + after(n)
    <2>1. \A n \in Number : Amount(g[j], n) <= Amount(mas, n)
      BY <1>6
    <2>2. /\ new \in Seq(Plains)
          /\ \A n \in Number : Amount(new, n) = Amount(mas, n) - Amount(g[j], n)
      <3>1. \A n \in Number : Cardinality(Places(g[j], n)) <= Cardinality(Places(mas, n))
        BY <2>1 DEF Amount
      <3> QED BY <1>2, <1>3, <3>1, WithoutCounts DEF new, Amount
    <2>3. ASSUME NEW n \in Number
          PROVE  Amount(new, n) = mine(n) + after(n)
      BY <1>6, <2>2
    <2> QED BY <2>2, <2>3
  <1>16. \A n \in Number :
           /\ Amount(new, n) \in Nat /\ Amount(mas, n) \in Nat /\ Amount(g[j], n) \in Nat
           /\ Amount(mas, n) = Amount(new, n) + Amount(g[j], n)
           /\ mine(n) <= Amount(new, n) /\ mine(n) \in Nat
    BY <1>6, <1>7
  <1>8. \A n \in Number : /\ Has(new, n) <=> Amount(new, n) >= 1
                          /\ Has(mas, n) <=> Amount(mas, n) >= 1
                          /\ Has(g[j], n) <=> Amount(g[j], n) >= 1
    <2>1. \A n : Has(new, n) <=> Amount(new, n) >= 1
      BY <1>7, Counted
    <2>2. \A n : Has(mas, n) <=> Amount(mas, n) >= 1
      BY <1>2, Counted
    <2>3. \A n : Has(g[j], n) <=> Amount(g[j], n) >= 1
      BY <1>3, Counted
    <2> QED BY <2>1, <2>2, <2>3
  <1>9. \A n \in Number : Has(new, n) => Has(mas, n)
    BY <1>6, <1>7, <1>8
  <1>10. Sourced(q)'
    <2>1. ASSUME NEW y \in Stored, docs'[y].src # None
          PROVE  q[docs'[y].src] = y
      <3>1. y # i
        BY <2>1
      <3>2. docs[y].src \in Id /\ p[docs[y].src] = y
        BY <2>1, <3>1, StoredTyped DEF Accounts, Sourced
      <3>3. docs[y].src # j
        BY <3>1, <3>2
      <3> QED BY <1>4, <3>1, <3>2, <3>3
    <2> QED BY <2>1, Zenon DEF Sourced
  <1>11. own[i] \in Number /\ new # <<>>
    <2>1. own[i] \in Number
      BY DEF Accounts, Neat
    <2>2. mine(own[i]) = 1
      BY DEF mine
    <2>3. Amount(new, own[i]) >= 1
      BY <1>6, <1>7, <2>1, <2>2
    <2>4. Has(new, own[i])
      BY <1>8, <2>1, <2>3
    <2> QED BY <2>1, <2>4 DEF Has
  <1>12. Neat'
    <2>1. \A x \in Stored : Tidy(docs[x]) /\ own[x] \in Number
      BY DEF Accounts, Neat
    <2>2. \A k \in DOMAIN new : new[k] \in Plains
      BY <1>7
    <2>3. \A k \in DOMAIN new : new[k].of \in Number /\ new[k].gone = FALSE
      BY <2>2 DEF Plains, Plain
    <2>4. Tidy(docs'[i])
      BY <1>5, <1>11, <2>3 DEF Tidy
    <2>5. \A x \in Stored : Tidy(docs'[x]) /\ own[x] \in Number
      BY <2>1, <2>4
    <2> QED BY <2>5, Zenon DEF Neat, Tidy
  <1>13. Booked(q, g)'
    <2>1. ASSUME NEW n \in Number
          PROVE  /\ IsFiniteSet(Given(q, g, i, n))
                 /\ Amount(docs'[i].num, n) =
                      (IF own'[i] = n THEN 1 ELSE 0) + Cardinality(Given(q, g, i, n))
      BY <1>5, <1>6, <1>7 DEF mine, after
    <2>2. ASSUME NEW x \in Stored \ {i}, NEW n \in Number
          PROVE  /\ IsFiniteSet(Given(q, g, x, n))
                 /\ Amount(docs'[x].num, n) =
                      (IF own'[x] = n THEN 1 ELSE 0) + Cardinality(Given(q, g, x, n))
      <3>1. Given(q, g, x, n) = Given(p, g, x, n)
        <4>1. Joins(q, g, j, i, p, g) /\ x \in Id \ {i}
          BY <1>6, StoredTyped
        <4> QED BY <4>1, GivenElsewhere
      <3> QED BY <3>1 DEF Accounts, Booked
    <2>3. \A x \in Stored, n \in Number :
            /\ IsFiniteSet(Given(q, g, x, n))
            /\ Amount(docs'[x].num, n) =
                 (IF own'[x] = n THEN 1 ELSE 0) + Cardinality(Given(q, g, x, n))
      BY <2>1, <2>2
    <2> QED BY <2>3, Zenon DEF Booked
  <1>14. Owned'
    <2>1. \A y \in Stored, n \in Number : Has(docs'[y].num, n) => \E x \in Stored : own[x] = n
      <3> SUFFICES ASSUME NEW y \in Stored, NEW n \in Number, Has(docs'[y].num, n)
                   PROVE  \E x \in Stored : own[x] = n
        OBVIOUS
      <3>1. Has(docs[y].num, n)
        BY <1>5, <1>9 DEF mas
      <3> QED BY <3>1 DEF Accounts, Owned
    <2> QED BY <2>1, Zenon DEF Owned
  <1>15. ASSUME CreatedOnce'
         PROVE  (Single /\ OwnFirst /\ Apart(q, g))'
    <2>1. CreatedOnce
      BY <1>15, Zenon DEF CreatedOnce
    <2>2. Single /\ OwnFirst /\ Apart(p, g)
      BY <2>1 DEF Accounts
    <2>3. \A n \in Number : Amount(mas, n) <= 1
      BY <2>2 DEF Single, mas
    <2>4. Single'
      <3>1. \A n \in Number : Amount(new, n) <= 1
        BY <1>6, <1>7, <2>3
      <3>2. \A y \in Stored, n \in Number : Amount(docs'[y].num, n) <= 1
        BY <1>5, <2>2, <3>1 DEF Single
      <3> QED BY <3>2, Zenon DEF Single
    <2>5. OwnFirst'
      <3>1. mas[1].of = own[i]
        BY <2>2 DEF OwnFirst, mas
      <3>2. ~Has(g[j], own[i])
        <4>1. mine(own[i]) = 1
          BY DEF mine
        <4>2. Amount(g[j], own[i]) < 1
          <5> DEFINE o == own[i]
          <5>1. /\ Amount(mas, o) = Amount(new, o) + Amount(g[j], o) /\ 1 <= Amount(new, o)
                /\ Amount(new, o) \in Nat /\ Amount(g[j], o) \in Nat /\ Amount(mas, o) <= 1
            BY <1>11, <1>16, <2>3, <4>1
          <5> HIDE DEF o
          <5> QED BY <5>1 DEF o
        <4> QED BY <1>8, <1>11, <1>16, <4>2
      <3>3. \A k \in DOMAIN g[j] : g[j][k] # mas[1]
        BY <3>1, <3>2 DEF Has
      <3>4. new[1] = mas[1]
        BY <1>1, <1>2, <1>3, <3>3, WithoutFirst DEF new
      <3>5. \A y \in Stored : docs'[y].num[1].of = own[y]
        BY <1>5, <2>2, <3>4 DEF OwnFirst, mas
      <3> QED BY <3>5, Zenon DEF OwnFirst
    <2>6. \A y \in Stored : Root(q, y)' => Root(p, y)
      <3> SUFFICES ASSUME NEW y \in Stored, Root(q, y)'
                   PROVE  Root(p, y)
        OBVIOUS
      <3>1. CASE y = j
        BY <1>1, <3>1 DEF Root
      <3>2. CASE y # j
        <4>1. q[y] = p[y] /\ docs'[y].dest = docs[y].dest
          BY <1>4, <3>2, StoredTyped
        <4> QED BY <4>1 DEF Root
      <3> QED BY <3>1, <3>2
    <2>7. ASSUME NEW y \in Stored, NEW n \in Number, Holds(q, g, y, n)'
          PROVE  Holds(p, g, y, n)
      <3>1. Has(docs'[y].num, n) /\ \A k \in Id : q[k] = y /\ docs'[k].dest # y => ~Has(g[k], n)
        BY <2>7 DEF Holds
      <3>2. Has(docs[y].num, n)
        BY <1>5, <1>9, <3>1 DEF mas
      <3>3. ASSUME NEW k \in Id, p[k] = y, docs[k].dest # y
            PROVE  ~Has(g[k], n)
        <4>0. y \in Id /\ k \in Stored
          BY <1>1, <3>3, StoredTyped
        <4>1. CASE k # j
          <5>1. q[k] = y /\ docs'[k].dest # y
            BY <1>4, <3>3, <4>0, <4>1
          <5> QED BY <3>1, <5>1
        <4>2. CASE k = j
          <5>1. y = i /\ Has(new, n)
            BY <1>5, <3>1, <3>3, <4>2
          <5>2. Amount(new, n) >= 1 /\ Amount(mas, n) <= 1
            BY <1>8, <2>3, <5>1
          <5>3. Amount(g[j], n) < 1
            BY <1>16, <5>2
          <5> QED BY <1>8, <1>16, <4>2, <5>3
        <4> QED BY <4>1, <4>2
      <3> QED BY <3>2, <3>3 DEF Holds
    <2>8. Apart(q, g)'
      <3>1. \A y, z \in Stored, n \in Number :
              y # z /\ Root(q, y)' /\ Root(q, z)' => ~(Holds(q, g, y, n)' /\ Holds(q, g, z, n)')
        BY <2>2, <2>6, <2>7 DEF Apart
      <3> QED BY <3>1, Zenon DEF Apart
    <2> QED BY <2>4, <2>5, <2>8
  <1> QED BY <1>4, <1>10, <1>12, <1>13, <1>14, <1>15 DEF Accounts, Ghosts

-----------------------------------------------------------------------------
(* What the requests know: what they have read, and what is still true of it.*)

(* The requests that link and unlink; those that have written one document.  *)
Linking(r) == r.op \in {"fusion", "cancel"} /\ r.pc \in {"second", "backend", "first", "last"}
Later(r) == r.pc \in {"backend", "first", "last"}
Half(r) == r.op \in {"fusion", "cancel"} /\ r.pc = "last"

Clash(r, s) ==
    /\ \/ r.op = "fusion" /\ s.op = "cancel"
       \/ r.op = "cancel" /\ s.op = "fusion"
    /\ Pair(r) \cap Pair(s) # {}

(* No request of the other kind about one of its two identities is half done.*)
Free(c) == \A d \in Caller : Half(req[d]) => ~Clash(req[c], req[d])

Ongoing(op, j, i) ==
    \E c \in Caller : /\ Half(req[c]) /\ req[c].op = op
                      /\ req[c].pair[1] = j /\ req[c].pair[2] = i

(* A master counts the list of an identity that says so, or whose            *)
(* cancellation is half done; and an identity says so when its master counts *)
(* it, or will once the fusion is done.                                      *)
Masters(p, g) ==
    \A j \in Id : p[j] # None =>
      /\ j \in Stored /\ p[j] \in Stored
      /\ \/ docs[j].dest = p[j] /\ g[j] = Unprefixed(docs[j].num)
         \/ Ongoing("cancel", j, p[j])

Destined(p) ==
    \A j \in Stored : docs[j].dest # None =>
      p[j] = docs[j].dest \/ Ongoing("fusion", j, docs[j].dest)

Alone == \A c \in Caller : Half(req[c]) => Free(c)

(* What a request has read and will write.                                   *)
MasterRead(r) == IF r.pc = "second" THEN r.from[1] ELSE r.from[2]

Formed(r) ==
    /\ Linking(r) => /\ r.pair[1] \in Stored /\ r.pair[2] \in Stored /\ r.pair[1] # r.pair[2]
                     /\ MasterRead(r) \in Doc /\ Tidy(MasterRead(r))
    /\ Linking(r) /\ Later(r) => r.from[1] \in Doc /\ Tidy(r.from[1])
    /\ r.op = "fusion" /\ Later(r) =>
         /\ r.from[1].dest = None /\ r.from[2].dest = None
         /\ r.to[1] = Merged(r.from[1], r.pair[2])
         /\ r.to[2] = Master(r.from[2], r.from[1], r.pair[1])
    /\ r.op = "cancel" /\ Later(r) =>
         /\ r.from[1].dest = r.pair[2] /\ r.from[2].src = r.pair[1]
         /\ r.to[1] = Restored(r.from[1])
         /\ r.to[2] = Released(r.from[2], r.from[1])
    /\ r.op \notin {"fusion", "cancel"} /\ r.pc \in {"first", "last"} =>
         Links(r.to[1]) = Links(r.from[1]) /\ Links(r.to[2]) = Links(r.from[2])

(* What is still true of what it has read.                                   *)
Current(p, g, c) ==
    LET r == req[c]
        j == r.pair[1]
        i == r.pair[2]
        m == MasterRead(r)
    IN  /\ r.op = "fusion" /\ Linking(r) /\ Free(c) => Len(docs[i].num) >= Len(m.num)
        /\ r.op = "fusion" /\ Later(r) /\ Free(c) /\ p[j] = i => Len(docs[i].num) > Len(m.num)
        /\ r.op = "fusion" /\ r.pc = "last" => Links(docs[j]) = Links(r.to[1])
        /\ r.op = "cancel" /\ Linking(r) /\ Free(c) =>
             /\ m.dest = None => docs[i].dest = None
             /\ p[j] = i /\ m.src = j => docs[i].src = j
        /\ r.op = "cancel" /\ Later(r) /\ Free(c) /\ p[j] = i =>
             g[j] = Unprefixed(r.from[1].num)
        /\ r.op = "cancel" /\ r.pc = "last" =>
             m.dest = None /\ docs[j].dest = None /\ docs[i].dest = None

Traffic(p, g) ==
    /\ Masters(p, g) /\ Destined(p) /\ Alone
    /\ \A c \in Caller : Formed(req[c]) /\ Current(p, g, c)

-----------------------------------------------------------------------------
(* A step of another request, unless it begins or ends a crossing write.     *)
LEMMA FreeKept ==
    ASSUME NEW c \in Caller, Only(c), NEW d \in Caller \ {c}
    PROVE  /\ ~(Half(req[c]) /\ Clash(req[d], req[c])) => (Free(d)' => Free(d))
           /\ ~(Half(req'[c]) /\ Clash(req'[d], req'[c])) => (Free(d) => Free(d)')
  <1>1. req'[d] = req[d]
    BY DEF Only
  <1>2. ASSUME ~(Half(req[c]) /\ Clash(req[d], req[c])), Free(d)', NEW x \in Caller,
               Half(req[x]), Clash(req[d], req[x])
        PROVE  FALSE
    <2>1. x # c
      BY <1>2
    <2>2. req'[x] = req[x]
      BY <2>1 DEF Only
    <2>3. Half(req'[x]) => ~Clash(req'[d], req'[x])
      BY <1>2, Zenon DEF Free
    <2> QED BY <1>1, <1>2, <2>2, <2>3
  <1>3. ASSUME ~(Half(req'[c]) /\ Clash(req'[d], req'[c])), Free(d), NEW x \in Caller,
               Half(req'[x]), Clash(req'[d], req'[x])
        PROVE  FALSE
    <2>1. x # c
      BY <1>3
    <2>2. req'[x] = req[x]
      BY <2>1 DEF Only
    <2>3. Half(req[x]) => ~Clash(req[d], req[x])
      BY <1>3 DEF Free
    <2> QED BY <1>1, <1>3, <2>2, <2>3
  <1>4. ~(Half(req[c]) /\ Clash(req[d], req[c])) => (Free(d)' => Free(d))
    BY <1>2 DEF Free
  <1>5. ~(Half(req'[c]) /\ Clash(req'[d], req'[c])) => (Free(d) => Free(d)')
    BY <1>3, Zenon DEF Free
  <1> QED BY <1>4, <1>5

LEMMA FormedKept ==
    ASSUME NEW r, Formed(r), Stored \subseteq Stored'
    PROVE  Formed(r)'
  BY Zenon DEF Formed

LEMMA NextTyped ==
    ASSUME TypeOK', NEW i \in Stored'
    PROVE  /\ i \in Id /\ docs'[i] \in Doc /\ docs'[i].num \in Seq(Entry)
           /\ docs'[i].src \in Id \cup {None} /\ docs'[i].dest \in Id \cup {None}
  <1>1. Stored' \subseteq Id /\ docs' \in [Stored' -> Doc]
    BY Zenon DEF TypeOK
  <1> QED BY <1>1 DEF Doc

LEMMA LengthsRead ==
    ASSUME TypeOK, TypeOK', Stored \subseteq Stored', NEW r, Formed(r), Linking(r)
    PROVE  /\ Len(MasterRead(r).num) \in Nat
           /\ Len(docs[r.pair[2]].num) \in Nat /\ Len(docs'[r.pair[2]].num) \in Nat
  <1> DEFINE m == MasterRead(r)
             i == r.pair[2]
  <1>1. i \in Stored /\ m \in Doc
    BY DEF Formed
  <1> HIDE DEF m, i
  <1>2. m.num \in Seq(Entry)
    BY <1>1 DEF Doc
  <1>3. docs[i].num \in Seq(Entry) /\ docs'[i].num \in Seq(Entry)
    BY <1>1, StoredTyped, NextTyped
  <1> QED BY <1>2, <1>3 DEF m, i

(* A request that does not make the step.                                    *)
LEMMA CurrentKept ==
    ASSUME TypeOK, TypeOK', NEW p, NEW g, NEW q, NEW h, NEW d \in Caller,
           Formed(req[d]), Current(p, g, d), req'[d] = req[d], Stored \subseteq Stored',
           Free(d)' => Free(d),
           NEW j, NEW i, j = req[d].pair[1], i = req[d].pair[2],
           req[d].op = "fusion" /\ Linking(req[d]) /\ Free(d)' =>
             /\ Len(docs'[i].num) >= Len(docs[i].num)
             /\ q[j] = i => p[j] = i \/ Len(docs'[i].num) > Len(docs[i].num),
           req[d].op = "fusion" /\ req[d].pc = "last" => Links(docs'[j]) = Links(docs[j]),
           req[d].op = "cancel" /\ Linking(req[d]) /\ Free(d)' =>
             /\ docs[i].dest = None => docs'[i].dest = None
             /\ q[j] = i => /\ p[j] = i /\ h[j] = g[j]
                            /\ docs[i].src = j => docs'[i].src = j,
           req[d].op = "cancel" /\ req[d].pc = "last" =>
             /\ docs[i].dest = None => docs'[i].dest = None
             /\ docs[j].dest = None => docs'[j].dest = None
    PROVE  Current(q, h, d)'
  <1> DEFINE r == req[d]
             m == MasterRead(r)
  <1>0. /\ r.op = "fusion" /\ Linking(r) /\ Free(d) => Len(docs[i].num) >= Len(m.num)
        /\ r.op = "fusion" /\ Later(r) /\ Free(d) /\ p[j] = i => Len(docs[i].num) > Len(m.num)
        /\ r.op = "cancel" /\ Later(r) /\ Free(d) /\ p[j] = i => g[j] = Unprefixed(r.from[1].num)
    BY Zenon DEF Current
  <1> DEFINE read == Len(m.num)
             was == Len(docs[i].num)
             is == Len(docs'[i].num)
  <1>1. Linking(r) => read \in Nat /\ was \in Nat /\ is \in Nat
    BY LengthsRead
  <1>2. r.op = "fusion" /\ Linking(r) /\ Free(d)' => Len(docs'[i].num) >= Len(m.num)
    <2> SUFFICES ASSUME r.op = "fusion", Linking(r), Free(d)'
                 PROVE  Len(docs'[i].num) >= Len(m.num)
      OBVIOUS
    <2>1. Len(docs[i].num) >= Len(m.num)
      BY <1>0
    <2>2. Len(docs'[i].num) >= Len(docs[i].num)
      OBVIOUS
    <2> HIDE DEF read, was, is
    <2>3. read \in Nat /\ was \in Nat /\ is \in Nat /\ was >= read /\ is >= was
      BY <1>1, <2>1, <2>2 DEF read, was, is
    <2>4. is >= read
      BY <2>3
    <2> QED BY <2>4 DEF is, read
  <1>3. r.op = "fusion" /\ Later(r) /\ Free(d)' /\ q[j] = i => Len(docs'[i].num) > Len(m.num)
    <2> SUFFICES ASSUME r.op = "fusion", Later(r), Free(d)', q[j] = i
                 PROVE  Len(docs'[i].num) > Len(m.num)
      OBVIOUS
    <2>1. Linking(r)
      BY DEF Later, Linking
    <2>2. /\ Len(docs[i].num) >= Len(m.num) /\ (p[j] = i => Len(docs[i].num) > Len(m.num))
      BY <1>0, <2>1
    <2>3. /\ Len(docs'[i].num) >= Len(docs[i].num)
          /\ p[j] = i \/ Len(docs'[i].num) > Len(docs[i].num)
      BY <2>1
    <2> HIDE DEF read, was, is
    <2>4. /\ read \in Nat /\ was \in Nat /\ is \in Nat /\ was >= read /\ is >= was
          /\ was > read \/ is > was
      BY <1>1, <2>1, <2>2, <2>3 DEF read, was, is
    <2>5. is > read
      BY <2>4
    <2> QED BY <2>5 DEF is, read
  <1>4. r.op = "fusion" /\ r.pc = "last" => Links(docs'[j]) = Links(r.to[1])
    BY DEF Current
  <1>5. r.op = "cancel" /\ Linking(r) /\ Free(d)' =>
             /\ m.dest = None => docs'[i].dest = None
             /\ q[j] = i /\ m.src = j => docs'[i].src = j
    BY DEF Current
  <1>6. r.op = "cancel" /\ Later(r) /\ Free(d)' /\ q[j] = i => h[j] = Unprefixed(r.from[1].num)
    <2> SUFFICES ASSUME r.op = "cancel", Later(r), Free(d)', q[j] = i
                 PROVE  h[j] = Unprefixed(r.from[1].num)
      OBVIOUS
    <2>1. Linking(r)
      BY DEF Later, Linking
    <2>2. p[j] = i /\ h[j] = g[j]
      BY <2>1
    <2> QED BY <1>0, <2>1, <2>2
  <1>7. r.op = "cancel" /\ r.pc = "last" =>
             m.dest = None /\ docs'[j].dest = None /\ docs'[i].dest = None
    BY DEF Current
  <1> HIDE DEF m
  <1>8. req'[d] = r /\ m = MasterRead(r)
    BY DEF m
  <1> HIDE DEF r
  <1>9. r.pair[1] = j /\ r.pair[2] = i
    BY DEF r
  <1> QED BY <1>2, <1>3, <1>4, <1>5, <1>6, <1>7, <1>8, <1>9, Zenon DEF Current

(* The invariant: some account of the masters explains the documents and what*)
(* the requests know.                                                        *)
NInv == clean => \E p, g : Accounts(p, g) /\ Traffic(p, g)

LEMMA OngoingKept ==
    ASSUME NEW c \in Caller, Only(c), ~Half(req[c]), ~Half(req'[c]), NEW op, NEW j, NEW i
    PROVE  Ongoing(op, j, i)' <=> Ongoing(op, j, i)
  <1>1. \A d \in Caller : (Half(req'[d]) <=> Half(req[d])) /\ (Half(req[d]) => req'[d] = req[d])
    BY DEF Only
  <1> QED BY <1>1, Zenon DEF Ongoing

LEMMA MastersStored ==
    ASSUME NEW p, NEW g, Traffic(p, g)
    PROVE  \A i \in Id : p[i] # None => i \in Stored /\ p[i] \in Stored
  BY DEF Traffic, Masters

(* A step that leaves the links as they are, of a request that has not begun *)
(* to write.                                                                 *)
LEMMA TrafficPassed ==
    ASSUME TypeOK, TypeOK', NEW p, NEW g, Traffic(p, g), NEW c \in Caller, Only(c),
           Stored \subseteq Stored', \A i \in Stored : Links(docs'[i]) = Links(docs[i]),
           \A i \in Stored' \ Stored : docs'[i].dest = None,
           ~Half(req[c]), ~Half(req'[c]), Formed(req[c])', Current(p, g, c)'
    PROVE  Traffic(p, g)'
  <1>1. \A i \in Stored : /\ docs'[i].num = docs[i].num /\ docs'[i].src = docs[i].src
                          /\ docs'[i].dest = docs[i].dest
    BY DEF Links
  <1>2. \A op, j, i : Ongoing(op, j, i)' <=> Ongoing(op, j, i)
    BY OngoingKept
  <1>3. Masters(p, g)'
    <2>1. Masters(p, g)
      BY DEF Traffic
    <2> QED BY <1>1, <1>2, <2>1, Zenon DEF Masters
  <1>4. Destined(p)'
    <2>1. \A j \in Stored : docs[j].dest # None =>
            p[j] = docs[j].dest \/ Ongoing("fusion", j, docs[j].dest)
      BY DEF Traffic, Destined
    <2>2. \A j \in Stored' : docs'[j].dest # None => j \in Stored /\ docs'[j].dest = docs[j].dest
      BY <1>1
    <2> QED BY <1>2, <2>1, <2>2, Zenon DEF Destined
  <1>5. Alone'
    <2>1. ASSUME NEW d \in Caller, Half(req'[d])
          PROVE  Free(d)'
      <3>1. d # c
        BY <2>1
      <3>2. req'[d] = req[d]
        BY <3>1 DEF Only
      <3>3. Free(d)
        BY <2>1, <3>2 DEF Traffic, Alone
      <3> QED BY <3>1, <3>3, FreeKept
    <2> QED BY <2>1, Zenon DEF Alone
  <1>6. ASSUME NEW d \in Caller, d # c
        PROVE  Formed(req[d])' /\ Current(p, g, d)'
    <2>1. req'[d] = req[d] /\ Formed(req[d]) /\ Current(p, g, d)
      BY <1>6 DEF Only, Traffic
    <2>2. Formed(req[d])'
      <3>1. PICK r : r = req[d]
        OBVIOUS
      <3>2. Formed(r) /\ req'[d] = r
        BY <2>1, <3>1
      <3>3. Formed(r)'
        BY <3>2, FormedKept
      <3> QED BY <3>2, <3>3, Zenon
    <2>3. Free(d)' => Free(d)
      BY <1>6, FreeKept
    <2> DEFINE j == req[d].pair[1]
               i == req[d].pair[2]
    <2>4. Linking(req[d]) => i \in Stored /\ j \in Stored
      BY <2>1 DEF Formed
    <2>5. ASSUME Linking(req[d])
          PROVE  /\ Links(docs'[j]) = Links(docs[j]) /\ docs'[j].dest = docs[j].dest
                 /\ Len(docs'[i].num) >= Len(docs[i].num)
                 /\ docs'[i].dest = docs[i].dest /\ docs'[i].src = docs[i].src
      <3>1. Len(docs[i].num) \in Nat
        BY <2>1, <2>5, LengthsRead
      <3>2. docs'[i].num = docs[i].num
        BY <1>1, <2>4, <2>5
      <3>3. Len(docs'[i].num) >= Len(docs[i].num)
        BY <3>1, <3>2
      <3> QED BY <1>1, <2>4, <2>5, <3>3
    <2>6. req[d].op \in {"fusion", "cancel"} /\ req[d].pc = "last" => Linking(req[d])
      BY DEF Linking
    <2> HIDE DEF j, i
    <2>7. Current(p, g, d)'
      BY <2>1, <2>3, <2>5, <2>6, CurrentKept DEF j, i
    <2> QED BY <2>2, <2>7
  <1>7. \A d \in Caller : Formed(req[d])' /\ Current(p, g, d)'
    BY <1>6
  <1> QED BY <1>3, <1>4, <1>5, <1>7, Zenon DEF Traffic

(* Requests that neither link nor unlink, and are not about to change links. *)
Aloof(r) ==
    /\ ~Linking(r)
    /\ r.op \notin {"fusion", "cancel"} /\ r.pc \in {"first", "last"} =>
         Links(r.to[1]) = Links(r.from[1]) /\ Links(r.to[2]) = Links(r.from[2])

LEMMA AloofFormed ==
    ASSUME NEW p, NEW g, NEW c \in Caller, Aloof(req'[c])
    PROVE  ~Half(req'[c]) /\ Formed(req[c])' /\ Current(p, g, c)'
  <1> DEFINE r == req'[c]
  <1>1. ~Linking(r) /\ ~Half(r) /\ (r.op \in {"fusion", "cancel"} => ~Later(r) /\ r.pc # "last")
    BY DEF Aloof, Linking, Half, Later
  <1>2. r.op \notin {"fusion", "cancel"} => r.op # "fusion" /\ r.op # "cancel"
    OBVIOUS
  <1>3. r.op = "fusion" \/ r.op = "cancel" => ~Later(r) /\ r.pc # "last"
    BY <1>1
  <1>4. Formed(req[c])'
    BY <1>1, <1>3, Zenon DEF Formed, Aloof
  <1>5. Current(p, g, c)'
    BY <1>1, <1>3, Zenon DEF Current
  <1> QED BY <1>1, <1>4, <1>5

LEMMA NInvPassed ==
    ASSUME TypeOK, TypeOK', NEW p, NEW g, Accounts(p, g), Traffic(p, g), NEW c \in Caller, Only(c),
           Stored' = Stored, own' = own, \A i \in Stored : Links(docs'[i]) = Links(docs[i]),
           ~Half(req[c]), ~Half(req'[c]), Formed(req[c])', Current(p, g, c)'
    PROVE  NInv'
  <1>1. Stored \subseteq Id
    BY DEF TypeOK
  <1>2. Accounts(p, g)'
    BY <1>1, MastersStored, AccountsKept
  <1>3. Traffic(p, g)'
    BY TrafficPassed
  <1> QED BY <1>2, <1>3, Zenon DEF NInv

LEMMA NInvAloof ==
    ASSUME TypeOK, TypeOK', NInv, clean' => clean, NEW c \in Caller, Only(c),
           Stored' = Stored, own' = own,
           clean' => \A i \in Stored : Links(docs'[i]) = Links(docs[i]),
           ~Half(req[c]), Aloof(req'[c])
    PROVE  NInv'
  <1> SUFFICES ASSUME clean'
               PROVE  NInv'
    BY Zenon DEF NInv
  <1>1. PICK p, g : Accounts(p, g) /\ Traffic(p, g)
    BY DEF NInv
  <1>2. ~Half(req'[c]) /\ Formed(req[c])' /\ Current(p, g, c)'
    BY AloofFormed
  <1> QED BY <1>1, <1>2, NInvPassed

-----------------------------------------------------------------------------
(* The operations, one by one. The requests that leave the links alone.      *)

LEMMA IdleAloof == Aloof(Idle)
  BY DEF Idle, Aloof, Linking

(* A document is replaced, by one that another document was made from it:    *)
(* clean, and its links are the same.                                        *)
LEMMA ReplaceLinks ==
    ASSUME TypeOK, NEW i \in Stored, NEW read, NEW new, NEW alone, Replace(i, read, new, alone)
    PROVE  /\ Stored' = Stored /\ docs'[i] = new /\ \A x \in Stored \ {i} : docs'[x] = docs[x]
           /\ clean' => clean /\ alone /\ Links(docs[i]) \in {Links(read), Links(new)}
           /\ clean' /\ Links(read) = Links(new) =>
                \A x \in Stored : Links(docs'[x]) = Links(docs[x])
  <1>1. docs' = [docs EXCEPT ![i] = new]
        /\ clean' = (clean /\ alone /\ Links(docs[i]) \in {Links(read), Links(new)})
    BY Zenon DEF Replace
  <1>2. Stored' = Stored /\ docs'[i] = new /\ \A x \in Stored \ {i} : docs'[x] = docs[x]
    BY <1>1 DEF Stored, TypeOK
  <1>3. clean' => clean /\ alone /\ Links(docs[i]) \in {Links(read), Links(new)}
    BY <1>1, Zenon
  <1>4. ASSUME clean', Links(read) = Links(new), NEW x \in Stored
        PROVE  Links(docs'[x]) = Links(docs[x])
    <2>1. Links(docs[i]) = Links(new)
      BY <1>3, <1>4
    <2> QED BY <1>2, <2>1
  <1> QED BY <1>2, <1>3, <1>4

LEMMA LinksOf ==
    ASSUME NEW d, Shaped(d), NEW f \in Aside, NEW v
    PROVE  Shaped([d EXCEPT ![f] = v]) /\ Links([d EXCEPT ![f] = v]) = Links(d)
  BY DEF Shaped, Aside, DocFields, Links

LEMMA LinksAside ==
    ASSUME SInv, NEW i, NEW f \in Aside, NEW v, docs' = [docs EXCEPT ![i][f] = v]
    PROVE  Stored' = Stored /\ \A x \in Stored : Links(docs'[x]) = Links(docs[x])
  <1>1. Stored' = Stored
        /\ \A x \in Stored : docs'[x] = IF x = i THEN [docs[x] EXCEPT ![f] = v] ELSE docs[x]
    BY DEF Stored
  <1> QED BY <1>1, LinksOf DEF SInv, Shapes

LEMMA LinksTwoAside ==
    ASSUME SInv, NEW i, NEW f \in Aside, NEW v, NEW g \in Aside, NEW w,
           docs' = [docs EXCEPT ![i][f] = v, ![i][g] = w]
    PROVE  Stored' = Stored /\ \A x \in Stored : Links(docs'[x]) = Links(docs[x])
  <1>1. Stored' = Stored
        /\ \A x \in Stored : docs'[x] = IF x = i THEN [[docs[x] EXCEPT ![f] = v] EXCEPT ![g] = w]
                                         ELSE docs[x]
    BY DEF Stored
  <1>2. ASSUME NEW x \in Stored
        PROVE  Links(docs'[x]) = Links(docs[x])
    <2> DEFINE d == [docs[x] EXCEPT ![f] = v]
    <2>1. Shaped(d) /\ Links(d) = Links(docs[x])
      BY LinksOf DEF SInv, Shapes
    <2> HIDE DEF d
    <2>2. Links([d EXCEPT ![g] = w]) = Links(d)
      BY <2>1, LinksOf
    <2>3. docs'[x] = IF x = i THEN [d EXCEPT ![g] = w] ELSE docs[x]
      BY <1>1 DEF d
    <2> QED BY <2>1, <2>2, <2>3
  <1> QED BY <1>1, <1>2

LEMMA NotHalf ==
    ASSUME NEW r, r.pc # "last" \/ r.op \notin {"fusion", "cancel"}
    PROVE  ~Half(r)
  BY DEF Half

LEMMA IdleStep ==
    ASSUME TInv, TypeOK', NInv, NEW c \in Caller, Ends(c), ~Half(req[c]),
           clean' => clean, Stored' = Stored, own' = own,
           clean' => \A i \in Stored : Links(docs'[i]) = Links(docs[i])
    PROVE  NInv'
  <1>1. Only(c) /\ req'[c] = Idle
    BY OneAtATime DEF Ends, TInv
  <1>2. Aloof(req'[c])
    BY <1>1, IdleAloof
  <1> QED BY <1>1, <1>2, NInvAloof DEF TInv

(* A step of a request that neither links nor unlinks.                       *)
LEMMA AsideStep ==
    ASSUME TInv, TypeOK', NInv, NEW c \in Caller, ~Half(req[c]), NEW r,
           req' = [req EXCEPT ![c] = r], r.op \notin {"fusion", "cancel"},
           r.pc \notin {"first", "last"}, clean' => clean, Stored' = Stored, own' = own,
           clean' => \A i \in Stored : Links(docs'[i]) = Links(docs[i])
    PROVE  NInv'
  <1>1. Only(c) /\ req'[c] = r
    BY OneAtATime DEF TInv
  <1>2. Aloof(req'[c])
    BY <1>1 DEF Aloof, Linking
  <1> QED BY <1>1, <1>2, NInvAloof DEF TInv

LEMMA SameDocs ==
    ASSUME docs' = docs
    PROVE  Stored' = Stored /\ \A i \in Stored : Links(docs'[i]) = Links(docs[i])
  BY DEF Stored, Links

LEMMA UpsertLookNInv ==
    ASSUME TInv, TypeOK', NInv, NEW c \in Caller, UpsertLook(c)
    PROVE  NInv'
  <1>1. PICK n \in Number, b \in Body : req' = [req EXCEPT ![c] =
          [Idle EXCEPT !.op = "upsert", !.pc = "check", !.n = n, !.body = b, !.at = FindOne(n),
                       !.read = IF FindOne(n) = None THEN None ELSE docs[FindOne(n)]]]
    BY Zenon DEF UpsertLook
  <1> DEFINE at == FindOne(n)
             read == IF at = None THEN None ELSE docs[at]
  <1> DEFINE r == [Idle EXCEPT !.op = "upsert", !.pc = "check", !.n = n, !.body = b,
                               !.at = at, !.read = read]
  <1>2. r.op = "upsert" /\ r.pc = "check"
    BY DEF Idle
  <1>3. docs' = docs /\ own' = own /\ clean' = clean /\ ~Half(req[c])
    BY NotHalf DEF UpsertLook
  <1>4. req' = [req EXCEPT ![c] = r]
    BY <1>1
  <1> HIDE DEF r
  <1> QED BY <1>2, <1>3, <1>4, SameDocs, AsideStep

LEMMA UpsertCheckNInv ==
    ASSUME TInv, TypeOK', NInv, NEW c \in Caller, UpsertCheck(c)
    PROVE  NInv'
  <1>1. PICK s, p : req' = [req EXCEPT ![c] = [req[c] EXCEPT !.pc = "match", !.state = s,
                                                 !.read = None, !.print = p]]
    BY Zenon DEF UpsertCheck
  <1> DEFINE r == [req[c] EXCEPT !.pc = "match", !.state = s, !.read = None, !.print = p]
  <1>2. req[c].op = "upsert" /\ DOMAIN req[c] = RequestFields
    BY DEF UpsertCheck, TInv, SInv, Shapes
  <1>3. r.op = "upsert" /\ r.pc = "match"
    BY <1>2 DEF RequestFields
  <1>4. docs' = docs /\ own' = own /\ clean' = clean /\ ~Half(req[c])
    BY <1>2, NotHalf DEF UpsertCheck, history
  <1>5. req' = [req EXCEPT ![c] = r]
    BY <1>1
  <1> HIDE DEF r
  <1> QED BY <1>3, <1>4, <1>5, SameDocs, AsideStep

LEMMA UpsertMatchNInv ==
    ASSUME TInv, TypeOK', NInv, NEW c \in Caller, UpsertMatch(c)
    PROVE  NInv'
  <1> DEFINE r == [req[c] EXCEPT !.pc = "store"]
  <1>1. Ends(c) \/ req' = [req EXCEPT ![c] = r]
    BY Zenon DEF UpsertMatch, Ends
  <1>2. req[c].op = "upsert" /\ DOMAIN req[c] = RequestFields
    BY DEF UpsertMatch, TInv, SInv, Shapes
  <1>3. r.op = "upsert" /\ r.pc = "store"
    BY <1>2 DEF RequestFields
  <1>4. docs' = docs /\ own' = own /\ clean' = clean /\ ~Half(req[c])
    BY <1>2, NotHalf DEF UpsertMatch, history
  <1> HIDE DEF r
  <1> QED BY <1>1, <1>3, <1>4, SameDocs, AsideStep, IdleStep

LEMMA UpsertStoreNInv ==
    ASSUME TInv, TypeOK', NInv, NEW c \in Caller, UpsertStore(c)
    PROVE  NInv'
  <1>1. PICK i : i = FindOne(req[c].n)
    OBVIOUS
  <1> DEFINE new == Updated(docs[i], req[c])
             r == [[req[c] EXCEPT !.pc = "stamp"] EXCEPT !.at = i]
  <1>2. /\ req[c].op = "upsert" /\ i # None /\ own' = own /\ DOMAIN req[c] = RequestFields
        /\ \/ Ends(c) /\ docs' = docs /\ clean' = clean
           \/ req' = [req EXCEPT ![c] = r] /\ Replace(i, new, new, TRUE)
    BY <1>1 DEF UpsertStore, ToStamp, TInv, SInv, Shapes
  <1>3. i \in Stored
    BY <1>1, <1>2, FirstMatch DEF TInv, TypeOK
  <1>4. r.op = "upsert" /\ r.pc = "stamp" /\ ~Half(req[c])
    BY <1>2, NotHalf DEF RequestFields
  <1> HIDE DEF r, new
  <1>5. CASE Ends(c) /\ docs' = docs /\ clean' = clean
    BY <1>2, <1>4, <1>5, SameDocs, IdleStep
  <1>6. CASE req' = [req EXCEPT ![c] = r] /\ Replace(i, new, new, TRUE)
    <2>1. /\ Stored' = Stored /\ (clean' => clean)
          /\ clean' => \A x \in Stored : Links(docs'[x]) = Links(docs[x])
      BY <1>3, <1>6, ReplaceLinks DEF TInv
    <2> QED BY <1>2, <1>4, <1>6, <2>1, AsideStep
  <1> QED BY <1>2, <1>5, <1>6

LEMMA StampNInv ==
    ASSUME TInv, TypeOK', NInv, NEW c \in Caller, Stamp(c)
    PROVE  NInv'
  <1>1. PICK i, p : docs' = [docs EXCEPT ![i]["print"] = p]
    BY Zenon DEF Stamp
  <1>2. Ends(c) /\ own' = own /\ clean' = clean /\ ~Half(req[c])
    BY NotHalf DEF Stamp, history
  <1>3. Stored' = Stored /\ \A x \in Stored : Links(docs'[x]) = Links(docs[x])
    BY <1>1, LinksAside DEF TInv, Aside
  <1> QED BY <1>2, <1>3, IdleStep

LEMMA EditAskNInv ==
    ASSUME TInv, TypeOK', NInv, NEW c \in Caller, EditAsk(c)
    PROVE  NInv'
  <1>1. PICK i \in Stored, b \in Body : req' = [req EXCEPT ![c] =
              [Idle EXCEPT !.op = "edit", !.pc = "save", !.body = b, !.at = i,
                           !.read = docs[i]]]
    BY Zenon DEF EditAsk
  <1> DEFINE d == docs[i]
             r == [Idle EXCEPT !.op = "edit", !.pc = "save", !.body = b, !.at = i, !.read = d]
  <1>2. r.op = "edit" /\ r.pc = "save"
    BY DEF Idle
  <1>3. docs' = docs /\ own' = own /\ clean' = clean /\ ~Half(req[c])
    BY NotHalf DEF EditAsk, history
  <1>4. req' = [req EXCEPT ![c] = r]
    BY <1>1
  <1> HIDE DEF r
  <1> QED BY <1>2, <1>3, <1>4, SameDocs, AsideStep

LEMMA EditSaveNInv ==
    ASSUME TInv, TypeOK', NInv, NEW c \in Caller, EditSave(c)
    PROVE  NInv'
  <1>1. PICK i, new, p :
          /\ i = req[c].at
          /\ \/ Ends(c) /\ docs' = docs /\ clean' = clean
             \/ /\ Replace(i, new, new, TRUE)
                /\ req' = [req EXCEPT ![c] = [[[req[c] EXCEPT !.pc = "stamp"] EXCEPT !.read = None]
                                                EXCEPT !.print = p]]
    BY Zenon DEF EditSave
  <1> DEFINE r == [[[req[c] EXCEPT !.pc = "stamp"] EXCEPT !.read = None] EXCEPT !.print = p]
  <1>2. req[c].op = "edit" /\ req[c].pc = "save" /\ own' = own /\ DOMAIN req[c] = RequestFields
    BY DEF EditSave, TInv, SInv, Shapes
  <1>3. r.op = "edit" /\ r.pc = "stamp" /\ ~Half(req[c])
    BY <1>2, NotHalf DEF RequestFields
  <1>4. i \in Stored
    BY <1>1, <1>2 DEF TInv, SInv, Writers, Writing
  <1>5. \/ Ends(c) /\ docs' = docs /\ clean' = clean
        \/ Replace(i, new, new, TRUE) /\ req' = [req EXCEPT ![c] = r]
    BY <1>1
  <1> HIDE DEF r
  <1>6. CASE Ends(c) /\ docs' = docs /\ clean' = clean
    BY <1>2, <1>3, <1>6, SameDocs, IdleStep
  <1>7. CASE Replace(i, new, new, TRUE) /\ req' = [req EXCEPT ![c] = r]
    <2>1. /\ Stored' = Stored /\ (clean' => clean)
          /\ clean' => \A x \in Stored : Links(docs'[x]) = Links(docs[x])
      BY <1>4, <1>7, ReplaceLinks DEF TInv
    <2> QED BY <1>2, <1>3, <1>7, <2>1, AsideStep
  <1> QED BY <1>5, <1>6, <1>7

LEMMA DeleteNInv ==
    ASSUME TInv, TypeOK', NInv, NEW c \in Caller, Delete(c)
    PROVE  NInv'
  <1>1. PICK i : docs' = [docs EXCEPT ![i]["state"] = "DONT_SYNC", ![i]["deleted"] = TRUE]
    BY Zenon DEF Delete
  <1>2. req' = req /\ req[c].pc = "idle" /\ own' = own /\ clean' = clean
    BY DEF Delete, history
  <1>3. Stored' = Stored /\ \A x \in Stored : Links(docs'[x]) = Links(docs[x])
    <2>1. "state" \in Aside /\ "deleted" \in Aside
      BY DEF Aside
    <2> QED BY <1>1, <2>1, LinksTwoAside DEF TInv
  <1>4. Only(c) /\ ~Half(req[c]) /\ Aloof(req'[c])
    BY <1>2 DEF Only, Half, Aloof, Linking
  <1> QED BY <1>2, <1>3, <1>4, NInvAloof DEF TInv

(* A request of which nothing is written yet, made or gone on.               *)
LEMMA HeldStep ==
    ASSUME TInv, TypeOK', NInv, NEW c \in Caller, ~Half(req[c]), NEW r,
           req' = [req EXCEPT ![c] = r], ~Half(r), clean' = clean, Stored' = Stored, own' = own,
           \A i \in Stored : Links(docs'[i]) = Links(docs[i]),
           \A p, g : Accounts(p, g) /\ Traffic(p, g) => Formed(req[c])' /\ Current(p, g, c)'
    PROVE  NInv'
  <1> SUFFICES ASSUME clean'
               PROVE  NInv'
    BY Zenon DEF NInv
  <1>1. PICK p, g : Accounts(p, g) /\ Traffic(p, g)
    BY DEF NInv
  <1>2. Only(c) /\ req'[c] = r
    BY OneAtATime DEF TInv
  <1>3. Formed(req[c])' /\ Current(p, g, c)'
    BY <1>1
  <1>4. ~Half(req'[c])
    BY <1>2
  <1>5. TypeOK
    BY DEF TInv
  <1> QED BY <1>1, <1>2, <1>3, <1>4, <1>5, NInvPassed

-----------------------------------------------------------------------------
(* Those that read the two identities that they will write.                  *)

LEMMA HoldingOp ==
    ASSUME NEW op, NEW pc, NEW pair, NEW from, NEW to
    PROVE  Holding(op, pc, pair, from, to).op = op
  BY DEF Holding, Idle

LEMMA FormedSecond ==
    ASSUME NEW r, r.op \in {"fusion", "cancel"}, r.pc = "second",
           r.pair[1] \in Stored, r.pair[2] \in Stored, r.pair[1] # r.pair[2],
           r.from[1] \in Doc, Tidy(r.from[1])
    PROVE  Formed(r)
  BY DEF Formed, Later, MasterRead

LEMMA FormedFusion ==
    ASSUME NEW r, r.op = "fusion", r.pc \in {"backend", "first", "last"},
           r.pair[1] \in Stored, r.pair[2] \in Stored, r.pair[1] # r.pair[2],
           r.from[1] \in Doc, Tidy(r.from[1]), r.from[2] \in Doc, Tidy(r.from[2]),
           r.from[1].dest = None, r.from[2].dest = None,
           r.to[1] = Merged(r.from[1], r.pair[2]),
           r.to[2] = Master(r.from[2], r.from[1], r.pair[1])
    PROVE  Formed(r)
  <1>1. MasterRead(r) = r.from[2] /\ r.op # "cancel" /\ r.op \in {"fusion", "cancel"}
    BY DEF MasterRead
  <1> QED BY <1>1, Zenon DEF Formed

LEMMA FormedCancel ==
    ASSUME NEW r, r.op = "cancel", r.pc \in {"first", "last"},
           r.pair[1] \in Stored, r.pair[2] \in Stored, r.pair[1] # r.pair[2],
           r.from[1] \in Doc, Tidy(r.from[1]), r.from[2] \in Doc, Tidy(r.from[2]),
           r.from[1].dest = r.pair[2], r.from[2].src = r.pair[1],
           r.to[1] = Restored(r.from[1]), r.to[2] = Released(r.from[2], r.from[1])
    PROVE  Formed(r)
  <1>1. MasterRead(r) = r.from[2] /\ r.op # "fusion" /\ r.op \in {"fusion", "cancel"}
    BY DEF MasterRead
  <1> QED BY <1>1, Zenon DEF Formed

LEMMA FormedOf ==
    ASSUME NEW c \in Caller, NEW r, req'[c] = r, Formed(r), Stored \subseteq Stored'
    PROVE  Formed(req[c])'
  <1>1. Formed(r)'
    BY FormedKept
  <1> QED BY <1>1, Zenon

LEMMA FreeSame ==
    ASSUME NEW c \in Caller, Only(c), ~Half(req[c]), ~Half(req'[c]),
           req'[c].op = req[c].op, req'[c].pair = req[c].pair
    PROVE  Free(c)' <=> Free(c)
  <1>1. \A d \in Caller : /\ Half(req'[d]) <=> Half(req[d])
                          /\ Half(req[d]) => req'[d] = req[d]
    BY DEF Only
  <1>2. \A s : Clash(req'[c], s) <=> Clash(req[c], s)
    BY DEF Clash, Pair
  <1> QED BY <1>1, <1>2, Zenon DEF Free

LEMMA ReadMasterNInv ==
    ASSUME TInv, TypeOK', NInv, NEW c \in Caller, NEW op \in {"fusion", "cancel"},
           ReadMaster(c, op)
    PROVE  NInv'
  <1>1. PICK i \in Stored, j \in Stored :
          /\ i # j
          /\ req' = [req EXCEPT ![c] = Holding(op, "second", <<j, i>>, <<docs[i]>>, <<>>)]
    BY Zenon DEF ReadMaster
  <1>2. docs' = docs /\ own' = own /\ clean' = clean /\ ~Half(req[c])
    BY NotHalf DEF ReadMaster, Ask, history
  <1> DEFINE r == Holding(op, "second", <<j, i>>, <<docs[i]>>, <<>>)
  <1>3. /\ r.pc = "second" /\ r.pair = <<j, i>> /\ r.from = <<docs[i]>> /\ r.op = op
    BY HoldingShape, HoldingOp
  <1>4. req' = [req EXCEPT ![c] = r]
    BY <1>1
  <1> HIDE DEF r
  <1>5. /\ r.pair[1] = j /\ r.pair[2] = i /\ r.from[1] = docs[i] /\ MasterRead(r) = docs[i]
        /\ ~Later(r) /\ ~Half(r) /\ r.pc # "last"
    BY <1>3 DEF MasterRead, Later, Half
  <1>6. req'[c] = r
    BY <1>4, OneAtATime DEF TInv
  <1>7. docs[i] \in Doc /\ Len(docs[i].num) \in Nat
    BY StoredTyped DEF TInv
  <1>8. ASSUME NEW p, NEW g, Accounts(p, g)
        PROVE  Formed(req[c])' /\ Current(p, g, c)'
    <2>1. Tidy(docs[i])
      BY <1>8 DEF Accounts, Neat
    <2>2. Stored' = Stored
      BY <1>2 DEF Stored
    <2>3. Formed(req[c])'
      <3>1. Formed(r)
        BY <1>1, <1>3, <1>5, <1>7, <2>1, FormedSecond
      <3> QED BY <1>6, <2>2, <3>1, FormedOf
    <2>4. Len(docs'[i].num) >= Len(docs[i].num)
      BY <1>2, <1>7
    <2>5. docs'[i].dest = docs[i].dest /\ docs'[i].src = docs[i].src
      BY <1>2
    <2>6. Current(p, g, c)'
      BY <1>3, <1>5, <1>6, <2>4, <2>5, Zenon DEF Current
    <2> QED BY <2>3, <2>6
  <1> QED BY <1>2, <1>4, <1>5, <1>8, SameDocs, HeldStep

LEMMA IgnoreAskNInv ==
    ASSUME TInv, TypeOK', NInv, NEW c \in Caller, NEW op \in {"ignore", "unignore"},
           IgnoreAsk(c, op)
    PROVE  NInv'
  <1> DEFINE Set(x, y) == IF op = "ignore" THEN docs[x].ignored \cup {y}
                          ELSE docs[x].ignored \ {y}
             New(x, y) == [docs[x] EXCEPT !.ignored = Set(x, y)]
  <1>1. PICK i \in Stored, j \in Stored :
          req' = [req EXCEPT ![c] = Holding(op, "first", <<i, j>>, <<docs[i], docs[j]>>,
                                            <<New(i, j), New(j, i)>>)]
    BY Zenon DEF IgnoreAsk
  <1>2. docs' = docs /\ own' = own /\ clean' = clean /\ ~Half(req[c])
    BY NotHalf DEF IgnoreAsk, Ask, history
  <1> HIDE DEF Set
  <1>3. ASSUME NEW x \in Stored, NEW y
        PROVE  Links(New(x, y)) = Links(docs[x])
    <2>1. Shaped(docs[x])
      BY DEF TInv, SInv, Shapes
    <2> DEFINE v == Set(x, y)
    <2> HIDE DEF v
    <2>2. Links([docs[x] EXCEPT !.ignored = v]) = Links(docs[x])
      BY <2>1 DEF Shaped, DocFields, Links
    <2> QED BY <2>2 DEF v
  <1>4. Links(New(i, j)) = Links(docs[i]) /\ Links(New(j, i)) = Links(docs[j])
    BY <1>3
  <1> DEFINE a == New(i, j)
             b == New(j, i)
             from == <<docs[i], docs[j]>>
             to == <<a, b>>
             r == Holding(op, "first", <<i, j>>, from, to)
  <1>5. req' = [req EXCEPT ![c] = r]
    BY <1>1
  <1> HIDE DEF a, b
  <1>6. /\ from[1] = docs[i] /\ from[2] = docs[j] /\ to[1] = a /\ to[2] = b
    OBVIOUS
  <1>7. r.op = op /\ r.from = from /\ r.to = to
    BY HoldingShape, HoldingOp
  <1> HIDE DEF r
  <1>8. Links(r.to[1]) = Links(r.from[1]) /\ Links(r.to[2]) = Links(r.from[2])
    BY <1>4, <1>6, <1>7 DEF a, b
  <1>9. Only(c) /\ req'[c] = r
    BY <1>5, OneAtATime DEF TInv
  <1>10. Aloof(req'[c])
    BY <1>7, <1>8, <1>9 DEF Aloof, Linking
  <1> QED BY <1>2, <1>9, <1>10, SameDocs, NInvAloof DEF TInv

(* A fusion reads identity 2, which is merged into no other.                 *)
LEMMA FusionReadNInv ==
    ASSUME TInv, TypeOK', NInv, NEW c \in Caller, FusionRead(c)
    PROVE  NInv'
  <1> DEFINE s == req[c]
             j == s.pair[1]
             i == s.pair[2]
             d1 == s.from[1]
             d2 == docs[j]
             pc == IF d2.synced THEN "backend" ELSE "first"
             from == <<d2, d1>>
             to == <<Merged(d2, i), Master(d1, d2, j)>>
             r == Holding("fusion", pc, s.pair, from, to)
  <1>1. /\ s.op = "fusion" /\ s.pc = "second"
        /\ docs' = docs /\ own' = own /\ clean' = clean
        /\ \/ Ends(c)
           \/ d1.dest = None /\ d2.dest = None /\ req' = [req EXCEPT ![c] = r]
    BY Zenon DEF FusionRead, history
  <1>2. ~Half(s)
    BY <1>1 DEF Half
  <1>3. CASE Ends(c)
    BY <1>1, <1>2, <1>3, SameDocs, IdleStep
  <1>4. CASE d1.dest = None /\ d2.dest = None /\ req' = [req EXCEPT ![c] = r]
    <2>1. r.op = "fusion" /\ r.pc = pc /\ r.pair = s.pair /\ r.from = from /\ r.to = to
      BY HoldingShape, HoldingOp
    <2> HIDE DEF r
    <2>2. pc \in {"backend", "first"}
      OBVIOUS
    <2> HIDE DEF pc
    <2>3. /\ r.from[1] = d2 /\ r.from[2] = d1 /\ r.pair[1] = j /\ r.pair[2] = i
          /\ r.to[1] = Merged(d2, i) /\ r.to[2] = Master(d1, d2, j)
      BY <2>1
    <2>4. MasterRead(r) = d1 /\ ~Half(r) /\ MasterRead(s) = d1 /\ Linking(s) /\ r.pc # "last"
          /\ Linking(r)
      BY <1>1, <2>1, <2>2, <2>3 DEF MasterRead, Half, Linking
    <2>5. req'[c] = r /\ Only(c)
      BY <1>4, OneAtATime DEF TInv
    <2>6. Free(c)' <=> Free(c)
      BY <1>1, <1>2, <2>1, <2>4, <2>5, FreeSame
    <2>7. Stored' = Stored
      BY <1>1 DEF Stored
    <2>8. ASSUME NEW p, NEW g, Accounts(p, g), Traffic(p, g)
          PROVE  Formed(req[c])' /\ Current(p, g, c)'
      <3>1. Formed(s) /\ Current(p, g, c) /\ Masters(p, g)
        BY <2>8 DEF Traffic
      <3>2. j \in Stored /\ i \in Stored /\ j # i /\ d1 \in Doc /\ Tidy(d1)
        BY <2>4, <3>1, Zenon DEF Formed
      <3>3. d2 \in Doc /\ Tidy(d2) /\ j \in Id /\ i \in Id /\ None \notin Id
        BY <2>8, <3>2, StoredTyped, IdentitiesAssumption DEF Accounts, Neat, TInv
      <3>4. Formed(req[c])'
        <4>1. Formed(r)
          BY <1>4, <2>1, <2>2, <2>3, <3>2, <3>3, FormedFusion
        <4> QED BY <2>5, <2>7, <4>1, FormedOf
      <3>5. Free(c) => p[j] # i
        <4> SUFFICES ASSUME p[j] = i
                     PROVE  ~Free(c)
          OBVIOUS
        <4>1. p[j] # None
          BY <3>2, <3>3
        <4>2. docs[j].dest # p[j]
          BY <1>4, <4>1
        <4>3. Ongoing("cancel", j, p[j])
          BY <3>1, <3>3, <4>1, <4>2 DEF Masters
        <4>4. PICK e \in Caller : Half(req[e]) /\ req[e].op = "cancel" /\ req[e].pair[1] = j
          BY <4>3 DEF Ongoing
        <4>5. s.op = "fusion" /\ req[e].op = "cancel" /\ req[e].pair[1] = s.pair[1]
          BY <1>1, <4>4
        <4>6. Clash(s, req[e])
          BY <4>5 DEF Clash, Pair
        <4> QED BY <4>4, <4>6 DEF Free
      <3>6. Free(c) => Len(docs[i].num) >= Len(d1.num)
        BY <1>1, <2>4, <3>1, Zenon DEF Current
      <3>7. r.op # "cancel"
        BY <2>1
      <3> HIDE DEF d1, d2
      <3>8. Free(c)' => Len(docs'[i].num) >= Len(d1.num) /\ p[j] # i
        BY <1>1, <2>6, <3>5, <3>6
      <3>9. Current(p, g, c)'
        BY <2>1, <2>3, <2>4, <2>5, <3>7, <3>8, Zenon DEF Current
      <3> QED BY <3>4, <3>9
    <2> QED BY <1>1, <1>2, <1>4, <2>4, <2>8, SameDocs, HeldStep
  <1> QED BY <1>1, <1>3, <1>4

(* A cancellation reads identity 2, which is merged into its master.         *)
LEMMA CancelReadNInv ==
    ASSUME TInv, TypeOK', NInv, NEW c \in Caller, CancelRead(c)
    PROVE  NInv'
  <1> DEFINE s == req[c]
             j == s.pair[1]
             i == s.pair[2]
             d1 == s.from[1]
             d2 == docs[j]
             from == <<d2, d1>>
             to == <<Restored(d2), Released(d1, d2)>>
             r == Holding("cancel", "first", s.pair, from, to)
  <1>1. /\ s.op = "cancel" /\ s.pc = "second"
        /\ docs' = docs /\ own' = own /\ clean' = clean
        /\ \/ Ends(c)
           \/ d1.src = j /\ d2.dest = i /\ req' = [req EXCEPT ![c] = r]
    BY Zenon DEF CancelRead, history
  <1>2. ~Half(s)
    BY <1>1 DEF Half
  <1>3. CASE Ends(c)
    BY <1>1, <1>2, <1>3, SameDocs, IdleStep
  <1>4. CASE d1.src = j /\ d2.dest = i /\ req' = [req EXCEPT ![c] = r]
    <2>1. r.op = "cancel" /\ r.pc = "first" /\ r.pair = s.pair /\ r.from = from /\ r.to = to
      BY HoldingShape, HoldingOp
    <2> HIDE DEF r
    <2>3. /\ r.from[1] = d2 /\ r.from[2] = d1 /\ r.pair[1] = j /\ r.pair[2] = i
          /\ r.to[1] = Restored(d2) /\ r.to[2] = Released(d1, d2)
      BY <2>1
    <2>4. MasterRead(r) = d1 /\ ~Half(r) /\ MasterRead(s) = d1 /\ Linking(s) /\ r.pc # "last"
          /\ Linking(r)
      BY <1>1, <2>1, <2>3 DEF MasterRead, Half, Linking
    <2>5. req'[c] = r /\ Only(c)
      BY <1>4, OneAtATime DEF TInv
    <2>6. Free(c)' <=> Free(c)
      BY <1>1, <1>2, <2>1, <2>4, <2>5, FreeSame
    <2>7. Stored' = Stored
      BY <1>1 DEF Stored
    <2>8. ASSUME NEW p, NEW g, Accounts(p, g), Traffic(p, g)
          PROVE  Formed(req[c])' /\ Current(p, g, c)'
      <3>1. Formed(s) /\ Current(p, g, c) /\ Masters(p, g)
        BY <2>8 DEF Traffic
      <3>2. j \in Stored /\ i \in Stored /\ j # i /\ d1 \in Doc /\ Tidy(d1)
        BY <2>4, <3>1, Zenon DEF Formed
      <3>3. d2 \in Doc /\ Tidy(d2) /\ j \in Id /\ i \in Id /\ None \notin Id
        BY <2>8, <3>2, StoredTyped, IdentitiesAssumption DEF Accounts, Neat, TInv
      <3>4. Formed(req[c])'
        <4>1. Formed(r)
          BY <1>4, <2>1, <2>3, <3>2, <3>3, FormedCancel
        <4> QED BY <2>5, <2>7, <4>1, FormedOf
      <3>5. p[j] = i => g[j] = Unprefixed(d2.num)
        <4> SUFFICES ASSUME p[j] = i, g[j] # Unprefixed(docs[j].num)
                     PROVE  FALSE
          OBVIOUS
        <4>1. p[j] # None
          BY <3>2, <3>3
        <4>3. Ongoing("cancel", j, p[j])
          BY <3>1, <3>3, <4>1 DEF Masters
        <4>4. PICK e \in Caller : Half(req[e]) /\ req[e].op = "cancel" /\ req[e].pair[1] = j
          BY <4>3 DEF Ongoing
        <4>5. req[e].pc = "last" /\ Current(p, g, e)
          BY <2>8, <4>4 DEF Half, Traffic
        <4>6. docs[j].dest = None
          BY <4>4, <4>5, Zenon DEF Current
        <4> QED BY <1>4, <3>3, <4>6
      <3>6. Free(c) => /\ d1.dest = None => docs[i].dest = None
                       /\ p[j] = i /\ d1.src = j => docs[i].src = j
        BY <1>1, <2>4, <3>1, Zenon DEF Current
      <3>7. r.op # "fusion"
        BY <2>1
      <3>8. Free(c)' => /\ d1.dest = None => docs'[i].dest = None
                        /\ p[j] = i /\ d1.src = j => docs'[i].src = j
        <4> HIDE DEF d1, d2
        <4> QED BY <1>1, <2>6, <3>6
      <3> HIDE DEF d1, d2
      <3>9. Current(p, g, c)'
        BY <2>1, <2>3, <2>4, <2>5, <3>5, <3>7, <3>8, Zenon DEF Current
      <3> QED BY <3>4, <3>9
    <2> QED BY <1>1, <1>2, <1>4, <2>4, <2>8, SameDocs, HeldStep
  <1> QED BY <1>1, <1>3, <1>4

(* The links of the documents that the operations on two identities write.   *)
LEMMA MergedLinks ==
    ASSUME NEW d \in Doc, NEW i
    PROVE  LET e == Merged(d, i)
           IN  e.num = Prefixed(d.num) /\ e.src = d.src /\ e.dest = i /\ e.primary = d.primary
  <1> DEFINE n == Prefixed(d.num)
  <1>1. Merged(d, i) = [d EXCEPT !.dest = i, !.num = n, !.state = "DONT_SYNC"]
    BY Zenon DEF Merged
  <1> HIDE DEF n
  <1>2. LET e == Merged(d, i)
        IN  e.num = n /\ e.src = d.src /\ e.dest = i /\ e.primary = d.primary
    BY <1>1 DEF Doc
  <1> QED BY <1>2 DEF n

LEMMA MasterLinks ==
    ASSUME NEW d \in Doc, NEW e, NEW j, NEW m, m = Master(d, e, j)
    PROVE  m.num = Cat(d.num, e.num) /\ m.src = j /\ m.dest = d.dest
  <1> DEFINE p == Primary(d.num)
             n == d.num \o e.num
  <1>1. m = [d EXCEPT !.primary = p, !.num = n, !.state = "TO_VALIDATE", !.src = j]
    BY Zenon DEF Master
  <1> HIDE DEF p, n
  <1>2. m.num = n /\ m.src = j /\ m.dest = d.dest
    BY <1>1 DEF Doc
  <1> QED BY <1>2 DEF n, Cat

LEMMA RestoredLinks ==
    ASSUME NEW d \in Doc, d.num # <<>>
    PROVE  LET e == Restored(d)
           IN  /\ e.num = [d.num EXCEPT ![1].gone = FALSE] /\ e.src = d.src /\ e.dest = None
               /\ e.primary = d.primary
  <1> DEFINE n == [d.num EXCEPT ![1].gone = FALSE]
  <1>1. Restored(d) = [d EXCEPT !.dest = None, !.state = "TO_VALIDATE", !.num = n]
    BY Zenon DEF Restored
  <1> HIDE DEF n
  <1>2. LET e == Restored(d)
        IN  e.num = n /\ e.src = d.src /\ e.dest = None /\ e.primary = d.primary
    BY <1>1 DEF Doc
  <1> QED BY <1>2 DEF n

LEMMA ReleasedLinks ==
    ASSUME NEW d \in Doc, NEW e
    PROVE  LET m == Released(d, e)
           IN  /\ m.num = Without(d.num, Unprefixed(e.num)) /\ m.src = None /\ m.dest = d.dest
               /\ m.primary = None
  <1> DEFINE n == Without(d.num, Unprefixed(e.num))
  <1>1. Released(d, e) = [d EXCEPT !.num = n, !.src = None, !.primary = None,
                                   !.state = "TO_VALIDATE"]
    BY Zenon DEF Released
  <1> HIDE DEF n
  <1>2. LET m == Released(d, e)
        IN  m.num = n /\ m.src = None /\ m.dest = d.dest /\ m.primary = None
    BY <1>1 DEF Doc
  <1> QED BY <1>2 DEF n

(* The two shapes of a request that is about to write.                       *)
LEMMA ReadyFusion ==
    ASSUME NEW r, Formed(r), r.op = "fusion", r.pc \in {"backend", "first", "last"}
    PROVE  /\ r.pair[1] \in Stored /\ r.pair[2] \in Stored /\ r.pair[1] # r.pair[2]
           /\ r.from[1] \in Doc /\ Tidy(r.from[1]) /\ r.from[2] \in Doc /\ Tidy(r.from[2])
           /\ r.from[1].dest = None /\ r.from[2].dest = None
           /\ r.to[1] = Merged(r.from[1], r.pair[2])
           /\ r.to[2] = Master(r.from[2], r.from[1], r.pair[1])
           /\ MasterRead(r) = r.from[2] /\ Linking(r) /\ Later(r)
  <1>1. MasterRead(r) = r.from[2] /\ Linking(r) /\ Later(r)
    BY DEF MasterRead, Linking, Later
  <1> QED BY <1>1, Zenon DEF Formed

LEMMA ReadyCancel ==
    ASSUME NEW r, Formed(r), r.op = "cancel", r.pc \in {"first", "last"}
    PROVE  /\ r.pair[1] \in Stored /\ r.pair[2] \in Stored /\ r.pair[1] # r.pair[2]
           /\ r.from[1] \in Doc /\ Tidy(r.from[1]) /\ r.from[2] \in Doc /\ Tidy(r.from[2])
           /\ r.from[1].dest = r.pair[2] /\ r.from[2].src = r.pair[1]
           /\ r.to[1] = Restored(r.from[1]) /\ r.to[2] = Released(r.from[2], r.from[1])
           /\ MasterRead(r) = r.from[2] /\ Linking(r) /\ Later(r)
  <1>1. MasterRead(r) = r.from[2] /\ Linking(r) /\ Later(r)
    BY DEF MasterRead, Linking, Later
  <1> QED BY <1>1, Zenon DEF Formed

-----------------------------------------------------------------------------
LEMMA FusionBackendNInv ==
    ASSUME TInv, TypeOK', NInv, NEW c \in Caller, FusionBackend(c)
    PROVE  NInv'
  <1> DEFINE s == req[c]
             j == s.pair[1]
             i == s.pair[2]
             r == [s EXCEPT !.pc = "first"]
  <1>1. /\ s.op = "fusion" /\ s.pc = "backend" /\ own' = own /\ clean' = clean
        /\ \/ /\ docs' = [docs EXCEPT ![j]["state"] = "DONT_SYNC", ![j]["deleted"] = TRUE]
              /\ req' = [req EXCEPT ![c] = r]
           \/ /\ docs' = [docs EXCEPT ![j]["state"] = "ON_ERROR", ![j]["synced"] = FALSE]
              /\ Ends(c)
    BY Zenon DEF FusionBackend, history
  <1>2. "state" \in Aside /\ "deleted" \in Aside /\ "synced" \in Aside
    BY DEF Aside
  <1>3. ~Half(s) /\ DOMAIN s = RequestFields
    BY <1>1 DEF Half, TInv, SInv, Shapes
  <1>4. r.op = "fusion" /\ r.pc = "first" /\ r.pair = s.pair /\ r.from = s.from /\ r.to = s.to
    BY <1>1, <1>3 DEF RequestFields
  <1> HIDE DEF r
  <1>5. ~Half(r)
    BY <1>4 DEF Half
  <1>6. Stored' = Stored /\ \A x \in Stored : Links(docs'[x]) = Links(docs[x])
    <2>1. CASE docs' = [docs EXCEPT ![j]["state"] = "DONT_SYNC", ![j]["deleted"] = TRUE]
      BY <1>2, <2>1, LinksTwoAside DEF TInv
    <2>2. CASE docs' = [docs EXCEPT ![j]["state"] = "ON_ERROR", ![j]["synced"] = FALSE]
      BY <1>2, <2>2, LinksTwoAside DEF TInv
    <2> QED BY <1>1, <2>1, <2>2
  <1>7. CASE Ends(c)
    BY <1>1, <1>3, <1>6, <1>7, IdleStep
  <1>8. CASE req' = [req EXCEPT ![c] = r]
    <2>1. req'[c] = r /\ Only(c)
      BY <1>8, OneAtATime DEF TInv
    <2>2. Free(c)' <=> Free(c)
      BY <1>1, <1>3, <1>4, <1>5, <2>1, FreeSame
    <2>3. ASSUME NEW p, NEW g, Accounts(p, g), Traffic(p, g)
          PROVE  Formed(req[c])' /\ Current(p, g, c)'
      <3>1. Formed(s) /\ Current(p, g, c)
        BY <2>3 DEF Traffic
      <3> DEFINE m == s.from[2]
      <3>2. /\ s.pair[1] \in Stored /\ i \in Stored /\ s.pair[1] # i
            /\ s.from[1] \in Doc /\ Tidy(s.from[1]) /\ m \in Doc /\ Tidy(m)
            /\ s.from[1].dest = None /\ m.dest = None
            /\ s.to[1] = Merged(s.from[1], i) /\ s.to[2] = Master(m, s.from[1], s.pair[1])
            /\ MasterRead(s) = m /\ Linking(s) /\ Later(s)
        BY <1>1, <3>1, ReadyFusion
      <3>3. Formed(r)
        BY <1>4, <3>2, FormedFusion
      <3>4. Formed(req[c])'
        BY <1>6, <2>1, <3>3, FormedOf
      <3>5. Free(c) => /\ Len(docs[i].num) >= Len(m.num)
                       /\ p[j] = i => Len(docs[i].num) > Len(m.num)
        BY <1>1, <3>1, <3>2, Zenon DEF Current
      <3>6. docs'[i].num = docs[i].num
        BY <1>6, <3>2 DEF Links
      <3>7. Free(c)' => /\ Len(docs'[i].num) >= Len(m.num)
                        /\ p[j] = i => Len(docs'[i].num) > Len(m.num)
        BY <2>2, <3>5, <3>6
      <3>8. MasterRead(r) = m /\ r.pc # "last" /\ r.op # "cancel" /\ r.pair[1] = j /\ r.pair[2] = i
        BY <1>4 DEF MasterRead
      <3> HIDE DEF m
      <3>9. Current(p, g, c)'
        BY <1>4, <2>1, <3>7, <3>8, Zenon DEF Current
      <3> QED BY <3>4, <3>9
    <2> QED BY <1>1, <1>3, <1>5, <1>6, <1>8, <2>3, HeldStep
  <1> QED BY <1>1, <1>7, <1>8

(* The second write is never made: the history is clean no more, or its links*)
(* were the same.                                                            *)
LEMMA WriteAloneNInv ==
    ASSUME TInv, TypeOK', NInv, NEW c \in Caller, WriteAlone(c)
    PROVE  NInv'
  <1> DEFINE s == req[c]
             i == s.pair[2]
  <1>1. /\ s.pc = "last" /\ clean' = (clean /\ Links(s.from[1]) = Links(s.to[1])) /\ Ends(c)
        /\ docs' = docs /\ own' = own
    BY Zenon DEF WriteAlone
  <1>2. CASE ~Half(s)
    <2>1. clean' => clean
      BY <1>1, Zenon
    <2> QED BY <1>1, <1>2, <2>1, SameDocs, IdleStep
  <1>3. CASE Half(s)
    <2>1. ASSUME clean'
          PROVE  FALSE
      <3>1. clean /\ Links(s.from[1]) = Links(s.to[1])
        BY <1>1, <2>1, Zenon
      <3>2. s.from[1].dest = s.to[1].dest
        BY <3>1 DEF Links
      <3>3. PICK p, g : Accounts(p, g) /\ Traffic(p, g)
        BY <3>1 DEF NInv
      <3>4. Formed(s)
        BY <3>3 DEF Traffic
      <3>5. s.op = "fusion" \/ s.op = "cancel"
        BY <1>3 DEF Half
      <3>6. CASE s.op = "fusion"
        <4>1. /\ i \in Stored /\ s.from[1].dest = None /\ s.from[1] \in Doc
              /\ s.to[1] = Merged(s.from[1], i)
          BY <1>1, <3>4, <3>6, ReadyFusion
        <4>2. s.to[1].dest = i
          BY <4>1, MergedLinks
        <4>3. i \in Id /\ None \notin Id
          BY <4>1, StoredTyped, IdentitiesAssumption DEF TInv
        <4> QED BY <3>2, <4>1, <4>2, <4>3
      <3>7. CASE s.op = "cancel"
        <4>1. /\ i \in Stored /\ s.from[1].dest = i /\ s.from[1] \in Doc /\ Tidy(s.from[1])
              /\ s.to[1] = Restored(s.from[1])
          BY <1>1, <3>4, <3>7, ReadyCancel
        <4>2. s.to[1].dest = None
          BY <4>1, RestoredLinks DEF Tidy
        <4>3. i \in Id /\ None \notin Id
          BY <4>1, StoredTyped, IdentitiesAssumption DEF TInv
        <4> QED BY <3>2, <4>1, <4>2, <4>3
      <3> QED BY <3>5, <3>6, <3>7
    <2> QED BY <2>1, Zenon DEF NInv
  <1> QED BY <1>2, <1>3

(* A document is written by a request about ignored duplicates.              *)
LEMMA IgnoredLinks ==
    ASSUME TInv, NInv, NEW c \in Caller, req[c].op \notin {"fusion", "cancel"}, NEW k \in {1, 2},
           req[c].pc \in {"first", "last"}, Write(req[c], k)
    PROVE  /\ Stored' = Stored /\ (clean' => clean)
           /\ clean' => \A x \in Stored : Links(docs'[x]) = Links(docs[x])
           /\ clean => Links(req[c].to[1]) = Links(req[c].from[1])
                       /\ Links(req[c].to[2]) = Links(req[c].from[2])
  <1> DEFINE s == req[c]
  <1>1. clean => Links(s.to[1]) = Links(s.from[1]) /\ Links(s.to[2]) = Links(s.from[2])
    <2> SUFFICES ASSUME clean
                 PROVE  Links(s.to[1]) = Links(s.from[1]) /\ Links(s.to[2]) = Links(s.from[2])
      OBVIOUS
    <2>1. PICK p, g : Traffic(p, g)
      BY DEF NInv
    <2>2. Formed(s)
      BY <2>1 DEF Traffic
    <2> QED BY <2>2, Zenon DEF Formed
  <1>2. s.pair[1] \in Stored /\ s.pair[2] \in Stored
    BY DEF TInv, SInv, Writers, Writing, Faithful
  <1>3. PICK i, read, new, alone :
          /\ i = s.pair[k] /\ read = s.from[k] /\ new = s.to[k] /\ Replace(i, read, new, alone)
    BY Zenon DEF Write
  <1>4. i \in Stored /\ TypeOK
    BY <1>2, <1>3 DEF TInv
  <1>5. /\ Stored' = Stored /\ (clean' => clean)
        /\ clean' /\ Links(read) = Links(new) =>
             \A x \in Stored : Links(docs'[x]) = Links(docs[x])
    BY <1>3, <1>4, ReplaceLinks
  <1>6. clean => Links(read) = Links(new)
    BY <1>1, <1>3
  <1> QED BY <1>1, <1>5, <1>6

LEMMA MarkFirstNInv ==
    ASSUME TInv, TypeOK', NInv, NEW c \in Caller, WriteFirst(c),
           Ends(c) \/ req[c].op \notin {"fusion", "cancel"}
    PROVE  NInv'
  <1> DEFINE s == req[c]
             r == [s EXCEPT !.pc = "last"]
  <1>1. /\ s.pc = "first" /\ own' = own
        /\ \/ Ends(c) /\ docs' = docs /\ clean' = clean
           \/ Write(s, 1) /\ req' = [req EXCEPT ![c] = r]
    BY Zenon DEF WriteFirst
  <1>2. ~Half(s) /\ DOMAIN s = RequestFields /\ c \in DOMAIN req
    BY <1>1 DEF Half, TInv, SInv, Shapes
  <1>3. CASE Ends(c) /\ docs' = docs /\ clean' = clean
    BY <1>1, <1>2, <1>3, SameDocs, IdleStep
  <1>4. CASE Write(s, 1) /\ req' = [req EXCEPT ![c] = r]
    <2>1. /\ r.op = s.op /\ r.pc = "last" /\ r.from = s.from /\ r.to = s.to
      BY <1>2 DEF RequestFields
    <2>2. s.op \notin {"fusion", "cancel"}
      BY <1>2, <1>4, <2>1 DEF Ends, Idle
    <2> HIDE DEF r
    <2>3. Only(c) /\ req'[c] = r
      BY <1>4, OneAtATime DEF TInv
    <2>4. /\ Stored' = Stored /\ (clean' => clean)
          /\ clean' => \A x \in Stored : Links(docs'[x]) = Links(docs[x])
          /\ clean => Links(s.to[1]) = Links(s.from[1]) /\ Links(s.to[2]) = Links(s.from[2])
      BY <1>1, <1>4, <2>2, IgnoredLinks
    <2>5. CASE clean
      <3>1. Aloof(req'[c])
        BY <2>1, <2>2, <2>3, <2>4, <2>5 DEF Aloof, Linking
      <3> QED BY <1>1, <1>2, <2>3, <2>4, <3>1, NInvAloof DEF TInv
    <2>6. CASE ~clean
      BY <2>4, <2>6, Zenon DEF NInv
    <2> QED BY <2>5, <2>6
  <1> QED BY <1>1, <1>3, <1>4

LEMMA MarkLastNInv ==
    ASSUME TInv, TypeOK', NInv, NEW c \in Caller, WriteLast(c),
           req[c].op \notin {"fusion", "cancel"}
    PROVE  NInv'
  <1>1. req[c].pc = "last" /\ Write(req[c], 2) /\ Ends(c) /\ own' = own
    BY Zenon DEF WriteLast
  <1>2. /\ Stored' = Stored /\ (clean' => clean)
        /\ clean' => \A x \in Stored : Links(docs'[x]) = Links(docs[x])
    BY <1>1, IgnoredLinks
  <1> QED BY <1>1, <1>2, NotHalf, IdleStep

(* An identity is created: it has no master, and its own number.             *)
LEMMA UpsertInsertNInv ==
    ASSUME TInv, TypeOK', NInv, NEW c \in Caller, UpsertInsert(c)
    PROVE  NInv'
  <1>1. PICK i : i = Min(Id \ Stored)
    OBVIOUS
  <1> DEFINE s == req[c]
             new == Inserted(s)
             r == [[s EXCEPT !.pc = "stamp"] EXCEPT !.at = i]
  <1>2. /\ s.op = "upsert" /\ s.pc = "store" /\ clean' = clean
        /\ \/ Ends(c) /\ docs' = docs /\ own' = own
           \/ /\ Stored # Id /\ req' = [req EXCEPT ![c] = r]
              /\ docs' = [x \in Stored \cup {i} |-> IF x = i THEN new ELSE docs[x]]
              /\ own' = [own EXCEPT ![i] = s.n]
    BY <1>1, Zenon DEF UpsertInsert, ToStamp
  <1>3. ~Half(s) /\ DOMAIN s = RequestFields /\ s.n \in Number
    BY <1>2 DEF Half, TInv, SInv, Shapes, Works
  <1>4. CASE Ends(c) /\ docs' = docs /\ own' = own
    BY <1>2, <1>3, <1>4, SameDocs, IdleStep
  <1>5. CASE /\ Stored # Id /\ req' = [req EXCEPT ![c] = r]
             /\ docs' = [x \in Stored \cup {i} |-> IF x = i THEN new ELSE docs[x]]
             /\ own' = [own EXCEPT ![i] = s.n]
    <2>1. r.op = "upsert" /\ r.pc = "stamp"
      BY <1>2, <1>3 DEF RequestFields
    <2> HIDE DEF r
    <2>2. Only(c) /\ req'[c] = r
      BY <1>5, OneAtATime DEF TInv
    <2>3. Aloof(req'[c])
      BY <2>1, <2>2 DEF Aloof, Linking
    <2>4. i \in Id \ Stored
      <3>1. Stored \subseteq Id /\ Id \ Stored \in SUBSET Nat /\ Id \ Stored # {}
        BY <1>5, IdentitiesAssumption DEF TInv, TypeOK
      <3> QED BY <1>1, <3>1, MinIsFirst
    <2>5. /\ new.num = <<Plain(s.n)>> /\ new.src = None /\ new.dest = None
      BY DEF Inserted
    <2> HIDE DEF new
    <2>6. /\ Stored' = Stored \cup {i} /\ docs'[i] = new
          /\ \A x \in Stored : docs'[x] = docs[x] /\ own'[x] = own[x]
          /\ own'[i] = s.n
      BY <1>5, <2>4 DEF Stored, TInv, TypeOK
    <2>7. ASSUME clean
          PROVE  NInv'
      <3>1. PICK p, g : Accounts(p, g) /\ Traffic(p, g)
        BY <2>7 DEF NInv
      <3>2. \A x \in Id : p[x] # None => x \in Stored /\ p[x] \in Stored
        BY <3>1, MastersStored
      <3>3. TypeOK /\ Stored \subseteq Id
        BY DEF TInv, TypeOK
      <3>4. docs'[i].num = <<Plain(s.n)>> /\ docs'[i].src = None /\ docs'[i].dest = None
        BY <2>5, <2>6
      <3>5. Accounts(p, g)'
        BY <1>3, <2>4, <2>6, <3>1, <3>2, <3>3, <3>4, AccountsCreated
      <3>6. ~Half(req'[c]) /\ Formed(req[c])' /\ Current(p, g, c)'
        BY <2>3, AloofFormed
      <3>7. /\ Stored \subseteq Stored' /\ \A x \in Stored : Links(docs'[x]) = Links(docs[x])
            /\ \A x \in Stored' \ Stored : docs'[x].dest = None
        BY <2>6, <3>4
      <3>8. Traffic(p, g)'
        BY <1>3, <2>2, <3>1, <3>3, <3>6, <3>7, TrafficPassed
      <3> QED BY <3>5, <3>8, Zenon DEF NInv
    <2> QED BY <1>2, <2>7, Zenon DEF NInv
  <1> QED BY <1>2, <1>4, <1>5

-----------------------------------------------------------------------------
(* The first write of a fusion and of a cancellation, that of identity 2.    *)

(* No request of the other kind is in progress about one of its identities.  *)
Uncrossed(c) == \A e \in Caller : Linking(req[e]) => ~Clash(req[c], req[e])

(* What a request has read of its two identities is not made older by a      *)
(* write, and by another account of the masters.                             *)
Undisturbed(p, g, q, h, d) ==
    LET j == req[d].pair[1]
        i == req[d].pair[2]
    IN  /\ req[d].op = "fusion" =>
             /\ Len(docs'[i].num) >= Len(docs[i].num)
             /\ q[j] = i => p[j] = i \/ Len(docs'[i].num) > Len(docs[i].num)
             /\ req[d].pc = "last" => Links(docs'[j]) = Links(docs[j])
        /\ req[d].op = "cancel" =>
             /\ docs[i].dest = None => docs'[i].dest = None
             /\ docs[j].dest = None => docs'[j].dest = None
             /\ q[j] = i => p[j] = i /\ h[j] = g[j] /\ (docs[i].src = j => docs'[i].src = j)

LEMMA ClashBoth ==
    ASSUME NEW r, NEW s
    PROVE  Clash(r, s) <=> Clash(s, r)
  <1>1. Pair(r) \cap Pair(s) = Pair(s) \cap Pair(r)
    OBVIOUS
  <1> QED BY <1>1, Zenon DEF Clash

LEMMA HalfLinks ==
    ASSUME NEW r, Half(r)
    PROVE  Linking(r) /\ Later(r)
  BY DEF Half, Linking, Later

LEMMA NotCrossed ==
    ASSUME NEW c \in Caller, req[c].op \in {"fusion", "cancel"}, ~Crossed(req[c])
    PROVE  Uncrossed(c) /\ (req[c].op = "cancel" => req[c].from[2].dest = None)
  <1>1. req[c].op = "cancel" => req[c].from[2].dest = None
    BY Zenon DEF Crossed
  <1>2. ASSUME NEW e \in Caller, Linking(req[e]), Clash(req[c], req[e])
        PROVE  FALSE
    <2>1. {req[c].op, req[e].op} = {"fusion", "cancel"} /\ Pair(req[c]) \cap Pair(req[e]) # {}
      BY <1>2 DEF Clash
    <2>2. req[e].pc # "idle"
      BY <1>2 DEF Linking
    <2> QED BY <2>1, <2>2, Zenon DEF Crossed
  <1> QED BY <1>1, <1>2 DEF Uncrossed

LEMMA UncrossedFree ==
    ASSUME NEW c \in Caller, Uncrossed(c)
    PROVE  Free(c)
  BY HalfLinks DEF Uncrossed, Free

LEMMA StillFree ==
    ASSUME NEW c \in Caller, Uncrossed(c), Only(c), req'[c].op = req[c].op,
           req'[c].pair = req[c].pair
    PROVE  Free(c)'
  <1>1. \A s : Clash(req'[c], s) <=> Clash(req[c], s)
    BY DEF Clash, Pair
  <1>2. ASSUME NEW e \in Caller
        PROVE  Half(req'[e]) => ~Clash(req'[c], req'[e])
    <2>1. CASE e = c
      <3>1. ~Clash(req'[c], req'[c])
        BY DEF Clash
      <3> QED BY <2>1, <3>1
    <2>2. CASE e # c
      <3>1. req'[e] = req[e]
        BY <2>2 DEF Only
      <3>2. Half(req[e]) => ~Clash(req[c], req[e])
        BY HalfLinks DEF Uncrossed
      <3> QED BY <1>1, <3>1, <3>2
    <2> QED BY <2>1, <2>2
  <1> QED BY <1>2, Zenon DEF Free

LEMMA NotLinking ==
    ASSUME NEW q, NEW h, NEW d \in Caller, ~Linking(req'[d])
    PROVE  Current(q, h, d)'
  <1>1. \/ req'[d].op # "fusion" /\ req'[d].op # "cancel"
        \/ ~Later(req'[d]) /\ req'[d].pc # "last"
    BY DEF Linking, Later
  <1> QED BY <1>1, Zenon DEF Current

(* Another request, when one writes.                                         *)
LEMMA OtherWritten ==
    ASSUME TypeOK, TypeOK', NEW p, NEW g, NEW q, NEW h, Traffic(p, g), NEW c \in Caller,
           Only(c), Uncrossed(c), Stored' = Stored,
           ~Half(req'[c]) \/ (req'[c].op = req[c].op /\ req'[c].pair = req[c].pair),
           NEW d \in Caller \ {c}, Linking(req[d]) => Undisturbed(p, g, q, h, d)
    PROVE  /\ Formed(req[d])' /\ Current(q, h, d)' /\ (Half(req'[d]) => Free(d)')
  <1>1. req'[d] = req[d] /\ Formed(req[d]) /\ Current(p, g, d)
    BY DEF Only, Traffic
  <1>2. Formed(req[d])'
    BY <1>1, FormedOf
  <1>3. CASE ~Linking(req[d])
    <2>1. ~Linking(req'[d]) /\ ~Half(req'[d])
      BY <1>1, <1>3, HalfLinks
    <2> QED BY <1>2, <2>1, NotLinking
  <1>4. CASE Linking(req[d])
    <2>1. ~Clash(req[d], req[c])
      BY <1>4, ClashBoth DEF Uncrossed
    <2>2. Free(d)' => Free(d)
      BY <2>1, FreeKept
    <2>3. ~(Half(req'[c]) /\ Clash(req'[d], req'[c]))
      <3>1. req'[c].op = req[c].op /\ req'[c].pair = req[c].pair =>
              (Clash(req[d], req'[c]) <=> Clash(req[d], req[c]))
        BY DEF Clash, Pair
      <3> QED BY <1>1, <2>1, <3>1
    <2>4. Half(req'[d]) => Free(d)'
      <3>1. Half(req[d]) => Free(d)
        BY DEF Traffic, Alone
      <3>2. Free(d) => Free(d)'
        BY <2>3, FreeKept
      <3> QED BY <1>1, <3>1, <3>2
    <2> DEFINE j == req[d].pair[1]
               i == req[d].pair[2]
    <2>5. /\ req[d].op = "fusion" =>
             /\ Len(docs'[i].num) >= Len(docs[i].num)
             /\ q[j] = i => p[j] = i \/ Len(docs'[i].num) > Len(docs[i].num)
             /\ req[d].pc = "last" => Links(docs'[j]) = Links(docs[j])
          /\ req[d].op = "cancel" =>
             /\ docs[i].dest = None => docs'[i].dest = None
             /\ docs[j].dest = None => docs'[j].dest = None
             /\ q[j] = i => p[j] = i /\ h[j] = g[j] /\ (docs[i].src = j => docs'[i].src = j)
      BY <1>4, Zenon DEF Undisturbed
    <2>6. Current(q, h, d)'
      <3> HIDE DEF j, i
      <3>1. j = req[d].pair[1] /\ i = req[d].pair[2] /\ Stored \subseteq Stored'
        BY DEF j, i
      <3> QED BY <1>1, <2>2, <2>5, <3>1, CurrentKept
    <2> QED BY <1>2, <2>4, <2>6
  <1> QED BY <1>3, <1>4

(* Two requests of the two kinds, in progress, have four identities.         *)
LEMMA FourOf ==
    ASSUME NEW c \in Caller, Uncrossed(c), NEW d \in Caller, Linking(req[d]),
           \/ req[c].op = "fusion" /\ req[d].op = "cancel"
           \/ req[c].op = "cancel" /\ req[d].op = "fusion"
    PROVE  /\ req[d].pair[1] # req[c].pair[1] /\ req[d].pair[1] # req[c].pair[2]
           /\ req[d].pair[2] # req[c].pair[1] /\ req[d].pair[2] # req[c].pair[2]
  <1>1. ~Clash(req[c], req[d])
    BY DEF Uncrossed
  <1> QED BY <1>1 DEF Clash, Pair

LEMMA HalfOngoing ==
    ASSUME NEW c \in Caller, NEW r, Only(c), ~Half(req[c]), req'[c] = r, Half(r)
    PROVE  /\ \A op, x, y : Ongoing(op, x, y) => Ongoing(op, x, y)'
           /\ Ongoing(r.op, r.pair[1], r.pair[2])'
  <1>1. ASSUME NEW op, NEW x, NEW y, Ongoing(op, x, y)
        PROVE  Ongoing(op, x, y)'
    <2>1. PICK e \in Caller : /\ Half(req[e]) /\ req[e].op = op
                              /\ req[e].pair[1] = x /\ req[e].pair[2] = y
      BY <1>1 DEF Ongoing
    <2>2. req'[e] = req[e]
      BY <2>1 DEF Only
    <2> QED BY <2>1, <2>2, Zenon DEF Ongoing
  <1>2. Ongoing(r.op, r.pair[1], r.pair[2])'
    BY Zenon DEF Ongoing
  <1> QED BY <1>1, <1>2

(* The document of identity 2 is written: it is linked or unlinked.          *)
LEMMA FirstTraffic ==
    ASSUME TypeOK, TypeOK', NEW p, NEW g, Traffic(p, g), NEW c \in Caller, NEW r,
           Only(c), Uncrossed(c), ~Half(req[c]), req'[c] = r, Half(r),
           r.op = req[c].op, r.pair = req[c].pair, Formed(r), Stored' = Stored,
           NEW j \in Stored, \A x \in Stored \ {j} : docs'[x] = docs[x],
           Links(docs'[j]) = Links(docs[j]) \/ p[j] = None \/ Ongoing("cancel", j, p[j])',
           NEW to, docs'[j].dest = to, to = None \/ Ongoing("fusion", j, to)',
           \A d \in Caller \ {c} : Linking(req[d]) => Undisturbed(p, g, p, g, d),
           Current(p, g, c)'
    PROVE  Traffic(p, g)'
  <1>1. \A op, x, y : Ongoing(op, x, y) => Ongoing(op, x, y)'
    BY HalfOngoing
  <1>2. Masters(p, g)'
    <2>1. ASSUME NEW x \in Id, p[x] # None
          PROVE  /\ x \in Stored' /\ p[x] \in Stored'
                 /\ \/ docs'[x].dest = p[x] /\ g[x] = Unprefixed(docs'[x].num)
                    \/ Ongoing("cancel", x, p[x])'
      <3>1. /\ x \in Stored /\ p[x] \in Stored
            /\ \/ docs[x].dest = p[x] /\ g[x] = Unprefixed(docs[x].num)
               \/ Ongoing("cancel", x, p[x])
        BY <2>1 DEF Traffic, Masters
      <3>2. CASE Links(docs'[x]) = Links(docs[x])
        <4>1. docs'[x].dest = docs[x].dest /\ docs'[x].num = docs[x].num
          BY <3>2 DEF Links
        <4> QED BY <1>1, <3>1, <4>1
      <3>3. CASE x = j /\ Ongoing("cancel", j, p[j])'
        BY <3>1, <3>3
      <3> QED BY <2>1, <3>1, <3>2, <3>3
    <2> QED BY <2>1, Zenon DEF Masters
  <1>3. Destined(p)'
    <2>1. ASSUME NEW x \in Stored', docs'[x].dest # None
          PROVE  p[x] = docs'[x].dest \/ Ongoing("fusion", x, docs[x].dest)'
      <3>1. CASE x = j
        BY <2>1, <3>1, Zenon
      <3>2. CASE x # j
        <4>1. docs'[x] = docs[x]
          BY <3>2
        <4>2. PICK y : y = docs[x].dest
          OBVIOUS
        <4>3. p[x] = y \/ Ongoing("fusion", x, y)
          BY <2>1, <4>1, <4>2 DEF Traffic, Destined
        <4>4. p[x] = y \/ Ongoing("fusion", x, y)'
          BY <1>1, <4>3
        <4> QED BY <4>1, <4>2, <4>4, Zenon
      <3> QED BY <3>1, <3>2
    <2> QED BY <2>1, Zenon DEF Destined
  <1>4. Formed(req[c])'
    BY FormedOf
  <1>5. Free(c)'
    BY StillFree
  <1>6. ASSUME NEW d \in Caller \ {c}
        PROVE  /\ Formed(req[d])' /\ Current(p, g, d)' /\ (Half(req'[d]) => Free(d)')
    BY OtherWritten
  <1>7. \A d \in Caller : Formed(req[d])' /\ Current(p, g, d)' /\ (Half(req'[d]) => Free(d)')
    BY <1>4, <1>5, <1>6
  <1>8. Alone'
    BY <1>7, Zenon DEF Alone
  <1> QED BY <1>2, <1>3, <1>7, <1>8, Zenon DEF Traffic

(* The fusion marks identity 2: the account is as it was, i does not count it*)
(* yet.                                                                      *)
LEMMA FusionFirst ==
    ASSUME TInv, TypeOK', NEW p, NEW g, Accounts(p, g), Traffic(p, g), NEW c \in Caller,
           req[c].op = "fusion", req[c].pc = "first", Write(req[c], 1), clean', own' = own,
           NEW r, req' = [req EXCEPT ![c] = r], r.op = req[c].op, r.pc = "last",
           r.pair = req[c].pair, r.from = req[c].from, r.to = req[c].to
    PROVE  Accounts(p, g)' /\ Traffic(p, g)'
  <1> DEFINE s == req[c]
             j == s.pair[1]
             i == s.pair[2]
             d2 == s.from[1]
             m == s.from[2]
             new == Merged(d2, i)
  <1>1. Formed(s) /\ Current(p, g, c) /\ TypeOK
    BY DEF Traffic, TInv
  <1>2. /\ j \in Stored /\ i \in Stored /\ j # i /\ d2 \in Doc /\ Tidy(d2) /\ m \in Doc /\ Tidy(m)
        /\ d2.dest = None /\ m.dest = None /\ s.to[1] = new /\ s.to[2] = Master(m, d2, j)
        /\ MasterRead(s) = m /\ Linking(s) /\ Later(s)
    BY <1>1, ReadyFusion
  <1>3. new.num = Prefixed(d2.num) /\ new.src = d2.src /\ new.dest = i /\ new.primary = d2.primary
    BY <1>2, MergedLinks
  <1>4. /\ Stored' = Stored /\ docs'[j] = new /\ \A x \in Stored \ {j} : docs'[x] = docs[x]
        /\ ~Crossed(s) /\ Links(docs[j]) \in {Links(d2), Links(new)}
    <2>1. PICK alone : alone = ~Crossed(s)
      OBVIOUS
    <2>2. Replace(j, d2, new, alone)
      BY <1>2, <2>1, Zenon DEF Write
    <2> HIDE DEF j, d2, new
    <2>3. /\ Stored' = Stored /\ docs'[j] = new /\ \A x \in Stored \ {j} : docs'[x] = docs[x]
          /\ alone /\ Links(docs[j]) \in {Links(d2), Links(new)}
      BY <1>1, <1>2, <2>2, ReplaceLinks
    <2> QED BY <2>1, <2>3, Zenon
  <1>5. Uncrossed(c)
    BY <1>4, NotCrossed
  <1>6. Free(c)
    BY <1>5, UncrossedFree
  <1> HIDE DEF new
  <1>7. Only(c) /\ req'[c] = r
    BY OneAtATime DEF TInv
  <1>8. Half(r) /\ ~Half(req[c])
    BY DEF Half
  <1>9. /\ \A op, x, y : Ongoing(op, x, y) => Ongoing(op, x, y)'
        /\ Ongoing("fusion", j, i)'
    BY <1>7, <1>8, HalfOngoing
  <1>10. Formed(r)
    BY <1>2, FormedFusion DEF new
  <1>11. ASSUME NEW e \in Caller, Half(req[e]), req[e].op = "cancel", req[e].pair[1] = j
         PROVE  FALSE
    BY <1>5, <1>11, FourOf, HalfLinks
  <1>12. None \notin Id /\ i \in Id /\ j \in Id
    BY <1>1, <1>2, StoredTyped, IdentitiesAssumption
  <1>13. Links(docs[j]) # Links(new) => Links(docs[j]) = Links(d2) /\ p[j] = None
    <2> SUFFICES ASSUME Links(docs[j]) = Links(d2), p[j] # None
                 PROVE  FALSE
      BY <1>4
    <2>1. docs[j].dest = None
      BY <1>2 DEF Links
    <2>2. Ongoing("cancel", j, p[j])
      BY <1>12, <2>1 DEF Traffic, Masters
    <2> QED BY <1>11, <2>2 DEF Ongoing
  <1>14. Accounts(p, g)'
    <2>1. \A x \in Id : p[x] # None => x \in Stored
      BY MastersStored
    <2>2. CASE Links(docs[j]) = Links(new)
      <3>1. \A x \in Stored : Links(docs'[x]) = Links(docs[x])
        BY <1>4, <2>2
      <3> QED BY <1>1, <1>4, <2>1, <3>1, AccountsKept DEF TypeOK
    <2>3. CASE Links(docs[j]) # Links(new)
      <3>1. docs[j].dest = None /\ docs[j].num = d2.num /\ docs[j].src = d2.src
        BY <1>2, <1>13, <2>3 DEF Links
      <3>2. /\ docs'[j].num = Prefixed(docs[j].num) /\ docs'[j].src = docs[j].src
            /\ docs'[j].dest = i
        BY <1>3, <1>4, <3>1
      <3> QED BY <1>1, <1>2, <1>4, <1>12, <1>13, <2>1, <2>3, <3>1, <3>2, AccountsMerged
    <2> QED BY <2>2, <2>3
  <1>15. ASSUME NEW d \in Caller \ {c}, Linking(req[d])
         PROVE  Undisturbed(p, g, p, g, d)
    <2> DEFINE k == req[d].pair[1]
               l == req[d].pair[2]
    <2>1. k \in Stored /\ l \in Stored
      BY <1>15 DEF Traffic, Formed
    <2>2. CASE req[d].op = "fusion"
      <3>1. Len(docs[l].num) \in Nat /\ Len(docs'[l].num) = Len(docs[l].num)
        <4>1. docs[l].num \in Seq(Entry)
          BY <1>1, <2>1, StoredTyped
        <4>2. CASE Links(docs'[l]) = Links(docs[l])
          BY <4>1, <4>2 DEF Links
        <4>3. CASE Links(docs'[l]) # Links(docs[l])
          <5>1. l = j /\ Links(docs[j]) = Links(d2)
            BY <1>4, <1>13, <2>1, <4>3
          <5>2. docs[l].num = d2.num /\ docs'[l].num = Prefixed(d2.num)
            BY <1>3, <1>4, <5>1 DEF Links
          <5>3. d2.num # <<>>
            BY <1>2 DEF Tidy
          <5>4. Prefixed(d2.num) = [d2.num EXCEPT ![1].gone = TRUE]
            BY <5>3, Zenon DEF Prefixed
          <5>5. Len([d2.num EXCEPT ![1].gone = TRUE]) = Len(d2.num)
            BY <4>1, <5>2, <5>3, FirstMarked
          <5> QED BY <4>1, <5>2, <5>4, <5>5
        <4> QED BY <4>2, <4>3
      <3>2. Len(docs'[l].num) >= Len(docs[l].num)
        BY <3>1
      <3>3. req[d].pc = "last" => Links(docs'[k]) = Links(docs[k])
        <4> SUFFICES ASSUME req[d].pc = "last", k = j, Links(docs[j]) # Links(new)
                     PROVE  FALSE
          BY <1>4, <2>1
        <4>1. Formed(req[d]) /\ Current(p, g, d)
          BY DEF Traffic
        <4>2. req[d].to[1] = Merged(req[d].from[1], l) /\ req[d].from[1] \in Doc
          BY <2>2, <4>1, ReadyFusion
        <4>3. Links(docs[j]) = Links(req[d].to[1])
          BY <2>2, <4>1, Zenon DEF Current
        <4>4. req[d].to[1].dest = l
          BY <4>2, MergedLinks
        <4>5. docs[j].dest = l /\ docs[j].dest = d2.dest
          BY <1>13, <4>3, <4>4 DEF Links
        <4> QED BY <1>1, <1>2, <1>12, <2>1, <4>5, StoredTyped
      <3> QED BY <2>2, <3>2, <3>3, Zenon DEF Undisturbed
    <2>3. CASE req[d].op = "cancel"
      <3>1. k # j /\ l # j
        BY <1>5, <1>15, <2>3, FourOf
      <3>2. docs'[k] = docs[k] /\ docs'[l] = docs[l]
        BY <1>4, <2>1, <3>1
      <3> QED BY <2>3, <3>2, Zenon DEF Undisturbed
    <2>4. req[d].op \in {"fusion", "cancel"}
      BY <1>15 DEF Linking
    <2> QED BY <2>2, <2>3, <2>4
  <1>16. Current(p, g, c)'
    <2>1. docs'[i] = docs[i]
      BY <1>2, <1>4
    <2>2. /\ Len(docs'[i].num) >= Len(m.num)
          /\ p[j] = i => Len(docs'[i].num) > Len(m.num)
      <3>1. /\ Len(docs[i].num) >= Len(m.num)
            /\ p[j] = i => Len(docs[i].num) > Len(m.num)
        BY <1>1, <1>2, <1>6, Zenon DEF Current
      <3> QED BY <2>1, <3>1
    <2>3. Links(docs'[j]) = Links(r.to[1])
      BY <1>2, <1>4
    <2>4. r.op # "cancel" /\ MasterRead(r) = m /\ r.pair[1] = j /\ r.pair[2] = i
      BY DEF MasterRead
    <2> QED BY <1>7, <2>2, <2>3, <2>4, Zenon DEF Current
  <1>17. /\ Links(docs'[j]) = Links(docs[j]) \/ p[j] = None
         /\ docs'[j].dest = i
    <2>1. Links(docs'[j]) = Links(docs[j]) \/ p[j] = None
      BY <1>4, <1>13
    <2>2. docs'[j].dest = i
      BY <1>3, <1>4
    <2> QED BY <2>1, <2>2
  <1>18. Traffic(p, g)'
    BY <1>1, <1>2, <1>4, <1>5, <1>7, <1>8, <1>9, <1>10, <1>15, <1>16, <1>17, FirstTraffic
  <1> QED BY <1>14, <1>18

(* The cancellation restores identity 2: the account is as it was, i still   *)
(* counts it.                                                                *)
LEMMA CancelFirst ==
    ASSUME TInv, TypeOK', NEW p, NEW g, Accounts(p, g), Traffic(p, g), NEW c \in Caller,
           req[c].op = "cancel", req[c].pc = "first", Write(req[c], 1), clean', own' = own,
           NEW r, req' = [req EXCEPT ![c] = r], r.op = req[c].op, r.pc = "last",
           r.pair = req[c].pair, r.from = req[c].from, r.to = req[c].to
    PROVE  Accounts(p, g)' /\ Traffic(p, g)'
  <1> DEFINE s == req[c]
             j == s.pair[1]
             i == s.pair[2]
             d2 == s.from[1]
             m == s.from[2]
             new == Restored(d2)
  <1>1. Formed(s) /\ Current(p, g, c) /\ TypeOK
    BY DEF Traffic, TInv
  <1>2. /\ j \in Stored /\ i \in Stored /\ j # i /\ d2 \in Doc /\ Tidy(d2) /\ m \in Doc /\ Tidy(m)
        /\ d2.dest = i /\ m.src = j /\ s.to[1] = new /\ s.to[2] = Released(m, d2)
        /\ MasterRead(s) = m /\ Linking(s) /\ Later(s)
    BY <1>1, ReadyCancel
  <1>3. /\ new.num = [d2.num EXCEPT ![1].gone = FALSE] /\ new.src = d2.src /\ new.dest = None
        /\ new.primary = d2.primary
    BY <1>2, RestoredLinks DEF Tidy
  <1>4. /\ Stored' = Stored /\ docs'[j] = new /\ \A x \in Stored \ {j} : docs'[x] = docs[x]
        /\ ~Crossed(s) /\ Links(docs[j]) \in {Links(d2), Links(new)}
    <2>1. PICK alone : alone = ~Crossed(s)
      OBVIOUS
    <2>2. Replace(j, d2, new, alone)
      BY <1>2, <2>1, Zenon DEF Write
    <2> HIDE DEF j, d2, new
    <2>3. /\ Stored' = Stored /\ docs'[j] = new /\ \A x \in Stored \ {j} : docs'[x] = docs[x]
          /\ alone /\ Links(docs[j]) \in {Links(d2), Links(new)}
      BY <1>1, <1>2, <2>2, ReplaceLinks
    <2> QED BY <2>1, <2>3, Zenon
  <1>5. Uncrossed(c) /\ m.dest = None
    BY <1>4, NotCrossed
  <1>6. Free(c)
    BY <1>5, UncrossedFree
  <1> HIDE DEF new
  <1>7. Only(c) /\ req'[c] = r
    BY OneAtATime DEF TInv
  <1>8. Half(r) /\ ~Half(req[c])
    BY DEF Half
  <1>9. /\ \A op, x, y : Ongoing(op, x, y) => Ongoing(op, x, y)'
        /\ Ongoing("cancel", j, i)'
    BY <1>7, <1>8, HalfOngoing
  <1>10. Formed(r)
    BY <1>2, FormedCancel DEF new
  <1>11. None \notin Id /\ i \in Id /\ j \in Id
    BY <1>1, <1>2, StoredTyped, IdentitiesAssumption
  <1>12. /\ docs[i].dest = None
         /\ p[j] = i => docs[i].src = j /\ g[j] = Unprefixed(d2.num)
    BY <1>1, <1>2, <1>5, <1>6, Zenon DEF Current
  <1>13. docs[j].src = d2.src /\ docs[j].src = new.src
    BY <1>3, <1>4 DEF Links
  <1>14. Links(docs[j]) # Links(new) =>
           /\ docs[j].dest = i /\ docs[j].num = d2.num /\ p[j] = i
    <2> SUFFICES ASSUME Links(docs[j]) = Links(d2)
                 PROVE  docs[j].dest = i /\ docs[j].num = d2.num /\ p[j] = i
      BY <1>4
    <2>1. docs[j].dest = i /\ docs[j].num = d2.num
      BY <1>2 DEF Links
    <2>2. p[j] = i \/ Ongoing("fusion", j, i)
      BY <1>2, <1>11, <2>1 DEF Traffic, Destined
    <2>3. ASSUME Ongoing("fusion", j, i)
          PROVE  FALSE
      <3>1. PICK e \in Caller : Half(req[e]) /\ req[e].op = "fusion" /\ req[e].pair[1] = j
        BY <2>3 DEF Ongoing
      <3> QED BY <1>5, <3>1, FourOf, HalfLinks
    <2> QED BY <2>1, <2>2, <2>3
  <1>15. Accounts(p, g)'
    <2>1. \A x \in Id : p[x] # None => x \in Stored
      BY MastersStored
    <2>2. CASE Links(docs[j]) = Links(new)
      <3>1. \A x \in Stored : Links(docs'[x]) = Links(docs[x])
        BY <1>4, <2>2
      <3> QED BY <1>1, <1>4, <2>1, <3>1, AccountsKept DEF TypeOK
    <2>3. CASE Links(docs[j]) # Links(new)
      <3>1. docs[j].dest = i /\ docs[j].num = d2.num /\ p[j] = i /\ g[j] = Unprefixed(docs[j].num)
        BY <1>12, <1>14, <2>3
      <3>2. /\ docs'[j].num = [docs[j].num EXCEPT ![1].gone = FALSE]
            /\ docs'[j].src = docs[j].src /\ docs'[j].dest = None
        BY <1>3, <1>4, <1>13, <3>1
      <3> HIDE DEF i, j, d2, m
      <3> QED BY <1>1, <1>2, <1>4, <1>12, <2>1, <3>1, <3>2, AccountsRestored
    <2> QED BY <2>2, <2>3
  <1>16. docs'[j].src = docs[j].src /\ docs'[j].dest = None
    BY <1>3, <1>4, <1>13
  <1>17. ASSUME NEW d \in Caller \ {c}, Linking(req[d])
         PROVE  Undisturbed(p, g, p, g, d)
    <2> DEFINE k == req[d].pair[1]
               l == req[d].pair[2]
    <2>1. k \in Stored /\ l \in Stored
      BY <1>17 DEF Traffic, Formed
    <2>2. CASE req[d].op = "fusion"
      <3>1. k # j /\ l # j
        BY <1>5, <1>17, <2>2, FourOf
      <3>2. docs'[k] = docs[k] /\ docs'[l] = docs[l]
        BY <1>4, <2>1, <3>1
      <3>3. Len(docs[l].num) \in Nat
        BY <1>1, <2>1, StoredTyped
      <3>4. Len(docs'[l].num) >= Len(docs[l].num)
        BY <3>2, <3>3
      <3> QED BY <2>2, <3>2, <3>4, Zenon DEF Undisturbed
    <2>3. CASE req[d].op = "cancel"
      <3>1. docs'[l].src = docs[l].src
        BY <1>4, <1>16, <2>1
      <3>2. /\ docs[l].dest = None => docs'[l].dest = None
            /\ docs[k].dest = None => docs'[k].dest = None
        BY <1>4, <1>16, <2>1
      <3> QED BY <2>3, <3>1, <3>2, Zenon DEF Undisturbed
    <2>4. req[d].op \in {"fusion", "cancel"}
      BY <1>17 DEF Linking
    <2> QED BY <2>2, <2>3, <2>4
  <1>18. Current(p, g, c)'
    <2>1. docs'[i] = docs[i]
      BY <1>2, <1>4
    <2>2. /\ m.dest = None => docs'[i].dest = None
          /\ p[j] = i /\ m.src = j => docs'[i].src = j
          /\ p[j] = i => g[j] = Unprefixed(d2.num)
          /\ m.dest = None /\ docs'[j].dest = None /\ docs'[i].dest = None
      BY <1>5, <1>12, <1>16, <2>1
    <2>3. r.op # "fusion" /\ MasterRead(r) = m /\ r.pair[1] = j /\ r.pair[2] = i /\ r.from[1] = d2
      BY DEF MasterRead
    <2> HIDE DEF d2, m, i, j
    <2> QED BY <1>7, <2>2, <2>3, Zenon DEF Current
  <1>19. Links(docs'[j]) = Links(docs[j]) \/ Ongoing("cancel", j, p[j])'
    <2>1. CASE Links(docs[j]) = Links(new)
      BY <1>4, <2>1
    <2>2. CASE Links(docs[j]) # Links(new)
      BY <1>9, <1>14, <2>2
    <2> QED BY <2>1, <2>2
  <1>20. Traffic(p, g)'
    <2> HIDE DEF d2, m, i
    <2> QED BY <1>1, <1>2, <1>4, <1>5, <1>7, <1>8, <1>10, <1>16, <1>17, <1>18, <1>19, FirstTraffic
  <1> QED BY <1>15, <1>20

LEMMA WriteFirstNInv ==
    ASSUME TInv, TypeOK', NInv, NEW c \in Caller, WriteFirst(c)
    PROVE  NInv'
  <1> DEFINE s == req[c]
             r == [s EXCEPT !.pc = "last"]
  <1>1. /\ s.pc = "first" /\ own' = own
        /\ Ends(c) \/ (Write(s, 1) /\ req' = [req EXCEPT ![c] = r])
    BY Zenon DEF WriteFirst
  <1>2. CASE Ends(c) \/ s.op \notin {"fusion", "cancel"}
    BY <1>2, MarkFirstNInv
  <1>3. CASE s.op \in {"fusion", "cancel"} /\ Write(s, 1) /\ req' = [req EXCEPT ![c] = r]
    <2>1. DOMAIN s = RequestFields
      BY DEF TInv, SInv, Shapes
    <2>2. r.op = s.op /\ r.pc = "last" /\ r.pair = s.pair /\ r.from = s.from /\ r.to = s.to
      BY <2>1 DEF RequestFields
    <2> HIDE DEF r
    <2>3. ASSUME clean'
          PROVE  NInv'
      <3>1. clean
        BY <1>3, <2>3, Zenon DEF Write, Replace
      <3>2. PICK p, g : Accounts(p, g) /\ Traffic(p, g)
        BY <3>1 DEF NInv
      <3>3. Accounts(p, g)' /\ Traffic(p, g)'
        BY <1>1, <1>3, <2>2, <2>3, <3>2, FusionFirst, CancelFirst
      <3> QED BY <3>3, Zenon DEF NInv
    <2> QED BY <2>3, Zenon DEF NInv
  <1> QED BY <1>1, <1>2, <1>3

-----------------------------------------------------------------------------
(* The last write, that of identity 1: the account of the masters changes.   *)

LEMMA OngoingStill ==
    ASSUME NEW c \in Caller, Only(c), NEW op, NEW x, NEW y, Ongoing(op, x, y),
           op # req[c].op \/ x # req[c].pair[1] \/ y # req[c].pair[2]
    PROVE  Ongoing(op, x, y)'
  <1>1. PICK e \in Caller : /\ Half(req[e]) /\ req[e].op = op
                            /\ req[e].pair[1] = x /\ req[e].pair[2] = y
    BY DEF Ongoing
  <1>2. req'[e] = req[e]
    BY <1>1 DEF Only
  <1> QED BY <1>1, <1>2, Zenon DEF Ongoing

LEMMA SameUndisturbed ==
    ASSUME TypeOK, NEW p, NEW g, NEW d \in Caller, Linking(req[d]), Formed(req[d]),
           \A x \in Stored : Links(docs'[x]) = Links(docs[x])
    PROVE  Undisturbed(p, g, p, g, d)
  <1> DEFINE k == req[d].pair[1]
             l == req[d].pair[2]
  <1>1. k \in Stored /\ l \in Stored
    BY DEF Formed
  <1>2. /\ docs'[l].num = docs[l].num /\ docs'[l].dest = docs[l].dest
        /\ docs'[l].src = docs[l].src /\ docs'[k].dest = docs[k].dest
    BY <1>1 DEF Links
  <1>3. Len(docs[l].num) \in Nat
    BY <1>1, StoredTyped
  <1>4. Len(docs'[l].num) >= Len(docs[l].num) /\ Links(docs'[k]) = Links(docs[k])
    BY <1>1, <1>2, <1>3
  <1> QED BY <1>2, <1>4, Zenon DEF Undisturbed

(* The document of identity 1 is written.                                    *)
LEMMA LastTraffic ==
    ASSUME TypeOK, TypeOK', NEW p, NEW g, NEW q, NEW h, Traffic(p, g), NEW c \in Caller,
           Only(c), Uncrossed(c), req'[c] = Idle, Stored' = Stored,
           Masters(q, h)', Destined(q)',
           \A d \in Caller \ {c} : Linking(req[d]) => Undisturbed(p, g, q, h, d)
    PROVE  Traffic(q, h)'
  <1>1. ~Half(req'[c]) /\ Formed(req[c])' /\ Current(q, h, c)'
    BY IdleAloof, AloofFormed
  <1>2. ASSUME NEW d \in Caller \ {c}
        PROVE  /\ Formed(req[d])' /\ Current(q, h, d)' /\ (Half(req'[d]) => Free(d)')
    BY <1>1, OtherWritten
  <1>3. \A d \in Caller : Formed(req[d])' /\ Current(q, h, d)' /\ (Half(req'[d]) => Free(d)')
    BY <1>1, <1>2
  <1>4. Alone'
    BY <1>3, Zenon DEF Alone
  <1> QED BY <1>3, <1>4, Zenon DEF Traffic

(* Identity 1 is written as it already was.                                  *)
LEMMA LastAgain ==
    ASSUME TypeOK, TypeOK', NEW p, NEW g, Accounts(p, g), Traffic(p, g), NEW c \in Caller,
           Only(c), Uncrossed(c), req'[c] = Idle, Stored' = Stored, own' = own,
           \A x \in Stored : Links(docs'[x]) = Links(docs[x]),
           req[c].op = "fusion" => p[req[c].pair[1]] = req[c].pair[2],
           req[c].op = "cancel" => p[req[c].pair[1]] # req[c].pair[2]
    PROVE  Accounts(p, g)' /\ Traffic(p, g)'
  <1>1. Accounts(p, g)'
    <2>1. \A x \in Id : p[x] # None => x \in Stored
      BY MastersStored
    <2> QED BY <2>1, AccountsKept DEF TypeOK
  <1>2. \A x \in Stored : docs'[x].dest = docs[x].dest /\ docs'[x].num = docs[x].num
    BY DEF Links
  <1>3. Masters(p, g)'
    <2>1. ASSUME NEW x \in Id, p[x] # None
          PROVE  /\ x \in Stored' /\ p[x] \in Stored'
                 /\ \/ docs'[x].dest = p[x] /\ g[x] = Unprefixed(docs'[x].num)
                    \/ Ongoing("cancel", x, p[x])'
      <3>1. /\ x \in Stored /\ p[x] \in Stored
            /\ \/ docs[x].dest = p[x] /\ g[x] = Unprefixed(docs[x].num)
               \/ Ongoing("cancel", x, p[x])
        BY <2>1 DEF Traffic, Masters
      <3>2. "cancel" # req[c].op \/ x # req[c].pair[1] \/ p[x] # req[c].pair[2]
        OBVIOUS
      <3>3. Ongoing("cancel", x, p[x]) => Ongoing("cancel", x, p[x])'
        BY <3>2, OngoingStill
      <3> QED BY <1>2, <3>1, <3>3
    <2> QED BY <2>1, Zenon DEF Masters
  <1>4. Destined(p)'
    <2>1. ASSUME NEW x \in Stored', docs'[x].dest # None
          PROVE  p[x] = docs'[x].dest \/ Ongoing("fusion", x, docs[x].dest)'
      <3>1. PICK y : y = docs[x].dest
        OBVIOUS
      <3>2. docs'[x].dest = y
        BY <1>2, <3>1
      <3>3. p[x] = y \/ Ongoing("fusion", x, y)
        BY <2>1, <3>1, <3>2 DEF Traffic, Destined
      <3>4. p[x] = y \/ "fusion" # req[c].op \/ x # req[c].pair[1] \/ y # req[c].pair[2]
        OBVIOUS
      <3>5. p[x] = y \/ Ongoing("fusion", x, y)'
        BY <3>3, <3>4, OngoingStill
      <3> QED BY <3>2, <3>5, Zenon
    <2> QED BY <2>1, Zenon DEF Destined
  <1>5. ASSUME NEW d \in Caller \ {c}, Linking(req[d])
        PROVE  Undisturbed(p, g, p, g, d)
    BY <1>5, SameUndisturbed DEF Traffic
  <1>6. Traffic(p, g)'
    BY <1>3, <1>4, <1>5, LastTraffic
  <1> QED BY <1>1, <1>6

(* What the account says of identity j is what its document says.            *)
Recorded(q, h, i, j) ==
    \/ q[j] = None /\ docs[j].dest = None
    \/ q[j] = i /\ docs[j].dest = i /\ h[j] = Unprefixed(docs[j].num)

(* The account of the masters changes for identity j only.                   *)
LEMMA OneMaster ==
    ASSUME TypeOK, NEW p, NEW g, NEW q, NEW h, Traffic(p, g), NEW c \in Caller, Only(c),
           Stored' = Stored, NEW i \in Stored, \A x \in Stored \ {i} : docs'[x] = docs[x],
           docs[i].dest = None, docs'[i].dest = None,
           NEW j \in Stored, i # j, j = req[c].pair[1],
           \A x \in Id \ {j} : q[x] = p[x] /\ h[x] = g[x],
           Recorded(q, h, i, j)
    PROVE  Masters(q, h)'
  <1>1. ASSUME NEW x \in Id, q[x] # None
        PROVE  /\ x \in Stored' /\ q[x] \in Stored'
               /\ \/ docs'[x].dest = q[x] /\ h[x] = Unprefixed(docs'[x].num)
                  \/ Ongoing("cancel", x, q[x])'
    <2>1. CASE x = j
      <3>1. docs'[x] = docs[x] /\ q[x] = i /\ docs[x].dest = i /\ h[x] = Unprefixed(docs[x].num)
        BY <1>1, <2>1 DEF Recorded
      <3> QED BY <2>1, <3>1
    <2>2. CASE x # j
      <3>1. q[x] = p[x] /\ h[x] = g[x]
        BY <2>2
      <3>2. /\ x \in Stored /\ p[x] \in Stored
            /\ \/ docs[x].dest = p[x] /\ g[x] = Unprefixed(docs[x].num)
               \/ Ongoing("cancel", x, p[x])
        BY <1>1, <3>1 DEF Traffic, Masters
      <3>3. CASE docs[x].dest = p[x] /\ g[x] = Unprefixed(docs[x].num)
        <4>1. x # i
          BY <1>1, <3>1, <3>3
        <4> QED BY <3>1, <3>2, <3>3, <4>1
      <3>4. CASE Ongoing("cancel", x, p[x])
        <4>1. Ongoing("cancel", x, p[x])'
          BY <2>2, <3>4, OngoingStill
        <4> QED BY <3>1, <3>2, <4>1
      <3> QED BY <3>2, <3>3, <3>4
    <2> QED BY <2>1, <2>2
  <1> QED BY <1>1, Zenon DEF Masters

LEMMA OneDestined ==
    ASSUME TypeOK, NEW p, NEW g, NEW q, NEW h, Traffic(p, g), NEW c \in Caller, Only(c),
           Stored' = Stored, NEW i \in Stored, \A x \in Stored \ {i} : docs'[x] = docs[x],
           docs[i].dest = None, docs'[i].dest = None,
           NEW j \in Stored, i # j, j = req[c].pair[1],
           \A x \in Id \ {j} : q[x] = p[x] /\ h[x] = g[x],
           Recorded(q, h, i, j)
    PROVE  Destined(q)'
  <1>0. None \notin Id /\ Stored \subseteq Id
    BY IdentitiesAssumption DEF TypeOK
  <1>1. ASSUME NEW x \in Stored', docs'[x].dest # None
        PROVE  q[x] = docs'[x].dest \/ Ongoing("fusion", x, docs[x].dest)'
    <2>1. CASE x = j
      BY <1>1, <2>1 DEF Recorded
    <2>2. CASE x # j
      <3>1. x # i /\ docs'[x] = docs[x] /\ q[x] = p[x]
        BY <1>0, <1>1, <2>2
      <3>2. PICK y : y = docs[x].dest
        OBVIOUS
      <3>3. p[x] = y \/ Ongoing("fusion", x, y)
        BY <1>1, <3>1, <3>2 DEF Traffic, Destined
      <3>4. p[x] = y \/ Ongoing("fusion", x, y)'
        BY <2>2, <3>3, OngoingStill
      <3> QED BY <3>1, <3>2, <3>4, Zenon
    <2> QED BY <2>1, <2>2
  <1> QED BY <1>1, Zenon DEF Destined

(* The fusion writes its master: i counts j from now on, unless it           *)
(* did already.                                                              *)
LEMMA FusionLast ==
    ASSUME TInv, TypeOK', NEW p, NEW g, Accounts(p, g), Traffic(p, g), NEW c \in Caller,
           req[c].op = "fusion", req[c].pc = "last", Write(req[c], 2), clean', own' = own, Ends(c)
    PROVE  \E q, h : Accounts(q, h)' /\ Traffic(q, h)'
  <1> DEFINE s == req[c]
             j == s.pair[1]
             i == s.pair[2]
             d2 == s.from[1]
             m == s.from[2]
             new == Master(m, d2, j)
  <1>1. Formed(s) /\ Current(p, g, c) /\ TypeOK
    BY DEF Traffic, TInv
  <1>2. /\ j \in Stored /\ i \in Stored /\ j # i /\ d2 \in Doc /\ Tidy(d2) /\ m \in Doc /\ Tidy(m)
        /\ d2.dest = None /\ m.dest = None /\ s.to[1] = Merged(d2, i) /\ s.to[2] = new
        /\ MasterRead(s) = m /\ Linking(s) /\ Later(s)
    BY <1>1, ReadyFusion
  <1>3. new.num = Cat(m.num, d2.num) /\ new.src = j /\ new.dest = None
    <2>1. m \in Doc /\ m.dest = None
      BY <1>2
    <2> HIDE DEF m, d2, j
    <2>0. PICK e : e = Master(m, d2, j)
      OBVIOUS
    <2>2. e.num = Cat(m.num, d2.num) /\ e.src = j /\ e.dest = m.dest
      BY <2>0, <2>1, MasterLinks
    <2> QED BY <2>0, <2>1, <2>2 DEF new
  <1>4. /\ Stored' = Stored /\ docs'[i] = new /\ \A x \in Stored \ {i} : docs'[x] = docs[x]
        /\ ~Crossed(s) /\ Links(docs[i]) \in {Links(m), Links(new)}
    <2>1. PICK alone : alone = ~Crossed(s)
      OBVIOUS
    <2>2. Replace(i, m, new, alone)
      BY <1>2, <2>1, Zenon DEF Write
    <2> HIDE DEF i, m, new
    <2>3. /\ Stored' = Stored /\ docs'[i] = new /\ \A x \in Stored \ {i} : docs'[x] = docs[x]
          /\ alone /\ Links(docs[i]) \in {Links(m), Links(new)}
      BY <1>1, <1>2, <2>2, ReplaceLinks
    <2> QED BY <2>1, <2>3, Zenon
  <1>5. Uncrossed(c)
    BY <1>4, NotCrossed
  <1>6. Free(c)
    BY <1>5, UncrossedFree
  <1> HIDE DEF new
  <1>7. Only(c) /\ req'[c] = Idle
    BY OneAtATime DEF TInv, Ends
  <1>8. None \notin Id /\ i \in Id /\ j \in Id
    BY <1>1, <1>2, StoredTyped, IdentitiesAssumption
  <1>9. /\ Len(docs[i].num) >= Len(m.num)
        /\ p[j] = i => Len(docs[i].num) > Len(m.num)
        /\ Links(docs[j]) = Links(Merged(d2, i))
    BY <1>1, <1>2, <1>6, Zenon DEF Current
  <1>10. docs[j].dest = i /\ docs[j].num = Prefixed(d2.num)
    <2> DEFINE e == Merged(d2, i)
    <2>1. e.num = Prefixed(d2.num) /\ e.dest = i
      BY <1>2, MergedLinks
    <2> HIDE DEF e
    <2>2. Links(docs[j]) = Links(e)
      BY <1>9 DEF e
    <2> QED BY <2>1, <2>2 DEF Links
  <1>11. \A x \in Id : p[x] # None => x \in Stored
    BY MastersStored
  <1>12. CASE p[j] = i
    <2>1. Links(docs[i]) # Links(m)
      <3> SUFFICES ASSUME Links(docs[i]) = Links(m)
                   PROVE  FALSE
        OBVIOUS
      <3>1. docs[i].num = m.num
        BY DEF Links
      <3>2. Len(m.num) \in Nat /\ Len(m.num) > Len(m.num)
        <4>1. m.num \in Seq(Entry)
          BY <1>2 DEF Doc
        <4> QED BY <1>9, <1>12, <3>1, <4>1
      <3> QED BY <3>2
    <2>2. \A x \in Stored : Links(docs'[x]) = Links(docs[x])
      BY <1>4, <2>1
    <2> HIDE DEF m, d2
    <2> QED BY <1>1, <1>4, <1>5, <1>7, <1>12, <2>2, LastAgain
  <1>13. CASE p[j] # i
    <2>1. p[j] = None
      <3> SUFFICES ASSUME p[j] # None
                   PROVE  FALSE
        OBVIOUS
      <3>1. Ongoing("cancel", j, p[j])
        BY <1>8, <1>10, <1>13 DEF Traffic, Masters
      <3>2. PICK e \in Caller : Half(req[e]) /\ req[e].op = "cancel" /\ req[e].pair[1] = j
        BY <3>1 DEF Ongoing
      <3> QED BY <1>5, <3>2, FourOf, HalfLinks
    <2>2. docs[i].num = m.num /\ docs[i].dest = None
      <3>1. Links(docs[i]) # Links(new)
        <4> SUFFICES ASSUME docs[i].src = j
                     PROVE  FALSE
          BY <1>3 DEF Links
        <4>1. p[docs[i].src] = i
          BY <1>2, <1>8 DEF Accounts, Sourced
        <4> QED BY <1>13, <4>1
      <3> QED BY <1>2, <1>4, <3>1 DEF Links
    <2>3. \A x \in Id : p[x] \in {i, j} => docs[x].dest = p[x]
      <3> SUFFICES ASSUME NEW x \in Id, p[x] \in {i, j}, docs[x].dest # p[x]
                   PROVE  FALSE
        OBVIOUS
      <3>1. Ongoing("cancel", x, p[x])
        BY <1>8 DEF Traffic, Masters
      <3>2. PICK e \in Caller : Half(req[e]) /\ req[e].op = "cancel" /\ req[e].pair[2] = p[x]
        BY <3>1 DEF Ongoing
      <3> QED BY <1>5, <3>2, FourOf, HalfLinks
    <2>4. /\ d2.num \in Seq(Entry) /\ d2.num # <<>> /\ DOMAIN d2.num = DOMAIN docs[j].num
          /\ \A k \in DOMAIN d2.num :
               d2.num[k].of = docs[j].num[k].of /\ d2.num[k].gone = FALSE
      <3>1. d2.num \in Seq(Entry) /\ d2.num # <<>> /\ \A k \in DOMAIN d2.num : ~d2.num[k].gone
        BY <1>2 DEF Doc, Tidy
      <3>2. \A k \in DOMAIN d2.num : d2.num[k].gone = FALSE
        <4> SUFFICES ASSUME NEW k \in DOMAIN d2.num
                     PROVE  d2.num[k].gone = FALSE
          OBVIOUS
        <4>1. d2.num[k] \in Entry
          BY <3>1
        <4>2. d2.num[k].gone \in BOOLEAN
          BY <4>1 DEF Entry
        <4> QED BY <3>1, <4>2
      <3>3. docs[j].num = [d2.num EXCEPT ![1].gone = TRUE]
        BY <1>10, <3>1, Zenon DEF Prefixed
      <3> DEFINE t == [d2.num EXCEPT ![1].gone = TRUE]
      <3>4. DOMAIN t = DOMAIN d2.num /\ \A k \in DOMAIN d2.num : t[k].of = d2.num[k].of
        BY <3>1, FirstMarked
      <3> HIDE DEF t
      <3>5. docs[j].num = t
        BY <3>3 DEF t
      <3> QED BY <3>1, <3>2, <3>4, <3>5
    <2>7. PICK q, h : /\ q = [p EXCEPT ![j] = i]
                      /\ h = [g EXCEPT ![j] = Unprefixed(docs[j].num)]
      OBVIOUS
    <2>5. /\ q[j] = i /\ h[j] = Unprefixed(docs[j].num)
          /\ \A x \in Id \ {j} : q[x] = p[x] /\ h[x] = g[x]
      BY <1>8, <2>7 DEF Accounts, Ghosts
    <2>6. docs'[i].num = Cat(docs[i].num, d2.num) /\ docs'[i].src = j /\ docs'[i].dest = None
      BY <1>3, <1>4, <2>2
    <2>8. Accounts(q, h)'
      <3> DEFINE t == d2.num
      <3>1. Cleared(t, j) /\ docs'[i].num = Cat(docs[i].num, t)
        BY <2>4, <2>6 DEF Cleared
      <3>6. Recounted(p, g, q, h, j, i)
        BY <2>7 DEF Recounted
      <3>2. j \in Stored /\ i \in Stored /\ i # j
        BY <1>2
      <3> HIDE DEF i, j, t
      <3>3. \A x \in Stored \ {i} : docs'[x] = docs[x]
        BY <1>4
      <3>4. p[j] = None /\ docs[j].dest = i /\ docs[i].dest = None
        BY <1>10, <2>1, <2>2
      <3>5. docs'[i].src = j /\ docs'[i].dest = None /\ Stored' = Stored /\ TypeOK
        BY <1>1, <1>4, <2>6
      <3> QED BY <1>11, <2>3, <3>6, <3>1, <3>2, <3>3, <3>4, <3>5, AccountsJoined
    <2>9. Masters(q, h)' /\ Destined(q)'
      <3>1. /\ TypeOK /\ Only(c) /\ Stored' = Stored /\ i \in Stored /\ j \in Stored /\ i # j
            /\ docs[i].dest = None /\ docs'[i].dest = None /\ j = req[c].pair[1]
            /\ Recorded(q, h, i, j)
        BY <1>1, <1>2, <1>4, <1>7, <1>10, <2>2, <2>5, <2>6 DEF Recorded
      <3>2. /\ \A x \in Stored \ {i} : docs'[x] = docs[x]
            /\ \A x \in Id \ {j} : q[x] = p[x] /\ h[x] = g[x]
        BY <1>4, <2>5
      <3> HIDE DEF i, j
      <3>3. Masters(q, h)'
        BY <3>1, <3>2, OneMaster
      <3>4. Destined(q)'
        BY <3>1, <3>2, OneDestined
      <3> QED BY <3>3, <3>4
    <2>10. ASSUME NEW d \in Caller \ {c}, Linking(req[d])
           PROVE  Undisturbed(p, g, q, h, d)
      <3> DEFINE k == req[d].pair[1]
                 l == req[d].pair[2]
      <3>1. k \in Stored /\ l \in Stored /\ k \in Id
        BY <1>1, <2>10 DEF Traffic, Formed, TypeOK
      <3>2. CASE req[d].op = "fusion"
        <4>1. /\ Len(docs[l].num) \in Nat /\ Len(docs'[l].num) \in Nat
              /\ l # i => Len(docs'[l].num) = Len(docs[l].num)
              /\ l = i => Len(docs'[l].num) > Len(docs[l].num)
          <5>1. docs[l].num \in Seq(Entry)
            BY <1>1, <3>1, StoredTyped
          <5>2. l = i => docs'[l].num = docs[l].num \o d2.num
            BY <2>6 DEF Cat
          <5>3. Len(d2.num) > 0 /\ Len(d2.num) \in Nat
            <6> DEFINE b == d2.num
            <6>1. b \in Seq(Entry) /\ b # <<>>
              BY <2>4
            <6> HIDE DEF b
            <6>2. Len(b) > 0 /\ Len(b) \in Nat
              BY <6>1
            <6> QED BY <6>2 DEF b
          <5>4. Len(docs[l].num \o d2.num) = Len(docs[l].num) + Len(d2.num)
            <6>1. d2.num \in Seq(Entry)
              BY <2>4
            <6> DEFINE a == docs[l].num
                       b == d2.num
            <6> HIDE DEF a, b
            <6>2. a \in Seq(Entry) /\ b \in Seq(Entry)
              BY <5>1, <6>1 DEF a, b
            <6>3. Len(a \o b) = Len(a) + Len(b)
              BY <6>2
            <6> QED BY <6>3 DEF a, b
          <5>6. l # i => docs'[l] = docs[l]
            BY <1>4, <3>1
          <5>7. Len(docs[l].num) \in Nat
            BY <5>1
          <5> DEFINE a == Len(docs[l].num)
                     b == Len(d2.num)
                     e == Len(docs'[l].num)
          <5>8. (l # i => e = a) /\ (l = i => e = a + b)
            BY <5>2, <5>4, <5>6
          <5>9. e \in Nat
            BY <1>4, <3>1, NextTyped
          <5> DEFINE same == l = i
          <5>10. b > 0 /\ b \in Nat /\ a \in Nat /\ (~same => e = a) /\ (same => e = a + b)
            BY <5>3, <5>7, <5>8
          <5> HIDE DEF a, b, e, same
          <5>11. (~same => e = a) /\ (same => e > a) /\ e \in Nat
            BY <5>9, <5>10
          <5> HIDE DEF l, i
          <5> QED BY <5>10, <5>11 DEF a, e, same
        <4>2. Len(docs'[l].num) >= Len(docs[l].num)
          <5> DEFINE a == Len(docs[l].num)
                     e == Len(docs'[l].num)
          <5> HIDE DEF a, e, l, i
          <5>1. a \in Nat /\ e \in Nat /\ (l # i => e = a) /\ (l = i => e > a)
            BY <4>1 DEF a, e
          <5>2. e >= a
            BY <5>1
          <5> QED BY <5>2 DEF a, e
        <4>3. q[k] = l => p[k] = l \/ Len(docs'[l].num) > Len(docs[l].num)
          BY <2>5, <3>1, <4>1
        <4>4. req[d].pc = "last" => Links(docs'[k]) = Links(docs[k])
          <5> SUFFICES ASSUME req[d].pc = "last", k = i
                       PROVE  FALSE
            BY <1>4, <3>1
          <5>1. Formed(req[d]) /\ Current(p, g, d)
            BY DEF Traffic
          <5>2. req[d].to[1] = Merged(req[d].from[1], l) /\ req[d].from[1] \in Doc
            BY <3>2, <5>1, ReadyFusion
          <5>3. Links(docs[k]) = Links(req[d].to[1])
            BY <3>2, <5>1, Zenon DEF Current
          <5>4. req[d].to[1].dest = l
            BY <5>2, MergedLinks
          <5>5. docs[i].dest = l
            BY <5>3, <5>4 DEF Links
          <5> QED BY <1>1, <1>8, <2>2, <3>1, <5>5, StoredTyped
        <4> QED BY <3>2, <4>2, <4>3, <4>4, Zenon DEF Undisturbed
      <3>3. CASE req[d].op = "cancel"
        <4>1. k # j /\ k # i /\ l # i
          BY <1>5, <2>10, <3>3, FourOf
        <4>2. docs'[k] = docs[k] /\ docs'[l] = docs[l] /\ q[k] = p[k] /\ h[k] = g[k]
          BY <1>4, <2>5, <3>1, <4>1
        <4> QED BY <3>3, <4>2, Zenon DEF Undisturbed
      <3>4. req[d].op \in {"fusion", "cancel"}
        BY <2>10 DEF Linking
      <3> QED BY <3>2, <3>3, <3>4
    <2>11. Traffic(q, h)'
      <3> HIDE DEF i, j, m, d2
      <3>1. TypeOK /\ Stored' = Stored /\ Uncrossed(c) /\ Only(c) /\ req'[c] = Idle
        BY <1>1, <1>4, <1>5, <1>7
      <3>2. \A d \in Caller \ {c} : Linking(req[d]) => Undisturbed(p, g, q, h, d)
        BY <2>10
      <3> QED BY <2>9, <3>1, <3>2, LastTraffic
    <2> QED BY <2>8, <2>11
  <1> QED BY <1>12, <1>13

(* The cancellation writes its master: i does not count j any more.          *)
LEMMA CancelLast ==
    ASSUME TInv, TypeOK', NEW p, NEW g, Accounts(p, g), Traffic(p, g), NEW c \in Caller,
           req[c].op = "cancel", req[c].pc = "last", Write(req[c], 2), clean', own' = own, Ends(c)
    PROVE  \E q, h : Accounts(q, h)' /\ Traffic(q, h)'
  <1> DEFINE s == req[c]
             j == s.pair[1]
             i == s.pair[2]
             d2 == s.from[1]
             m == s.from[2]
             new == Released(m, d2)
  <1>1. Formed(s) /\ Current(p, g, c) /\ TypeOK
    BY DEF Traffic, TInv
  <1>2. /\ j \in Stored /\ i \in Stored /\ j # i /\ d2 \in Doc /\ Tidy(d2) /\ m \in Doc /\ Tidy(m)
        /\ d2.dest = i /\ m.src = j /\ s.to[2] = new
        /\ MasterRead(s) = m /\ Linking(s) /\ Later(s)
    BY <1>1, ReadyCancel
  <1>3. new.num = Without(m.num, Unprefixed(d2.num)) /\ new.src = None /\ new.dest = m.dest
    BY <1>2, ReleasedLinks
  <1>4. /\ Stored' = Stored /\ docs'[i] = new /\ \A x \in Stored \ {i} : docs'[x] = docs[x]
        /\ ~Crossed(s) /\ Links(docs[i]) \in {Links(m), Links(new)}
    <2>1. PICK alone : alone = ~Crossed(s)
      OBVIOUS
    <2>2. Replace(i, m, new, alone)
      BY <1>2, <2>1, Zenon DEF Write
    <2> HIDE DEF i, m, new
    <2>3. /\ Stored' = Stored /\ docs'[i] = new /\ \A x \in Stored \ {i} : docs'[x] = docs[x]
          /\ alone /\ Links(docs[i]) \in {Links(m), Links(new)}
      BY <1>1, <1>2, <2>2, ReplaceLinks
    <2> QED BY <2>1, <2>3, Zenon
  <1>5. Uncrossed(c)
    BY <1>4, NotCrossed
  <1>6. Free(c)
    BY <1>5, UncrossedFree
  <1> HIDE DEF new
  <1>7. Only(c) /\ req'[c] = Idle
    BY OneAtATime DEF TInv, Ends
  <1>8. None \notin Id /\ i \in Id /\ j \in Id
    BY <1>1, <1>2, StoredTyped, IdentitiesAssumption
  <1>9. /\ m.dest = None /\ docs[j].dest = None /\ docs[i].dest = None
        /\ p[j] = i => docs[i].src = j /\ g[j] = Unprefixed(d2.num)
    BY <1>1, <1>2, <1>6, Zenon DEF Current
  <1>10. \A x \in Id : p[x] # None => x \in Stored
    BY MastersStored
  <1>11. CASE p[j] # i
    <2>1. Links(docs[i]) # Links(m)
      <3> SUFFICES ASSUME docs[i].src = j
                   PROVE  FALSE
        BY <1>2 DEF Links
      <3>1. p[docs[i].src] = i
        BY <1>2, <1>8 DEF Accounts, Sourced
      <3> QED BY <1>11, <3>1
    <2>2. \A x \in Stored : Links(docs'[x]) = Links(docs[x])
      BY <1>4, <2>1
    <2> HIDE DEF m, d2
    <2> QED BY <1>1, <1>4, <1>5, <1>7, <1>11, <2>2, LastAgain
  <1>12. CASE p[j] = i
    <2>1. docs[i].src = j /\ g[j] = Unprefixed(d2.num)
      BY <1>9, <1>12
    <2>2. docs[i].num = m.num
      BY <1>3, <1>4, <1>8, <2>1 DEF Links
    <2>3. /\ docs'[i].num = Without(docs[i].num, g[j]) /\ docs'[i].src = None
          /\ docs'[i].dest = None
      BY <1>3, <1>4, <1>9, <2>1, <2>2
    <2>4. PICK q : q = [p EXCEPT ![j] = None]
      OBVIOUS
    <2>5. q[j] = None /\ \A x \in Id \ {j} : q[x] = p[x] /\ g[x] = g[x]
      BY <1>8, <2>4 DEF Accounts, Ghosts
    <2>6. Accounts(q, g)'
      <3>1. j \in Stored /\ i \in Stored /\ i # j
        BY <1>2
      <3> HIDE DEF i, j
      <3>2. docs[j].dest = None /\ docs[i].dest = None /\ docs[i].src = j /\ Stored' = Stored
        BY <1>4, <1>9, <2>1
      <3>3. \A x \in Stored \ {i} : docs'[x] = docs[x]
        BY <1>4
      <3> QED BY <1>1, <1>10, <1>12, <2>3, <2>4, <3>1, <3>2, <3>3, AccountsReleased
    <2>7. Masters(q, g)' /\ Destined(q)'
      <3>1. /\ TypeOK /\ Only(c) /\ Stored' = Stored /\ i \in Stored /\ j \in Stored /\ i # j
            /\ docs[i].dest = None /\ docs'[i].dest = None /\ j = req[c].pair[1]
            /\ Recorded(q, g, i, j)
        BY <1>1, <1>2, <1>4, <1>7, <1>9, <2>3, <2>5 DEF Recorded
      <3>2. /\ \A x \in Stored \ {i} : docs'[x] = docs[x]
            /\ \A x \in Id \ {j} : q[x] = p[x] /\ g[x] = g[x]
        BY <1>4, <2>5
      <3> HIDE DEF i, j
      <3>3. Masters(q, g)'
        BY <3>1, <3>2, OneMaster
      <3>4. Destined(q)'
        BY <3>1, <3>2, OneDestined
      <3> QED BY <3>3, <3>4
    <2>8. ASSUME NEW d \in Caller \ {c}, Linking(req[d])
          PROVE  Undisturbed(p, g, q, g, d)
      <3> DEFINE k == req[d].pair[1]
                 l == req[d].pair[2]
      <3>1. k \in Stored /\ l \in Stored /\ k \in Id /\ l \in Id
        BY <1>1, <2>8 DEF Traffic, Formed, TypeOK
      <3>2. CASE req[d].op = "fusion"
        <4>1. k # j /\ k # i /\ l # i
          BY <1>5, <2>8, <3>2, FourOf
        <4>2. docs'[k] = docs[k] /\ docs'[l] = docs[l] /\ q[k] = p[k]
          BY <1>4, <2>5, <3>1, <4>1
        <4>3. Len(docs[l].num) \in Nat
          BY <1>1, <3>1, StoredTyped
        <4>4. Len(docs'[l].num) >= Len(docs[l].num) /\ Links(docs'[k]) = Links(docs[k])
          BY <4>2, <4>3
        <4> QED BY <3>2, <4>2, <4>4, Zenon DEF Undisturbed
      <3>3. CASE req[d].op = "cancel"
        <4>1. /\ docs[l].dest = None => docs'[l].dest = None
              /\ docs[k].dest = None => docs'[k].dest = None
          BY <1>4, <2>3, <3>1
        <4>2. ASSUME q[k] = l
              PROVE  p[k] = l /\ (docs[l].src = k => docs'[l].src = k)
          <5>1. k # j
            BY <1>8, <2>5, <3>1, <4>2
          <5>2. p[k] = l
            BY <2>5, <3>1, <4>2, <5>1
          <5>3. CASE l = i
            BY <2>1, <5>1, <5>2, <5>3
          <5>4. CASE l # i
            BY <1>4, <3>1, <5>2, <5>4
          <5> QED BY <5>3, <5>4
        <4>3. q[k] = l => p[k] = l /\ g[k] = g[k] /\ (docs[l].src = k => docs'[l].src = k)
          BY <4>2
        <4> QED BY <3>3, <4>1, <4>3, Zenon DEF Undisturbed
      <3>4. req[d].op \in {"fusion", "cancel"}
        BY <2>8 DEF Linking
      <3> QED BY <3>2, <3>3, <3>4
    <2>9. Traffic(q, g)'
      <3>1. TypeOK /\ Stored' = Stored /\ Uncrossed(c) /\ Only(c) /\ req'[c] = Idle
        BY <1>1, <1>4, <1>5, <1>7
      <3>2. \A d \in Caller \ {c} : Linking(req[d]) => Undisturbed(p, g, q, g, d)
        BY <2>8
      <3> QED BY <2>7, <3>1, <3>2, LastTraffic
    <2> QED BY <2>6, <2>9
  <1> QED BY <1>11, <1>12

LEMMA WriteLastNInv ==
    ASSUME TInv, TypeOK', NInv, NEW c \in Caller, WriteLast(c)
    PROVE  NInv'
  <1> DEFINE s == req[c]
  <1>1. s.pc = "last" /\ own' = own /\ Write(s, 2) /\ Ends(c)
    BY Zenon DEF WriteLast
  <1>2. CASE s.op \notin {"fusion", "cancel"}
    BY <1>2, MarkLastNInv
  <1>3. CASE s.op \in {"fusion", "cancel"}
    <2>1. ASSUME clean'
          PROVE  NInv'
      <3>1. clean
        BY <1>1, <2>1, Zenon DEF Write, Replace
      <3>2. PICK p, g : Accounts(p, g) /\ Traffic(p, g)
        BY <3>1 DEF NInv
      <3>3. PICK q, h : Accounts(q, h)' /\ Traffic(q, h)'
        BY <1>1, <1>3, <2>1, <3>2, FusionLast, CancelLast
      <3> QED BY <3>3, Zenon DEF NInv
    <2> QED BY <2>1, Zenon DEF NInv
  <1> QED BY <1>2, <1>3

-----------------------------------------------------------------------------
(* The invariant; at first nobody counts anybody.                            *)

LEMMA InitNInv ==
    ASSUME Init
    PROVE  NInv
  <1>1. PICK p, g : p = [x \in Id |-> None] /\ g = [x \in Id |-> <<>>]
    OBVIOUS
  <1>2. TypeOK /\ None \notin Id /\ None \notin Number
    BY InitTInv, IdentitiesAssumption DEF TInv
  <1>3. /\ Stored = {i \in Id : plan.born[i] # None} /\ docs = [i \in Stored |-> First(i)]
        /\ own = plan.born /\ plan.born \in [Id -> Number \cup {None}]
    BY IdentitiesAssumption DEF Init, Stored
  <1>4. \A i \in Stored : /\ own[i] \in Number /\ i \in Id
                          /\ docs[i].num = <<Plain(own[i])>> /\ docs[i].src = None
                          /\ docs[i].dest = None
    <2> SUFFICES ASSUME NEW i \in Stored
                 PROVE  /\ own[i] \in Number /\ i \in Id
                        /\ docs[i].num = <<Plain(own[i])>> /\ docs[i].src = None
                        /\ docs[i].dest = None
      OBVIOUS
    <2>1. docs[i] = First(i) /\ i \in Id /\ own[i] \in Number /\ own[i] = plan.born[i]
      BY <1>3
    <2> DEFINE one == <<Plain(plan.born[i])>>
    <2>2. First(i).num = one /\ First(i).src = None /\ First(i).dest = None
      <3> HIDE DEF one
      <3> QED BY DEF First, one
    <2> QED BY <2>1, <2>2
  <1>5. \A i \in Stored : /\ docs[i].num # <<>> /\ DOMAIN docs[i].num = {1}
                          /\ docs[i].num[1].of = own[i] /\ docs[i].num[1].gone = FALSE
    <2> SUFFICES ASSUME NEW i \in Stored
                 PROVE  /\ docs[i].num # <<>> /\ DOMAIN docs[i].num = {1}
                        /\ docs[i].num[1].of = own[i] /\ docs[i].num[1].gone = FALSE
      OBVIOUS
    <2>1. PICK one : one = docs[i].num
      OBVIOUS
    <2>2. own[i] \in Number /\ Lone(one, own[i])
      BY <1>4, <2>1 DEF Lone
    <2> QED BY <2>1, <2>2, OneNumber
  <1>6. \A i \in Stored, n \in Number :
          /\ Amount(docs[i].num, n) = IF own[i] = n THEN 1 ELSE 0
          /\ Has(docs[i].num, n) <=> own[i] = n
    <2> SUFFICES ASSUME NEW i \in Stored, NEW n \in Number
                 PROVE  /\ Amount(docs[i].num, n) = IF own[i] = n THEN 1 ELSE 0
                        /\ Has(docs[i].num, n) <=> own[i] = n
      OBVIOUS
    <2>1. PICK one : one = docs[i].num
      OBVIOUS
    <2>2. own[i] \in Number /\ Lone(one, own[i])
      BY <1>4, <2>1 DEF Lone
    <2> QED BY <2>1, <2>2, OneCounted
  <1>7. \A x \in Id : p[x] = None /\ g[x] = <<>>
    BY <1>1
  <1>8. Accounts(p, g)
    <2>1. Ghosts(p, g) /\ Sourced(p)
      <3>1. <<>> \in Seq(Plains)
        OBVIOUS
      <3> QED BY <1>1, <1>4, <3>1 DEF Ghosts, Sourced
    <2>2. Neat
      BY <1>4, <1>5 DEF Neat, Tidy
    <2>3. Booked(p, g)
      <3>1. ASSUME NEW i \in Stored, NEW n \in Number
            PROVE  /\ IsFiniteSet(Given(p, g, i, n))
                   /\ Amount(docs[i].num, n) =
                        (IF own[i] = n THEN 1 ELSE 0) + Cardinality(Given(p, g, i, n))
        <4>1. Given(p, g, i, n) = {}
          BY <1>2, <1>4, <1>7 DEF Given
        <4>2. Amount(docs[i].num, n) = IF own[i] = n THEN 1 ELSE 0
          BY <1>6
        <4> QED BY <4>1, <4>2, FS_EmptySet
      <3> QED BY <3>1 DEF Booked
    <2>4. Owned
      BY <1>6 DEF Owned
    <2>5. ASSUME CreatedOnce
          PROVE  Single /\ OwnFirst /\ Apart(p, g)
      <3>1. Single
        BY <1>6 DEF Single
      <3>2. OwnFirst
        BY <1>5 DEF OwnFirst
      <3>3. Apart(p, g)
        <4>1. \A y \in Stored, n \in Number : Holds(p, g, y, n) => own[y] = n
          BY <1>6 DEF Holds
        <4> QED BY <2>5, <4>1 DEF Apart, CreatedOnce
      <3> QED BY <3>1, <3>2, <3>3
    <2> QED BY <2>1, <2>2, <2>3, <2>4, <2>5 DEF Accounts
  <1>9. Traffic(p, g)
    <2>1. \A c \in Caller : req[c] = Idle
      BY DEF Init
    <2>2. \A c \in Caller : ~Half(req[c]) /\ ~Linking(req[c]) /\ req[c].op = "upsert"
      BY <2>1 DEF Idle, Half, Linking
    <2>3. \A c \in Caller : Formed(req[c])
      BY <2>1 DEF Idle, Formed, Linking
    <2>4. \A c \in Caller : Current(p, g, c)
      BY <2>2 DEF Current
    <2>5. Masters(p, g)
      BY <1>7 DEF Masters
    <2>6. Destined(p)
      BY <1>4 DEF Destined
    <2>7. Alone
      BY <2>2 DEF Alone
    <2> QED BY <2>3, <2>4, <2>5, <2>6, <2>7 DEF Traffic
  <1> QED BY <1>8, <1>9 DEF NInv

LEMMA NextNInv ==
    ASSUME TInv, NInv, [Next]_vars
    PROVE  NInv'
  <1>1. TypeOK'
    BY NextTInv DEF TInv
  <1>2. CASE UNCHANGED vars
    <2>1. docs' = docs /\ req' = req /\ own' = own /\ clean' = clean
      BY <1>2 DEF vars, history
    <2>2. ASSUME clean'
          PROVE  \E p, g : Accounts(p, g)' /\ Traffic(p, g)'
      <3>1. PICK p, g : Accounts(p, g) /\ Traffic(p, g)
        BY <2>1, <2>2 DEF NInv
      <3>2. Accounts(p, g)'
        <4>1. Stored' = Stored /\ \A x \in Stored : Links(docs'[x]) = Links(docs[x])
          BY <2>1 DEF Stored
        <4>2. \A x \in Id : p[x] # None => x \in Stored
          BY <3>1, MastersStored
        <4> QED BY <2>1, <3>1, <4>1, <4>2, AccountsKept DEF TInv, TypeOK
      <3>3. Traffic(p, g)'
        <4>1. Masters(p, g)' /\ Destined(p)' /\ Alone'
          BY <2>1, <3>1, Zenon DEF Traffic, Masters, Destined, Ongoing, Alone, Free, Stored
        <4>2. \A c \in Caller : Formed(req[c])'
          BY <2>1, <3>1, Zenon DEF Traffic, Formed, Stored
        <4>3. \A c \in Caller : Current(p, g, c)'
          <5>1. \A c \in Caller : Free(c)' <=> Free(c)
            BY <2>1, Zenon DEF Free
          <5> QED BY <2>1, <3>1, <5>1, Zenon DEF Traffic, Current
        <4> QED BY <4>1, <4>2, <4>3, Zenon DEF Traffic
      <3> QED BY <3>2, <3>3
    <2> QED BY <2>2, Zenon DEF NInv
  <1>3. ASSUME NEW c \in Caller, UpsertLook(c) \/ UpsertCheck(c) \/ UpsertMatch(c)
        PROVE  NInv'
    BY <1>1, <1>3, UpsertLookNInv, UpsertCheckNInv, UpsertMatchNInv
  <1>4. ASSUME NEW c \in Caller, UpsertStore(c) \/ UpsertInsert(c) \/ Stamp(c)
        PROVE  NInv'
    BY <1>1, <1>4, UpsertStoreNInv, UpsertInsertNInv, StampNInv
  <1>5. ASSUME NEW c \in Caller, EditAsk(c) \/ EditSave(c) \/ Delete(c)
        PROVE  NInv'
    BY <1>1, <1>5, EditAskNInv, EditSaveNInv, DeleteNInv
  <1>6. ASSUME NEW c \in Caller, FusionAsk(c)
        PROVE  NInv'
    BY <1>1, <1>6, ReadMasterNInv DEF FusionAsk
  <1>7. ASSUME NEW c \in Caller, CancelAsk(c)
        PROVE  NInv'
    BY <1>1, <1>7, ReadMasterNInv DEF CancelAsk
  <1>8. ASSUME NEW c \in Caller, FusionRead(c) \/ FusionBackend(c) \/ CancelRead(c)
        PROVE  NInv'
    BY <1>1, <1>8, FusionReadNInv, FusionBackendNInv, CancelReadNInv
  <1>9. ASSUME NEW c \in Caller, IgnoreAsk(c, "ignore") \/ IgnoreAsk(c, "unignore")
        PROVE  NInv'
    BY <1>1, <1>9, IgnoreAskNInv
  <1>10. ASSUME NEW c \in Caller, WriteFirst(c) \/ WriteLast(c) \/ WriteAlone(c)
         PROVE  NInv'
    BY <1>1, <1>10, WriteFirstNInv, WriteLastNInv, WriteAloneNInv
  <1> QED BY <1>2, <1>3, <1>4, <1>5, <1>6, <1>7, <1>8, <1>9, <1>10 DEF Next

(* Between two requests the account is what the documents say.               *)
LEMMA QuietAccounts ==
    ASSUME TypeOK, NInv
    PROVE  NumbersAccounted
  <1> SUFFICES ASSUME clean, Quiet, NEW i \in Stored
               PROVE  LET merged == {j \in Stored : docs[j].dest = i}
                      IN  /\ docs[i].num # <<>>
                          /\ CreatedOnce => docs[i].num[1].of = own[i]
                          /\ docs[i].num[1].gone = (docs[i].dest # None)
                          /\ \A n \in Number :
                               Cardinality(Places(docs[i].num, n)) =
                                 (IF own[i] = n THEN 1 ELSE 0)
                                 + Cardinality(UNION {{j} \X Places(docs[j].num, n) : j \in merged})
    BY Zenon DEF NumbersAccounted
  <1>1. PICK p, g : Accounts(p, g) /\ Traffic(p, g)
    BY DEF NInv
  <1>2. Tidy(docs[i]) /\ docs[i].num \in Seq(Entry) /\ i \in Id /\ None \notin Id
    BY <1>1, StoredTyped, IdentitiesAssumption DEF Accounts, Neat
  <1>3. \A op, x, y : ~Ongoing(op, x, y)
    <2>1. \A c \in Caller : ~Half(req[c])
      BY DEF Quiet, Half
    <2> QED BY <2>1 DEF Ongoing
  <1>4. docs[i].num # <<>> /\ (CreatedOnce => docs[i].num[1].of = own[i])
    BY <1>1, <1>2 DEF Accounts, OwnFirst, Tidy
  <1>5. docs[i].num[1].gone = (docs[i].dest # None)
    <2> DEFINE num == docs[i].num
    <2>1. num \in Seq(Entry) /\ num # <<>>
      BY <1>2, <1>4
    <2> HIDE DEF num
    <2>2. 1 \in DOMAIN num /\ num[1] \in Entry
      BY <2>1
    <2>3. num[1].gone \in BOOLEAN
      BY <2>2 DEF Entry
    <2>4. num[1].gone <=> docs[i].dest # None
      BY <1>2, <2>2 DEF Tidy, num
    <2> QED BY <2>3, <2>4 DEF num
  <1>6. ASSUME NEW n \in Number
        PROVE  Cardinality(Places(docs[i].num, n)) =
                 (IF own[i] = n THEN 1 ELSE 0)
                 + Cardinality(UNION {{j} \X Places(docs[j].num, n) :
                                        j \in {j \in Stored : docs[j].dest = i}})
    <2>1. {x \in Id : p[x] = i} = {j \in Stored : docs[j].dest = i}
      <3>1. ASSUME NEW x \in Id, p[x] = i
            PROVE  x \in Stored /\ docs[x].dest = i
        BY <1>1, <1>2, <1>3, <3>1 DEF Traffic, Masters
      <3>2. ASSUME NEW x \in Stored, docs[x].dest = i
            PROVE  x \in Id /\ p[x] = i
        BY <1>1, <1>2, <1>3, <3>2 DEF Traffic, Destined, TypeOK
      <3> QED BY <3>1, <3>2
    <2>2. ASSUME NEW x \in Id, p[x] = i
          PROVE  Places(g[x], n) = Places(docs[x].num, n)
      <3>1. x \in Stored /\ g[x] = Unprefixed(docs[x].num)
        BY <1>1, <1>2, <1>3, <2>2 DEF Traffic, Masters
      <3> DEFINE num == docs[x].num
      <3>2. num \in Seq(Entry) /\ \A k \in DOMAIN num : num[k].of \in Number
        BY <1>1, <3>1, StoredTyped DEF Accounts, Neat, Tidy
      <3> HIDE DEF num
      <3>3. /\ DOMAIN Unprefixed(num) = DOMAIN num
            /\ \A k \in DOMAIN num : Unprefixed(num)[k].of = num[k].of
        BY <3>2, PlainNumbers
      <3>4. Places(Unprefixed(num), n) = Places(num, n)
        BY <3>3, SameNumbers
      <3> QED BY <3>1, <3>4 DEF num
    <2>3. Given(p, g, i, n) =
            UNION {{j} \X Places(docs[j].num, n) : j \in {j \in Stored : docs[j].dest = i}}
      <3> DEFINE S == {x \in Id : p[x] = i}
      <3>1. \A x \in S : Places(g[x], n) = Places(docs[x].num, n)
        BY <2>2
      <3> HIDE DEF S
      <3>2. {{j} \X Places(g[j], n) : j \in S} = {{j} \X Places(docs[j].num, n) : j \in S}
        BY <3>1
      <3> QED BY <2>1, <3>2 DEF Given, S
    <2>4. Amount(docs[i].num, n) =
            (IF own[i] = n THEN 1 ELSE 0) + Cardinality(Given(p, g, i, n))
      BY <1>1 DEF Accounts, Booked
    <2> QED BY <2>3, <2>4 DEF Amount
  <1> QED BY <1>4, <1>5, <1>6

(* When no fusion and no cancellation is in progress, an identity holds its  *)
(* own number and the numbers of the identities that are merged into it, each*)
(* as often as they do, and its own first as long as no identity was created *)
(* again with the number of another: for any collection and any requests     *)
(* that overlapped, as long as no write replaced links that it had not read, *)
(* crossed one of the other kind or was made alone (fusion, cancelFusion,    *)
(* removeInjectedValues).                                                    *)
THEOREM NumbersAreAccounted == Spec => []NumbersAccounted
  <1>1. Init => TInv /\ NInv
    BY InitTInv, InitNInv
  <1>2. (TInv /\ NInv) /\ [Next]_vars => (TInv /\ NInv)'
    BY NextTInv, NextNInv
  <1>3. TInv /\ NInv => NumbersAccounted
    BY QuietAccounts DEF TInv
  <1> QED BY <1>1, <1>2, <1>3, PTL DEF Spec

=============================================================================
