----------------------------- MODULE Identities -----------------------------
(* The documents of the identities: the upserts of the crawlers, the edits   *)
(* of the operators, the search for duplicates, and the fusion of two        *)
(* identities of one person (management/identities).                         *)
(*                                                                           *)
(* A fusion appends the employee numbers of identity 2 to those of identity  *)
(* 1, prefixes the first number of identity 2 with F, and links the two      *)
(* documents.  It reads both, may delete the second in the backends, and     *)
(* writes the second, then the first: whole documents, as they were read     *)
(* (findOneAndUpdate is given a spread mongoose document, whose _doc mongoose*)
(* takes for the update).  cancelFusion and the two routes about ignored     *)
(* duplicates do the same; upserts and edits write their fields only.        *)
(* A step is what happens between two awaits.                                *)
EXTENDS Integers, Sequences, FiniteSets, FiniteSetsExt, Functions

CONSTANTS
    None,
    Id,           \* documents, in the order in which the collection lists them
    Number,       \* employee numbers of the source of the identities
    Types,        \* employee types, "LOCAL" among them or not
    Uid, Key,     \* Key: what the duplicates have in common, birth date and given name
    Body,         \* the bodies of the upserts and edits
    Caller,       \* the requests in progress at once
    Plans,        \* the mixes explored: what is asked, and of which identities
    FirstUid, FirstKey,   \* of the identities that exist at the start
    Known         \* those of them that the backends know

(* insert: the option upsert; whole: the number is in the body and not only  *)
(* in its $setOnInsert; valid: the outcome of the validation of the schemas. *)
Bodies == [uid : Uid, key : Key, insert : BOOLEAN, whole : BOOLEAN, valid : BOOLEAN,
           force : BOOLEAN]
Ops == {"upsert", "edit", "fusion", "cancel", "ignore", "unignore", "delete"}
State == {"TO_VALIDATE", "TO_COMPLETE", "SYNCED", "ON_ERROR", "DONT_SYNC"}

(* An element of employeeNumber, prefixed with F or not; of nothing when the *)
(* list was empty and "undefined" was prefixed.                              *)
Entry == [of : Number \cup {None}, gone : BOOLEAN]
Plain(n) == [of |-> n, gone |-> FALSE]

Prints == [num : Seq(Entry), uid : Uid, key : Key]

Doc == [num : Seq(Entry), type : Types, uid : Uid, key : Key,
        primary : Entry \cup {None}, src : Id \cup {None}, dest : Id \cup {None},
        state : State, deleted : BOOLEAN, synced : BOOLEAN, ignored : SUBSET Id,
        print : Prints \cup {None}]

ASSUME IdentitiesAssumption ==
    /\ Id \subseteq Nat /\ IsFiniteSet(Id)
    /\ None \notin Id \cup Number \cup Entry \cup Doc \cup Prints
    /\ Body \subseteq Bodies /\ Known \subseteq Id
    /\ FirstUid \in [Id -> Uid] /\ FirstKey \in Key
    /\ Plans \subseteq [ops : SUBSET Ops, requests : Nat, typed : BOOLEAN,
                        home : [Number -> Types], born : [Id -> Number \cup {None}]]

VARIABLES
    docs,      \* the collection: a function on the documents that exist
    req,       \* the requests in progress
    plan,
    count,     \* how many requests were made
    own,       \* history: the number an identity was created with
    touched,   \* history: what was linked or unlinked since an upsert looked
    hidden,    \* history: the pairs that operators asked to ignore, and that were
               \* marked on both documents when they were answered, unless other
               \* requests were about to write both back as they were before
    clean      \* history: no write replaced links it had not read, none was made alone

history == <<own, touched, hidden, clean>>
vars == <<docs, req, plan, count, history>>

Home(n) == plan.home[n]

Idle == [op |-> "upsert", pc |-> "idle", n |-> None, body |-> None, at |-> None,
         read |-> None, state |-> "TO_VALIDATE", print |-> None, pair |-> <<>>,
         from |-> <<>>, to |-> <<>>]

PrintOf(d) == [num |-> d.num, uid |-> d.uid, key |-> d.key]
Links(d) == <<d.num, d.primary, d.src, d.dest>>

Stored == DOMAIN docs
Entries(d) == {d.num[k] : k \in DOMAIN d.num}

(* The unique index on employeeNumber and employeeType: E11000.              *)
Refused(i, d) ==
    \E j \in Stored \ {i} : docs[j].type = d.type /\ Entries(docs[j]) \cap Entries(d) # {}

-----------------------------------------------------------------------------
(* The writes that replace links.                                            *)

Upserting == {c \in Caller : req[c].op = "upsert" /\ req[c].pc # "idle"}

Replace(i, read, new, alone) ==
    /\ docs' = [docs EXCEPT ![i] = new]
    /\ clean' = (clean /\ alone /\ Links(docs[i]) \in {Links(read), Links(new)})
    /\ touched' = IF Links(docs[i]) = Links(new) THEN touched
                  ELSE [c \in Caller |-> IF c \in Upserting THEN touched[c] \cup {i}
                                         ELSE touched[c]]

-----------------------------------------------------------------------------
(* upsertWithFingerprint.                                                    *)

Matches(i, n) ==
    /\ \E k \in DOMAIN docs[i].num : docs[i].num[k] = Plain(n)
    /\ plan.typed => docs[i].type = Home(n)

(* findOne and findOneAndUpdate take the first match in the same order.      *)
FindOne(n) ==
    LET found == {i \in Stored : Matches(i, n)}
    IN  IF found = {} THEN None ELSE Min(found)

(* Mutant: the primary number is not looked at.                              *)
AnyIsUpdatable(d, n) == ~d.deleted

(* "Secondary identity", "Identity deleted".                                 *)
Updatable(d, n) == d.primary \in {None, Plain(n)} /\ ~d.deleted

Start(op) == op \in plan.ops /\ count < plan.requests /\ count' = count + 1

UpsertLook(c) ==
    /\ req[c].pc = "idle"
    /\ Start("upsert")
    /\ \E n \in Number, b \in Body :
         LET i == FindOne(n)
         IN  /\ i # None => Updatable(docs[i], n)
             /\ req' = [req EXCEPT ![c] =
                  [Idle EXCEPT !.op = "upsert", !.pc = "check", !.n = n, !.body = b,
                               !.at = i, !.read = IF i = None THEN None ELSE docs[i]]]
    /\ touched' = [touched EXCEPT ![c] = {}]
    /\ UNCHANGED <<docs, plan, own, hidden, clean>>

(* checkUid and checkMail: of an identity that exists, the value that it had *)
(* is looked for, not the one that the body gives it.                        *)
UidTaken(read, i, b) ==
    IF read # None
    THEN \E j \in Stored \ {i} : /\ docs[j].uid = read.uid
                                 /\ docs[j].state # "DONT_SYNC" /\ ~docs[j].deleted
    ELSE \E j \in Stored : docs[j].uid = b.uid

UpsertCheck(c) ==
    LET r == req[c]
        s == IF r.body.valid /\ ~UidTaken(r.read, r.at, r.body) THEN "TO_VALIDATE"
             ELSE "TO_COMPLETE"
        n == IF r.body.whole \/ r.read = None THEN <<Plain(r.n)>> ELSE r.read.num
    IN  /\ r.op = "upsert" /\ r.pc = "check"
        /\ req' = [req EXCEPT ![c] = [r EXCEPT !.pc = "match", !.state = s, !.read = None,
                     !.print = [num |-> n, uid |-> r.body.uid, key |-> r.body.key]]]
        /\ UNCHANGED <<docs, plan, count, history>>

(* checkFingerprint: NOT_MODIFIED, or on to the write.                       *)
UpsertMatch(c) ==
    LET r == req[c]
        same == \E i \in Stored : Matches(i, r.n) /\ docs[i].print = r.print
    IN  /\ r.op = "upsert" /\ r.pc = "match"
        /\ req' = [req EXCEPT ![c] = IF same /\ ~r.body.force THEN Idle
                                     ELSE [r EXCEPT !.pc = "store"]]
        /\ UNCHANGED <<docs, plan, count, history>>

Updated(d, r) ==
    [d EXCEPT !.uid = r.body.uid, !.key = r.body.key, !.state = r.state,
              !.num = IF r.body.whole THEN <<Plain(r.n)>> ELSE @]

Inserted(r) ==
    [num |-> <<Plain(r.n)>>, type |-> Home(r.n), uid |-> r.body.uid, key |-> r.body.key,
     primary |-> None, src |-> None, dest |-> None, state |-> r.state, deleted |-> FALSE,
     synced |-> FALSE, ignored |-> {}, print |-> None]

ToStamp(c, i) == req' = [req EXCEPT ![c].pc = "stamp", ![c].at = i]
Ends(c) == req' = [req EXCEPT ![c] = Idle]

(* The filters are evaluated again: what they match may have changed.        *)
UpsertStore(c) ==
    LET r == req[c]
        i == FindOne(r.n)
    IN  /\ r.op = "upsert" /\ r.pc = "store" /\ i # None
        /\ LET new == Updated(docs[i], r)
           IN  IF Refused(i, new) THEN Ends(c) /\ UNCHANGED <<docs, clean, touched>>
               ELSE ToStamp(c, i) /\ Replace(i, new, new, TRUE)
        /\ UNCHANGED <<plan, count, own, hidden>>

UpsertInsert(c) ==
    LET r == req[c]
    IN  /\ r.op = "upsert" /\ r.pc = "store" /\ FindOne(r.n) = None
        /\ IF ~r.body.insert \/ \E j \in Id : Refused(j, Inserted(r))
           THEN Ends(c) /\ UNCHANGED <<docs, own>>
           ELSE /\ Stored # Id
                /\ LET i == Min(Id \ Stored)
                   IN  /\ docs' = [x \in Stored \cup {i} |-> IF x = i THEN Inserted(r)
                                                          ELSE docs[x]]
                       /\ own' = [own EXCEPT ![i] = r.n]
                       /\ ToStamp(c, i)
        /\ UNCHANGED <<plan, count, touched, hidden, clean>>

(* generateFingerprint, for an upsert and for an edit.                       *)
Stamp(c) ==
    LET r == req[c]
    IN  /\ r.pc = "stamp"
        /\ docs' = [docs EXCEPT ![r.at].print = r.print]
        /\ Ends(c)
        /\ UNCHANGED <<plan, count, history>>

-----------------------------------------------------------------------------
(* IdentitiesCrudService.update: the form of an operator, opened before.     *)

EditAsk(c) ==
    /\ req[c].pc = "idle"
    /\ Start("edit")
    /\ \E i \in Stored, b \in Body :
         /\ ~ \E j \in Stored \ {i} : ~docs[j].deleted /\ docs[j].uid = b.uid
         /\ b.valid
         /\ req' = [req EXCEPT ![c] =
              [Idle EXCEPT !.op = "edit", !.pc = "save", !.body = b, !.at = i,
                           !.read = docs[i]]]
    /\ UNCHANGED <<docs, plan, history>>

(* inetOrgPerson is replaced as a whole, with the numbers of the form.       *)
EditSave(c) ==
    LET r == req[c]
        d == docs[r.at]
        new == [d EXCEPT !.uid = r.body.uid, !.key = r.body.key, !.num = r.read.num,
                         !.state = "TO_VALIDATE"]
    IN  /\ r.op = "edit" /\ r.pc = "save"
        /\ IF Refused(r.at, new) THEN Ends(c) /\ UNCHANGED <<docs, clean, touched>>
           ELSE /\ Replace(r.at, new, new, TRUE)
                /\ req' = [req EXCEPT ![c] = [r EXCEPT !.pc = "stamp", !.read = None,
                                              !.print = PrintOf(new)]]
        /\ UNCHANGED <<plan, count, own, hidden>>

-----------------------------------------------------------------------------
(* Operations on two identities: what is read of each, and what is written.  *)
(* pair[1] is written first.                                                 *)

Ask(c, op) ==
    /\ req[c].pc = "idle"
    /\ Start(op)
    /\ UNCHANGED <<docs, plan, history>>

Holding(op, pc, pair, from, to) ==
    [Idle EXCEPT !.op = op, !.pc = pc, !.pair = pair, !.from = from, !.to = to]

(* fusion and cancelFusion: the master is read first, and written last.      *)
ReadMaster(c, op) ==
    /\ Ask(c, op)
    /\ \E i, j \in Stored :
         i # j /\ req' = [req EXCEPT ![c] = Holding(op, "second", <<j, i>>, <<docs[i]>>, <<>>)]

FusionAsk(c) == ReadMaster(c, "fusion")
CancelAsk(c) == ReadMaster(c, "cancel")

(* employeeNumber[0] of an empty list is undefined.                          *)
Prefixed(num) == IF num = <<>> THEN <<[of |-> None, gone |-> TRUE]>>
                 ELSE [num EXCEPT ![1].gone = TRUE]
Primary(num) == IF num = <<>> THEN None ELSE num[1]
Master(d1, d2, j) ==
    [d1 EXCEPT !.primary = Primary(d1.num), !.num = @ \o d2.num, !.state = "TO_VALIDATE",
               !.src = j]

(* Mutant: a value of DataStatusEnum for one of IdentityState.                *)
MergedAsDeleted(d2, i) ==
    [d2 EXCEPT !.dest = i, !.num = Prefixed(@), !.state = "DELETED"]

Merged(d2, i) ==
    [d2 EXCEPT !.dest = i, !.num = Prefixed(@), !.state = "DONT_SYNC"]

(* Mutant: the master is written first.                                      *)
FusionReadMasterFirst(c) ==
    LET r == req[c]
        d1 == r.from[1]
        d2 == docs[r.pair[1]]
    IN  /\ r.op = "fusion" /\ r.pc = "second"
        /\ IF d1.dest # None \/ d2.dest # None THEN Ends(c)
           ELSE req' = [req EXCEPT ![c] =
                  Holding("fusion", "first", <<r.pair[2], r.pair[1]>>, <<d1, d2>>,
                          <<Master(d1, d2, r.pair[1]), Merged(d2, r.pair[2])>>)]
        /\ UNCHANGED <<docs, plan, count, history>>

FusionRead(c) ==
    LET r == req[c]
        d1 == r.from[1]
        d2 == docs[r.pair[1]]
    IN  /\ r.op = "fusion" /\ r.pc = "second"
        /\ IF d1.dest # None \/ d2.dest # None THEN Ends(c)
           ELSE req' = [req EXCEPT ![c] =
                  Holding("fusion", IF d2.synced THEN "backend" ELSE "first", r.pair,
                          <<d2, d1>>, <<Merged(d2, r.pair[2]), Master(d1, d2, r.pair[1])>>)]
        /\ UNCHANGED <<docs, plan, count, history>>

(* deleteIdentities: a job and its answer, or a flag when the backends no    *)
(* longer know the identity. A refusal of the backends ends the fusion.      *)
FusionBackend(c) ==
    LET r == req[c]
        j == r.pair[1]
    IN  /\ r.op = "fusion" /\ r.pc = "backend"
        /\ \/ /\ docs' = [docs EXCEPT ![j].state = "DONT_SYNC", ![j].deleted = TRUE]
              /\ req' = [req EXCEPT ![c].pc = "first"]
           \/ /\ docs[j].synced
              /\ docs' = [docs EXCEPT ![j].state = "ON_ERROR", ![j].synced = FALSE]
              /\ Ends(c)
        /\ UNCHANGED <<plan, count, history>>

(* removeInjectedValues: one occurrence for each injected value.             *)
Without(s, injected) ==
    LET Take(v, t) ==
          IF \E k \in DOMAIN t : t[k] = v
          THEN LET k == Min({x \in DOMAIN t : t[x] = v})
               IN  SubSeq(t, 1, k - 1) \o SubSeq(t, k + 1, Len(t))
          ELSE t
        left[k \in 0 .. Len(injected)] ==
          IF k = 0 THEN s ELSE Take(injected[k], left[k - 1])
    IN  left[Len(injected)]

Unprefixed(num) == [k \in DOMAIN num |-> Plain(num[k].of)]
Released(d1, d2) ==
    [d1 EXCEPT !.num = Without(@, Unprefixed(d2.num)), !.src = None, !.primary = None,
               !.state = "TO_VALIDATE"]
Restored(d2) ==
    [d2 EXCEPT !.dest = None, !.state = "TO_VALIDATE",
               !.num = IF @ = <<>> THEN @ ELSE [@ EXCEPT ![1].gone = FALSE]]

CancelRead(c) ==
    LET r == req[c]
        i == r.pair[2]
        j == r.pair[1]
        d1 == r.from[1]
        d2 == docs[j]
    IN  /\ r.op = "cancel" /\ r.pc = "second"
        /\ IF d1.src # j \/ d2.dest # i THEN Ends(c)
           ELSE req' = [req EXCEPT ![c] = Holding("cancel", "first", r.pair, <<d2, d1>>,
                                                  <<Restored(d2), Released(d1, d2)>>)]
        /\ UNCHANGED <<docs, plan, count, history>>

(* find gives both documents at once.                                        *)
IgnoreAsk(c, op) ==
    /\ Ask(c, op)
    /\ \E i, j \in Stored :
         LET New(x, y) == [docs[x] EXCEPT !.ignored = IF op = "ignore" THEN @ \cup {y}
                                                      ELSE @ \ {y}]
         IN  /\ i < j
             /\ req' = [req EXCEPT ![c] = Holding(op, "first", <<i, j>>, <<docs[i], docs[j]>>,
                                                  <<New(i, j), New(j, i)>>)]

Pair(r) == {r.pair[1], r.pair[2]}

Marked(ds, p) == p[2] \in ds[p[1]].ignored /\ p[1] \in ds[p[2]].ignored

(* A fusion and a cancellation overlap about one identity; or a fusion is    *)
(* cancelled after its master was merged into another.                       *)
Crossed(r) ==
    \/ \E c \in Caller : /\ {r.op, req[c].op} = {"fusion", "cancel"} /\ req[c].pc # "idle"
                         /\ Pair(r) \cap Pair(req[c]) # {}
    \/ r.op = "cancel" /\ r.from[2].dest # None

(* A request about another pair is about to write x back as it was read, and *)
(* x did not ignore y.                                                       *)
Undoing(r, x, y) ==
    /\ \/ r.pc = "second" /\ r.pair[2] = x /\ y \notin r.from[1].ignored
       \/ r.pc \in {"backend", "first"} /\ r.pair[1] = x /\ y \notin r.to[1].ignored
       \/ /\ r.pc \in {"backend", "first", "last"}
          /\ r.pair[2] = x /\ y \notin r.to[2].ignored
    /\ Pair(r) # {x, y}

Undone(x, y) == \E c \in Caller : Undoing(req[c], x, y)

Write(r, k) == Replace(r.pair[k], r.from[k], r.to[k], ~Crossed(r))

(* The first of the two writes; a duplicate number ends the operation.       *)
WriteFirst(c) ==
    LET r == req[c]
        i == r.pair[1]
    IN  /\ r.pc = "first"
        /\ IF Refused(i, r.to[1]) THEN Ends(c) /\ UNCHANGED <<docs, clean, touched, hidden>>
           ELSE /\ Write(r, 1)
                /\ req' = [req EXCEPT ![c].pc = "last"]
                /\ hidden' = IF r.op = "ignore" THEN hidden ELSE hidden \ {Pair(r)}
        /\ UNCHANGED <<plan, count, own>>

WriteLast(c) ==
    LET r == req[c]
    IN  /\ r.pc = "last" /\ ~Refused(r.pair[2], r.to[2])
        /\ Write(r, 2)
        /\ hidden' = IF r.op # "ignore" THEN hidden \ {Pair(r)}
                     ELSE IF /\ Marked(docs', r.pair)
                             /\ ~ (/\ Undone(r.pair[1], r.pair[2])
                                   /\ Undone(r.pair[2], r.pair[1]))
                     THEN hidden \cup {Pair(r)}
                     ELSE hidden
        /\ Ends(c)
        /\ UNCHANGED <<plan, count, own>>

(* The second write is refused, or the process stops before it.              *)
WriteAlone(c) ==
    LET r == req[c]
    IN  /\ r.pc = "last"
        /\ clean' = (clean /\ Links(r.from[1]) = Links(r.to[1]))
        /\ Ends(c)
        /\ UNCHANGED <<docs, plan, count, own, touched, hidden>>

-----------------------------------------------------------------------------
(* A deletion by the backends or, for an identity they do not know, a flag.  *)
Delete(c) ==
    /\ req[c].pc = "idle"
    /\ Start("delete")
    /\ \E i \in Stored : docs' = [docs EXCEPT ![i].state = "DONT_SYNC", ![i].deleted = TRUE]
    /\ UNCHANGED <<req, plan, history>>

First(i) ==
    [num |-> <<Plain(plan.born[i])>>, type |-> Home(plan.born[i]), uid |-> FirstUid[i],
          key |-> FirstKey, primary |-> None, src |-> None, dest |-> None,
          state |-> IF i \in Known THEN "SYNCED" ELSE "TO_VALIDATE", deleted |-> FALSE,
          synced |-> i \in Known, ignored |-> {}, print |-> None]

Init ==
    /\ plan \in Plans
    /\ docs = [i \in {i \in Id : plan.born[i] # None} |-> First(i)]
    /\ req = [c \in Caller |-> Idle]
    /\ count = 0
    /\ own = plan.born
    /\ touched = [c \in Caller |-> {}]
    /\ hidden = {}
    /\ clean = TRUE

Next == \E c \in Caller :
    \/ UpsertLook(c) \/ UpsertCheck(c) \/ UpsertMatch(c) \/ UpsertStore(c)
    \/ UpsertInsert(c) \/ Stamp(c)
    \/ EditAsk(c) \/ EditSave(c)
    \/ FusionAsk(c) \/ FusionRead(c) \/ FusionBackend(c)
    \/ CancelAsk(c) \/ CancelRead(c)
    \/ IgnoreAsk(c, "ignore") \/ IgnoreAsk(c, "unignore")
    \/ WriteFirst(c) \/ WriteLast(c) \/ WriteAlone(c)
    \/ Delete(c)

Spec == Init /\ [][Next]_vars

-----------------------------------------------------------------------------
(* searchDoubles(false): the groups proposed to the operators.               *)

Candidate(i) ==
    /\ ~docs[i].deleted /\ docs[i].state # "DONT_SYNC" /\ docs[i].dest = None
    /\ docs[i].type # "LOCAL"

(* by: "key" for the birth date and the given name, or "uid".                *)
Alike(by) ==
    {g \in SUBSET {i \in Stored : Candidate(i)} :
       /\ Cardinality(g) > 1
       /\ \E i \in g : g = {j \in Stored : Candidate(j) /\ docs[j][by] = docs[i][by]}}

(* Groups are the same when their first two identities are.                  *)
FirstTwo(g) == {Min(g), Min(g \ {Min(g)})}

(* Mutant: a pair is left out when both documents say so.                    *)
BothIgnore(g) ==
    \E i, j \in g : i # j /\ j \in docs[i].ignored /\ i \in docs[j].ignored

SomeIgnores(g) == \E i, j \in g : i # j /\ j \in docs[i].ignored

SearchDoubles ==
    LET keyed == Alike("key")
        named == {g \in Alike("uid") : \A h \in keyed : FirstTwo(g) # FirstTwo(h)}
    IN  {g \in keyed \cup named : ~SomeIgnores(g)}

-----------------------------------------------------------------------------
(* Properties.                                                               *)

(* The types; only an identity that is merged has a first number with F.     *)
RequestOK(r) ==
    /\ r.op \in Ops /\ r.n \in Number \cup {None} /\ r.body \in Body \cup {None}
    /\ r.pc \in {"idle", "check", "match", "store", "stamp", "save", "second", "backend",
                 "first", "last"}
    /\ r.at \in Id \cup {None} /\ r.read \in Doc \cup {None}
    /\ r.state \in State /\ r.print \in Prints \cup {None}
    /\ r.pair \in Seq(Id) /\ r.from \in Seq(Doc) /\ r.to \in Seq(Doc)

TypeOK ==
    /\ Stored \subseteq Id /\ docs \in [Stored -> Doc]
    /\ DOMAIN req = Caller /\ \A c \in Caller : RequestOK(req[c])
    /\ plan \in Plans /\ count \in Nat
    /\ own \in [Id -> Number \cup {None}]
    /\ touched \in [Caller -> SUBSET Id]
    /\ hidden \subseteq SUBSET Id
    /\ clean \in BOOLEAN

(* Fusions and their cancellations keep account of the numbers: as long as   *)
(* no write has replaced links that it had not read, and none was made       *)
(* without the other, an identity holds, one by one, its own number and the  *)
(* numbers of the identities that are merged into it; its own comes first,   *)
(* unless an identity was created again with the number of a merged one,     *)
(* which a cancellation may then take for the one it injected. The same      *)
(* fusion asked twice at once injects nothing twice, because the master is   *)
(* read first and written last (fusion, cancelFusion).                       *)
Quiet == \A c \in Caller : req[c].op \in {"upsert", "ignore", "unignore"} \/ req[c].pc = "idle"
Places(num, n) == {k \in DOMAIN num : num[k].of = n}
CreatedOnce == \A i, j \in Stored : i # j => own[i] # own[j]

NumbersAccounted ==
    clean /\ Quiet =>
      \A i \in Stored :
        LET merged == {j \in Stored : docs[j].dest = i}
        IN  /\ docs[i].num # <<>>
            /\ CreatedOnce => docs[i].num[1].of = own[i]
            /\ docs[i].num[1].gone = (docs[i].dest # None)
            /\ \A n \in Number :
                 Cardinality(Places(docs[i].num, n)) =
                   (IF own[i] = n THEN 1 ELSE 0)
                   + Cardinality(UNION {{j} \X Places(docs[j].num, n) : j \in merged})

(* What is sent about a number is written to no identity whose primary number *)
(* is another ("seule celle-ci sera mise à jour par taiga"), unless its links,*)
(* or those of the identity that the request looked at, have changed since:   *)
(* the write evaluates the filters again, and checks nothing                  *)
(* (upsertWithFingerprint).                                                   *)
SecondaryRefused ==
    [][\A c \in Caller : req[c].pc = "store" /\ req'[c].pc = "stamp" =>
         LET i == req'[c].at
         IN  \/ docs'[i].primary \in {None, Plain(req[c].n)}
             \/ {i, req[c].at} \cap touched[c] # {}]_vars

(* A pair that operators asked to ignore is not proposed any more, although a *)
(* request that overlaps may undo the mark of one of the two documents, which *)
(* it writes back as it had read it: one mark is enough, and it takes two     *)
(* requests that overlap the one that ignores, each about one of the two, to  *)
(* undo both (ignoreFusionForIdentities, searchDoubles).                      *)
IgnoredStaysHidden == \A p \in hidden : \A g \in SearchDoubles : ~(p \subseteq g)
=============================================================================
