------------------------------- MODULE Lifecycle -------------------------------
(***************************************************************************)
(* The lifecycle of the identities (management/lifecycle).                 *)
(*                                                                         *)
(* The rules are files.  A rule moves the identities of its sources that    *)
(* its filter selects to its target, and may write one of their attributes  *)
(* (its mutation).  A rule without trigger is applied by the listener of    *)
(* afterUpdate and afterUpsert, inside the request that updates an          *)
(* identity; a rule with a delay by the cron job; a rule with trigger -1    *)
(* when an operator executes it.  Each change of lifecycle is recorded in a *)
(* history and dispatched to the backends; the listener waits for their     *)
(* answer, and undoes the change when they refuse it.                       *)
(*                                                                         *)
(* Nothing is a transaction: every await of the code is a step boundary,    *)
(* and between two steps of one request the other requests, the runs of the *)
(* cron job and the edits of the rules take theirs.                         *)
(***************************************************************************)
EXTENDS Naturals, Sequences, FiniteSets

CONSTANTS
    Identity,     \* documents of the "identities" collection
    Ignored,      \* those with ignoreLifecycle: only an operator sets the field
    Cycle,        \* the lifecycle states, default and custom
    First,        \* the one of every identity at the start
    Rulebook,     \* the contents that the rule files may have: sequences of rules
    Manual,       \* manual-transitions.yml, a sequence of records
    Caller,       \* requests in flight at the same time
    Run,          \* executions of handleCron in flight at the same time
    Loader,       \* refreshes of the cache in flight at the same time
    None,         \* the null of the code
    Requests,     \* the operations that clients use in this instance
    MayRefuse,    \* may the backends refuse a change?
    MaxRequests, MaxRewrites, MaxAgings, MaxRestarts

Operations == {"lifecycle", "edit", "validate", "upsert", "force", "execute",
               "delete"}
Attribute == {"usual", "mutated"}
Trigger == {"none", "delay", "task"}
Age == {"null", "recent", "old"}
DateKey == {"lastSync", "lastLifecycleUpdate"}

\* The filter and the mutation are about one attribute.
Rule == [sources : SUBSET Cycle, filter : SUBSET Attribute, target : Cycle,
         trigger : Trigger, mutation : Attribute \cup {None}, dateKey : DateKey]

ManualRule == [source : Cycle, filter : (SUBSET Attribute) \cup {None},
               targets : SUBSET Cycle]

ASSUME LifecycleAssumption ==
    /\ Ignored \subseteq Identity
    /\ First \in Cycle
    /\ None \notin Nat
    /\ Rulebook # {} /\ Rulebook \subseteq Seq(Rule)
    /\ Manual \in Seq(ManualRule)
    /\ Requests \subseteq Operations
    /\ MayRefuse \in BOOLEAN
    /\ {MaxRequests, MaxRewrites, MaxAgings, MaxRestarts} \subseteq Nat

VARIABLES
    doc,        \* the identities
    history,    \* the "lifecycle" collection, per identity, oldest first
    made,       \* how many documents of the history were created: the next id
    told,       \* the last lifecycle that the backends accepted
    queue,      \* the asynchronous jobs that the daemon has not answered
    call,       \* the requests
    run,        \* the executions of handleCron
    files,      \* the rule files
    cache,      \* lifecycleSources, the rules it was built from
    cronRules,  \* the rules bound to handleCron when the API started
    loader,     \* refreshLifecycleCache between its awaits: what it has read
    count       \* requests, edits of the rules, agings and restarts so far

database == <<doc, history, made>>
rules == <<files, cache, cronRules, loader>>
vars == <<database, told, queue, call, run, rules, count>>

----------------------------------------------------------------------------
(* The data.                                                               *)

Doc == [lifecycle : Cycle, attr : Attribute, deleted : BOOLEAN,
        state : {"TO_SYNC", "TO_VALIDATE", "SYNCED", "ON_ERROR"},
        lastSync : Age, lastLifecycleUpdate : Age]

Entry == [id : Nat, lifecycle : Cycle]

Call == [pc : {"idle", "before", "write", "fire", "rules", "apply", "ruleHistory",
               "ruleDispatch", "dispatch", "rollback", "forget"},
         op : Operations, at : Identity \cup {None},
         input : Cycle \cup Attribute,  \* the body of the request
         before : Doc, after : Doc, changed : BOOLEAN,
         todo : Seq(Rule),              \* the rules still to evaluate
         entry : Nat \cup {None},       \* initialHistoryId
         ruleEntry : Nat \cup {None}]   \* ruleHistory._id

Execution == [pc : {"idle", "find", "each", "history", "dispatch"},
              rules : Seq(Rule), ignoreTrigger : BOOLEAN,
              found : SUBSET Identity, at : Identity \cup {None}]

NewDoc == [lifecycle |-> First, attr |-> "usual", deleted |-> FALSE,
           state |-> "SYNCED", lastSync |-> "recent", lastLifecycleUpdate |-> "null"]

IdleCall == [pc |-> "idle", op |-> "lifecycle", at |-> None, input |-> First,
             before |-> NewDoc, after |-> NewDoc, changed |-> FALSE, todo |-> <<>>,
             entry |-> None, ruleEntry |-> None]

IdleRun == [pc |-> "idle", rules |-> <<>>, ignoreTrigger |-> FALSE, found |-> {},
            at |-> None]

StateOK ==
    /\ doc \in [Identity -> Doc]
    /\ made \in Nat
    /\ told \in [Identity -> Cycle]
    /\ queue \subseteq [about : Identity, lifecycle : Cycle]
    /\ call \in [Caller -> Call]
    /\ run \in [Run -> Execution]
    /\ files \in Rulebook /\ cache \in Rulebook /\ cronRules \in Rulebook
    /\ loader \in [Loader -> Rulebook \cup {None}]
    /\ count \in [{"requests", "rewrites", "agings", "restarts"} -> Nat]

TypeOK == StateOK /\ history \in [Identity -> Seq(Entry)]

Init ==
    /\ doc = [i \in Identity |-> NewDoc]
    /\ history = [i \in Identity |-> <<>>]
    /\ made = 0
    /\ told = [i \in Identity |-> First]
    /\ queue = {}
    /\ call = [c \in Caller |-> IdleCall]
    /\ run = [r \in Run |-> IdleRun]
    /\ files \in Rulebook /\ cache = files /\ cronRules = files
    /\ loader = [l \in Loader |-> None]
    /\ count = [requests |-> 0, rewrites |-> 0, agings |-> 0, restarts |-> 0]

Within(what, bound) ==
    /\ count[what] < bound
    /\ count' = [count EXCEPT ![what] = @ + 1]

\* lifecycleService.create: the new document of the history has id made + 1.
Record(i, lifecycle) ==
    /\ made' = made + 1
    /\ history' = [history EXCEPT ![i] =
                     Append(@, [id |-> made + 1, lifecycle |-> lifecycle])]

----------------------------------------------------------------------------
(* The requests.                                                           *)

Goto(c, pc) == call' = [call EXCEPT ![c].pc = pc]
Return(c) == call' = [call EXCEPT ![c] = IdleCall]

\* getAllowedManualLifecycleTargets: the filtered rules of the source come first,
\* and a source without rule is free.
ManualTargets(d) ==
    LET ofSource == SelectSeq(Manual, LAMBDA r : r.source = d.lifecycle)
        ordered  == SelectSeq(ofSource, LAMBDA r : r.filter # None /\ d.attr \in r.filter)
                      \o SelectSeq(ofSource, LAMBDA r : r.filter = None)
    IN  IF ordered = <<>> THEN Cycle ELSE Head(ordered).targets

Allowed(d, target) == target \in ManualTargets(d) \cup {d.lifecycle}

\* A request about one identity enters its handler.  updateLifecycle checks the
\* manual transition on the document it finds, updateState its state; an upsert
\* refuses a deleted identity and stops at an unchanged fingerprint (Touch);
\* forceLifecycleEvent replays the listener on the document it finds.
Accept(c, op, i, input) ==
    /\ call[c].pc = "idle" /\ op \in Requests
    /\ Within("requests", MaxRequests)
    /\ op = "lifecycle" => Allowed(doc[i], input)
    /\ op = "validate" => doc[i].state = "TO_VALIDATE"
    /\ op = "upsert" => ~doc[i].deleted /\ input # doc[i].attr
    /\ call' = [call EXCEPT ![c] =
                  [IdleCall EXCEPT !.op = op, !.at = i, !.input = input,
                                   !.before = doc[i], !.after = doc[i],
                                   !.pc = IF op = "force" THEN "fire" ELSE "before"]]
    /\ UNCHANGED <<database, told, queue, run, rules>>

Request(c, i) ==
    \/ \E target \in Cycle : Accept(c, "lifecycle", i, target)
    \/ \E value \in Attribute : \E op \in {"edit", "upsert"} : Accept(c, op, i, value)
    \/ \E op \in {"validate", "force"} : Accept(c, op, i, First)

\* checkFingerprint: nothing has changed, only lastSync is written.
Touch(i) ==
    /\ "upsert" \in Requests
    /\ ~doc[i].deleted
    /\ doc' = [doc EXCEPT ![i].lastSync = "recent"]
    /\ UNCHANGED <<history, made, told, queue, call, run, rules, count>>

\* update and upsert of the abstract service read the document ...
Before(c) ==
    /\ call[c].pc = "before"
    /\ call' = [call EXCEPT ![c].pc = "write", ![c].before = doc[call[c].at]]
    /\ UNCHANGED <<database, told, queue, run, rules, count>>

Updated(op, input, d) ==
    CASE op = "lifecycle" -> [d EXCEPT !.lifecycle = input,
                                       !.lastLifecycleUpdate = "recent"]
      [] op = "edit"      -> [d EXCEPT !.attr = input, !.state = "TO_VALIDATE"]
      [] op = "upsert"    -> [d EXCEPT !.attr = input, !.state = "TO_VALIDATE",
                                       !.lastSync = "recent"]
      [] op = "validate"  -> [d EXCEPT !.state = "TO_SYNC"]

\* ... then write it, and await the listeners of afterUpdate or afterUpsert.
Write(c) ==
    LET i == call[c].at
    IN  /\ call[c].pc = "write"
        /\ doc' = [doc EXCEPT ![i] = Updated(call[c].op, call[c].input, @)]
        /\ call' = [call EXCEPT ![c].pc = "fire", ![c].after = doc'[i]]
        /\ UNCHANGED <<history, made, told, queue, run, rules, count>>

\* backendsService.deleteIdentities, its other effects are in BackendJobs.
Delete(i) ==
    /\ "delete" \in Requests
    /\ doc' = [doc EXCEPT ![i].deleted = TRUE]
    /\ UNCHANGED <<history, made, told, queue, call, run, rules, count>>

----------------------------------------------------------------------------
(* The listener, fireLifecycleEvent.                                       *)

\* isOperationalStateOnlyChange
OperationalOnly(before, after) ==
    before.lifecycle = after.lifecycle /\ before.state # after.state

Fire(c) ==
    LET before  == call[c].before
        after   == call[c].after
        forced  == call[c].op = "force"
        changed == forced \/ before.lifecycle # after.lifecycle
    IN  /\ call[c].pc = "fire"
        /\ IF changed
           THEN /\ Record(call[c].at, after.lifecycle)
                /\ call' = [call EXCEPT ![c].pc = "rules", ![c].changed = TRUE,
                                        ![c].entry = made + 1]
           ELSE /\ IF OperationalOnly(before, after) THEN Return(c) ELSE Goto(c, "rules")
                /\ UNCHANGED <<history, made>>
        /\ UNCHANGED <<doc, told, queue, run, rules, count>>

\* The loop iterates on what lifecycleSources holds when it starts.
ReadRules(c) ==
    /\ call[c].pc = "rules"
    /\ call' = [call EXCEPT ![c].pc = "apply", ![c].todo = cache]
    /\ UNCHANGED <<database, told, queue, run, rules, count>>

\* Mutant: the target goes to the state of the identity.
TransitionOfState(rule, d) ==
    [d EXCEPT !.state = rule.target, !.lastLifecycleUpdate = "recent"]

\* What the $set of a rule makes of a document.
Transition(rule, d) ==
    LET moved == [d EXCEPT !.lifecycle = rule.target, !.lastLifecycleUpdate = "recent"]
    IN  IF rule.mutation = None THEN moved
        ELSE [moved EXCEPT !.attr = rule.mutation, !.state = "TO_SYNC"]

\* The rules of lifecycleSources[lifecycle] that the loop does not skip.
Concerns(rule, lifecycle) == lifecycle \in rule.sources /\ rule.trigger = "none"

\* Mutant: the filter of the listener forgets ignoreLifecycle.
SelectsIgnored(rule, i) == doc[i].attr \in rule.filter

\* The filter of findOneAndUpdate.  The lifecycle is not part of it.
Selects(rule, i) == doc[i].attr \in rule.filter /\ i \notin Ignored

ApplyRule(c) ==
    LET i    == call[c].at
        rule == Head(call[c].todo)
    IN  /\ call[c].pc = "apply" /\ call[c].todo # <<>>
        /\ IF Concerns(rule, call[c].after.lifecycle) /\ Selects(rule, i)
           THEN /\ doc' = [doc EXCEPT ![i] = Transition(rule, @)]
                /\ Goto(c, "ruleHistory")
           ELSE /\ call' = [call EXCEPT ![c].todo = Tail(@)]
                /\ UNCHANGED doc
        /\ UNCHANGED <<history, made, told, queue, run, rules, count>>

\* Mutant: a request whose update did not change the lifecycle is not resolved.
NoRuleForgets(c) ==
    /\ call[c].pc = "apply" /\ call[c].todo = <<>>
    /\ call[c].changed
    /\ Goto(c, "dispatch")
    /\ UNCHANGED <<database, told, queue, run, rules, count>>

NoRule(c) ==
    /\ call[c].pc = "apply" /\ call[c].todo = <<>>
    /\ IF call[c].changed THEN Goto(c, "dispatch") ELSE Return(c)
    /\ UNCHANGED <<database, told, queue, run, rules, count>>

RuleHistory(c) ==
    /\ call[c].pc = "ruleHistory"
    /\ Record(call[c].at, Head(call[c].todo).target)
    /\ call' = [call EXCEPT ![c].pc = "ruleDispatch", ![c].ruleEntry = made + 1]
    /\ UNCHANGED <<doc, told, queue, run, rules, count>>

\* lifecycleChangedIdentities waits for the job.  When it succeeds, executeJob
\* writes targetState, and the listener of "completed" SYNCED: either is last.
Accepted(i, lifecycle, targets) ==
    /\ told' = [told EXCEPT ![i] = lifecycle]
    /\ \E s \in targets : doc' = [doc EXCEPT ![i].state = s]

\* When it fails, or takes too long, executeJob writes ON_ERROR and throws; the
\* backends may have applied the change.
Refused(i, lifecycle) ==
    /\ MayRefuse
    /\ doc' = [doc EXCEPT ![i].state = "ON_ERROR"]
    /\ told' \in {told, [told EXCEPT ![i] = lifecycle]}

\* Mutant: the document of the event is dispatched, not the one the rule wrote.
RuleDispatchStale(c) ==
    /\ call[c].pc = "ruleDispatch"
    /\ \/ Accepted(call[c].at, call[c].after.lifecycle, {"SYNCED"}) /\ Return(c)
       \/ Refused(call[c].at, call[c].after.lifecycle) /\ Goto(c, "rollback")
    /\ UNCHANGED <<history, made, queue, run, rules, count>>

RuleDispatch(c) ==
    LET i    == call[c].at
        rule == Head(call[c].todo)
    IN  /\ call[c].pc = "ruleDispatch"
        /\ \/ /\ Accepted(i, rule.target, IF rule.mutation = None THEN {"SYNCED"}
                                          ELSE {"SYNCED", "TO_SYNC"})
              /\ Return(c)
           \/ Refused(i, rule.target) /\ Goto(c, "rollback")
        /\ UNCHANGED <<history, made, queue, run, rules, count>>

Dispatch(c) ==
    LET i == call[c].at
    IN  /\ call[c].pc = "dispatch"
        /\ \/ Accepted(i, call[c].after.lifecycle, {"SYNCED"}) /\ Return(c)
           \/ /\ Refused(i, call[c].after.lifecycle)
              /\ IF call[c].op = "force" THEN Return(c) ELSE Goto(c, "rollback")
        /\ UNCHANGED <<history, made, queue, run, rules, count>>

\* Mutant: a refused rule takes back the entry of the change that fired it.
UndoInitial(c) ==
    [to |-> IF call[c].ruleEntry # None THEN call[c].after ELSE call[c].before,
     entry |-> call[c].entry]

\* rollbackLifecycleOnBackendFailure.  A refused rule goes back to the document
\* that made the listener fire, a refused change to the one before it.
Undo(c) == IF call[c].ruleEntry # None
           THEN [to |-> call[c].after, entry |-> call[c].ruleEntry]
           ELSE [to |-> call[c].before, entry |-> call[c].entry]

Rollback(c) ==
    LET date == Undo(c).to.lastLifecycleUpdate
    IN  /\ call[c].pc = "rollback"
        /\ doc' = [doc EXCEPT ![call[c].at].lifecycle = Undo(c).to.lifecycle,
                              ![call[c].at].lastLifecycleUpdate =
                                 IF date = "null" THEN @ ELSE date]
        /\ Goto(c, "forget")
        /\ UNCHANGED <<history, made, told, queue, run, rules, count>>

\* findByIdAndDelete.
Without(entries, id) ==
    IF \E n \in DOMAIN entries : entries[n].id = id
    THEN LET n == CHOOSE n \in DOMAIN entries : entries[n].id = id
         IN  SubSeq(entries, 1, n - 1) \o SubSeq(entries, n + 1, Len(entries))
    ELSE entries

Forget(c) ==
    /\ call[c].pc = "forget"
    /\ history' = [history EXCEPT ![call[c].at] = Without(@, Undo(c).entry)]
    /\ Return(c)
    /\ UNCHANGED <<doc, made, told, queue, run, rules, count>>

CallStep(c) ==
    \/ Before(c) \/ Write(c) \/ Fire(c) \/ ReadRules(c) \/ ApplyRule(c) \/ NoRule(c)
    \/ RuleHistory(c) \/ RuleDispatch(c) \/ Dispatch(c) \/ Rollback(c) \/ Forget(c)

----------------------------------------------------------------------------
(* The rule files and the cache.                                           *)

\* refreshLifecycleCache reads the files, then awaits their validation ...
Load(l, book) ==
    /\ loader[l] = None
    /\ loader' = [loader EXCEPT ![l] = book]

\* ... and rebuilds lifecycleSources from what it has read.
Install(l) ==
    /\ loader[l] # None
    /\ cache' = loader[l]
    /\ loader' = [loader EXCEPT ![l] = None]
    /\ UNCHANGED <<database, told, queue, call, run, files, cronRules, count>>

\* createRule, updateRule and deleteRule write a file, then refresh the cache.
Rewrite(book, l) ==
    /\ Within("rewrites", MaxRewrites)
    /\ files' = book
    /\ Load(l, book)
    /\ UNCHANGED <<database, told, queue, call, run, cache, cronRules>>

----------------------------------------------------------------------------
(* handleCron.                                                             *)

Start(r, list, ignoreTrigger) ==
    /\ run[r].pc = "idle"
    /\ run' = [run EXCEPT ![r] = [IdleRun EXCEPT !.pc = "find", !.rules = list,
                                                 !.ignoreTrigger = ignoreTrigger]]

\* Mutant: job.addCallback is missing, only a rewrite refreshes the cache.
TickNoRefresh(r, l) ==
    /\ Start(r, cronRules, FALSE)
    /\ UNCHANGED <<database, told, queue, call, rules, count>>

\* The cron job calls both of its callbacks and awaits neither: handleCron with
\* the rules it was bound to, and the refresh of the cache.
Tick(r, l) ==
    /\ Start(r, cronRules, FALSE)
    /\ Load(l, files)
    /\ UNCHANGED <<database, told, queue, call, files, cache, cronRules, count>>

\* executeRule runs the rules of a file as it is now, if it holds one with
\* trigger -1.  The cache is refreshed when it is older than a minute.
Execute(r) ==
    /\ "execute" \in Requests /\ Within("requests", MaxRequests)
    /\ \E n \in DOMAIN files : files[n].trigger = "task"
    /\ Start(r, files, TRUE)
    /\ UNCHANGED loader \/ \E l \in Loader : Load(l, files)
    /\ UNCHANGED <<database, told, queue, call, files, cache, cronRules>>

\* Mutant: the query of handleCron forgets ignoreLifecycle.
DueUnlessDeleted(rule, ignoreTrigger, i) ==
    /\ rule.trigger = IF ignoreTrigger THEN "task" ELSE "delay"
    /\ doc[i].attr \in rule.filter
    /\ doc[i].lifecycle \in rule.sources
    /\ ~doc[i].deleted
    /\ ignoreTrigger \/ doc[i][rule.dateKey] = "old"

Due(rule, ignoreTrigger, i) ==
    /\ rule.trigger = IF ignoreTrigger THEN "task" ELSE "delay"
    /\ doc[i].attr \in rule.filter
    /\ doc[i].lifecycle \in rule.sources
    /\ i \notin Ignored
    /\ ~doc[i].deleted
    /\ ignoreTrigger \/ doc[i][rule.dateKey] = "old"

Find(r) ==
    /\ run[r].pc = "find"
    /\ IF run[r].rules = <<>> THEN run' = [run EXCEPT ![r] = IdleRun]
       ELSE run' = [run EXCEPT ![r].pc = "each",
                               ![r].found = {i \in Identity :
                                  Due(Head(run[r].rules), run[r].ignoreTrigger, i)}]
    /\ UNCHANGED <<database, told, queue, call, rules, count>>

\* findOneAndUpdate by _id alone, on each identity that was found.
CronWrite(r, i) ==
    /\ run[r].pc = "each" /\ i \in run[r].found
    /\ doc' = [doc EXCEPT ![i] = Transition(Head(run[r].rules), @)]
    /\ run' = [run EXCEPT ![r].pc = "history", ![r].at = i, ![r].found = @ \ {i}]
    /\ UNCHANGED <<history, made, told, queue, call, rules, count>>

\* Mutant: the history is written only when there is a mutation to dispatch.
CronHistoryOfMutation(r) ==
    LET rule == Head(run[r].rules)
    IN  /\ run[r].pc = "history"
        /\ IF rule.mutation = None
           THEN /\ UNCHANGED <<history, made>>
                /\ run' = [run EXCEPT ![r].pc = "each"]
           ELSE /\ Record(run[r].at, rule.target)
                /\ run' = [run EXCEPT ![r].pc = "dispatch"]
        /\ UNCHANGED <<doc, told, queue, call, rules, count>>

CronHistory(r) ==
    LET rule == Head(run[r].rules)
    IN  /\ run[r].pc = "history"
        /\ Record(run[r].at, rule.target)
        /\ run' = [run EXCEPT ![r].pc = IF rule.mutation = None THEN "each"
                                        ELSE "dispatch"]
        /\ UNCHANGED <<doc, told, queue, call, rules, count>>

\* lifecycleChangedIdentities with async: the job is only queued.
CronDispatch(r) ==
    /\ run[r].pc = "dispatch"
    /\ queue' = queue \cup {[about |-> run[r].at,
                             lifecycle |-> Head(run[r].rules).target]}
    /\ run' = [run EXCEPT ![r].pc = "each"]
    /\ UNCHANGED <<database, told, call, rules, count>>

\* Mutant: the run does not advance to the next rule of the file.
NextRuleRepeats(r) ==
    /\ run[r].pc = "each" /\ run[r].found = {}
    /\ run' = [run EXCEPT ![r].pc = "find"]
    /\ UNCHANGED <<database, told, queue, call, rules, count>>

NextRule(r) ==
    /\ run[r].pc = "each" /\ run[r].found = {}
    /\ run' = [run EXCEPT ![r].pc = "find", ![r].rules = Tail(@)]
    /\ UNCHANGED <<database, told, queue, call, rules, count>>

RunStep(r) ==
    \/ Find(r) \/ CronHistory(r) \/ CronDispatch(r) \/ NextRule(r)
    \/ \E i \in Identity : CronWrite(r, i)

\* The listeners of BackendsService, when the daemon answers a queued job.
Answer(job) ==
    /\ queue' = queue \ {job}
    /\ \/ Accepted(job.about, job.lifecycle, {"SYNCED"})
       \/ Refused(job.about, job.lifecycle)
    /\ UNCHANGED <<history, made, call, run, rules, count>>

----------------------------------------------------------------------------
(* Time, and the process of the API.                                       *)

\* The delay of the rules has passed since a date of an identity.
Grow(i, key) ==
    /\ doc[i][key] = "recent"
    /\ Within("agings", MaxAgings)
    /\ doc' = [doc EXCEPT ![i][key] = "old"]
    /\ UNCHANGED <<history, made, told, queue, call, run, rules>>

\* onApplicationBootstrap: whatever was in flight is lost.
Restart ==
    /\ Within("restarts", MaxRestarts)
    /\ call' = [c \in Caller |-> IdleCall]
    /\ run' = [r \in Run |-> IdleRun]
    /\ loader' = [l \in Loader |-> None]
    /\ cache' = files /\ cronRules' = files
    /\ UNCHANGED <<database, told, queue, files>>

Next ==
    \/ \E c \in Caller : CallStep(c) \/ \E i \in Identity : Request(c, i)
    \/ \E i \in Identity : Delete(i) \/ Touch(i) \/ \E key \in DateKey : Grow(i, key)
    \/ \E l \in Loader : Install(l) \/ \E book \in Rulebook : Rewrite(book, l)
    \/ \E r \in Run : RunStep(r) \/ Execute(r) \/ \E l \in Loader : Tick(r, l)
    \/ \E job \in queue : Answer(job)
    \/ Restart

Spec == Init /\ [][Next]_vars

\* The event loop resumes what it has started, the cron job keeps ticking, and
\* the files are validated.  Nobody has to send a request.
Fairness ==
    /\ \A c \in Caller : WF_vars(CallStep(c))
    /\ \A r \in Run : WF_vars(RunStep(r))
    /\ \A l \in Loader : WF_vars(Install(l))
    /\ WF_vars(\E r \in Run : \E l \in Loader : Tick(r, l))

FairSpec == Spec /\ Fairness

----------------------------------------------------------------------------
(* Properties.                                                             *)

AtRest(i) ==
    /\ \A c \in Caller : call[c].at # i
    /\ \A r \in Run : run[r].at = i => run[r].pc \in {"find", "each"}

Latest(entries) ==
    IF entries = <<>> THEN First ELSE entries[Len(entries)].lifecycle

\* The history accounts for the lifecycle: once nothing is in flight about an
\* identity, the last entry names the lifecycle of the document, and there is
\* none as long as it never moved.  A refused change must take back its own
\* entry, a refused rule the entry of the rule and not the one of the change
\* that made it fire (rollbackLifecycleOnBackendFailure).  It is a property of
\* what happens to one identity at a time, as long as the API is not stopped in
\* the middle: nothing orders the writes of two requests about it, and nothing
\* repairs a history after a stop.
HistoryAccounts ==
    \A i \in Identity : count.restarts = 0 /\ AtRest(i) =>
        doc[i].lifecycle = Latest(history[i])

\* A request that ends without an error after a change of lifecycle leaves the
\* backends informed of the lifecycle that the document has, be it the one of
\* the request or the target of the rule that it fired (fireLifecycleEvent).  A
\* stop of the API answers nobody.
AnswerMeansTold ==
    [][\A c \in Caller :
         LET i == call[c].at
         IN  (/\ call[c].pc \in {"ruleDispatch", "dispatch"}
              /\ call'[c].pc = "idle"
              /\ count'.restarts = count.restarts
              /\ doc'[i].state # "ON_ERROR") => told'[i] = doc'[i].lifecycle]_vars

\* Every request is answered, also when the rules form a cycle and when the
\* backends refuse the change.
CallsEnd == \A c \in Caller : (call[c].pc # "idle") ~> (call[c].pc = "idle")

\* An identity with ignoreLifecycle is moved by the requests about it, and by
\* no rule, whatever runs at the same time.
IgnoredStay ==
    [][\A i \in Ignored : doc'[i].lifecycle # doc[i].lifecycle =>
         \E c \in Caller : call[c].at = i /\ call[c].pc \in {"write", "rollback"}]_vars

\* An identity whose delay has passed does not wait for ever: a run of the cron
\* job processes it, whatever happens to the others (handleCron).
DueIsProcessed ==
    \A i \in Identity :
      []<>(\A n \in DOMAIN cronRules : ~Due(cronRules[n], FALSE, i))

\* When the files are no longer rewritten, the listener ends up with the rules
\* that they hold, although two refreshes may finish in the other order than
\* they have read the files: the next tick repairs it (refreshLifecycleCache).
CacheConverges == <>[](cache = files)

\* Why rules never move them: the inductive invariant.  A request keeps the kind
\* of body its operation has, a rule in progress is one of the list, and a run
\* has found no identity with ignoreLifecycle.
Healthy(e) ==
    /\ e.pc # "idle" => e.at \in Identity
    /\ e.op = "lifecycle" => e.input \in Cycle
    /\ e.op \in {"edit", "upsert"} => e.input \in Attribute
    /\ e.pc \in {"before", "write"} =>
         e.op \in {"lifecycle", "edit", "upsert", "validate"}
    /\ e.pc \in {"ruleHistory", "ruleDispatch"} => e.todo # <<>>

HealthyRun(x) ==
    /\ x.pc \in {"history", "dispatch"} => x.at \in Identity
    /\ x.pc \in {"each", "history", "dispatch"} => x.rules # <<>>
    /\ x.found \cap Ignored = {}

IInv == StateOK /\ (\A c \in Caller : Healthy(call[c]))
        /\ (\A r \in Run : HealthyRun(run[r]))

\* What the configuration service says after a rewrite, "Lifecycle
\* configuration synchronized after file change": a run of the cron job that
\* starts when no refresh is in flight applies the rules of the files.
CronFollowsConfig ==
    [][\A r \in Run :
         (/\ run[r].pc = "idle" /\ run'[r].pc = "find" /\ ~run'[r].ignoreTrigger
          /\ \A l \in Loader : loader[l] = None)
           => run'[r].rules = files]_vars
=============================================================================
