--------------------------- MODULE Lifecycle_proofs ---------------------------
(***************************************************************************)
(* Theorems about Lifecycle, for every set of identities, every content of  *)
(* the rule files and every number of requests, runs and refreshes.         *)
(***************************************************************************)
EXTENDS Lifecycle, SequenceTheorems, TLAPS

----------------------------------------------------------------------------
(* The data.                                                               *)

LEMMA IdleTypes ==
    ASSUME LifecycleAssumption
    PROVE  NewDoc \in Doc /\ IdleCall \in Call /\ IdleRun \in Execution
<1>1. NewDoc \in Doc
  BY DEF NewDoc, Doc, Attribute, Age, LifecycleAssumption
<1>2. IdleCall \in Call
  BY <1>1 DEF IdleCall, Call, Operations, LifecycleAssumption
<1>3. IdleRun \in Execution
  BY DEF IdleRun, Execution
<1> QED
  BY <1>1, <1>2, <1>3

\* A rule makes a document of a document.
LEMMA TransitionTypes ==
    ASSUME NEW rule \in Rule, NEW d \in Doc
    PROVE  Transition(rule, d) \in Doc
BY DEF Transition, Rule, Doc, Age, Attribute

\* So does an update, with a body of the kind that its operation takes.
LEMMA UpdatedTypes ==
    ASSUME NEW d \in Doc, NEW op \in {"lifecycle", "edit", "upsert", "validate"},
           NEW input,
           op = "lifecycle" => input \in Cycle,
           op \in {"edit", "upsert"} => input \in Attribute
    PROVE  Updated(op, input, d) \in Doc
<1>1. CASE op = "lifecycle"
  BY <1>1 DEF Updated, Doc, Age
<1>2. CASE op = "edit"
  BY <1>2 DEF Updated, Doc, Age
<1>3. CASE op = "upsert"
  BY <1>3 DEF Updated, Doc, Age
<1>4. CASE op = "validate"
  BY <1>4 DEF Updated, Doc, Age
<1> QED
  BY <1>1, <1>2, <1>3, <1>4

\* The list of the rules that remain, in the listener and in the cron job.
LEMMA ListTypes ==
    ASSUME NEW list \in Seq(Rule), list # <<>>
    PROVE  Head(list) \in Rule /\ Tail(list) \in Seq(Rule)
OBVIOUS

LEMMA WithinTypes ==
    ASSUME count \in [{"requests", "rewrites", "agings", "restarts"} -> Nat],
           NEW what \in {"requests", "rewrites", "agings", "restarts"},
           NEW bound, Within(what, bound)
    PROVE  count' \in [{"requests", "rewrites", "agings", "restarts"} -> Nat]
BY DEF Within

----------------------------------------------------------------------------
(* The moves of one request, and of one run.                               *)

LEMMA CallMoves ==
    ASSUME call \in [Caller -> Call], \A c \in Caller : Healthy(call[c]),
           NEW c \in Caller, NEW e \in Call, Healthy(e),
           call' = [call EXCEPT ![c] = e]
    PROVE  call' \in [Caller -> Call] /\ \A d \in Caller : Healthy(call'[d])
<1>1. call' \in [Caller -> Call]
  OBVIOUS
<1>2. \A d \in Caller : call'[d] = IF d = c THEN e ELSE call[d]
  OBVIOUS
<1> QED
  BY <1>1, <1>2

LEMMA RunMoves ==
    ASSUME run \in [Run -> Execution], \A r \in Run : HealthyRun(run[r]),
           NEW r \in Run, NEW x \in Execution, HealthyRun(x),
           run' = [run EXCEPT ![r] = x]
    PROVE  run' \in [Run -> Execution] /\ \A d \in Run : HealthyRun(run'[d])
<1>1. run' \in [Run -> Execution]
  OBVIOUS
<1>2. \A d \in Run : run'[d] = IF d = r THEN x ELSE run[d]
  OBVIOUS
<1> QED
  BY <1>1, <1>2

\* A request moves to a step that asks nothing new of it.
LEMMA GotoHealthy ==
    ASSUME NEW e \in Call, Healthy(e), e.pc # "idle",
           NEW pc \in {"fire", "rules", "apply", "dispatch", "rollback", "forget"}
    PROVE  [e EXCEPT !.pc = pc] \in Call /\ Healthy([e EXCEPT !.pc = pc])
BY DEF Call, Healthy

LEMMA GotoMoves ==
    ASSUME call \in [Caller -> Call], \A d \in Caller : Healthy(call[d]),
           NEW c \in Caller, call[c].pc # "idle",
           NEW pc \in {"fire", "rules", "apply", "dispatch", "rollback", "forget"},
           Goto(c, pc)
    PROVE  call' \in [Caller -> Call] /\ \A d \in Caller : Healthy(call'[d])
<1>1. call' = [call EXCEPT ![c] = [call[c] EXCEPT !.pc = pc]]
  BY DEF Goto
<1> QED
  BY <1>1, GotoHealthy, CallMoves

LEMMA ReturnMoves ==
    ASSUME LifecycleAssumption,
           call \in [Caller -> Call], \A d \in Caller : Healthy(call[d]),
           NEW c \in Caller, Return(c)
    PROVE  call' \in [Caller -> Call] /\ \A d \in Caller : Healthy(call'[d])
<1>1. IdleCall \in Call
  BY IdleTypes
<1>2. Healthy(IdleCall)
  BY DEF IdleCall, Healthy, LifecycleAssumption
<1> QED
  BY <1>1, <1>2, CallMoves DEF Return

LEMMA DispatchTypes ==
    ASSUME StateOK, NEW i \in Identity, NEW lifecycle \in Cycle
    PROVE  /\ \A targets \in SUBSET {"SYNCED", "TO_SYNC"} :
                 Accepted(i, lifecycle, targets) => doc' \in [Identity -> Doc] /\ told' \in [Identity -> Cycle]
           /\ Refused(i, lifecycle) => doc' \in [Identity -> Doc] /\ told' \in [Identity -> Cycle]
<1>1. \A s \in {"SYNCED", "TO_SYNC", "ON_ERROR"} :
        [doc EXCEPT ![i].state = s] \in [Identity -> Doc]
  BY DEF StateOK, Doc
<1>2. [told EXCEPT ![i] = lifecycle] \in [Identity -> Cycle] /\ told \in [Identity -> Cycle]
  BY DEF StateOK
<1> QED
  BY <1>1, <1>2 DEF Accepted, Refused

----------------------------------------------------------------------------
(* The steps of a request keep the invariant.                              *)

LEMMA RequestStep ==
    ASSUME LifecycleAssumption, IInv, NEW c \in Caller, NEW i \in Identity,
           Request(c, i)
    PROVE  IInv'
<1>1. \A op \in {"lifecycle", "edit", "upsert", "validate", "force"} :
        \A input : (/\ Accept(c, op, i, input)
                    /\ input \in Cycle \cup Attribute
                    /\ op = "lifecycle" => input \in Cycle
                    /\ op \in {"edit", "upsert"} => input \in Attribute) => IInv'
  <2> SUFFICES ASSUME NEW op \in {"lifecycle", "edit", "upsert", "validate", "force"},
                      NEW input \in Cycle \cup Attribute, Accept(c, op, i, input),
                      op = "lifecycle" => input \in Cycle,
                      op \in {"edit", "upsert"} => input \in Attribute
               PROVE  IInv'
    OBVIOUS
  <2> DEFINE first == IF op = "force" THEN "fire" ELSE "before"
             e == [IdleCall EXCEPT !.op = op, !.at = i, !.input = input,
                                   !.before = doc[i], !.after = doc[i], !.pc = first]
  <2>1. doc[i] \in Doc
    BY DEF IInv, StateOK
  <2>2. e \in Call
    <3>1. IdleCall \in Call /\ op \in Operations
      BY IdleTypes DEF Operations
    <3>2. e = [IdleCall EXCEPT !.op = op, !.at = i, !.input = input, !.before = doc[i],
                               !.after = doc[i], !.pc = first]
      OBVIOUS
    <3>3. first \in {"before", "fire"}
      OBVIOUS
    <3> HIDE DEF e, first
    <3>4. e = [pc |-> first, op |-> op, at |-> i, input |-> input,
               before |-> doc[i], after |-> doc[i], changed |-> FALSE,
               todo |-> <<>>, entry |-> None, ruleEntry |-> None]
      BY <3>2, Zenon DEF IdleCall
    <3> QED
      BY <2>1, <3>1, <3>3, <3>4 DEF Call
  <2>3. Healthy(e)
    BY IdleTypes DEF Healthy, Call
  <2>4. call' \in [Caller -> Call] /\ \A d \in Caller : Healthy(call'[d])
    <3>1. call' = [call EXCEPT ![c] = e]
      BY DEF Accept
    <3> HIDE DEF e
    <3> QED
      BY <2>2, <2>3, <3>1, CallMoves DEF IInv, StateOK
  <2>5. count' \in [{"requests", "rewrites", "agings", "restarts"} -> Nat]
    BY WithinTypes DEF Accept, IInv, StateOK
  <2> QED
    BY <2>4, <2>5 DEF Accept, IInv, StateOK, database, rules
<1>2. First \in Cycle
  BY DEF LifecycleAssumption
<1> QED
  BY <1>1, <1>2 DEF Request

LEMMA BeforeStep ==
    ASSUME IInv, NEW c \in Caller, Before(c)
    PROVE  IInv'
<1> DEFINE e == [call[c] EXCEPT !.pc = "write", !.before = doc[call[c].at]]
<1>1. call[c] \in Call /\ Healthy(call[c]) /\ call[c].pc = "before"
  BY DEF IInv, StateOK, Before
<1>2. doc[call[c].at] \in Doc
  BY <1>1 DEF IInv, StateOK, Healthy
<1>3. e \in Call /\ Healthy(e)
  BY <1>1, <1>2 DEF Call, Healthy
<1>4. call' = [call EXCEPT ![c] = e]
  BY DEF Before
<1> HIDE DEF e
<1>5. call' \in [Caller -> Call] /\ \A d \in Caller : Healthy(call'[d])
  BY <1>3, <1>4, CallMoves DEF IInv, StateOK
<1> QED
  BY <1>5 DEF Before, IInv, StateOK, database, rules

LEMMA WriteStep ==
    ASSUME IInv, NEW c \in Caller, Write(c)
    PROVE  IInv'
<1> DEFINE i == call[c].at
           d == Updated(call[c].op, call[c].input, doc[i])
           e == [call[c] EXCEPT !.pc = "fire", !.after = d]
<1>1. call[c] \in Call /\ Healthy(call[c]) /\ call[c].pc = "write"
  BY DEF IInv, StateOK, Write
<1>2. i \in Identity /\ doc[i] \in Doc
  BY <1>1 DEF IInv, StateOK, Healthy
<1>3. d \in Doc
  BY <1>1, <1>2, UpdatedTypes DEF Healthy
<1>4. doc' = [doc EXCEPT ![i] = d]
  BY DEF Write
<1>5. doc' \in [Identity -> Doc] /\ doc'[i] = d
  BY <1>2, <1>3, <1>4 DEF IInv, StateOK
<1>6. call' = [call EXCEPT ![c] = e]
  BY <1>5 DEF Write
<1> HIDE DEF d
<1>7. e \in Call /\ Healthy(e)
  BY <1>1, <1>3 DEF Call, Healthy
<1> HIDE DEF e
<1>8. call' \in [Caller -> Call] /\ \A b \in Caller : Healthy(call'[b])
  BY <1>6, <1>7, CallMoves DEF IInv, StateOK
<1> QED
  BY <1>5, <1>8 DEF Write, IInv, StateOK, rules

LEMMA FireStep ==
    ASSUME LifecycleAssumption, IInv, NEW c \in Caller, Fire(c)
    PROVE  IInv'
<1>1. call[c] \in Call /\ Healthy(call[c]) /\ call[c].pc = "fire"
  BY DEF IInv, StateOK, Fire
<1>2. call' \in [Caller -> Call] /\ \A d \in Caller : Healthy(call'[d])
  <2>1. CASE call' = [call EXCEPT ![c].pc = "rules", ![c].changed = TRUE, ![c].entry = made + 1]
    <3> DEFINE e == [call[c] EXCEPT !.pc = "rules", !.changed = TRUE, !.entry = made + 1]
    <3>1. made + 1 \in Nat \cup {None}
      BY DEF IInv, StateOK
    <3>2. e \in Call
      BY <1>1, <3>1 DEF Call
    <3>3. Healthy(e)
      BY <1>1 DEF Call, Healthy
    <3>4. call' = [call EXCEPT ![c] = e]
      BY <2>1
    <3> HIDE DEF e
    <3> QED
      BY <3>2, <3>3, <3>4, CallMoves DEF IInv, StateOK
  <2>2. CASE Return(c)
    BY <2>2, ReturnMoves DEF IInv, StateOK
  <2>3. CASE Goto(c, "rules")
    BY <1>1, <2>3, GotoMoves DEF IInv, StateOK
  <2> QED
    BY <2>1, <2>2, <2>3 DEF Fire
<1>3. made' \in Nat
  BY DEF Fire, Record, IInv, StateOK
<1> QED
  BY <1>2, <1>3 DEF Fire, IInv, StateOK, rules

LEMMA ReadRulesStep ==
    ASSUME LifecycleAssumption, IInv, NEW c \in Caller, ReadRules(c)
    PROVE  IInv'
<1> DEFINE e == [call[c] EXCEPT !.pc = "apply", !.todo = cache]
<1>1. call[c] \in Call /\ Healthy(call[c]) /\ call[c].pc = "rules"
  BY DEF IInv, StateOK, ReadRules
<1>2. cache \in Seq(Rule)
  BY DEF IInv, StateOK, LifecycleAssumption
<1>3. e \in Call /\ Healthy(e)
  BY <1>1, <1>2 DEF Call, Healthy
<1>4. call' = [call EXCEPT ![c] = e]
  BY DEF ReadRules
<1> HIDE DEF e
<1>5. call' \in [Caller -> Call] /\ \A d \in Caller : Healthy(call'[d])
  BY <1>3, <1>4, CallMoves DEF IInv, StateOK
<1> QED
  BY <1>5 DEF ReadRules, IInv, StateOK, database, rules

LEMMA ApplyRuleStep ==
    ASSUME IInv, NEW c \in Caller, ApplyRule(c)
    PROVE  IInv'
<1> DEFINE i == call[c].at
           rule == Head(call[c].todo)
<1>1. call[c] \in Call /\ Healthy(call[c]) /\ call[c].pc = "apply" /\ call[c].todo # <<>>
  BY DEF IInv, StateOK, ApplyRule
<1>2. i \in Identity /\ doc[i] \in Doc
  BY <1>1 DEF IInv, StateOK, Healthy
<1>3. rule \in Rule /\ Tail(call[c].todo) \in Seq(Rule)
  BY <1>1, ListTypes DEF Call
<1>4. doc' \in [Identity -> Doc]
  <2>1. Transition(rule, doc[i]) \in Doc
    BY <1>2, <1>3, TransitionTypes
  <2>2. doc' = doc \/ doc' = [doc EXCEPT ![i] = Transition(rule, doc[i])]
    BY DEF ApplyRule
  <2> QED
    BY <2>1, <2>2 DEF IInv, StateOK
<1>5. call' \in [Caller -> Call] /\ \A d \in Caller : Healthy(call'[d])
  <2>1. CASE Goto(c, "ruleHistory")
    <3> DEFINE e == [call[c] EXCEPT !.pc = "ruleHistory"]
    <3>1. e \in Call /\ Healthy(e)
      BY <1>1 DEF Call, Healthy
    <3>2. call' = [call EXCEPT ![c] = e]
      BY <2>1 DEF Goto
    <3> HIDE DEF e
    <3> QED
      BY <3>1, <3>2, CallMoves DEF IInv, StateOK
  <2>2. CASE call' = [call EXCEPT ![c].todo = Tail(@)]
    <3> DEFINE e == [call[c] EXCEPT !.todo = Tail(@)]
    <3>1. e \in Call /\ Healthy(e)
      BY <1>1, <1>3 DEF Call, Healthy
    <3>2. call' = [call EXCEPT ![c] = e]
      BY <2>2
    <3> HIDE DEF e
    <3> QED
      BY <3>1, <3>2, CallMoves DEF IInv, StateOK
  <2> QED
    BY <2>1, <2>2 DEF ApplyRule
<1> QED
  BY <1>4, <1>5 DEF ApplyRule, IInv, StateOK, rules

LEMMA NoRuleStep ==
    ASSUME LifecycleAssumption, IInv, NEW c \in Caller, NoRule(c)
    PROVE  IInv'
<1>1. call[c].pc # "idle"
  BY DEF NoRule
<1>2. call' \in [Caller -> Call] /\ \A d \in Caller : Healthy(call'[d])
  BY <1>1, GotoMoves, ReturnMoves DEF NoRule, IInv, StateOK
<1> QED
  BY <1>2 DEF NoRule, IInv, StateOK, database, rules

LEMMA RuleHistoryStep ==
    ASSUME IInv, NEW c \in Caller, RuleHistory(c)
    PROVE  IInv'
<1> DEFINE e == [call[c] EXCEPT !.pc = "ruleDispatch", !.ruleEntry = made + 1]
<1>1. call[c] \in Call /\ Healthy(call[c]) /\ call[c].pc = "ruleHistory"
  BY DEF IInv, StateOK, RuleHistory
<1>2. made + 1 \in Nat \cup {None} /\ made' \in Nat
  BY DEF IInv, StateOK, RuleHistory, Record
<1>3. e \in Call
  BY <1>1, <1>2 DEF Call
<1>4. Healthy(e)
  BY <1>1 DEF Call, Healthy
<1>5. call' = [call EXCEPT ![c] = e]
  BY DEF RuleHistory
<1> HIDE DEF e
<1>6. call' \in [Caller -> Call] /\ \A d \in Caller : Healthy(call'[d])
  BY <1>3, <1>4, <1>5, CallMoves DEF IInv, StateOK
<1> QED
  BY <1>2, <1>6 DEF RuleHistory, IInv, StateOK, rules

LEMMA RuleDispatchStep ==
    ASSUME LifecycleAssumption, IInv, NEW c \in Caller, RuleDispatch(c)
    PROVE  IInv'
<1> DEFINE i == call[c].at
           rule == Head(call[c].todo)
<1>1. call[c] \in Call /\ Healthy(call[c]) /\ call[c].pc = "ruleDispatch"
  BY DEF IInv, StateOK, RuleDispatch
<1>2. i \in Identity /\ rule \in Rule
  BY <1>1, ListTypes DEF Healthy, Call
<1>3. rule.target \in Cycle
  BY <1>2 DEF Rule
<1>4. doc' \in [Identity -> Doc] /\ told' \in [Identity -> Cycle]
  BY <1>2, <1>3, DispatchTypes DEF RuleDispatch, IInv
<1>5. call' \in [Caller -> Call] /\ \A d \in Caller : Healthy(call'[d])
  BY <1>1, GotoMoves, ReturnMoves DEF RuleDispatch, IInv, StateOK
<1> QED
  BY <1>4, <1>5 DEF RuleDispatch, IInv, StateOK, rules

LEMMA DispatchStep ==
    ASSUME LifecycleAssumption, IInv, NEW c \in Caller, Dispatch(c)
    PROVE  IInv'
<1> DEFINE i == call[c].at
<1>1. call[c] \in Call /\ Healthy(call[c]) /\ call[c].pc = "dispatch"
  BY DEF IInv, StateOK, Dispatch
<1>2. i \in Identity /\ call[c].after.lifecycle \in Cycle
  BY <1>1 DEF Healthy, Call, Doc
<1>3. doc' \in [Identity -> Doc] /\ told' \in [Identity -> Cycle]
  BY <1>2, DispatchTypes DEF Dispatch, IInv
<1>4. call' \in [Caller -> Call] /\ \A d \in Caller : Healthy(call'[d])
  BY <1>1, GotoMoves, ReturnMoves DEF Dispatch, IInv, StateOK
<1> QED
  BY <1>3, <1>4 DEF Dispatch, IInv, StateOK, rules

LEMMA RollbackStep ==
    ASSUME LifecycleAssumption, IInv, NEW c \in Caller, Rollback(c)
    PROVE  IInv'
<1> DEFINE i == call[c].at
           to == Undo(c).to
<1>1. call[c] \in Call /\ Healthy(call[c]) /\ call[c].pc = "rollback"
  BY DEF IInv, StateOK, Rollback
<1>2. i \in Identity /\ doc[i] \in Doc
  BY <1>1 DEF IInv, StateOK, Healthy
<1>3. to \in Doc
  BY <1>1 DEF Undo, Call
<1> DEFINE d == [doc[i] EXCEPT !.lifecycle = to.lifecycle,
                               !.lastLifecycleUpdate =
                                  IF to.lastLifecycleUpdate = "null" THEN @
                                  ELSE to.lastLifecycleUpdate]
<1>4. d \in Doc
  BY <1>2, <1>3 DEF Doc
<1>5. doc' = [doc EXCEPT ![i] = d]
  BY DEF Rollback
<1> HIDE DEF d
<1>6. doc' \in [Identity -> Doc]
  BY <1>4, <1>5 DEF IInv, StateOK
<1>7. call' \in [Caller -> Call] /\ \A b \in Caller : Healthy(call'[b])
  BY <1>1, GotoMoves DEF Rollback, IInv, StateOK
<1> QED
  BY <1>6, <1>7 DEF Rollback, IInv, StateOK, rules

LEMMA ForgetStep ==
    ASSUME LifecycleAssumption, IInv, NEW c \in Caller, Forget(c)
    PROVE  IInv'
<1>1. call' \in [Caller -> Call] /\ \A d \in Caller : Healthy(call'[d])
  BY ReturnMoves DEF Forget, IInv, StateOK
<1> QED
  BY <1>1 DEF Forget, IInv, StateOK, rules

LEMMA CallStepKeeps ==
    ASSUME LifecycleAssumption, IInv, NEW c \in Caller, CallStep(c)
    PROVE  IInv'
BY BeforeStep, WriteStep, FireStep, ReadRulesStep, ApplyRuleStep, NoRuleStep,
   RuleHistoryStep, RuleDispatchStep, DispatchStep, RollbackStep, ForgetStep
DEF CallStep

----------------------------------------------------------------------------
(* So do the writes that are no request, the files and the process.        *)

LEMMA DocumentStep ==
    ASSUME IInv, NEW i \in Identity,
           Delete(i) \/ Touch(i) \/ \E key \in DateKey : Grow(i, key)
    PROVE  IInv'
<1>1. doc[i] \in Doc
  BY DEF IInv, StateOK
<1>2. doc' \in [Identity -> Doc]
  <2>1. CASE Delete(i)
    <3>1. [doc[i] EXCEPT !.deleted = TRUE] \in Doc
      BY <1>1 DEF Doc
    <3>2. doc' = [doc EXCEPT ![i] = [doc[i] EXCEPT !.deleted = TRUE]]
      BY <2>1 DEF Delete
    <3> QED
      BY <3>1, <3>2 DEF IInv, StateOK
  <2>2. CASE Touch(i)
    <3>1. [doc[i] EXCEPT !.lastSync = "recent"] \in Doc
      BY <1>1 DEF Doc, Age
    <3>2. doc' = [doc EXCEPT ![i] = [doc[i] EXCEPT !.lastSync = "recent"]]
      BY <2>2 DEF Touch
    <3> QED
      BY <3>1, <3>2 DEF IInv, StateOK
  <2>3. ASSUME NEW key \in DateKey, Grow(i, key) PROVE doc' \in [Identity -> Doc]
    <3>1. [doc[i] EXCEPT ![key] = "old"] \in Doc
      BY <1>1 DEF Doc, Age, DateKey
    <3>2. doc' = [doc EXCEPT ![i] = [doc[i] EXCEPT ![key] = "old"]]
      BY <2>3 DEF Grow
    <3> QED
      BY <3>1, <3>2 DEF IInv, StateOK
  <2> QED
    BY <2>1, <2>2, <2>3
<1>3. count' \in [{"requests", "rewrites", "agings", "restarts"} -> Nat]
  BY WithinTypes DEF Delete, Touch, Grow, IInv, StateOK
<1> QED
  BY <1>2, <1>3 DEF Delete, Touch, Grow, IInv, StateOK, rules

LEMMA LoaderStep ==
    ASSUME LifecycleAssumption, IInv, NEW l \in Loader,
           Install(l) \/ \E book \in Rulebook : Rewrite(book, l)
    PROVE  IInv'
<1>1. CASE Install(l)
  BY <1>1 DEF Install, IInv, StateOK, database
<1>2. ASSUME NEW book \in Rulebook, Rewrite(book, l) PROVE IInv'
  <2>1. count' \in [{"requests", "rewrites", "agings", "restarts"} -> Nat]
    BY <1>2, WithinTypes DEF Rewrite, IInv, StateOK
  <2> QED
    BY <1>2, <2>1 DEF Rewrite, Load, IInv, StateOK, database
<1> QED
  BY <1>1, <1>2

----------------------------------------------------------------------------
(* And the runs of the cron job.                                           *)

LEMMA StartMoves ==
    ASSUME LifecycleAssumption, IInv, NEW r \in Run, NEW list \in Rulebook,
           NEW ignoreTrigger \in BOOLEAN, Start(r, list, ignoreTrigger)
    PROVE  run' \in [Run -> Execution] /\ \A d \in Run : HealthyRun(run'[d])
<1> DEFINE x == [IdleRun EXCEPT !.pc = "find", !.rules = list,
                                !.ignoreTrigger = ignoreTrigger]
<1>1. list \in Seq(Rule)
  BY DEF LifecycleAssumption
<1>2. x \in Execution /\ HealthyRun(x)
  BY <1>1 DEF IdleRun, Execution, HealthyRun
<1>3. run' = [run EXCEPT ![r] = x]
  BY DEF Start
<1> HIDE DEF x
<1> QED
  BY <1>2, <1>3, RunMoves DEF IInv, StateOK

LEMMA TickStep ==
    ASSUME LifecycleAssumption, IInv, NEW r \in Run, NEW l \in Loader, Tick(r, l)
    PROVE  IInv'
<1>1. cronRules \in Rulebook /\ files \in Rulebook
  BY DEF IInv, StateOK
<1>2. run' \in [Run -> Execution] /\ \A d \in Run : HealthyRun(run'[d])
  BY <1>1, StartMoves DEF Tick
<1> QED
  BY <1>1, <1>2 DEF Tick, Load, IInv, StateOK, database

LEMMA ExecuteStep ==
    ASSUME LifecycleAssumption, IInv, NEW r \in Run, Execute(r)
    PROVE  IInv'
<1>1. files \in Rulebook
  BY DEF IInv, StateOK
<1>2. run' \in [Run -> Execution] /\ \A d \in Run : HealthyRun(run'[d])
  BY <1>1, StartMoves DEF Execute
<1>3. count' \in [{"requests", "rewrites", "agings", "restarts"} -> Nat]
  BY WithinTypes DEF Execute, IInv, StateOK
<1>4. loader' \in [Loader -> Rulebook \cup {None}]
  BY <1>1 DEF Execute, Load, IInv, StateOK
<1> QED
  BY <1>2, <1>3, <1>4 DEF Execute, IInv, StateOK, database

LEMMA FindStep ==
    ASSUME LifecycleAssumption, IInv, NEW r \in Run, Find(r)
    PROVE  IInv'
<1>1. run[r] \in Execution /\ HealthyRun(run[r]) /\ run[r].pc = "find"
  BY DEF IInv, StateOK, Find
<1>2. run' \in [Run -> Execution] /\ \A d \in Run : HealthyRun(run'[d])
  <2>1. CASE run' = [run EXCEPT ![r] = IdleRun]
    <3>1. IdleRun \in Execution /\ HealthyRun(IdleRun)
      BY IdleTypes DEF IdleRun, HealthyRun
    <3> QED
      BY <2>1, <3>1, RunMoves DEF IInv, StateOK
  <2>2. CASE run[r].rules # <<>>
    <3> DEFINE found == {i \in Identity :
                           Due(Head(run[r].rules), run[r].ignoreTrigger, i)}
               x == [run[r] EXCEPT !.pc = "each", !.found = found]
    <3>1. found \subseteq Identity /\ found \cap Ignored = {}
      BY DEF Due
    <3>2. run' = [run EXCEPT ![r] = x]
      BY <2>2 DEF Find
    <3> HIDE DEF found
    <3>3. x \in Execution /\ HealthyRun(x)
      BY <1>1, <2>2, <3>1 DEF Execution, HealthyRun
    <3> HIDE DEF x
    <3> QED
      BY <3>2, <3>3, RunMoves DEF IInv, StateOK
  <2> QED
    BY <2>1, <2>2 DEF Find
<1> QED
  BY <1>2 DEF Find, IInv, StateOK, database, rules

LEMMA CronWriteStep ==
    ASSUME IInv, NEW r \in Run, NEW i \in Identity, CronWrite(r, i)
    PROVE  IInv'
<1> DEFINE rule == Head(run[r].rules)
           x == [run[r] EXCEPT !.pc = "history", !.at = i, !.found = @ \ {i}]
<1>1. run[r] \in Execution /\ HealthyRun(run[r]) /\ run[r].pc = "each"
  BY DEF IInv, StateOK, CronWrite
<1>2. rule \in Rule
  BY <1>1, ListTypes DEF HealthyRun, Execution
<1>3. Transition(rule, doc[i]) \in Doc
  BY <1>2, TransitionTypes DEF IInv, StateOK
<1>4. doc' \in [Identity -> Doc]
  BY <1>3 DEF CronWrite, IInv, StateOK
<1>5. run' = [run EXCEPT ![r] = x]
  BY DEF CronWrite
<1>6. x \in Execution
  BY <1>1 DEF Execution
<1>7. HealthyRun(x)
  BY <1>1 DEF Execution, HealthyRun
<1> HIDE DEF x
<1>8. run' \in [Run -> Execution] /\ \A d \in Run : HealthyRun(run'[d])
  BY <1>5, <1>6, <1>7, RunMoves DEF IInv, StateOK
<1> QED
  BY <1>4, <1>8 DEF CronWrite, IInv, StateOK, rules

LEMMA PcMoves ==
    ASSUME IInv, NEW r \in Run, run[r].pc \in {"history", "dispatch"},
           NEW pc \in {"each", "dispatch"},
           run' = [run EXCEPT ![r].pc = pc]
    PROVE  run' \in [Run -> Execution] /\ \A d \in Run : HealthyRun(run'[d])
<1> DEFINE x == [run[r] EXCEPT !.pc = pc]
<1>1. run[r] \in Execution /\ HealthyRun(run[r])
  BY DEF IInv, StateOK
<1>2. x \in Execution /\ HealthyRun(x)
  BY <1>1 DEF Execution, HealthyRun
<1>3. run' = [run EXCEPT ![r] = x]
  OBVIOUS
<1> HIDE DEF x
<1> QED
  BY <1>2, <1>3, RunMoves DEF IInv, StateOK

LEMMA CronHistoryStep ==
    ASSUME IInv, NEW r \in Run, CronHistory(r)
    PROVE  IInv'
<1> DEFINE pc == IF Head(run[r].rules).mutation = None THEN "each" ELSE "dispatch"
<1>1. pc \in {"each", "dispatch"} /\ run' = [run EXCEPT ![r].pc = pc]
  BY DEF CronHistory
<1>2. run[r].pc = "history"
  BY DEF CronHistory
<1> HIDE DEF pc
<1>3. run' \in [Run -> Execution] /\ \A d \in Run : HealthyRun(run'[d])
  BY <1>1, <1>2, PcMoves
<1>4. made' \in Nat
  BY DEF CronHistory, Record, IInv, StateOK
<1> QED
  BY <1>3, <1>4 DEF CronHistory, IInv, StateOK, rules

LEMMA CronDispatchStep ==
    ASSUME IInv, NEW r \in Run, CronDispatch(r)
    PROVE  IInv'
<1>1. run[r] \in Execution /\ HealthyRun(run[r]) /\ run[r].pc = "dispatch"
  BY DEF IInv, StateOK, CronDispatch
<1>2. run' \in [Run -> Execution] /\ \A d \in Run : HealthyRun(run'[d])
  BY <1>1, PcMoves DEF CronDispatch
<1>3. run[r].at \in Identity /\ Head(run[r].rules) \in Rule
  BY <1>1, ListTypes DEF HealthyRun, Execution
<1>4. Head(run[r].rules).target \in Cycle
  BY <1>3 DEF Rule
<1>5. queue' \subseteq [about : Identity, lifecycle : Cycle]
  BY <1>3, <1>4 DEF CronDispatch, IInv, StateOK
<1> QED
  BY <1>2, <1>5 DEF CronDispatch, IInv, StateOK, database, rules

LEMMA NextRuleStep ==
    ASSUME IInv, NEW r \in Run, NextRule(r)
    PROVE  IInv'
<1> DEFINE x == [run[r] EXCEPT !.pc = "find", !.rules = Tail(@)]
<1>1. run[r] \in Execution /\ HealthyRun(run[r]) /\ run[r].pc = "each"
  BY DEF IInv, StateOK, NextRule
<1>2. Tail(run[r].rules) \in Seq(Rule)
  BY <1>1, ListTypes DEF HealthyRun, Execution
<1>3. x \in Execution /\ HealthyRun(x)
  BY <1>1, <1>2 DEF Execution, HealthyRun
<1>4. run' = [run EXCEPT ![r] = x]
  BY DEF NextRule
<1> HIDE DEF x
<1>5. run' \in [Run -> Execution] /\ \A d \in Run : HealthyRun(run'[d])
  BY <1>3, <1>4, RunMoves DEF IInv, StateOK
<1> QED
  BY <1>5 DEF NextRule, IInv, StateOK, database, rules

LEMMA RunStepKeeps ==
    ASSUME LifecycleAssumption, IInv, NEW r \in Run, RunStep(r)
    PROVE  IInv'
BY FindStep, CronWriteStep, CronHistoryStep, CronDispatchStep, NextRuleStep DEF RunStep

----------------------------------------------------------------------------
(* The answers of the daemon and the restarts.                             *)

LEMMA AnswerStep ==
    ASSUME IInv, NEW job \in queue, Answer(job)
    PROVE  IInv'
<1>1. job.about \in Identity /\ job.lifecycle \in Cycle
  BY DEF IInv, StateOK
<1>2. doc' \in [Identity -> Doc] /\ told' \in [Identity -> Cycle]
  BY <1>1, DispatchTypes DEF Answer, IInv
<1>3. queue' \subseteq [about : Identity, lifecycle : Cycle]
  BY DEF Answer, IInv, StateOK
<1> QED
  BY <1>2, <1>3 DEF Answer, IInv, StateOK, rules

LEMMA RestartStep ==
    ASSUME LifecycleAssumption, IInv, Restart
    PROVE  IInv'
<1>1. count' \in [{"requests", "rewrites", "agings", "restarts"} -> Nat]
  BY WithinTypes DEF Restart, IInv, StateOK
<1>2. Healthy(IdleCall) /\ HealthyRun(IdleRun)
  BY DEF IdleCall, Healthy, IdleRun, HealthyRun, LifecycleAssumption
<1> QED
  BY <1>1, <1>2, IdleTypes DEF Restart, IInv, StateOK, database

----------------------------------------------------------------------------
(* The theorems.                                                           *)

\* Whatever the identities, the rules and the bounds, each variable keeps its
\* type, a request the kind of body that its operation has, a run a list of rules
\* and no identity with ignoreLifecycle (IInv).
THEOREM Inductive == Spec => []IInv
<1>1. Init => IInv
  <2> SUFFICES ASSUME Init PROVE IInv
    OBVIOUS
  <2>1. Healthy(IdleCall) /\ HealthyRun(IdleRun)
    BY LifecycleAssumption
    DEF IdleCall, Healthy, IdleRun, HealthyRun, LifecycleAssumption
  <2>2. First \in Cycle
    BY LifecycleAssumption DEF LifecycleAssumption
  <2>3. NewDoc \in Doc /\ IdleCall \in Call /\ IdleRun \in Execution
    BY IdleTypes, LifecycleAssumption
  <2>4. count \in [{"requests", "rewrites", "agings", "restarts"} -> Nat]
    BY DEF Init
  <2> QED
    BY <2>1, <2>2, <2>3, <2>4 DEF Init, IInv, StateOK
<1>2. IInv /\ [Next]_vars => IInv'
  <2> SUFFICES ASSUME IInv, [Next]_vars PROVE IInv'
    OBVIOUS
  <2> USE LifecycleAssumption
  <2>1. ASSUME NEW c \in Caller, CallStep(c) \/ \E i \in Identity : Request(c, i)
        PROVE  IInv'
    BY <2>1, CallStepKeeps, RequestStep
  <2>2. ASSUME NEW r \in Run,
               RunStep(r) \/ Execute(r) \/ \E l \in Loader : Tick(r, l)
        PROVE  IInv'
    BY <2>2, RunStepKeeps, ExecuteStep, TickStep
  <2>3. CASE UNCHANGED vars
    BY <2>3 DEF vars, database, rules, IInv, StateOK
  <2> QED
    BY <2>1, <2>2, <2>3, DocumentStep, LoaderStep, AnswerStep, RestartStep DEF Next
<1> QED
  BY <1>1, <1>2, PTL DEF Spec

\* No rule moves an identity with ignoreLifecycle, only a request about it does,
\* whatever runs at the same time (fireLifecycleEvent, handleCron).
THEOREM IgnoredNeverMoved == Spec => IgnoredStay
<1> DEFINE Kept == \A i \in Ignored : doc'[i].lifecycle # doc[i].lifecycle =>
             \E c \in Caller : call[c].at = i /\ call[c].pc \in {"write", "rollback"}
<1>1. IInv /\ [Next]_vars => Kept
  <2> SUFFICES ASSUME IInv, [Next]_vars, NEW i \in Ignored,
                      doc'[i].lifecycle # doc[i].lifecycle
               PROVE  \E c \in Caller : call[c].at = i /\ call[c].pc \in {"write", "rollback"}
    OBVIOUS
  <2>1. i \in Identity /\ doc \in [Identity -> Doc]
    BY LifecycleAssumption DEF LifecycleAssumption, IInv, StateOK
  <2>2. \A j : \A s : doc' # [doc EXCEPT ![j].state = s]
    BY <2>1 DEF Doc
  <2>3. \A c \in Caller : ~ RuleDispatch(c) /\ ~ Dispatch(c)
    BY <2>2 DEF RuleDispatch, Dispatch, Accepted, Refused
  <2>4. \A job \in queue : ~ Answer(job)
    BY <2>2 DEF Answer, Accepted, Refused
  <2>5. \A j \in Identity : ~ Delete(j) /\ ~ Touch(j) /\ \A key \in DateKey : ~ Grow(j, key)
    BY <2>1 DEF Delete, Touch, Grow, DateKey, Doc
  <2>6. doc' # doc
    OBVIOUS
  <2>7. \A c \in Caller : ~ ApplyRule(c)
    BY <2>1, <2>6 DEF ApplyRule, Selects
  <2>8. \A r \in Run : \A j \in Identity : ~ CronWrite(r, j)
    BY <2>1 DEF CronWrite, IInv, HealthyRun
  <2>9. \A c \in Caller : CallStep(c) => Write(c) \/ Rollback(c)
    <3>1. \A c \in Caller : ~ (Before(c) \/ ReadRules(c) \/ NoRule(c))
      BY <2>6 DEF Before, ReadRules, NoRule, database
    <3>2. \A c \in Caller : ~ (Fire(c) \/ RuleHistory(c) \/ Forget(c))
      BY <2>6 DEF Fire, RuleHistory, Forget
    <3> QED
      BY <2>3, <2>7, <3>1, <3>2 DEF CallStep
  <2>10. \A r \in Run : ~ RunStep(r)
    <3>1. \A r \in Run : ~ (Find(r) \/ CronDispatch(r) \/ NextRule(r))
      BY <2>6 DEF Find, CronDispatch, NextRule, database
    <3>2. \A r \in Run : ~ CronHistory(r)
      BY <2>6 DEF CronHistory
    <3> QED
      BY <2>8, <3>1, <3>2 DEF RunStep
  <2>11. \A c \in Caller : \A j \in Identity : ~ Request(c, j)
    <3>1. \A c, op, j, input : ~ Accept(c, op, j, input)
      BY <2>6 DEF Accept, database
    <3> QED
      BY <3>1 DEF Request
  <2>12. \A l \in Loader : ~ Install(l) /\ \A book \in Rulebook : ~ Rewrite(book, l)
    BY <2>6 DEF Install, Rewrite, database
  <2>13. \A r \in Run : ~ Execute(r) /\ \A l \in Loader : ~ Tick(r, l)
    BY <2>6 DEF Execute, Tick, database
  <2>14. ~ Restart /\ ~ UNCHANGED vars
    BY <2>6 DEF Restart, vars, database
  <2>15. PICK c \in Caller : Write(c) \/ Rollback(c)
    BY <2>4, <2>5, <2>9, <2>10, <2>11, <2>12, <2>13, <2>14 DEF Next
  <2>16. call[c].at = i /\ call[c].pc \in {"write", "rollback"}
    BY <2>1, <2>15 DEF Write, Rollback
  <2> QED
    BY <2>16
<1> QED
  BY <1>1, Inductive, PTL DEF Spec, IgnoredStay

----------------------------------------------------------------------------
(* The history.  It accounts for the lifecycle as long as what happens to   *)
(* one identity does not overlap: Alone is the condition, over any number of *)
(* requests and of runs about different identities.  A request stays about   *)
(* an identity from its entry to its answer, a run from the write of an      *)
(* identity to the entry in its history.                                     *)

Active(c) == call[c].pc # "idle"
Moving(r) == run[r].pc = "history"

Alone ==
    /\ \A c \in Caller : \A d \in Caller :
         Active(c) /\ Active(d) /\ call[c].at = call[d].at => c = d
    /\ \A r \in Run : \A s \in Run :
         Moving(r) /\ Moving(s) /\ run[r].at = run[s].at => r = s
    /\ \A r \in Run : \A c \in Caller :
         Moving(r) /\ Active(c) => call[c].at # run[r].at

\* The ids of the entries of an identity are all different, and from the past.
Dated(entries, now) ==
    /\ \A n \in DOMAIN entries : entries[n].id <= now
    /\ \A n \in DOMAIN entries : \A m \in DOMAIN entries :
         entries[n].id = entries[m].id => n = m

Earlier(entries) == SubSeq(entries, 1, Len(entries) - 1)

\* The last entry is the one with this id, and without it the history would end
\* with this lifecycle.
Ends(entries, id, lifecycle) ==
    /\ entries # <<>>
    /\ entries[Len(entries)].id = id
    /\ Latest(Earlier(entries)) = lifecycle

\* What a refused request goes back to (Undo, as a function of the request).
UndoOf(e) == IF e.ruleEntry # None THEN [to |-> e.after, entry |-> e.ruleEntry]
             ELSE [to |-> e.before, entry |-> e.entry]

\* What a request knows of the lifecycle of its identity.
Sits(e, lifecycle) ==
    /\ e.pc = "write" => e.before.lifecycle = lifecycle
    /\ e.pc \in {"fire", "rules", "apply", "dispatch"} => e.after.lifecycle = lifecycle
    /\ e.pc = "fire" /\ e.op = "force" => e.before.lifecycle = lifecycle
    /\ e.pc \in {"ruleHistory", "ruleDispatch"} => Head(e.todo).target = lifecycle
    /\ e.pc = "forget" => UndoOf(e).to.lifecycle = lifecycle

\* What it knows of the history.
Tells(e, lifecycle, entries) ==
    /\ e.pc \in {"before", "write"} => Latest(entries) = lifecycle
    /\ e.pc = "fire" => Latest(entries) = e.before.lifecycle
    /\ e.pc \in {"rules", "apply", "dispatch", "ruleHistory"} =>
         /\ Latest(entries) = e.after.lifecycle
         /\ e.changed => Ends(entries, e.entry, e.before.lifecycle)
    /\ e.pc \in {"before", "write", "fire"} => ~e.changed
    /\ e.pc = "dispatch" => e.changed
    /\ e.pc \in {"before", "write", "fire", "rules", "apply", "ruleHistory", "dispatch"} =>
         e.ruleEntry = None
    /\ e.pc = "ruleDispatch" =>
         /\ Latest(entries) = Head(e.todo).target
         /\ e.ruleEntry # None /\ Ends(entries, e.ruleEntry, e.after.lifecycle)
    /\ e.pc \in {"rollback", "forget"} =>
         Ends(entries, UndoOf(e).entry, UndoOf(e).to.lifecycle)

\* An identity, and whatever is in progress about it.
Fits(i) ==
    /\ \A c \in Caller : Active(c) /\ call[c].at = i =>
         /\ Sits(call[c], doc[i].lifecycle)
         /\ count.restarts = 0 => Tells(call[c], doc[i].lifecycle, history[i])
    /\ \A r \in Run : Moving(r) /\ run[r].at = i =>
         Head(run[r].rules).target = doc[i].lifecycle
    /\ (/\ count.restarts = 0
        /\ \A c \in Caller : ~ (Active(c) /\ call[c].at = i)
        /\ \A r \in Run : ~ (Moving(r) /\ run[r].at = i))
       => doc[i].lifecycle = Latest(history[i])

AllFit == \A i \in Identity : Fits(i)

----------------------------------------------------------------------------
(* The entries.                                                            *)

LEMMA AppendLast ==
    ASSUME NEW entries \in Seq(Entry), NEW e \in Entry
    PROVE  /\ Append(entries, e) \in Seq(Entry)
           /\ Append(entries, e) # <<>>
           /\ Len(Append(entries, e)) = Len(entries) + 1
           /\ Append(entries, e)[Len(entries) + 1] = e
           /\ Latest(Append(entries, e)) = e.lifecycle
           /\ Earlier(Append(entries, e)) = entries
<1>1. /\ Append(entries, e) \in Seq(Entry)
      /\ Len(Append(entries, e)) = Len(entries) + 1
      /\ Append(entries, e)[Len(entries) + 1] = e
      /\ \A n \in 1..Len(entries) : Append(entries, e)[n] = entries[n]
  OBVIOUS
<1>2. Append(entries, e) # <<>>
  BY <1>1
<1>3. Latest(Append(entries, e)) = e.lifecycle
  BY <1>1, <1>2 DEF Latest
<1>4. Earlier(Append(entries, e)) = entries
  BY <1>1 DEF Earlier
<1> QED
  BY <1>1, <1>2, <1>3, <1>4

LEMMA EntryOf ==
    ASSUME NEW entries \in Seq(Entry)
    PROVE  /\ Len(entries) \in Nat /\ DOMAIN entries = 1..Len(entries)
           /\ \A n \in 1..Len(entries) :
                entries[n] \in Entry /\ entries[n].id \in Nat
<1>1. \A n \in 1..Len(entries) : entries[n] \in Entry
  BY ElementOfSeq
<1>2. \A e \in Entry : e.id \in Nat
  BY DEF Entry
<1> QED
  BY <1>1, <1>2, LenProperties

LEMMA AppendDated ==
    ASSUME NEW now \in Nat, NEW entries \in Seq(Entry), Dated(entries, now),
           NEW e \in Entry, e.id = now + 1
    PROVE  Dated(Append(entries, e), now + 1)
<1> DEFINE longer == Append(entries, e)
<1>1. \A n \in DOMAIN entries : entries[n] \in Entry /\ entries[n].id \in Nat
  BY EntryOf
<1>2. /\ DOMAIN longer = 1..(Len(entries) + 1) /\ DOMAIN entries = 1..Len(entries)
      /\ longer[Len(entries) + 1] = e
      /\ \A n \in 1..Len(entries) : longer[n] = entries[n]
  OBVIOUS
<1> HIDE DEF longer
<1>3. \A n \in DOMAIN longer : n \in DOMAIN entries \/ n = Len(entries) + 1
  BY <1>2
<1>4. \A n \in DOMAIN longer : longer[n].id <= now + 1
  BY <1>1, <1>2, <1>3 DEF Dated
<1>5. \A n \in DOMAIN longer : \A m \in DOMAIN longer :
        longer[n].id = longer[m].id => n = m
  BY <1>1, <1>2, <1>3 DEF Dated
<1> QED
  BY <1>4, <1>5 DEF Dated, longer

\* A later date changes nothing.
LEMMA DatedLater ==
    ASSUME NEW now \in Nat, NEW later \in Nat, now <= later,
           NEW entries \in Seq(Entry), Dated(entries, now)
    PROVE  Dated(entries, later)
<1>1. \A n \in DOMAIN entries : entries[n].id \in Nat
  BY EntryOf
<1> QED
  BY <1>1 DEF Dated

\* Removing one entry keeps the others, in their order; the last one leaves the
\* earlier ones.
LEMMA WithoutOne ==
    ASSUME NEW entries \in Seq(Entry), NEW id, NEW now, Dated(entries, now)
    PROVE  /\ Without(entries, id) \in Seq(Entry)
           /\ Dated(Without(entries, id), now)
           /\ entries # <<>> /\ entries[Len(entries)].id = id =>
                Without(entries, id) = Earlier(entries)
<1>1. CASE ~ \E n \in DOMAIN entries : entries[n].id = id
  <2>1. Without(entries, id) = entries
    BY <1>1 DEF Without
  <2>2. entries # <<>> => Len(entries) \in DOMAIN entries
    BY EmptySeq, EntryOf
  <2> QED
    BY <1>1, <2>1, <2>2
<1>2. CASE \E n \in DOMAIN entries : entries[n].id = id
  <2> DEFINE n == CHOOSE n \in DOMAIN entries : entries[n].id = id
             len == Len(entries)
             w == SubSeq(entries, 1, n - 1) \o SubSeq(entries, n + 1, len)
  <2>1. n \in 1..len /\ entries[n].id = id
    BY <1>2
  <2>2. Without(entries, id) = w
    BY <1>2 DEF Without
  <2> HIDE DEF n
  <2>3. len \in Nat /\ DOMAIN entries = 1..len
    BY EntryOf
  <2> HIDE DEF len
  <2> DEFINE front == SubSeq(entries, 1, n - 1)
             back == SubSeq(entries, n + 1, len)
  <2>4. /\ front \in Seq(Entry) /\ Len(front) = n - 1
        /\ \A k \in 1..(n - 1) : front[k] = entries[k]
    <3>1. 1 \in Int /\ n - 1 \in Int /\ \A k \in 1..(n - 1) : entries[k] \in Entry
      BY <2>1, <2>3, EntryOf DEF len
    <3>2. /\ front \in Seq(Entry)
          /\ Len(front) = IF 1 <= n - 1 THEN (n - 1) - 1 + 1 ELSE 0
          /\ \A k \in 1..((n - 1) - 1 + 1) : front[k] = entries[1 + k - 1]
      BY <3>1, SubSeqProperties
    <3> QED
      BY <2>1, <2>3, <3>2
  <2>5. /\ back \in Seq(Entry) /\ Len(back) = len - n
        /\ \A k \in 1..(len - n) : back[k] = entries[n + k]
    <3>1. n + 1 \in Int /\ len \in Int /\ \A k \in (n + 1)..len : entries[k] \in Entry
      BY <2>1, <2>3, EntryOf DEF len
    <3>2. /\ back \in Seq(Entry)
          /\ Len(back) = IF n + 1 <= len THEN len - (n + 1) + 1 ELSE 0
          /\ \A k \in 1..(len - (n + 1) + 1) : back[k] = entries[(n + 1) + k - 1]
      BY <3>1, SubSeqProperties
    <3> QED
      BY <2>1, <2>3, <3>2
  <2> HIDE DEF front, back
  <2>6. /\ w \in Seq(Entry) /\ Len(w) = len - 1
        /\ \A k \in 1..(len - 1) : w[k] = IF k < n THEN entries[k] ELSE entries[k + 1]
    <3>1. w = front \o back
      BY DEF front, back
    <3>2. /\ w \in Seq(Entry) /\ Len(w) = (n - 1) + (len - n)
          /\ \A k \in 1..((n - 1) + (len - n)) :
               w[k] = IF k <= n - 1 THEN front[k] ELSE back[k - (n - 1)]
      <4>1. front \in Seq(Entry) /\ back \in Seq(Entry)
        BY <2>4, <2>5
      <4>2. /\ front \o back \in Seq(Entry)
            /\ Len(front \o back) = Len(front) + Len(back)
            /\ \A k \in 1..(Len(front) + Len(back)) :
                 (front \o back)[k] = IF k <= Len(front) THEN front[k]
                                      ELSE back[k - Len(front)]
        BY <4>1, ConcatProperties
      <4>3. Len(front) = n - 1 /\ Len(back) = len - n
        BY <2>4, <2>5
      <4> QED
        BY <3>1, <4>2, <4>3
    <3> HIDE DEF w
    <3>3. ASSUME NEW k \in 1..(len - 1)
          PROVE  w[k] = IF k < n THEN entries[k] ELSE entries[k + 1]
      <4>1. k \in 1..((n - 1) + (len - n))
        BY <2>1, <2>3
      <4>2. CASE k < n
        BY <2>1, <2>3, <2>4, <3>2, <4>1, <4>2
      <4>3. CASE ~ (k < n)
        <5>1. k - (n - 1) \in 1..(len - n) /\ n + (k - (n - 1)) = k + 1
          BY <2>1, <2>3, <4>3
        <5>2. w[k] = back[k - (n - 1)]
          BY <2>1, <2>3, <3>2, <4>1, <4>3
        <5> QED
          BY <2>5, <4>3, <5>1, <5>2
      <4> QED
        BY <4>2, <4>3
    <3> QED
      BY <2>1, <2>3, <3>2, <3>3
  <2> HIDE DEF w
  <2> DEFINE from == [k \in 1..(len - 1) |-> IF k < n THEN k ELSE k + 1]
  <2>7. \A k \in 1..(len - 1) : from[k] \in 1..len /\ w[k] = entries[from[k]]
    BY <2>1, <2>3, <2>6
  <2>8. \A k \in 1..(len - 1) : \A m \in 1..(len - 1) : from[k] = from[m] => k = m
    BY <2>1, <2>3
  <2> HIDE DEF from
  <2>9. Dated(w, now)
    <3>1. DOMAIN w = 1..(len - 1)
      BY <2>6, EntryOf
    <3> QED
      BY <2>3, <2>7, <2>8, <3>1 DEF Dated
  <2>10. ASSUME entries # <<>>, entries[len].id = id PROVE w = Earlier(entries)
    <3>1. len \in DOMAIN entries /\ n \in DOMAIN entries
      BY <2>1, <2>3
    <3>2. n = len
      BY <2>1, <2>10, <3>1 DEF Dated
    <3>3. w = front \o <<>>
      BY <2>3, <3>2, SubSeqEmpty DEF w, front
    <3>4. w = front
      BY <2>4, <3>3, ConcatEmptySeq
    <3> QED
      BY <3>2, <3>4 DEF Earlier, front, len
  <2> QED
    BY <2>2, <2>6, <2>9, <2>10 DEF len
<1> QED
  BY <1>1, <1>2

----------------------------------------------------------------------------
(* What the steps make of the history.                                     *)

Chronicle == history \in [Identity -> Seq(Entry)]
             /\ \A i \in Identity : Dated(history[i], made)

LEMMA Recorded ==
    ASSUME Chronicle, made \in Nat, NEW i \in Identity, NEW lifecycle \in Cycle,
           Record(i, lifecycle)
    PROVE  /\ Chronicle'
           /\ \A j \in Identity \ {i} : history'[j] = history[j]
           /\ Latest(history'[i]) = lifecycle
           /\ Ends(history'[i], made + 1, Latest(history[i]))
<1> DEFINE e == [id |-> made + 1, lifecycle |-> lifecycle]
<1>1. e \in Entry /\ e.id = made + 1 /\ e.lifecycle = lifecycle
  BY DEF Entry
<1>2. history' = [history EXCEPT ![i] = Append(@, e)] /\ made' = made + 1
  BY DEF Record
<1> HIDE DEF e
<1>3. history[i] \in Seq(Entry) /\ Dated(history[i], made)
  BY DEF Chronicle
<1>4. history'[i] = Append(history[i], e) /\ \A j \in Identity \ {i} : history'[j] = history[j]
  BY <1>2 DEF Chronicle
<1>5. /\ history'[i] \in Seq(Entry) /\ history'[i] # <<>>
      /\ Len(history'[i]) = Len(history[i]) + 1
      /\ history'[i][Len(history[i]) + 1] = e
      /\ Latest(history'[i]) = e.lifecycle
      /\ Earlier(history'[i]) = history[i]
  BY <1>1, <1>3, <1>4, AppendLast
<1>6. Dated(history'[i], made + 1)
  BY <1>1, <1>3, <1>4, AppendDated
<1>7. Chronicle'
  <2>1. history' \in [Identity -> Seq(Entry)]
    BY <1>2, <1>4, <1>5 DEF Chronicle
  <2>2. \A j \in Identity \ {i} : Dated(history[j], made + 1)
    BY DatedLater DEF Chronicle
  <2> QED
    BY <1>2, <1>4, <1>6, <2>1, <2>2 DEF Chronicle
<1>8. Ends(history'[i], made + 1, Latest(history[i]))
  BY <1>1, <1>5 DEF Ends
<1> QED
  BY <1>1, <1>4, <1>5, <1>7, <1>8

LEMMA Forgotten ==
    ASSUME Chronicle, NEW i \in Identity, NEW id, made' = made,
           history' = [history EXCEPT ![i] = Without(@, id)]
    PROVE  /\ Chronicle'
           /\ \A j \in Identity \ {i} : history'[j] = history[j]
           /\ \A lifecycle : Ends(history[i], id, lifecycle) => Latest(history'[i]) = lifecycle
<1>1. history[i] \in Seq(Entry) /\ Dated(history[i], made)
  BY DEF Chronicle
<1>2. /\ history'[i] = Without(history[i], id)
      /\ \A j \in Identity \ {i} : history'[j] = history[j]
  BY DEF Chronicle
<1>3. /\ history'[i] \in Seq(Entry) /\ Dated(history'[i], made)
      /\ history[i] # <<>> /\ history[i][Len(history[i])].id = id =>
           history'[i] = Earlier(history[i])
  BY <1>1, <1>2, WithoutOne
<1>4. Chronicle'
  <2>1. history' \in [Identity -> Seq(Entry)]
    BY <1>2, <1>3 DEF Chronicle
  <2> QED
    BY <1>2, <1>3, <2>1 DEF Chronicle
<1> QED
  BY <1>2, <1>3, <1>4 DEF Ends

LEMMA FireTypes ==
    ASSUME IInv, NEW c \in Caller, Active(c)
    PROVE  /\ call[c] \in Call /\ Healthy(call[c]) /\ call[c].at \in Identity
           /\ call[c].after \in Doc /\ call[c].after.lifecycle \in Cycle
           /\ call[c].pc \in {"ruleHistory", "ruleDispatch"} => Head(call[c].todo).target \in Cycle
<1>1. call[c] \in Call /\ Healthy(call[c])
  BY DEF IInv, StateOK
<1>2. call[c].at \in Identity
  BY <1>1 DEF Active, Healthy
<1>3. call[c].after \in Doc /\ call[c].todo \in Seq(Rule)
  BY <1>1 DEF Call
<1>4. call[c].after.lifecycle \in Cycle
  BY <1>3 DEF Doc
<1>5. call[c].pc \in {"ruleHistory", "ruleDispatch"} => Head(call[c].todo) \in Rule
  BY <1>1, <1>3, ListTypes DEF Healthy
<1>6. \A rule \in Rule : rule.target \in Cycle
  BY DEF Rule
<1> QED
  BY <1>1, <1>2, <1>3, <1>4, <1>5, <1>6

LEMMA CronTypes ==
    ASSUME IInv, NEW r \in Run, run[r].pc \in {"each", "history", "dispatch"}
    PROVE  /\ run[r] \in Execution
           /\ run[r].pc \in {"history", "dispatch"} => run[r].at \in Identity
           /\ Head(run[r].rules) \in Rule /\ Head(run[r].rules).target \in Cycle
<1>1. run[r] \in Execution /\ HealthyRun(run[r])
  BY DEF IInv, StateOK
<1>2. Head(run[r].rules) \in Rule
  BY <1>1, ListTypes DEF Execution, HealthyRun
<1> QED
  BY <1>1, <1>2 DEF HealthyRun, Rule

\* A step writes the history of no identity, or it records or forgets an entry.
LEMMA HistorySteps ==
    ASSUME IInv, [Next]_vars
    PROVE  \/ UNCHANGED <<history, made>>
           \/ \E i \in Identity : \E lifecycle \in Cycle : Record(i, lifecycle)
           \/ \E i \in Identity : \E id :
                /\ history' = [history EXCEPT ![i] = Without(@, id)]
                /\ made' = made
<1> DEFINE Kept == UNCHANGED <<history, made>>
           Wrote == \E i \in Identity : \E lifecycle \in Cycle : Record(i, lifecycle)
           Took == \E i \in Identity : \E id :
                     /\ history' = [history EXCEPT ![i] = Without(@, id)]
                     /\ made' = made
<1>1. ASSUME NEW c \in Caller, CallStep(c) PROVE Kept \/ Wrote \/ Took
  <2>1. CASE Fire(c)
    <3>1. Active(c)
      BY <2>1 DEF Fire, Active
    <3>2. Record(call[c].at, call[c].after.lifecycle) => Wrote
      BY <3>1, FireTypes
    <3> QED
      BY <2>1, <3>2 DEF Fire
  <2>2. CASE RuleHistory(c)
    <3>1. Active(c) /\ call[c].pc = "ruleHistory"
      BY <2>2 DEF RuleHistory, Active
    <3>2. Record(call[c].at, Head(call[c].todo).target)
      BY <2>2 DEF RuleHistory
    <3> QED
      BY <3>1, <3>2, FireTypes
  <2>3. CASE Forget(c)
    <3>1. Active(c)
      BY <2>3 DEF Forget, Active
    <3>2. /\ history' = [history EXCEPT ![call[c].at] = Without(@, Undo(c).entry)]
          /\ made' = made
      BY <2>3 DEF Forget
    <3> QED
      BY <3>1, <3>2, FireTypes
  <2>4. CASE Before(c) \/ Write(c) \/ ReadRules(c) \/ ApplyRule(c) \/ NoRule(c)
    BY <2>4 DEF Before, Write, ReadRules, ApplyRule, NoRule, database
  <2>5. CASE RuleDispatch(c) \/ Dispatch(c) \/ Rollback(c)
    BY <2>5 DEF RuleDispatch, Dispatch, Rollback
  <2> QED
    BY <1>1, <2>1, <2>2, <2>3, <2>4, <2>5 DEF CallStep
<1>2. ASSUME NEW c \in Caller, NEW i \in Identity, Request(c, i) PROVE Kept
  <2>1. \A op, input : Accept(c, op, i, input) => Kept
    BY DEF Accept, database
  <2> QED
    BY <1>2, <2>1 DEF Request
<1>3. ASSUME NEW r \in Run, RunStep(r) PROVE Kept \/ Wrote \/ Took
  <2>1. CASE CronHistory(r)
    <3>1. run[r].pc = "history" /\ Record(run[r].at, Head(run[r].rules).target)
      BY <2>1 DEF CronHistory
    <3> QED
      BY <3>1, CronTypes
  <2>2. CASE Find(r) \/ CronDispatch(r) \/ NextRule(r) \/ \E i \in Identity : CronWrite(r, i)
    BY <2>2 DEF Find, CronDispatch, NextRule, CronWrite, database
  <2> QED
    BY <1>3, <2>1, <2>2 DEF RunStep
<1>4. ASSUME NEW r \in Run, Execute(r) \/ \E l \in Loader : Tick(r, l) PROVE Kept
  BY <1>4 DEF Execute, Tick, database
<1>5. ASSUME NEW i \in Identity, Delete(i) \/ Touch(i) \/ \E key \in DateKey : Grow(i, key)
      PROVE  Kept
  BY <1>5 DEF Delete, Touch, Grow
<1>6. ASSUME NEW l \in Loader, Install(l) \/ \E book \in Rulebook : Rewrite(book, l)
      PROVE  Kept
  BY <1>6 DEF Install, Rewrite, database
<1>7. ASSUME NEW job \in queue, Answer(job) PROVE Kept
  BY <1>7 DEF Answer
<1>8. ASSUME Restart \/ UNCHANGED vars PROVE Kept
  BY <1>8 DEF Restart, vars, database
<1>9. Next \/ UNCHANGED vars
  OBVIOUS
<1> HIDE DEF Kept, Wrote, Took
<1>10. Kept \/ Wrote \/ Took
  BY <1>1, <1>2, <1>3, <1>4, <1>5, <1>6, <1>7, <1>8, <1>9 DEF Next
<1> QED
  BY <1>10 DEF Kept, Wrote, Took

\* Whatever the identities, the rules and the bounds, the history of an identity
\* is a sequence of entries, of lifecycles that exist; entries are only added at
\* its end, with ids that no other has, or taken out.
LEMMA ChronicleInvariant == Spec => [](IInv /\ Chronicle)
<1>1. Init => Chronicle
  <2> SUFFICES ASSUME Init PROVE Chronicle
    OBVIOUS
  <2>1. history = [i \in Identity |-> <<>>] /\ <<>> \in Seq(Entry)
    BY DEF Init
  <2>2. \A now : Dated(<<>>, now)
    BY DEF Dated
  <2> QED
    BY <2>1, <2>2 DEF Chronicle
<1>2. IInv /\ Chronicle /\ [Next]_vars => Chronicle'
  <2> SUFFICES ASSUME IInv, Chronicle, [Next]_vars PROVE Chronicle'
    OBVIOUS
  <2>1. made \in Nat
    BY DEF IInv, StateOK
  <2>2. CASE UNCHANGED <<history, made>>
    BY <2>2 DEF Chronicle
  <2> QED
    BY <2>1, <2>2, HistorySteps, Recorded, Forgotten
<1> QED
  BY <1>1, <1>2, Inductive, PTL DEF Spec

\* The types of all the variables, the history included (TypeOK).
THEOREM LifecycleTyped == Spec => []TypeOK
<1>1. IInv /\ Chronicle => TypeOK
  BY DEF IInv, Chronicle, TypeOK
<1> QED
  BY <1>1, ChronicleInvariant, PTL

----------------------------------------------------------------------------
(* What happens to one identity at a time.                                 *)

About(c, i) == Active(c) /\ call[c].at = i
Moves(r, i) == Moving(r) /\ run[r].at = i

\* The identities that a step says nothing about keep what is known of them.
LEMMA Framed ==
    ASSUME NEW i \in Identity, Fits(i),
           doc'[i].lifecycle = doc[i].lifecycle, history'[i] = history[i],
           count'.restarts = count.restarts,
           \A c \in Caller : About(c, i)' => About(c, i) /\ call'[c] = call[c],
           \A c \in Caller : About(c, i) => About(c, i)',
           \A r \in Run : Moves(r, i)' => Moves(r, i) /\ run'[r].rules = run[r].rules,
           \A r \in Run : Moves(r, i) => Moves(r, i)'
    PROVE  Fits(i)'
BY DEF Fits, About, Moves

\* A step that touches no request about it, no run that has just written it and
\* not its lifecycle, for any identity.
LEMMA AllFramed ==
    ASSUME AllFit, \A i \in Identity : doc'[i].lifecycle = doc[i].lifecycle,
           history' = history, count'.restarts = count.restarts, call' = call,
           \A r \in Run : Moving(r)' => Moving(r) /\ run'[r] = run[r],
           \A r \in Run : Moving(r) => Moving(r)'
    PROVE  AllFit'
<1> SUFFICES ASSUME NEW i \in Identity PROVE Fits(i)'
  BY DEF AllFit
<1>1. \A c \in Caller : call'[c] = call[c] /\ (About(c, i)' <=> About(c, i))
  BY DEF About, Active
<1>2. \A r \in Run : (Moves(r, i)' => Moves(r, i) /\ run'[r].rules = run[r].rules)
                     /\ (Moves(r, i) => Moves(r, i)')
  BY DEF Moves, Moving
<1>3. Fits(i)
  BY DEF AllFit
<1> QED
  BY <1>1, <1>2, <1>3, Framed

\* A request advances: what it knows afterwards of its identity is enough, as
\* nothing else is in progress about it.
LEMMA Advances ==
    ASSUME AllFit, Alone, call \in [Caller -> Call], NEW c \in Caller, Active(c),
           NEW i \in Identity, call[c].at = i,
           NEW e, call' = [call EXCEPT ![c] = e], e.pc # "idle" => e.at = i,
           run' = run, count' = count,
           \A j \in Identity \ {i} :
             doc'[j].lifecycle = doc[j].lifecycle /\ history'[j] = history[j],
           e.pc # "idle" =>
             /\ Sits(e, doc'[i].lifecycle)
             /\ count.restarts = 0 =>
                  Tells(e, doc'[i].lifecycle, history'[i]),
           e.pc = "idle" /\ count.restarts = 0 =>
             doc'[i].lifecycle = Latest(history'[i])
    PROVE  AllFit'
<1>1. \A d \in Caller : call'[d] = IF d = c THEN e ELSE call[d]
  OBVIOUS
<1>2. \A d \in Caller \ {c} : ~ About(d, i)
  BY DEF Alone, About
<1>3. \A r \in Run : ~ Moves(r, i)
  BY DEF Alone, Moves
<1>4. \A d \in Caller : \A j : About(d, j)' <=> IF d = c THEN e.pc # "idle" /\ e.at = j ELSE About(d, j)
  BY <1>1 DEF About, Active
<1>5. \A r \in Run : \A j : Moves(r, j)' <=> Moves(r, j)
  BY DEF Moves, Moving
<1>6. ASSUME NEW j \in Identity \ {i} PROVE Fits(j)'
  <2>1. \A d \in Caller : /\ About(d, j)' => About(d, j) /\ call'[d] = call[d]
                          /\ About(d, j) => About(d, j)'
    BY <1>1, <1>4, <1>6 DEF About
  <2>2. Fits(j)
    BY DEF AllFit
  <2> QED
    BY <1>5, <1>6, <2>1, <2>2, Framed
<1>7. Fits(i)'
  <2>1. \A d \in Caller : About(d, i)' => d = c /\ call'[d] = e /\ e.pc # "idle"
    BY <1>1, <1>2, <1>4
  <2>2. \A r \in Run : ~ Moves(r, i)'
    BY <1>3, <1>5
  <2>3. e.pc # "idle" => About(c, i)'
    BY <1>4
  <2>4. \A d \in Caller : call'[d].pc # "idle" /\ call'[d].at = i =>
          /\ Sits(call'[d], doc'[i].lifecycle)
          /\ count'.restarts = 0 => Tells(call'[d], doc'[i].lifecycle, history'[i])
    BY <2>1 DEF About, Active
  <2>5. (/\ count'.restarts = 0
         /\ \A d \in Caller : ~ (call'[d].pc # "idle" /\ call'[d].at = i))
        => doc'[i].lifecycle = Latest(history'[i])
    BY <2>3 DEF About, Active
  <2> QED
    BY <2>2, <2>4, <2>5 DEF Fits, Active, Moves, Moving
<1> QED
  BY <1>6, <1>7 DEF AllFit

----------------------------------------------------------------------------
(* The steps of a request, when nothing else happens to its identity.      *)

LEMMA Standing ==
    ASSUME IInv, AllFit, NEW c \in Caller, Active(c)
    PROVE  /\ call \in [Caller -> Call] /\ call[c] \in Call /\ Healthy(call[c])
           /\ call[c].at \in Identity
           /\ doc \in [Identity -> Doc] /\ doc[call[c].at] \in Doc
           /\ Sits(call[c], doc[call[c].at].lifecycle)
           /\ count.restarts = 0 =>
                Tells(call[c], doc[call[c].at].lifecycle, history[call[c].at])
<1>1. call[c] \in Call /\ Healthy(call[c]) /\ call[c].at \in Identity
  BY FireTypes
<1>2. call \in [Caller -> Call] /\ doc \in [Identity -> Doc]
  BY DEF IInv, StateOK
<1>3. Fits(call[c].at)
  BY <1>1 DEF AllFit
<1> QED
  BY <1>1, <1>2, <1>3 DEF Fits

\* A request that moves to another step knows what it knew.
LEMMA Going ==
    ASSUME NEW f \in Call, NEW pc, NEW e, e = [f EXCEPT !.pc = pc]
    PROVE  /\ e.pc = pc /\ e.at = f.at /\ e.op = f.op /\ e.before = f.before
           /\ e.after = f.after /\ e.changed = f.changed /\ e.todo = f.todo
           /\ e.entry = f.entry /\ e.ruleEntry = f.ruleEntry
           /\ UndoOf(e) = UndoOf(f)
<1>1. /\ e.pc = pc /\ e.at = f.at /\ e.op = f.op /\ e.before = f.before
      /\ e.after = f.after /\ e.changed = f.changed /\ e.todo = f.todo
      /\ e.entry = f.entry /\ e.ruleEntry = f.ruleEntry
  BY DEF Call
<1> QED
  BY <1>1 DEF UndoOf

LEMMA BeforeFits ==
    ASSUME IInv, AllFit, Alone, NEW c \in Caller, Before(c)
    PROVE  AllFit'
<1> DEFINE f == call[c]
           e == [f EXCEPT !.pc = "write", !.before = doc[f.at]]
<1>1. f.pc = "before" /\ Active(c) /\ call' = [call EXCEPT ![c] = e]
      /\ UNCHANGED <<doc, history, run, count>>
  BY DEF Before, Active, database
<1>2. /\ f \in Call /\ f.at \in Identity /\ doc[f.at] \in Doc
      /\ count.restarts = 0 => Tells(f, doc[f.at].lifecycle, history[f.at])
  BY <1>1, Standing
<1>3. /\ e.pc = "write" /\ e.at = f.at /\ e.before = doc[f.at]
      /\ e.changed = f.changed /\ e.ruleEntry = f.ruleEntry
  BY <1>2 DEF Call
<1> HIDE DEF e
<1>4. Sits(e, doc[f.at].lifecycle)
  BY <1>3 DEF Sits
<1>5. count.restarts = 0 => Tells(e, doc[f.at].lifecycle, history[f.at])
  BY <1>1, <1>2, <1>3 DEF Tells
<1> QED
  BY <1>1, <1>2, <1>3, <1>4, <1>5, Advances, Standing

LEMMA WriteFits ==
    ASSUME IInv, AllFit, Alone, NEW c \in Caller, Write(c)
    PROVE  AllFit'
<1> DEFINE f == call[c]
           new == Updated(f.op, f.input, doc[f.at])
           e == [f EXCEPT !.pc = "fire", !.after = new]
<1>1. f.pc = "write" /\ Active(c)
  BY DEF Write, Active
<1>2. /\ f \in Call /\ Healthy(f) /\ f.at \in Identity /\ doc \in [Identity -> Doc]
      /\ Sits(f, doc[f.at].lifecycle)
      /\ count.restarts = 0 => Tells(f, doc[f.at].lifecycle, history[f.at])
  BY <1>1, Standing
<1>3. /\ doc'[f.at] = new /\ \A j \in Identity \ {f.at} : doc'[j] = doc[j]
      /\ call' = [call EXCEPT ![c] = e] /\ UNCHANGED <<history, run, count>>
  BY <1>1, <1>2 DEF Write
<1> HIDE DEF new
<1>4. /\ e.pc = "fire" /\ e.at = f.at /\ e.op = f.op /\ e.after = new
      /\ e.before = f.before /\ e.changed = f.changed /\ e.ruleEntry = f.ruleEntry
  BY <1>2 DEF Call
<1>5. f.op # "force"
  BY <1>1, <1>2 DEF Healthy
<1> HIDE DEF e
<1>6. Sits(e, new.lifecycle)
  BY <1>4, <1>5 DEF Sits
<1>7. count.restarts = 0 => Tells(e, new.lifecycle, history[f.at])
  BY <1>1, <1>2, <1>4 DEF Tells, Sits
<1> QED
  BY <1>1, <1>2, <1>3, <1>4, <1>6, <1>7, Advances, Standing

LEMMA FireFits ==
    ASSUME LifecycleAssumption, IInv, Chronicle, AllFit, Alone, NEW c \in Caller, Fire(c)
    PROVE  AllFit'
<1> DEFINE f == call[c]
           changed == f.op = "force" \/ f.before.lifecycle # f.after.lifecycle
<1>1. f.pc = "fire" /\ Active(c) /\ UNCHANGED <<doc, run, count>>
  BY DEF Fire, Active
<1>2. /\ f \in Call /\ f.at \in Identity /\ f.after.lifecycle \in Cycle
      /\ Sits(f, doc[f.at].lifecycle)
      /\ count.restarts = 0 => Tells(f, doc[f.at].lifecycle, history[f.at])
      /\ call \in [Caller -> Call]
  BY <1>1, Standing, FireTypes
<1>3. CASE changed
  <2> DEFINE e == [f EXCEPT !.pc = "rules", !.changed = TRUE, !.entry = made + 1]
  <2>1. Record(f.at, f.after.lifecycle) /\ call' = [call EXCEPT ![c] = e]
    BY <1>3 DEF Fire
  <2>2. /\ Latest(history'[f.at]) = f.after.lifecycle
        /\ Ends(history'[f.at], made + 1, Latest(history[f.at]))
        /\ \A j \in Identity \ {f.at} : history'[j] = history[j]
    BY <1>2, <2>1, Recorded DEF IInv, StateOK
  <2>3. /\ e.pc = "rules" /\ e.at = f.at /\ e.after = f.after /\ e.before = f.before
        /\ e.changed = TRUE /\ e.entry = made + 1 /\ e.ruleEntry = f.ruleEntry
    BY <1>2 DEF Call
  <2> HIDE DEF e
  <2>4. Sits(e, doc[f.at].lifecycle)
    BY <1>1, <1>2, <2>3 DEF Sits
  <2>5. count.restarts = 0 => Tells(e, doc[f.at].lifecycle, history'[f.at])
    BY <1>1, <1>2, <2>2, <2>3 DEF Tells
  <2> QED
    BY <1>1, <1>2, <2>1, <2>2, <2>3, <2>4, <2>5, Advances
<1>4. CASE ~ changed
  <2>1. UNCHANGED history /\ (Return(c) \/ Goto(c, "rules"))
    BY <1>4 DEF Fire
  <2>2. count.restarts = 0 => doc[f.at].lifecycle = Latest(history[f.at])
    BY <1>1, <1>2, <1>4 DEF Tells, Sits
  <2>3. CASE Return(c)
    BY <1>1, <1>2, <2>1, <2>2, <2>3, Advances DEF Return, IdleCall
  <2>4. CASE Goto(c, "rules")
    <3> DEFINE e == [f EXCEPT !.pc = "rules"]
    <3>1. call' = [call EXCEPT ![c] = e]
      BY <2>4 DEF Goto
    <3>2. /\ e.pc = "rules" /\ e.at = f.at /\ e.after = f.after /\ e.before = f.before
          /\ e.changed = f.changed /\ e.ruleEntry = f.ruleEntry
      BY <1>2 DEF Call
    <3> HIDE DEF e
    <3>3. Sits(e, doc[f.at].lifecycle)
      BY <1>1, <1>2, <3>2 DEF Sits
    <3>4. count.restarts = 0 => Tells(e, doc[f.at].lifecycle, history[f.at])
      BY <1>1, <1>2, <1>4, <3>2 DEF Tells
    <3> QED
      BY <1>1, <1>2, <2>1, <3>1, <3>2, <3>3, <3>4, Advances
  <2> QED
    BY <2>1, <2>3, <2>4
<1> QED
  BY <1>3, <1>4

LEMMA ReadRulesFits ==
    ASSUME IInv, AllFit, Alone, NEW c \in Caller, ReadRules(c)
    PROVE  AllFit'
<1> DEFINE f == call[c]
           e == [f EXCEPT !.pc = "apply", !.todo = cache]
<1>1. f.pc = "rules" /\ Active(c) /\ call' = [call EXCEPT ![c] = e]
      /\ UNCHANGED <<doc, history, run, count>>
  BY DEF ReadRules, Active, database
<1>2. /\ f \in Call /\ f.at \in Identity /\ Sits(f, doc[f.at].lifecycle)
      /\ count.restarts = 0 => Tells(f, doc[f.at].lifecycle, history[f.at])
  BY <1>1, Standing
<1>3. /\ e.pc = "apply" /\ e.at = f.at /\ e.after = f.after /\ e.before = f.before
      /\ e.changed = f.changed /\ e.entry = f.entry /\ e.ruleEntry = f.ruleEntry
  BY <1>2 DEF Call
<1> HIDE DEF e
<1>4. Sits(e, doc[f.at].lifecycle)
  BY <1>1, <1>2, <1>3 DEF Sits
<1>5. count.restarts = 0 => Tells(e, doc[f.at].lifecycle, history[f.at])
  BY <1>1, <1>2, <1>3 DEF Tells
<1> QED
  BY <1>1, <1>2, <1>3, <1>4, <1>5, Advances, Standing

LEMMA ApplyRuleFits ==
    ASSUME LifecycleAssumption, IInv, AllFit, Alone, NEW c \in Caller, ApplyRule(c)
    PROVE  AllFit'
<1> DEFINE f == call[c]
           rule == Head(f.todo)
<1>1. /\ f.pc = "apply" /\ f.todo # <<>> /\ Active(c) /\ UNCHANGED <<history, run, count>>
  BY DEF ApplyRule, Active
<1>2. /\ f \in Call /\ f.at \in Identity /\ Sits(f, doc[f.at].lifecycle)
      /\ count.restarts = 0 => Tells(f, doc[f.at].lifecycle, history[f.at])
      /\ doc \in [Identity -> Doc] /\ call \in [Caller -> Call]
  BY <1>1, Standing
<1>3. CASE Concerns(rule, f.after.lifecycle) /\ Selects(rule, f.at)
  <2> DEFINE e == [f EXCEPT !.pc = "ruleHistory"]
  <2>1. doc' = [doc EXCEPT ![f.at] = Transition(rule, @)] /\ call' = [call EXCEPT ![c] = e]
    BY <1>3 DEF ApplyRule, Goto
  <2>2. /\ e.pc = "ruleHistory" /\ e.at = f.at /\ e.after = f.after /\ e.before = f.before
        /\ e.changed = f.changed /\ e.entry = f.entry /\ e.ruleEntry = f.ruleEntry
        /\ e.todo = f.todo
    BY <1>2 DEF Call
  <2> HIDE DEF e
  <2>3. /\ doc'[f.at] = Transition(rule, doc[f.at])
        /\ \A j \in Identity \ {f.at} : doc'[j] = doc[j]
    BY <1>2, <2>1
  <2>4. doc'[f.at].lifecycle = rule.target
    <3>1. \A d \in Doc : Transition(rule, d).lifecycle = rule.target
      BY DEF Transition, Doc
    <3> QED
      BY <1>2, <2>3, <3>1
  <2>5. Sits(e, doc'[f.at].lifecycle)
    BY <2>2, <2>4 DEF Sits
  <2>6. count.restarts = 0 => Tells(e, doc'[f.at].lifecycle, history[f.at])
    BY <1>1, <1>2, <2>2 DEF Tells
  <2> QED
    BY <1>1, <1>2, <2>1, <2>2, <2>3, <2>5, <2>6, Advances
<1>4. CASE ~ (Concerns(rule, f.after.lifecycle) /\ Selects(rule, f.at))
  <2> DEFINE e == [f EXCEPT !.todo = Tail(@)]
  <2>1. doc' = doc /\ call' = [call EXCEPT ![c] = e]
    BY <1>4 DEF ApplyRule
  <2>2. /\ e.pc = "apply" /\ e.at = f.at /\ e.after = f.after /\ e.before = f.before
        /\ e.changed = f.changed /\ e.entry = f.entry /\ e.ruleEntry = f.ruleEntry
    BY <1>1, <1>2 DEF Call
  <2> HIDE DEF e
  <2>3. Sits(e, doc[f.at].lifecycle)
    BY <1>1, <1>2, <2>2 DEF Sits
  <2>4. count.restarts = 0 => Tells(e, doc[f.at].lifecycle, history[f.at])
    BY <1>1, <1>2, <2>2 DEF Tells
  <2> QED
    BY <1>1, <1>2, <2>1, <2>2, <2>3, <2>4, Advances
<1> QED
  BY <1>3, <1>4

LEMMA NoRuleFits ==
    ASSUME IInv, AllFit, Alone, NEW c \in Caller, NoRule(c)
    PROVE  AllFit'
<1> DEFINE f == call[c]
<1>1. f.pc = "apply" /\ Active(c) /\ UNCHANGED <<doc, history, run, count>>
  BY DEF NoRule, Active, database
<1>2. /\ f \in Call /\ f.at \in Identity /\ Sits(f, doc[f.at].lifecycle)
      /\ count.restarts = 0 => Tells(f, doc[f.at].lifecycle, history[f.at])
      /\ call \in [Caller -> Call]
  BY <1>1, Standing
<1>3. CASE f.changed
  <2> DEFINE e == [f EXCEPT !.pc = "dispatch"]
  <2>1. call' = [call EXCEPT ![c] = e]
    BY <1>3 DEF NoRule, Goto
  <2> HIDE DEF e
  <2>2. /\ e.pc = "dispatch" /\ e.at = f.at /\ e.after = f.after /\ e.before = f.before
        /\ e.changed = f.changed /\ e.entry = f.entry /\ e.ruleEntry = f.ruleEntry
    BY <1>2, Going DEF e
  <2>3. Sits(e, doc[f.at].lifecycle)
    BY <1>1, <1>2, <2>2 DEF Sits
  <2>4. count.restarts = 0 => Tells(e, doc[f.at].lifecycle, history[f.at])
    BY <1>1, <1>2, <1>3, <2>2 DEF Tells
  <2> QED
    BY <1>1, <1>2, <2>1, <2>2, <2>3, <2>4, Advances
<1>4. CASE ~ f.changed
  <2>1. Return(c)
    BY <1>4 DEF NoRule
  <2>2. count.restarts = 0 => doc[f.at].lifecycle = Latest(history[f.at])
    BY <1>1, <1>2 DEF Tells, Sits
  <2> QED
    BY <1>1, <1>2, <2>1, <2>2, Advances DEF Return, IdleCall
<1> QED
  BY <1>3, <1>4

LEMMA RuleHistoryFits ==
    ASSUME LifecycleAssumption, IInv, Chronicle, AllFit, Alone, NEW c \in Caller,
           RuleHistory(c)
    PROVE  AllFit'
<1> DEFINE f == call[c]
           target == Head(f.todo).target
           e == [f EXCEPT !.pc = "ruleDispatch", !.ruleEntry = made + 1]
<1>1. /\ f.pc = "ruleHistory" /\ Active(c) /\ UNCHANGED <<doc, run, count>>
      /\ Record(f.at, target) /\ call' = [call EXCEPT ![c] = e]
  BY DEF RuleHistory, Active
<1>2. /\ f \in Call /\ f.at \in Identity /\ Sits(f, doc[f.at].lifecycle)
      /\ count.restarts = 0 => Tells(f, doc[f.at].lifecycle, history[f.at])
      /\ call \in [Caller -> Call] /\ target \in Cycle
  BY <1>1, Standing, FireTypes
<1>3. made \in Nat /\ made + 1 # None
  BY DEF IInv, StateOK, LifecycleAssumption
<1>4. /\ Latest(history'[f.at]) = target
      /\ Ends(history'[f.at], made + 1, Latest(history[f.at]))
      /\ \A j \in Identity \ {f.at} : history'[j] = history[j]
  BY <1>1, <1>2, <1>3, Recorded
<1>5. /\ e.pc = "ruleDispatch" /\ e.at = f.at /\ e.after = f.after /\ e.todo = f.todo
      /\ e.ruleEntry = made + 1
  BY <1>2 DEF Call
<1> HIDE DEF e
<1>6. Sits(e, doc[f.at].lifecycle)
  BY <1>1, <1>2, <1>5 DEF Sits
<1>7. count.restarts = 0 => Tells(e, doc[f.at].lifecycle, history'[f.at])
  BY <1>1, <1>2, <1>3, <1>4, <1>5 DEF Tells
<1> QED
  BY <1>1, <1>2, <1>4, <1>5, <1>6, <1>7, Advances

\* The answer of the backends changes no lifecycle.
LEMMA AnswersKeepLifecycle ==
    ASSUME doc \in [Identity -> Doc], NEW i, NEW lifecycle, NEW targets,
           Accepted(i, lifecycle, targets) \/ Refused(i, lifecycle)
    PROVE  \A j \in Identity : doc'[j].lifecycle = doc[j].lifecycle
<1>1. \E s : doc' = [doc EXCEPT ![i].state = s]
  BY DEF Accepted, Refused
<1> QED
  BY <1>1 DEF Doc

\* A request that is answered, or whose rollback starts.
LEMMA EndsOrRollsBack ==
    ASSUME IInv, AllFit, Alone, NEW c \in Caller,
           call[c].pc \in {"ruleDispatch", "dispatch"},
           Return(c) \/ Goto(c, "rollback"),
           \A j \in Identity : doc'[j].lifecycle = doc[j].lifecycle,
           UNCHANGED <<history, run, count>>
    PROVE  AllFit'
<1> DEFINE f == call[c]
<1>1. Active(c)
  BY DEF Active
<1>2. /\ f \in Call /\ f.at \in Identity /\ Sits(f, doc[f.at].lifecycle)
      /\ count.restarts = 0 => Tells(f, doc[f.at].lifecycle, history[f.at])
      /\ call \in [Caller -> Call]
  BY <1>1, Standing
<1>3. CASE Return(c)
  <2>1. count.restarts = 0 => doc[f.at].lifecycle = Latest(history[f.at])
    BY <1>2 DEF Tells, Sits
  <2> QED
    BY <1>1, <1>2, <1>3, <2>1, Advances DEF Return, IdleCall
<1>4. CASE Goto(c, "rollback")
  <2> DEFINE e == [f EXCEPT !.pc = "rollback"]
  <2>1. call' = [call EXCEPT ![c] = e]
    BY <1>4 DEF Goto
  <2> HIDE DEF e
  <2>2. e.pc = "rollback" /\ e.at = f.at /\ UndoOf(e) = UndoOf(f)
    BY <1>2, Going DEF e
  <2>3. Sits(e, doc[f.at].lifecycle)
    BY <2>2 DEF Sits
  <2>4. count.restarts = 0 => Tells(e, doc[f.at].lifecycle, history[f.at])
    <3> SUFFICES ASSUME count.restarts = 0
                 PROVE  Ends(history[f.at], UndoOf(f).entry, UndoOf(f).to.lifecycle)
      BY <2>2 DEF Tells
    <3>1. CASE f.pc = "dispatch"
      BY <1>2, <3>1 DEF Tells, UndoOf
    <3>2. CASE f.pc = "ruleDispatch"
      BY <1>2, <3>2 DEF Tells, UndoOf
    <3> QED
      BY <3>1, <3>2
  <2> QED
    BY <1>1, <1>2, <2>1, <2>2, <2>3, <2>4, Advances
<1> QED
  BY <1>3, <1>4

LEMMA DispatchesFit ==
    ASSUME IInv, AllFit, Alone, NEW c \in Caller, RuleDispatch(c) \/ Dispatch(c)
    PROVE  AllFit'
<1>1. /\ call[c].pc \in {"ruleDispatch", "dispatch"}
      /\ Return(c) \/ Goto(c, "rollback")
      /\ UNCHANGED <<history, run, count>>
  BY DEF RuleDispatch, Dispatch
<1>2. \E lifecycle, targets : Accepted(call[c].at, lifecycle, targets)
                              \/ Refused(call[c].at, lifecycle)
  BY DEF RuleDispatch, Dispatch
<1>3. doc \in [Identity -> Doc]
  BY DEF IInv, StateOK
<1>4. \A j \in Identity : doc'[j].lifecycle = doc[j].lifecycle
  BY <1>2, <1>3, AnswersKeepLifecycle
<1> QED
  BY <1>1, <1>4, EndsOrRollsBack

LEMMA RollbackFits ==
    ASSUME IInv, AllFit, Alone, NEW c \in Caller, Rollback(c)
    PROVE  AllFit'
<1> DEFINE f == call[c]
           e == [f EXCEPT !.pc = "forget"]
<1>1. /\ f.pc = "rollback" /\ Active(c) /\ UNCHANGED <<history, run, count>>
      /\ call' = [call EXCEPT ![c] = e]
  BY DEF Rollback, Active, Goto
<1>2. /\ f \in Call /\ f.at \in Identity
      /\ count.restarts = 0 => Tells(f, doc[f.at].lifecycle, history[f.at])
      /\ call \in [Caller -> Call] /\ doc \in [Identity -> Doc]
  BY <1>1, Standing
<1>3. Undo(c) = UndoOf(f)
  BY DEF Undo, UndoOf
<1>4. /\ doc'[f.at].lifecycle = UndoOf(f).to.lifecycle
      /\ \A j \in Identity \ {f.at} : doc'[j] = doc[j]
  <2>1. \E date : doc' = [doc EXCEPT ![f.at].lifecycle = UndoOf(f).to.lifecycle,
                                     ![f.at].lastLifecycleUpdate = date]
    BY <1>3 DEF Rollback
  <2> QED
    BY <1>2, <2>1 DEF Doc
<1> HIDE DEF e
<1>5. e.pc = "forget" /\ e.at = f.at /\ UndoOf(e) = UndoOf(f)
  BY <1>2, Going DEF e
<1>6. Sits(e, doc'[f.at].lifecycle)
  BY <1>4, <1>5 DEF Sits
<1>7. count.restarts = 0 => Tells(e, doc'[f.at].lifecycle, history[f.at])
  BY <1>1, <1>2, <1>5 DEF Tells
<1> QED
  BY <1>1, <1>2, <1>4, <1>5, <1>6, <1>7, Advances

LEMMA ForgetFits ==
    ASSUME IInv, Chronicle, AllFit, Alone, NEW c \in Caller, Forget(c)
    PROVE  AllFit'
<1> DEFINE f == call[c]
<1>1. /\ f.pc = "forget" /\ Active(c) /\ UNCHANGED <<doc, made, run, count>> /\ Return(c)
      /\ history' = [history EXCEPT ![f.at] = Without(@, Undo(c).entry)]
  BY DEF Forget, Active
<1>2. /\ f \in Call /\ f.at \in Identity /\ Sits(f, doc[f.at].lifecycle)
      /\ count.restarts = 0 => Tells(f, doc[f.at].lifecycle, history[f.at])
      /\ call \in [Caller -> Call]
  BY <1>1, Standing
<1>3. Undo(c) = UndoOf(f)
  BY DEF Undo, UndoOf
<1>4. /\ \A j \in Identity \ {f.at} : history'[j] = history[j]
      /\ \A lifecycle : Ends(history[f.at], UndoOf(f).entry, lifecycle) =>
           Latest(history'[f.at]) = lifecycle
  BY <1>1, <1>2, <1>3, Forgotten
<1>5. count.restarts = 0 => doc[f.at].lifecycle = Latest(history'[f.at])
  BY <1>1, <1>2, <1>4 DEF Sits, Tells
<1> QED
  BY <1>1, <1>2, <1>4, <1>5, Advances DEF Return, IdleCall

LEMMA CallStepFits ==
    ASSUME LifecycleAssumption, IInv, Chronicle, AllFit, Alone, NEW c \in Caller,
           CallStep(c)
    PROVE  AllFit'
BY BeforeFits, WriteFits, FireFits, ReadRulesFits, ApplyRuleFits, NoRuleFits,
   RuleHistoryFits, DispatchesFit, RollbackFits, ForgetFits
DEF CallStep

----------------------------------------------------------------------------
(* The other steps.                                                        *)

\* A request enters: nothing was in progress about its identity.
LEMMA AcceptFits ==
    ASSUME IInv, AllFit, Alone', NEW c \in Caller, NEW i \in Identity, Request(c, i)
    PROVE  AllFit'
<1>1. PICK op, input : Accept(c, op, i, input)
  BY DEF Request
<1> DEFINE pc == IF op = "force" THEN "fire" ELSE "before"
           e == [IdleCall EXCEPT !.op = op, !.at = i, !.input = input, !.before = doc[i],
                                 !.after = doc[i], !.pc = pc]
<1>2. /\ ~ Active(c) /\ call' = [call EXCEPT ![c] = e]
      /\ UNCHANGED <<doc, history, run>> /\ count'.restarts = count.restarts
  BY <1>1 DEF Accept, Active, Within, IInv, StateOK, database
<1>3. /\ e.pc = pc /\ e.at = i /\ e.op = op /\ e.before = doc[i] /\ e.after = doc[i]
      /\ e.changed = FALSE /\ e.ruleEntry = None
  BY DEF IdleCall
<1>4. pc # "idle" /\ pc \in {"fire", "before"} /\ (op = "force" <=> pc = "fire")
  OBVIOUS
<1> HIDE DEF e, pc
<1>5. call \in [Caller -> Call]
  BY DEF IInv, StateOK
<1>6. \A d \in Caller : call'[d] = IF d = c THEN e ELSE call[d]
  BY <1>2, <1>5
<1>7. About(c, i)' /\ ~ About(c, i)
  BY <1>2, <1>3, <1>4, <1>6 DEF About, Active
<1>8. \A d \in Caller \ {c} : ~ About(d, i)' /\ ~ About(d, i)
  <2>1. \A d \in Caller \ {c} : ~ About(d, i)'
    BY <1>3, <1>4, <1>6 DEF Alone, About, Active
  <2> QED
    BY <1>6, <2>1 DEF About, Active
<1>9. \A r \in Run : ~ Moves(r, i)' /\ ~ Moves(r, i)
  <2>1. \A r \in Run : ~ Moves(r, i)'
    BY <1>3, <1>4, <1>6 DEF Alone, Moves, Active, Moving
  <2> QED
    BY <1>2, <2>1 DEF Moves, Moving
<1>10. count.restarts = 0 => doc[i].lifecycle = Latest(history[i])
  <2>1. Fits(i)
    BY DEF AllFit
  <2> QED
    BY <1>7, <1>8, <1>9, <2>1 DEF Fits, About, Moves
<1>11. ASSUME NEW j \in Identity \ {i} PROVE Fits(j)'
  <2>1. Fits(j)
    BY DEF AllFit
  <2>2. \A d \in Caller : /\ About(d, j)' => About(d, j) /\ call'[d] = call[d]
                          /\ About(d, j) => About(d, j)'
    BY <1>2, <1>3, <1>6, <1>11 DEF About, Active
  <2>3. \A r \in Run : run'[r].rules = run[r].rules /\ (Moves(r, j)' <=> Moves(r, j))
    BY <1>2 DEF Moves, Moving
  <2> QED
    BY <1>2, <2>1, <2>2, <2>3, Framed
<1>12. Fits(i)'
  <2>1. Sits(e, doc[i].lifecycle)
    BY <1>3, <1>4 DEF Sits
  <2>2. count.restarts = 0 => Tells(e, doc[i].lifecycle, history[i])
    BY <1>3, <1>4, <1>10 DEF Tells
  <2>3. \A d \in Caller : call'[d].pc # "idle" /\ call'[d].at = i => call'[d] = e
    BY <1>6, <1>8 DEF About, Active
  <2> QED
    BY <1>2, <1>7, <1>9, <2>1, <2>2, <2>3 DEF Fits, Active, About, Moves, Moving
<1> QED
  BY <1>11, <1>12 DEF AllFit

\* The write of a run: it finds nothing in progress about the identity.
LEMMA CronWriteFits ==
    ASSUME IInv, AllFit, Alone', NEW r \in Run, NEW i \in Identity, CronWrite(r, i)
    PROVE  AllFit'
<1> DEFINE rule == Head(run[r].rules)
           x == [run[r] EXCEPT !.pc = "history", !.at = i, !.found = @ \ {i}]
<1>1. /\ run[r].pc = "each" /\ doc' = [doc EXCEPT ![i] = Transition(rule, @)]
      /\ run' = [run EXCEPT ![r] = x] /\ UNCHANGED <<history, call, count>>
  BY DEF CronWrite
<1>2. run[r] \in Execution /\ rule \in Rule /\ run \in [Run -> Execution]
      /\ doc \in [Identity -> Doc]
  BY <1>1, CronTypes DEF IInv, StateOK
<1>3. x.pc = "history" /\ x.at = i /\ x.rules = run[r].rules
  BY <1>2 DEF Execution
<1> HIDE DEF x
<1>4. \A s \in Run : run'[s] = IF s = r THEN x ELSE run[s]
  BY <1>1, <1>2
<1>5. \A j \in Identity : \A c \in Caller : call'[c] = call[c] /\ (About(c, j)' <=> About(c, j))
  BY <1>1 DEF About, Active
<1>6. ASSUME NEW j \in Identity \ {i} PROVE Fits(j)'
  <2>1. Fits(j) /\ doc'[j].lifecycle = doc[j].lifecycle
    BY <1>1, <1>2, <1>6 DEF AllFit
  <2>2. \A s \in Run : /\ Moves(s, j)' => Moves(s, j) /\ run'[s].rules = run[s].rules
                       /\ Moves(s, j) => Moves(s, j)'
    BY <1>1, <1>3, <1>4, <1>6 DEF Moves, Moving
  <2> QED
    BY <1>1, <1>5, <2>1, <2>2, Framed
<1>7. Fits(i)'
  <2>1. Moves(r, i)'
    BY <1>3, <1>4 DEF Moves, Moving
  <2>2. \A c \in Caller : ~ About(c, i)'
    BY <2>1 DEF Alone, About, Moves
  <2>3. \A s \in Run : Moves(s, i)' => s = r
    BY <2>1 DEF Alone, Moves
  <2>4. doc'[i].lifecycle = rule.target
    BY <1>1, <1>2 DEF Transition, Doc
  <2>5. Head(run'[r].rules).target = doc'[i].lifecycle
    BY <1>3, <1>4, <2>4
  <2> QED
    BY <2>1, <2>2, <2>3, <2>5 DEF Fits, About, Moves
<1> QED
  BY <1>6, <1>7 DEF AllFit

LEMMA CronHistoryFits ==
    ASSUME IInv, Chronicle, AllFit, Alone, NEW r \in Run, CronHistory(r)
    PROVE  AllFit'
<1> DEFINE target == Head(run[r].rules).target
<1>1. /\ run[r].pc = "history" /\ Record(run[r].at, target)
      /\ UNCHANGED <<doc, call, count>>
      /\ \E pc \in {"each", "dispatch"} : run' = [run EXCEPT ![r].pc = pc]
  BY DEF CronHistory
<1>2. /\ run[r] \in Execution /\ run[r].at \in Identity /\ target \in Cycle
      /\ run \in [Run -> Execution] /\ made \in Nat
  BY <1>1, CronTypes DEF IInv, StateOK
<1>3. PICK i \in Identity : i = run[r].at
  BY <1>2
<1>4. /\ \A j \in Identity \ {i} : history'[j] = history[j]
      /\ Latest(history'[i]) = target
  BY <1>1, <1>2, <1>3, Recorded
<1>5. /\ run'[r].pc # "history" /\ \A s \in Run \ {r} : run'[s] = run[s]
  BY <1>1, <1>2 DEF Execution
<1>6. \A j \in Identity : \A c \in Caller : call'[c] = call[c] /\ (About(c, j)' <=> About(c, j))
  BY <1>1 DEF About, Active
<1>7. ASSUME NEW j \in Identity \ {i} PROVE Fits(j)'
  <2>1. Fits(j) /\ history'[j] = history[j]
    BY <1>4, <1>7 DEF AllFit
  <2>2. \A s \in Run : /\ Moves(s, j)' => Moves(s, j) /\ run'[s].rules = run[s].rules
                       /\ Moves(s, j) => Moves(s, j)'
    BY <1>3, <1>5, <1>7 DEF Moves, Moving
  <2> QED
    BY <1>1, <1>6, <2>1, <2>2, Framed
<1>8. Fits(i)'
  <2>1. Moves(r, i)
    BY <1>1, <1>3 DEF Moves, Moving
  <2>2. \A c \in Caller : ~ About(c, i)'
    BY <1>6, <2>1 DEF Alone, About, Moves
  <2>3. \A s \in Run : ~ Moves(s, i)'
    BY <1>5, <2>1 DEF Alone, Moves, Moving
  <2>4. target = doc[i].lifecycle
    BY <2>1 DEF AllFit, Fits, Moves
  <2> QED
    BY <1>1, <1>4, <2>2, <2>3, <2>4 DEF Fits, About, Moves
<1> QED
  BY <1>7, <1>8 DEF AllFit

LEMMA RunStepFits ==
    ASSUME IInv, Chronicle, AllFit, Alone, Alone', NEW r \in Run,
           RunStep(r) \/ Execute(r) \/ \E l \in Loader : Tick(r, l)
    PROVE  AllFit'
<1>1. CASE Find(r) \/ CronDispatch(r) \/ NextRule(r) \/ Execute(r) \/ \E l \in Loader : Tick(r, l)
  <2>1. run \in [Run -> Execution] /\ run[r] \in Execution
    BY DEF IInv, StateOK
  <2>2. UNCHANGED <<doc, history, call>> /\ count'.restarts = count.restarts
    BY <1>1 DEF Find, CronDispatch, NextRule, Execute, Tick, Within, IInv, StateOK, database
  <2>3. run[r].pc # "history"
    BY <1>1 DEF Find, CronDispatch, NextRule, Execute, Tick, Start
  <2>4. /\ \A s \in Run \ {r} : run'[s] = run[s]
        /\ run'[r].pc # "history"
    <3>1. CASE Find(r)
      <4>1. CASE run' = [run EXCEPT ![r] = IdleRun]
        BY <2>1, <4>1 DEF IdleRun
      <4>2. CASE \E found : run' = [run EXCEPT ![r].pc = "each", ![r].found = found]
        BY <2>1, <4>2 DEF Execution
      <4> QED
        BY <3>1, <4>1, <4>2 DEF Find
    <3>2. CASE CronDispatch(r)
      BY <2>1, <3>2 DEF CronDispatch, Execution
    <3>3. CASE NextRule(r)
      BY <2>1, <3>3 DEF NextRule, Execution
    <3>4. CASE Execute(r) \/ \E l \in Loader : Tick(r, l)
      <4>1. PICK list, now : Start(r, list, now)
        BY <3>4 DEF Execute, Tick
      <4> QED
        BY <2>1, <4>1 DEF Start, IdleRun
    <3> QED
      BY <1>1, <3>1, <3>2, <3>3, <3>4
  <2>5. /\ \A s \in Run : Moving(s)' => Moving(s) /\ run'[s] = run[s]
        /\ \A s \in Run : Moving(s) => Moving(s)'
    BY <2>3, <2>4 DEF Moving
  <2> QED
    BY <2>2, <2>5, AllFramed
<1> QED
  BY <1>1, CronHistoryFits, CronWriteFits DEF RunStep

LEMMA OtherStepsFit ==
    ASSUME IInv, AllFit,
           \/ \E i \in Identity : Delete(i) \/ Touch(i) \/ \E key \in DateKey : Grow(i, key)
           \/ \E l \in Loader : Install(l) \/ \E book \in Rulebook : Rewrite(book, l)
           \/ \E job \in queue : Answer(job)
           \/ UNCHANGED vars
    PROVE  AllFit'
<1>1. doc \in [Identity -> Doc] /\ count \in [{"requests", "rewrites", "agings", "restarts"} -> Nat]
  BY DEF IInv, StateOK
<1>2. ASSUME \A i \in Identity : doc'[i].lifecycle = doc[i].lifecycle,
             UNCHANGED <<history, call, run>>, count'.restarts = count.restarts
      PROVE  AllFit'
  BY <1>2, AllFramed DEF Moving
<1>3. ASSUME NEW i \in Identity, Delete(i) \/ Touch(i) PROVE AllFit'
  <2>1. UNCHANGED <<history, call, run, count>>
    BY <1>3 DEF Delete, Touch
  <2>2. CASE Delete(i)
    BY <1>1, <1>2, <2>1, <2>2 DEF Delete, Doc
  <2>3. CASE Touch(i)
    BY <1>1, <1>2, <2>1, <2>3 DEF Touch, Doc
  <2> QED
    BY <1>3, <2>2, <2>3
<1>4. ASSUME NEW i \in Identity, NEW key \in DateKey, Grow(i, key) PROVE AllFit'
  <2>1. UNCHANGED <<history, call, run>> /\ doc' = [doc EXCEPT ![i][key] = "old"]
    BY <1>4 DEF Grow
  <2>2. count'.restarts = count.restarts
    BY <1>1, <1>4 DEF Grow, Within
  <2>3. key \in {"lastSync", "lastLifecycleUpdate"}
    BY DEF DateKey
  <2>4. \A j \in Identity : doc'[j].lifecycle = doc[j].lifecycle
    BY <1>1, <2>1, <2>3 DEF Doc
  <2> QED
    BY <1>2, <2>1, <2>2, <2>4
<1>5. ASSUME NEW l \in Loader, Install(l) \/ \E book \in Rulebook : Rewrite(book, l)
      PROVE  AllFit'
  BY <1>1, <1>2, <1>5 DEF Install, Rewrite, Within, database
<1>6. ASSUME NEW job \in queue, Answer(job) PROVE AllFit'
  <2>1. UNCHANGED <<history, call, run, count>>
    BY <1>6 DEF Answer, rules
  <2>2. \A j \in Identity : doc'[j].lifecycle = doc[j].lifecycle
    BY <1>1, <1>6, AnswersKeepLifecycle DEF Answer
  <2> QED
    BY <1>2, <2>1, <2>2
<1>7. CASE UNCHANGED vars
  BY <1>2, <1>7 DEF vars, database
<1> QED
  BY <1>3, <1>4, <1>5, <1>6, <1>7

\* After a restart nothing is in progress, and nothing more is claimed.
LEMMA RestartFits ==
    ASSUME IInv, Restart
    PROVE  AllFit'
<1>1. count'.restarts # 0
  BY DEF Restart, Within, IInv, StateOK
<1>2. /\ \A c \in Caller : call'[c].pc = "idle"
      /\ \A r \in Run : run'[r].pc = "idle"
  BY DEF Restart, IdleCall, IdleRun
<1> QED
  BY <1>1, <1>2 DEF AllFit, Fits, Active, Moving

\* The inductive invariant of the two theorems below.
LEMMA AloneFits == Spec /\ []Alone => [](IInv /\ Chronicle /\ AllFit)
<1>1. Init => AllFit
  <2> SUFFICES ASSUME Init, NEW i \in Identity PROVE Fits(i)
    BY DEF AllFit
  <2>1. /\ \A c \in Caller : ~ Active(c)
        /\ \A r \in Run : ~ Moving(r)
    BY DEF Init, Active, Moving, IdleCall, IdleRun
  <2>2. doc[i].lifecycle = First /\ history[i] = <<>>
    BY DEF Init, NewDoc
  <2> QED
    BY <2>1, <2>2 DEF Fits, Latest
<1>2. IInv /\ Chronicle /\ AllFit /\ Alone /\ Alone' /\ [Next]_vars => AllFit'
  <2> SUFFICES ASSUME IInv, Chronicle, AllFit, Alone, Alone', [Next]_vars PROVE AllFit'
    OBVIOUS
  <2> USE LifecycleAssumption
  <2>1. ASSUME NEW c \in Caller, CallStep(c) \/ \E i \in Identity : Request(c, i)
        PROVE  AllFit'
    BY <2>1, CallStepFits, AcceptFits
  <2>2. ASSUME NEW r \in Run, RunStep(r) \/ Execute(r) \/ \E l \in Loader : Tick(r, l)
        PROVE  AllFit'
    BY <2>2, RunStepFits
  <2> QED
    BY <2>1, <2>2, OtherStepsFit, RestartFits DEF Next
<1> QED
  BY <1>1, <1>2, ChronicleInvariant, PTL DEF Spec

\* Once nothing is in progress about an identity, the last entry of its history
\* names its lifecycle (fireLifecycleEvent, rollbackLifecycleOnBackendFailure,
\* handleCron): for any number of requests and of runs at the same time that are
\* about different identities, whatever the rules and the answers of the backends.
THEOREM HistoryTold == Spec /\ []Alone => []HistoryAccounts
<1>1. AllFit => HistoryAccounts
  <2> SUFFICES ASSUME AllFit, NEW i \in Identity, count.restarts = 0, AtRest(i)
               PROVE  doc[i].lifecycle = Latest(history[i])
    BY DEF HistoryAccounts
  <2>1. /\ \A c \in Caller : ~ (Active(c) /\ call[c].at = i)
        /\ \A r \in Run : ~ (Moving(r) /\ run[r].at = i)
    BY DEF AtRest, Moving
  <2> QED
    BY <2>1 DEF AllFit, Fits
<1> QED
  BY <1>1, AloneFits, PTL

\* The other requests keep theirs when one of them takes a step.
LEMMA OneCallMoves ==
    ASSUME NEW c \in Caller, NEW d \in Caller \ {c}, call \in [Caller -> Call],
           CallStep(d) \/ \E i \in Identity : Request(d, i)
    PROVE  call'[c] = call[c]
<1>1. ASSUME NEW e, call' = [call EXCEPT ![d] = e] PROVE call'[c] = call[c]
  BY <1>1
<1>2. CASE \E i \in Identity : Request(d, i)
  <2>1. \A op, i, input : Accept(d, op, i, input) => call'[c] = call[c]
    BY DEF Accept
  <2> QED
    BY <1>2, <2>1 DEF Request
<1>3. \A pc : Goto(d, pc) => call'[c] = call[c]
  BY DEF Goto
<1>4. Return(d) => call'[c] = call[c]
  BY DEF Return
<1>5. Before(d) \/ Write(d) \/ ReadRules(d) \/ RuleHistory(d) => call'[c] = call[c]
  BY DEF Before, Write, ReadRules, RuleHistory
<1>6. Fire(d) => call'[c] = call[c]
  BY <1>3, <1>4 DEF Fire
<1>7. ApplyRule(d) \/ NoRule(d) => call'[c] = call[c]
  BY <1>3, <1>4 DEF ApplyRule, NoRule
<1>8. RuleDispatch(d) \/ Dispatch(d) \/ Rollback(d) \/ Forget(d) => call'[c] = call[c]
  BY <1>3, <1>4 DEF RuleDispatch, Dispatch, Rollback, Forget
<1> QED
  BY <1>2, <1>5, <1>6, <1>7, <1>8 DEF CallStep

\* A request that is answered without an error leaves the backends informed of
\* the lifecycle that the document has (fireLifecycleEvent), under the same
\* condition.
THEOREM AnswersTell == Spec /\ []Alone => AnswerMeansTold
<1> DEFINE Told == \A c \in Caller :
                     LET i == call[c].at
                     IN  (/\ call[c].pc \in {"ruleDispatch", "dispatch"}
                          /\ call'[c].pc = "idle"
                          /\ count'.restarts = count.restarts
                          /\ doc'[i].state # "ON_ERROR") => told'[i] = doc'[i].lifecycle
<1>1. IInv /\ AllFit /\ [Next]_vars => Told
  <2> SUFFICES ASSUME IInv, AllFit, [Next]_vars, NEW c \in Caller,
                      call[c].pc \in {"ruleDispatch", "dispatch"}, call'[c].pc = "idle",
                      count'.restarts = count.restarts,
                      doc'[call[c].at].state # "ON_ERROR"
               PROVE  told'[call[c].at] = doc'[call[c].at].lifecycle
    OBVIOUS
  <2> DEFINE f == call[c]
             i == f.at
  <2>1. /\ call \in [Caller -> Call] /\ f \in Call /\ i \in Identity
        /\ doc \in [Identity -> Doc] /\ Sits(f, doc[i].lifecycle)
    BY Standing DEF Active
  <2>2. told \in [Identity -> Cycle]
    BY DEF IInv, StateOK
  <2>3. call'[c] # call[c]
    OBVIOUS
  <2>4. \A d \in Caller : (CallStep(d) \/ \E j \in Identity : Request(d, j)) => d = c
    BY <2>1, <2>3, OneCallMoves
  <2>5. \A j \in Identity : ~ Request(c, j)
    <3>1. \A op, j, input : ~ Accept(c, op, j, input)
      BY DEF Accept
    <3> QED
      BY <3>1 DEF Request
  <2>6. ~ Restart
    BY DEF Restart, Within, IInv, StateOK
  <2>7. \A j \in Identity : ~ Delete(j) /\ ~ Touch(j) /\ \A key \in DateKey : ~ Grow(j, key)
    BY <2>3 DEF Delete, Touch, Grow
  <2>8. \A l \in Loader : ~ Install(l) /\ \A book \in Rulebook : ~ Rewrite(book, l)
    BY <2>3 DEF Install, Rewrite
  <2>9. \A r \in Run : ~ Execute(r) /\ ~ RunStep(r) /\ \A l \in Loader : ~ Tick(r, l)
    BY <2>3 DEF Execute, Tick, RunStep, Find, CronWrite, CronHistory, CronDispatch, NextRule
  <2>10. (\A job \in queue : ~ Answer(job)) /\ ~ UNCHANGED vars
    BY <2>3 DEF Answer, vars
  <2>11. CallStep(c)
    BY <2>4, <2>5, <2>6, <2>7, <2>8, <2>9, <2>10 DEF Next
  <2>12. RuleDispatch(c) \/ Dispatch(c)
    BY <2>11 DEF CallStep, Before, Write, Fire, ReadRules, ApplyRule, NoRule, RuleHistory,
                 Rollback, Forget
  <2>13. ~ Goto(c, "rollback")
    BY <2>1 DEF Goto, Call
  <2>14. \A lifecycle : ~ Refused(i, lifecycle)
    BY <2>1 DEF Refused, Doc
  <2>15. ASSUME NEW lifecycle, NEW targets, Accepted(i, lifecycle, targets)
         PROVE  told'[i] = lifecycle /\ doc'[i].lifecycle = doc[i].lifecycle
    BY <2>1, <2>2, <2>15, AnswersKeepLifecycle DEF Accepted
  <2>16. CASE RuleDispatch(c)
    <3>1. f.pc = "ruleDispatch" /\ \E targets : Accepted(i, Head(f.todo).target, targets)
      BY <2>13, <2>16 DEF RuleDispatch
    <3> QED
      BY <2>1, <2>15, <3>1 DEF Sits
  <2>17. CASE Dispatch(c)
    <3>1. f.pc = "dispatch" /\ Accepted(i, f.after.lifecycle, {"SYNCED"})
      BY <2>14, <2>17 DEF Dispatch
    <3> QED
      BY <2>1, <2>15, <3>1 DEF Sits
  <2> QED
    BY <2>12, <2>16, <2>17
<1> QED
  BY <1>1, AloneFits, PTL DEF Spec, AnswerMeansTold
=============================================================================
