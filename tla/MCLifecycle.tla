----------------------------- MODULE MCLifecycle -----------------------------
(* Small instances of Lifecycle for TLC.                                    *)
EXTENDS Lifecycle

Any == Attribute

\* O <-> I without trigger: a cycle of rules, one of them with a mutation.
Leave == [sources |-> {"O"}, filter |-> {"mutated"}, target |-> "I", trigger |-> "none",
          mutation |-> None, dateKey |-> "lastSync"]
Back == [sources |-> {"I"}, filter |-> {"usual"}, target |-> "O", trigger |-> "none",
         mutation |-> "mutated", dateKey |-> "lastSync"]

\* After a delay, and on demand.
Expire == [sources |-> {"O", "I"}, filter |-> Any, target |-> "D", trigger |-> "delay",
           mutation |-> "mutated", dateKey |-> "lastSync"]
Archive == [sources |-> {"D"}, filter |-> Any, target |-> "M", trigger |-> "delay",
            mutation |-> None, dateKey |-> "lastLifecycleUpdate"]
Recall == [sources |-> {"D"}, filter |-> Any, target |-> "O", trigger |-> "task",
           mutation |-> None, dateKey |-> "lastSync"]

EventBook == <<Leave, Back>>
CronBook == <<Expire, Archive, Recall>>

Events == {EventBook}
CronBooks == {CronBook, <<Archive>>}
TwoBooks == {<<Leave>>, <<Back, Expire>>}

\* From I to O or D only, and not to D for the identities with the attribute.
ManualRules == <<[source |-> "I", filter |-> {"mutated"}, targets |-> {"O"}],
                 [source |-> "I", filter |-> None, targets |-> {"O", "D"}]>>

Changes == {"lifecycle", "edit", "upsert", "force", "validate", "delete"}
OnDemand == {"execute"}
NoRequest == {}
=============================================================================
