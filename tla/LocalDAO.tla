------------------------------ MODULE LocalDAO ------------------------------
(***************************************************************************)
(* The versioned aspect store of GMS: BaseLocalDAO.add / backfill on top   *)
(* of EbeanLocalDAO and one PostgreSQL table, for one (urn, aspect) pair.  *)
(* Different pairs share no row and no lock, so one pair is the whole      *)
(* protocol.                                                               *)
(*                                                                         *)
(* A writer is a request thread of GMS.  Every SQL statement of the        *)
(* transaction is an action of its own, because the statements of two      *)
(* threads interleave: the connection pool runs at the database's default  *)
(* isolation, READ COMMITTED, where a statement sees what is committed     *)
(* when it runs.  A transaction's own writes stay in "dirty" until it      *)
(* commits; a row another transaction has in "dirty" is locked.            *)
(***************************************************************************)
EXTENDS Integers, Sequences, FiniteSets

CONSTANTS
    Writers,      \* request threads of the server
    Values,       \* aspect values
    Invalid,      \* a value validateAgainstSchema rejects
    None,         \* no aspect
    Deleted,      \* marks a row a transaction has deleted
    Lambdas,      \* the update lambdas clients pass to add
    Policies,     \* the retention policies the aspect may have
    Limit,        \* maxVersionsToRetain or maxAgeToRetain
    MaxRetry,     \* maxTransactionRetry
    Faults,       \* the faults the environment may inject
    MaxFaults, MaxAdds, MaxBackfills, MaxTime     \* bounds of the model

ASSUME ValueAssumption ==
    /\ Invalid \in Values
    /\ None \notin Values
    /\ Deleted \notin [value : Values, time : Nat]
    /\ Lambdas \subseteq [kind : {"replace", "ifAbsent"}, value : Values]
ASSUME RetentionAssumption ==
    /\ Policies \subseteq {"indefinite", "version", "time"}
    /\ Limit \in Nat \ {0}
ASSUME BoundAssumption ==
    /\ MaxRetry \in Nat
    /\ Faults \subseteq {"rollback", "ackLost", "sendLost", "crash"}
    /\ {MaxFaults, MaxAdds, MaxBackfills, MaxTime} \subseteq Nat

VARIABLES
    retention, \* the policy of the aspect, set when the DAO is built
    table,    \* committed rows of metadata_aspect: version -> row
    dirty,    \* uncommitted writes of each writer: version -> row or Deleted
    pc,       \* the next statement of each writer
    call,     \* local variables of each writer's request
    topic,    \* the MetadataAuditEvent topic
    now,      \* the clock
    commits,  \* ghost: the changes committed so far, in commit order
    used      \* ghost: how much of each bound is used up

vars == <<retention, table, dirty, pc, call, topic, now, commits, used>>

LATEST_VERSION == 0
Row == [value : Values \cup {None}, time : Nat]
NoRow == [value |-> None, time |-> 0]
NoWrites == [v \in {} |-> NoRow]

Rows(p) ==
    LET kept(v) == v \in DOMAIN dirty[p] => dirty[p][v] # Deleted
    IN  [v \in {w \in DOMAIN table \cup DOMAIN dirty[p] : kept(w)} |->
            IF v \in DOMAIN dirty[p] THEN dirty[p][v] ELSE table[v]]

Locked(p, v) == \E q \in Writers \ {p} : v \in DOMAIN dirty[q]

Write(p, v, row) ==
    dirty' = [dirty EXCEPT ![p] =
        [w \in DOMAIN dirty[p] \cup {v} |-> IF w = v THEN row ELSE dirty[p][w]]]

Latest == IF LATEST_VERSION \in DOMAIN table THEN table[LATEST_VERSION] ELSE NoRow

Apply(lambda, old) ==
    IF lambda.kind = "ifAbsent" /\ old # None THEN old ELSE lambda.value

Goto(p, label) == pc' = [pc EXCEPT ![p] = label]

IdleCall == [id |-> 0, lambda |-> [kind |-> "replace", value |-> Invalid],
             stamp |-> 0, old |-> NoRow, new |-> Invalid, next |-> 0,
             retry |-> 0, rank |-> 0, since |-> 0, outcome |-> "none"]

Init ==
    /\ retention \in Policies
    /\ table = NoWrites
    /\ dirty = [p \in Writers |-> NoWrites]
    /\ pc = [p \in Writers |-> "idle"]
    /\ call = [p \in Writers |-> IdleCall]
    /\ topic = <<>>
    /\ now = 0
    /\ commits = <<>>
    /\ used = [adds |-> 0, backfills |-> 0, faults |-> 0]

-----------------------------------------------------------------------------
(* add: the caller's audit stamp is taken before the transaction begins.   *)
Begin(p) ==
    /\ pc[p] = "idle"
    /\ used.adds < MaxAdds
    /\ \E f \in Lambdas :
         call' = [call EXCEPT ![p] =
            [IdleCall EXCEPT !.id = used.adds + 1, !.lambda = f, !.stamp = now,
                             !.since = Len(commits)]]
    /\ used' = [used EXCEPT !.adds = @ + 1]
    /\ Goto(p, "getLatest")
    /\ UNCHANGED <<table, dirty, topic, now, commits>>

\* Mutant: a missing row is taken for an existing one and archived.
GetLatestArchivesNothing(p) ==
    LET new == Apply(call[p].lambda, Latest.value) IN
    /\ pc[p] = "getLatest"
    /\ call' = [call EXCEPT ![p].old = Latest, ![p].new = new, ![p].rank = Len(commits)]
    /\ Goto(p, IF new = Latest.value THEN "commit" ELSE "getNextVersion")
    /\ UNCHANGED <<table, dirty, topic, now, commits, used>>

(* getLatest, the update lambda, the validation and the equality test.     *)
GetLatest(p) ==
    LET old == Latest
        new == Apply(call[p].lambda, old.value)
    IN
    /\ pc[p] = "getLatest"
    /\ call' = [call EXCEPT ![p].old = old, ![p].new = new, ![p].rank = Len(commits),
                            ![p].outcome = IF new = Invalid THEN "rejected" ELSE @]
    /\ \/ new = Invalid /\ Goto(p, "idle")
       \/ new # Invalid /\ new = old.value /\ Goto(p, "commit")
       \/ new # Invalid /\ new # old.value /\ old # NoRow /\ Goto(p, "getNextVersion")
       \/ new # Invalid /\ old = NoRow /\ Goto(p, "saveLatest")
    /\ UNCHANGED <<table, dirty, topic, now, commits, used>>

Largest(versions) == CHOOSE v \in versions : \A w \in versions : w <= v

\* Mutant: the largest version itself, not the one after it.
GetNextVersionOffByOne(p) ==
    /\ pc[p] = "getNextVersion"
    /\ call' = [call EXCEPT ![p].next =
                    IF DOMAIN table = {} THEN 0 ELSE Largest(DOMAIN table)]
    /\ Goto(p, "saveOld")
    /\ UNCHANGED <<table, dirty, topic, now, commits, used>>

GetNextVersion(p) ==
    /\ pc[p] = "getNextVersion"
    /\ call' = [call EXCEPT ![p].next =
                    IF DOMAIN table = {} THEN 0 ELSE Largest(DOMAIN table) + 1]
    /\ Goto(p, "saveOld")
    /\ UNCHANGED <<table, dirty, topic, now, commits, used>>

\* Mutant: the failed statement is tried again instead of the transaction.
RetryStatement(p) == UNCHANGED <<dirty, call, pc>>

\* Mutant: reaching the limit is not reported, the caller goes on to the event.
RetrySwallowed(p) ==
    /\ dirty' = [dirty EXCEPT ![p] = NoWrites]
    /\ call' = [call EXCEPT ![p].retry = @ + 1]
    /\ Goto(p, IF call[p].retry + 1 <= MaxRetry THEN "getLatest" ELSE "produce")

(* The transaction is rolled back and run again, or the limit is reached.  *)
Retry(p) ==
    /\ dirty' = [dirty EXCEPT ![p] = NoWrites]
    /\ \/ /\ call[p].retry + 1 <= MaxRetry
          /\ call' = [call EXCEPT ![p].retry = @ + 1]
          /\ Goto(p, "getLatest")
       \/ /\ call[p].retry + 1 > MaxRetry
          /\ call' = [call EXCEPT ![p].retry = @ + 1, ![p].outcome = "retryLimit"]
          /\ Goto(p, "idle")

\* Mutant: save upserts, an existing row is overwritten.
Upsert(p, v, row, label) ==
    ~ Locked(p, v) /\ Write(p, v, row) /\ Goto(p, label) /\ UNCHANGED call

(* An insert waits for a transaction that holds the key, then either finds *)
(* the key taken (DuplicateKeyException) or writes the row.                *)
Insert(p, v, row, label) ==
    /\ ~ Locked(p, v)
    /\ \/ v \in DOMAIN Rows(p) /\ Retry(p)
       \/ v \notin DOMAIN Rows(p) /\ Write(p, v, row) /\ Goto(p, label) /\ UNCHANGED call

(* An update waits likewise; ebean answers an update of no row with an     *)
(* exception nobody catches.                                               *)
Update(p, v, row, label) ==
    \/ /\ v \in DOMAIN Rows(p)
       /\ ~ Locked(p, v)
       /\ Write(p, v, row) /\ Goto(p, label) /\ UNCHANGED call
    \/ /\ v \notin DOMAIN Rows(p)
       /\ dirty' = [dirty EXCEPT ![p] = NoWrites]
       /\ call' = [call EXCEPT ![p].outcome = "notFound"]
       /\ Goto(p, "idle")

(* saveLatest, first half: the old value is archived under the next version. *)
SaveOld(p) ==
    /\ pc[p] = "saveOld"
    /\ Insert(p, call[p].next, call[p].old, "saveLatest")
    /\ UNCHANGED <<table, topic, now, commits, used>>

\* Mutant: the arguments of the two saves are swapped.
SaveLatestSwapped(p) ==
    LET row == [value |-> call[p].new, time |-> call[p].stamp]
    IN
    /\ pc[p] = "saveLatest"
    /\ \/ call[p].old = NoRow /\ Insert(p, LATEST_VERSION, row, "applyRetention")
       \/ call[p].old # NoRow /\ Update(p, LATEST_VERSION, call[p].old, "applyRetention")
    /\ UNCHANGED <<table, topic, now, commits, used>>

(* saveLatest, second half: the new value becomes version 0.               *)
SaveLatest(p) ==
    LET row == [value |-> call[p].new, time |-> call[p].stamp]
    IN
    /\ pc[p] = "saveLatest"
    /\ \/ call[p].old = NoRow /\ Insert(p, LATEST_VERSION, row, "applyRetention")
       \/ call[p].old # NoRow /\ Update(p, LATEST_VERSION, row, "applyRetention")
    /\ UNCHANGED <<table, topic, now, commits, used>>

(* The number saveLatest returns: 0 when there was no old value to archive. *)
LargestVersion(p) == IF call[p].old = NoRow THEN 0 ELSE call[p].next

\* Mutant: version 0 is not spared, and the limit itself counts as too old.
PurgedLatestToo(p) ==
    {v \in DOMAIN Rows(p) :
        \/ retention = "version" /\ v <= LargestVersion(p) - Limit + 1
        \/ retention = "time" /\ Rows(p)[v].time <= now - Limit}

\* Mutant: one version too many is kept, and no policy is exempt.
PurgedOffByOne(p) ==
    {v \in DOMAIN Rows(p) : v # LATEST_VERSION /\ v <= LargestVersion(p) - Limit}

(* The rows the policy of the aspect removes.                              *)
Purged(p) ==
    {v \in DOMAIN Rows(p) :
        \/ /\ retention = "version"
           /\ v # LATEST_VERSION
           /\ v <= LargestVersion(p) - Limit + 1
        \/ /\ retention = "time"
           /\ Rows(p)[v].time < now - Limit}

ApplyRetention(p) ==
    /\ pc[p] = "applyRetention"
    /\ \A v \in Purged(p) : ~ Locked(p, v)
    /\ dirty' = [dirty EXCEPT ![p] =
            [v \in DOMAIN dirty[p] \cup Purged(p) |->
                IF v \in Purged(p) THEN Deleted ELSE dirty[p][v]]]
    /\ Goto(p, "commit")
    /\ UNCHANGED <<table, call, topic, now, commits, used>>

(* What a commit does to the database.                                     *)
Publish(p) ==
    /\ table' = Rows(p)
    /\ commits' = IF dirty[p] = NoWrites THEN commits ELSE
            Append(commits, [id |-> call[p].id, kind |-> call[p].lambda.kind,
                             old |-> call[p].old.value, new |-> call[p].new,
                             version |-> LargestVersion(p)])

Commit(p) ==
    /\ pc[p] = "commit"
    /\ Publish(p)
    /\ dirty' = [dirty EXCEPT ![p] = NoWrites]
    /\ call' = [call EXCEPT ![p].rank = IF dirty[p] = NoWrites THEN @ ELSE Len(commits) + 1]
    /\ Goto(p, "produce")
    /\ UNCHANGED <<topic, now, used>>

(* The event is sent after the commit, outside the transaction, and also   *)
(* when nothing changed; the caller does not wait for the broker.          *)
Produce(p) ==
    /\ pc[p] = "produce"
    /\ topic' = Append(topic, [old |-> call[p].old.value, new |-> call[p].new,
                               rank |-> call[p].rank])
    /\ call' = [call EXCEPT ![p].outcome = "ok"]
    /\ Goto(p, "idle")
    /\ UNCHANGED <<table, dirty, now, commits, used>>

(* backfill: read the latest version, then send it as both values.         *)
Backfill(p) ==
    /\ pc[p] = "idle"
    /\ used.backfills < MaxBackfills
    /\ Latest # NoRow
    /\ call' = [call EXCEPT ![p] =
            [IdleCall EXCEPT !.old = Latest, !.new = Latest.value, !.rank = Len(commits),
                             !.since = Len(commits)]]
    /\ used' = [used EXCEPT !.backfills = @ + 1]
    /\ Goto(p, "produce")
    /\ UNCHANGED <<table, dirty, topic, now, commits>>

-----------------------------------------------------------------------------
(* The environment.                                                        *)
Inject(fault) ==
    /\ fault \in Faults
    /\ used.faults < MaxFaults
    /\ used' = [used EXCEPT !.faults = @ + 1]

(* The commit fails and the database has rolled back (RollbackException).  *)
CommitFails(p) ==
    /\ pc[p] = "commit"
    /\ Inject("rollback")
    /\ Retry(p)
    /\ UNCHANGED <<table, topic, now, commits>>

(* The commit succeeds but the connection breaks before the answer, which  *)
(* the driver reports as a failed commit.                                  *)
CommitAckLost(p) ==
    /\ pc[p] = "commit"
    /\ Inject("ackLost")
    /\ Publish(p)
    /\ Retry(p)
    /\ UNCHANGED <<topic, now>>

(* The asynchronous send fails; its callback only logs.                    *)
SendLost(p) ==
    /\ pc[p] = "produce"
    /\ Inject("sendLost")
    /\ call' = [call EXCEPT ![p].outcome = "ok"]
    /\ Goto(p, "idle")
    /\ UNCHANGED <<table, dirty, topic, now, commits>>

(* GMS dies: open transactions are rolled back, unsent events are gone.    *)
Crash ==
    /\ \E p \in Writers : pc[p] # "idle"
    /\ Inject("crash")
    /\ dirty' = [p \in Writers |-> NoWrites]
    /\ pc' = [p \in Writers |-> "idle"]
    /\ call' = [p \in Writers |-> IdleCall]
    /\ UNCHANGED <<table, topic, now, commits>>

(* The clock, which only time-based retention reads.                       *)
Tick ==
    /\ retention = "time" /\ now < MaxTime
    /\ now' = now + 1
    /\ UNCHANGED <<table, dirty, pc, call, topic, commits, used>>

(* Between requests the server waits.                                      *)
Wait == (\A p \in Writers : pc[p] = "idle") /\ UNCHANGED vars

(* The steps of a running request; the server keeps its threads running.   *)
Step(p) ==
    \/ GetLatest(p) \/ GetNextVersion(p) \/ SaveOld(p) \/ SaveLatest(p)
    \/ ApplyRetention(p) \/ Commit(p) \/ Produce(p)

Next ==
    /\ \/ \E p \in Writers :
            \/ Begin(p) \/ Backfill(p) \/ Step(p)
            \/ CommitFails(p) \/ CommitAckLost(p) \/ SendLost(p)
       \/ Crash \/ Tick \/ Wait
    /\ UNCHANGED retention

Spec == Init /\ [][Next]_vars
FairSpec == Spec /\ \A p \in Writers : WF_vars(Step(p) /\ UNCHANGED retention)
-----------------------------------------------------------------------------
Quiescent == \A p \in Writers : pc[p] = "idle"
Versions == DOMAIN table

Label == {"idle", "getLatest", "getNextVersion", "saveOld", "saveLatest",
          "applyRetention", "commit", "produce"}
Outcome == {"none", "ok", "rejected", "retryLimit", "notFound"}
Lambda == [kind : {"replace", "ifAbsent"}, value : Values]
Call == [id : Nat, lambda : Lambda, stamp : Nat, old : Row, new : Values, next : Nat,
         retry : Nat, rank : Nat, since : Nat, outcome : Outcome]
Valid == Values \ {Invalid}
StoredRow == [value : Valid, time : Nat]
Change == [id : Nat, kind : {"replace", "ifAbsent"}, old : Valid \cup {None},
           new : Valid, version : Nat]
(* The value before and after, and (ghost) which commit wrote the latter.  *)
Event == [old : Valid \cup {None}, new : Valid, rank : Nat]

(* The types, with what is stored and sent always a real, valid aspect: a  *)
(* row never holds "no aspect", nor a value that fails validation.         *)
TypeOK ==
    /\ Versions \subseteq Nat
    /\ \A v \in Versions : table[v] \in StoredRow
    /\ DOMAIN dirty = Writers
    /\ \A p \in Writers :
         /\ DOMAIN dirty[p] \subseteq Nat
         /\ \A v \in DOMAIN dirty[p] : dirty[p][v] \in StoredRow \cup {Deleted}
    /\ pc \in [Writers -> Label]
    /\ call \in [Writers -> Call]
    /\ topic \in Seq(Event)
    /\ now \in Nat
    /\ commits \in Seq(Change)
    /\ used \in [adds : Nat, backfills : Nat, faults : Nat]

(* Without a retention limit every committed change adds exactly one row:  *)
(* whatever the interleaving of writers, no version number is skipped or   *)
(* taken twice (saveLatest relies on the primary key for this).            *)
OneRowPerChange ==
    retention = "indefinite" => Versions = 0 .. Len(commits) - 1

(* Version 0 is the value of the change that committed last, unless        *)
(* time-based retention has removed it.                                    *)
LatestIsLastChange ==
    commits # <<>> /\ (retention = "time" => LATEST_VERSION \in Versions) =>
        LATEST_VERSION \in Versions /\ table[LATEST_VERSION].value = commits[Len(commits)].new

(* Version numbers grow with each change, as the contract of add says,     *)
(* while retention frees no number.                                        *)
VersionsIncrease ==
    retention = "indefinite" =>
    \A i, j \in DOMAIN commits : i < j => commits[i].version < commits[j].version

(* A committed version other than the latest is never rewritten, and       *)
(* without a retention limit never removed.                                *)
HistoryIsImmutable ==
    [][\A v \in Versions \ {LATEST_VERSION} :
        /\ retention = "indefinite" => v \in Versions'
        /\ v \in Versions' => table'[v] = table[v]]_vars

(* An add gives up (RetryLimitReached) only after MaxRetry + 1 attempts,   *)
(* each of which failed because another change committed under it or the   *)
(* database refused the commit: contention alone, not its own reads and    *)
(* inserts, can make it fail.                                              *)
FailureNeedsRivals ==
    retention = "indefinite" =>
        \A p \in Writers :
            call[p].retry <= (Len(commits) - call[p].since) + used.faults

(* createIfAbsent never replaces an existing aspect, even when two clients *)
(* race: the loser's transaction reads again and finds the winner's value. *)
IfAbsentNeverOverwrites ==
    retention = "indefinite" =>
        \A i \in DOMAIN commits : commits[i].kind = "ifAbsent" => i = 1

(* The latest value is that of the last change, also among racing calls of *)
(* createIfAbsent, which write only where there was nothing.               *)
LatestIsRight == LatestIsLastChange /\ IfAbsentNeverOverwrites

(* An audit event never announces a value that was not committed: events   *)
(* of failed, rejected or rolled-back adds do not exist.                   *)
AuditOnlyCommitted ==
    \A i \in DOMAIN topic :
        /\ topic[i].rank \in DOMAIN commits
        /\ topic[i].new = commits[topic[i].rank].new

(* When no request is running, each committed change has been announced.   *)
(* GMS promises it only while it does not die and the broker takes the     *)
(* events: after a fault a change may stay unannounced.                    *)
EveryChangeAudited ==
    Quiescent /\ used.faults = 0 =>
        \A r \in DOMAIN commits : \E i \in DOMAIN topic : topic[i].rank = r

(* The audit events and the committed changes tell the same story: no      *)
(* event without its change, no change without its event.                  *)
EventsTellCommits == AuditOnlyCommitted /\ EveryChangeAudited

(* One writer at a time: with version-based retention the table holds the  *)
(* latest value and the newest Limit - 1 archived ones, nothing else, and  *)
(* no version number is given out twice.  A limit of 1 keeps no archived   *)
(* row to tell the next number from.                                       *)
RetentionWindow ==
    (retention = "version" /\ commits # <<>>) =>
        /\ Versions = {v \in 0 .. Len(commits) - 1 :
                          v = LATEST_VERSION \/ v > Len(commits) - Limit}
        /\ Limit > 1 => \A i \in DOMAIN commits : commits[i].version = i - 1

(* Time-based retention never removes an archived row that is younger than *)
(* the limit, whichever writer's transaction purges.                       *)
FreshHistorySurvives ==
    [][retention = "time" =>
        \A v \in Versions \ Versions' :
            v = LATEST_VERSION \/ table[v].time < now - Limit]_vars

(* Every add ends, with a value or with an error: writers that wait for    *)
(* each other's rows never wait in a circle, and retries are limited.      *)
AddTerminates ==
    \A p \in Writers : (pc[p] # "idle") ~> (pc[p] = "idle")

-----------------------------------------------------------------------------
(* What the documentation says and the code does not do.                   *)

(* A change replaces the value its lambda was given.                       *)
NoLostUpdate ==
    \A i \in DOMAIN commits : i > 1 => commits[i].old = commits[i - 1].new

(* Retention purges "older versions": the latest one stays.                *)
LatestIsKept == commits # <<>> => LATEST_VERSION \in Versions
=============================================================================
