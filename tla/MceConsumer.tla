----------------------------- MODULE MceConsumer ----------------------------
(***************************************************************************)
(* The MCE consumer job and the request handlers of GMS it calls.          *)
(* MceStreamTask reads the MetadataChangeEvent topic with one Kafka        *)
(* Streams thread and posts the snapshot of each event to GMS, one at a    *)
(* time.  The handler (BaseSnapshotResource.create) adds the aspects of    *)
(* the snapshot one by one, each in a transaction of its own.  Whatever    *)
(* goes wrong is logged by the job, which goes on with the next event; a   *)
(* request the job no longer waits for keeps running in GMS.               *)
(*                                                                         *)
(* An add is one step here: LocalDAO has its statements.                   *)
(***************************************************************************)
EXTENDS Integers, Sequences

CONSTANTS
    Keys,       \* (urn, aspect) pairs
    Values,     \* aspect values
    Invalid,    \* a value the schema validation of GMS rejects
    None,       \* no aspect
    Events,     \* the events producers may emit
    Faults,     \* the faults the environment may inject
    MaxFaults, MaxEvents     \* bounds of the model

ASSUME IngestAssumption ==
    /\ Invalid \in Values /\ None \notin Values
    /\ Events \subseteq [kind : {"snapshot", "empty", "malformed"},
                         aspects : Seq(Keys \X Values)]
    /\ Faults \subseteq {"addFails", "unreachable", "gmsCrash", "crash"}
    /\ {MaxFaults, MaxEvents} \subseteq Nat

VARIABLES
    topic,      \* the MetadataChangeEvent topic (one partition)
    position,   \* events the stream thread has finished
    committed,  \* the committed offset of the consumer group
    waiting,    \* the request the stream thread waits for, or 0
    requests,   \* every request GMS has received
    store,      \* the latest value of each key
    logged,     \* events the job has logged an error for
    reached,    \* ghost: the largest number of events ever finished
    orphaned,   \* ghost: a request was left running
    faults      \* ghost: how many faults there were, and of which kinds

job == <<position, committed, waiting, logged, reached>>
vars == <<topic, job, requests, store, orphaned, faults>>

Aspects(n) == topic[n].aspects

Init ==
    /\ topic = <<>>
    /\ position = 0 /\ committed = 0 /\ waiting = 0
    /\ requests = <<>>
    /\ store = [k \in Keys |-> None]
    /\ logged = {} /\ reached = 0 /\ orphaned = FALSE
    /\ faults = [count |-> 0, kinds |-> {}]

Fault(kind) ==
    /\ kind \in Faults /\ faults.count < MaxFaults
    /\ faults' = [count |-> faults.count + 1, kinds |-> faults.kinds \cup {kind}]

Emit ==
    /\ Len(topic) < MaxEvents
    /\ \E e \in Events : topic' = Append(topic, e)
    /\ UNCHANGED <<job, requests, store, orphaned, faults>>

-----------------------------------------------------------------------------
(* The stream thread is done with an event, and logs it if it threw.       *)
Finish(failed) ==
    /\ position' = position + 1
    /\ waiting' = 0
    /\ logged' = IF failed THEN logged \cup {position + 1} ELSE logged
    /\ reached' = IF position + 1 > reached THEN position + 1 ELSE reached
    /\ UNCHANGED committed

Polling == waiting = 0 /\ position < Len(topic)
Kind == topic[position + 1].kind

(* processSingleMCE without a request: the conversion from Avro fails, or  *)
(* there is no proposed snapshot.                                          *)
NoRequest ==
    /\ Polling /\ Kind # "snapshot"
    /\ Finish(Kind = "malformed")
    /\ UNCHANGED <<topic, requests, store, orphaned, faults>>

(* RestliRemoteWriterDAO.create sends the request and waits.               *)
SendRequest ==
    /\ Polling /\ Kind = "snapshot"
    /\ requests' = Append(requests, [event |-> position + 1, added |-> 0, running |-> TRUE])
    /\ waiting' = Len(requests) + 1
    /\ UNCHANGED <<topic, position, committed, logged, reached, store, orphaned, faults>>

(* GMS cannot be reached.                                                  *)
SendFails ==
    /\ Fault("unreachable")
    /\ Polling /\ Kind = "snapshot"
    /\ Finish(TRUE)
    /\ UNCHANGED <<topic, requests, store, orphaned>>

\* Mutant: the client has no timeout, it gives up when the server does.
TimeoutNever ==
    /\ waiting # 0 /\ ~ requests[waiting].running
    /\ Finish(TRUE)
    /\ orphaned' = TRUE
    /\ UNCHANGED <<topic, requests, store, faults>>

(* No answer within ten seconds: RemoteInvocationException.                *)
Timeout ==
    /\ waiting # 0
    /\ Finish(TRUE)
    /\ orphaned' = TRUE
    /\ UNCHANGED <<topic, requests, store, faults>>

\* Mutant: the offset of a record is committed before it is processed.
CommitEarly ==
    /\ Polling /\ committed < position + 1
    /\ committed' = position + 1
    /\ UNCHANGED <<topic, position, waiting, logged, reached, requests, store, orphaned, faults>>

(* Kafka Streams commits between two records, every ten seconds and when   *)
(* it is closed.                                                           *)
CommitOffset ==
    /\ waiting = 0 /\ committed < position
    /\ committed' = position
    /\ UNCHANGED <<topic, position, waiting, logged, reached, requests, store, orphaned, faults>>

(* The job dies and is started again at the committed offset.              *)
Crash ==
    /\ Fault("crash")
    /\ position' = committed
    /\ waiting' = 0
    /\ orphaned' = (orphaned \/ waiting # 0)
    /\ UNCHANGED <<topic, committed, logged, reached, requests, store>>

-----------------------------------------------------------------------------
(* GMS.  What a request has left to add, and its end: the stream thread    *)
(* gets the answer if it still waits for it.                               *)
Rest(r) == SubSeq(Aspects(requests[r].event), requests[r].added + 1, Len(Aspects(requests[r].event)))

Answer(r, failed) ==
    /\ requests' = [requests EXCEPT ![r].running = FALSE]
    /\ IF waiting = r THEN Finish(failed) ELSE UNCHANGED job
    /\ UNCHANGED <<topic, store, orphaned>>

\* Mutant: nothing is validated.
AddUnchecked(r) ==
    /\ requests[r].running /\ Rest(r) # <<>>
    /\ store' = [store EXCEPT ![Head(Rest(r))[1]] = Head(Rest(r))[2]]
    /\ requests' = [requests EXCEPT ![r].added = @ + 1]
    /\ UNCHANGED <<topic, job, orphaned, faults>>

(* BaseLocalDAO.add of the next aspect, which is committed at once.        *)
Add(r) ==
    /\ requests[r].running /\ Rest(r) # <<>> /\ Head(Rest(r))[2] # Invalid
    /\ store' = [store EXCEPT ![Head(Rest(r))[1]] = Head(Rest(r))[2]]
    /\ requests' = [requests EXCEPT ![r].added = @ + 1]
    /\ UNCHANGED <<topic, job, orphaned, faults>>

(* The next aspect is rejected: the request ends there, what it has added  *)
(* stays.                                                                  *)
Reject(r) ==
    /\ requests[r].running /\ Rest(r) # <<>> /\ Head(Rest(r))[2] = Invalid
    /\ Answer(r, TRUE)
    /\ UNCHANGED faults

(* The same when the database fails (RetryLimitReached).                   *)
AddFails(r) ==
    /\ Fault("addFails")
    /\ requests[r].running /\ Rest(r) # <<>>
    /\ Answer(r, TRUE)

(* 201 Created.                                                            *)
Created(r) ==
    /\ requests[r].running /\ Rest(r) = <<>>
    /\ Answer(r, FALSE)
    /\ UNCHANGED faults

(* GMS dies with everything that runs in it.                               *)
GmsCrash ==
    /\ Fault("gmsCrash")
    /\ \E r \in DOMAIN requests : requests[r].running
    /\ requests' = [r \in DOMAIN requests |-> [requests[r] EXCEPT !.running = FALSE]]
    /\ IF waiting # 0 THEN Finish(TRUE) ELSE UNCHANGED job
    /\ UNCHANGED <<topic, store, orphaned>>

-----------------------------------------------------------------------------
Process == NoRequest \/ SendRequest

Next ==
    \/ Emit \/ Process \/ SendFails \/ Timeout \/ CommitOffset \/ Crash \/ GmsCrash
    \/ \E r \in DOMAIN requests : Add(r) \/ Reject(r) \/ AddFails(r) \/ Created(r)

Spec == Init /\ [][Next]_vars

(* The stream thread and the timer of its client keep running.  GMS owes   *)
(* no answer: its database may hang.                                       *)
FairSpec == Spec /\ WF_vars(Process) /\ WF_vars(Timeout)
-----------------------------------------------------------------------------
Request == [event : Nat \ {0}, added : Nat, running : BOOLEAN]

(* Requests are about events of the topic; nothing invalid is stored.      *)
TypeOK ==
    /\ topic \in Seq(Events)
    /\ position \in 0 .. Len(topic) /\ committed \in 0 .. position
    /\ reached \in position .. Len(topic)
    /\ requests \in Seq(Request)
    /\ \A r \in DOMAIN requests :
         /\ requests[r].event <= Len(topic)
         /\ requests[r].added <= Len(Aspects(requests[r].event))
    /\ waiting \in 0 .. Len(requests)
    /\ waiting # 0 => requests[waiting].running /\ requests[waiting].event = position + 1
    /\ store \in [Keys -> (Values \ {Invalid}) \cup {None}]
    /\ logged \subseteq 1 .. reached
    /\ orphaned \in BOOLEAN
    /\ faults \in [count : 0 .. MaxFaults, kinds : SUBSET Faults]

(* What the first n events leave in a key: the last of its aspects that is *)
(* not behind an invalid one.                                              *)
Writes(k, n) ==
    {i \in DOMAIN Aspects(n) :
        /\ topic[n].kind = "snapshot" /\ Aspects(n)[i][1] = k
        /\ \A j \in 1 .. i : Aspects(n)[j][2] # Invalid}
LastOf(S) == CHOOSE i \in S : \A j \in S : j <= i
ValueAfter(k, n) ==
    LET writers == {o \in 1 .. n : Writes(k, o) # {}} IN
    IF writers = {} THEN None
    ELSE Aspects(LastOf(writers))[LastOf(Writes(k, LastOf(writers)))][2]

(* Between two events the store holds, for every key, what some prefix of  *)
(* the topic leaves there: the prefix that is processed or, while events   *)
(* are redelivered after a crash, one up to the furthest point ever        *)
(* reached.  It takes a request that was left running, or one that failed  *)
(* half way, to break the order of the topic.                              *)
StoreFollowsTopic ==
    waiting = 0 /\ ~ orphaned /\ faults.kinds \subseteq {"crash"} =>
        \A k \in Keys : \E n \in position .. reached : store[k] = ValueAfter(k, n)

(* No event is lost in silence, through crashes, timeouts and failures:    *)
(* once the job has caught up, each event was completely added by some     *)
(* request of it, asks for nothing, or was logged as an error.             *)
Complete(n) ==
    \E r \in DOMAIN requests : requests[r].event = n /\ requests[r].added = Len(Aspects(n))
LostOnlyIfLogged ==
    waiting = 0 /\ position = Len(topic) =>
        \A n \in 1 .. position : Complete(n) \/ topic[n].kind = "empty" \/ n \in logged

(* What the job has processed is stored in the order of the topic, and     *)
(* what is not stored was logged, whichever request failed or was left.    *)
ProcessedIsStored == StoreFollowsTopic /\ LostOnlyIfLogged

(* The job never gets stuck: it works through the topic even when GMS      *)
(* answers nothing.                                                        *)
EverythingConsumed == <>[](waiting = 0 /\ position = Len(topic))
=============================================================================
