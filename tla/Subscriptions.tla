--------------------------- MODULE Subscriptions ---------------------------
(***************************************************************************)
(* Subscriptions of one session: the services of the server, the timer     *)
(* jobs that sample monitored items and queue notification messages, and   *)
(* the subscription layer of the client library, which fetches messages    *)
(* with Publish and acknowledges the ones it has processed.                *)
(*                                                                         *)
(* A call of the client waits for its answer, so a call is one step; when  *)
(* the answer is lost the server has executed the call and the client      *)
(* gives up.  A value of the monitored node is the number of times it was  *)
(* written.  Ids of subscriptions and items come from one counter.         *)
(* Contents that no decision depends on (priority, lifetime, modes,        *)
(* handles, time stamps) are left out, and so are failing allocations.     *)
(***************************************************************************)
EXTENDS Integers, SequencesExt

CONSTANTS
    KeepAlives,       \* keep-alive counts after clamping, revisedMaxKeepAliveCount
    KeepAliveMin,     \* globalKeepAliveCount.minValue
    KeepAliveMax,     \* globalKeepAliveCount.maxValue
    MaxNotifications, \* length at which the queue of messages is emptied, 10 in the code
    QueueMax,         \* queueSize.maxValue of the items
    DiscardOldest,    \* discardOldest of the items
    Reregisters,      \* clients modify subscriptions that have a timer job
    IdBound,          \* bound: subscriptions and items created in a behaviour
    ChangeBound,      \* bound: writes to the node
    RepeatBound,      \* bound: sequence numbers up to which an unchanged value is reported again
    JobBound          \* bound: timer jobs of a subscription

ASSUME SubscriptionsAssumption ==
    /\ KeepAliveMin \in Nat
    /\ KeepAliveMax \in Nat
    /\ KeepAlives \subseteq KeepAliveMin .. KeepAliveMax
    /\ MaxNotifications \in Nat \ {0}
    /\ QueueMax \in Nat \ {0}
    /\ DiscardOldest \in BOOLEAN
    /\ Reregisters \in BOOLEAN
    /\ IdBound \in Nat
    /\ ChangeBound \in Nat
    /\ RepeatBound \in Nat
    /\ JobBound \in Nat

Ids == 1 .. IdBound

\* The node was deleted; nothing was sampled yet.
NoNode == -1
Nothing == -2

VARIABLES
    node,        \* value of the monitored node
    list,        \* manager->serverSubscriptions: ids, newest first
    subs,        \* the subscription with each id
    registered,  \* sub->timedUpdateIsRegistered
    jobs,        \* how many repeated jobs of the server point at a subscription
    lastId,      \* manager->lastSessionID
    clientSubs,  \* client->subscriptions: ids
    clientItems, \* client: items of each subscription
    pendingAcks  \* client->pendingNotificationsAcks: pairs of subscription and number

serverVars == <<list, subs, registered, jobs, lastId>>
clientVars == <<clientSubs, clientItems, pendingAcks>>
vars == <<node, list, subs, registered, jobs, lastId, clientSubs, clientItems, pendingAcks>>

Live == Range(list)

\* UA_Subscription_new
NewSub(keepAlive) == [items |-> <<>>, seqNo |-> 1, keepAlive |-> keepAlive, notes |-> <<>>, size |-> 0]

\* A queued notification message; a keep-alive has no data.
Note(num, data) == [num |-> num, data |-> data, once |-> FALSE]

Init ==
    /\ node = 0
    /\ list = <<>>
    /\ subs = [id \in Ids |-> NewSub(0)]
    /\ registered = [id \in Ids |-> FALSE]
    /\ jobs = [id \in Ids |-> 0]
    /\ lastId = 0
    /\ clientSubs = {}
    /\ clientItems = [id \in Ids |-> {}]
    /\ pendingAcks = {}

-----------------------------------------------------------------------------
(* Sampling and notification messages *)

\* Mutant of Pushed: only the first value is sampled.
PushedOnce(item, how) ==
    IF node # NoNode /\ item.last = Nothing /\ how # "skip"
    THEN [item EXCEPT !.queue = <<node>> \o @, !.last = node]
    ELSE item

\* MonitoredItem_QueuePushDataValue.  The comparison with the last value covers bytes that
\* were never written, so an unchanged value may be queued again.  how is "skip" when the
\* sampling interval is not over, else whether those bytes are the "same".
Pushed(item, how) ==
    LET full == Len(item.queue) >= QueueMax
        room == IF full THEN Front(item.queue) ELSE item.queue
    IN  CASE how = "skip" \/ node = NoNode -> item
          [] full /\ ~DiscardOldest -> item
          [] item.last = node /\ how = "same" -> [item EXCEPT !.queue = room]
          [] OTHER -> [item EXCEPT !.queue = <<node>> \o room, !.last = node]

\* Subscription_deleteUnpublishedNotification for the numbers Nums.
Deleted(s, Nums) ==
    LET kept == SelectSeq(s.notes, LAMBDA m : m.num \notin Nums)
    IN  [s EXCEPT !.notes = kept, !.size = @ - (Len(s.notes) - Len(kept))]

DeletedAll(s) == [s EXCEPT !.notes = <<>>, !.size = @ - Len(s.notes)]

\* Subscription_generateKeepAlive
GenerateKeepAlive(s) ==
    IF s.keepAlive > KeepAliveMin /\ s.keepAlive <= KeepAliveMax
    THEN s
    ELSE [s EXCEPT !.notes = <<Note(s.seqNo + 1, <<>>)>> \o @, !.size = @ + 1, !.keepAlive = KeepAliveMax]

\* Values in the queues, item after item.
QueuedData(s) ==
    FlattenSeq([i \in 1 .. Len(s.items) |->
                   [k \in 1 .. Len(s.items[i].queue) |-> [item |-> s.items[i].id, value |-> s.items[i].queue[k]]]])

\* A full queue of messages is emptied.
MakeRoom(s) == IF s.size >= MaxNotifications THEN DeletedAll(s) ELSE s

\* Mutant of UpdateNotifications: the sequence number is not increased.
UpdateWithoutNumber(s) ==
    LET data == QueuedData(s)
        room == MakeRoom(s)
    IN  IF data = <<>>
        THEN GenerateKeepAlive([room EXCEPT !.keepAlive = @ - 1])
        ELSE [room EXCEPT !.items = [i \in 1 .. Len(@) |-> [s.items[i] EXCEPT !.queue = <<>>]],
                          !.notes = <<Note(s.seqNo, data)>> \o @,
                          !.size = @ + 1]

\* Subscription_updateNotifications.  lastPublished stays 0, so it is always time to publish.
UpdateNotifications(s) ==
    LET data == QueuedData(s)
        room == MakeRoom(s)
        waited == [room EXCEPT !.keepAlive = @ - 1]
    IN  IF data = <<>>
        THEN IF waited.keepAlive < KeepAliveMin THEN GenerateKeepAlive(waited) ELSE waited
        ELSE [room EXCEPT !.items = [i \in 1 .. Len(@) |-> [s.items[i] EXCEPT !.queue = <<>>]],
                          !.seqNo = @ + 1,
                          !.notes = <<Note(s.seqNo, data)>> \o @,
                          !.size = @ + 1]

\* All items are sampled and a message is made of their queues.
Updated(s, how) ==
    UpdateNotifications([s EXCEPT !.items = [i \in 1 .. Len(@) |-> Pushed(s.items[i], how)]])

\* The bound on repeated reports.
Repeatable(id) == subs[id].seqNo <= RepeatBound

\* Subscription_timedUpdateNotificationsJob, executed by the timer.  A job of a subscription
\* that is freed is undefined behaviour and has no step (see JobsOfLive).
UpdateJob(id) ==
    /\ jobs[id] > 0
    /\ id \in Live
    /\ \E how \in {"same"} \cup {h \in {"again"} : Repeatable(id)} :
          subs' = [subs EXCEPT ![id] = Updated(@, how)]
    /\ UNCHANGED <<node, list, registered, jobs, lastId, clientVars>>

-----------------------------------------------------------------------------
(* Services of the server *)

\* Subscription_registerUpdateJob: intervals of up to 5 ms have no job.  A second job for
\* the same subscription takes over its guid.
RegisterUpdateJob(id, timed) ==
    IF timed
    THEN /\ jobs[id] < JobBound
         /\ jobs' = [jobs EXCEPT ![id] = @ + 1]
         /\ registered' = [registered EXCEPT ![id] = TRUE]
    ELSE UNCHANGED <<jobs, registered>>

\* Subscription_unregisterUpdateJob for the subscriptions R: finds the job of the last guid.
UnregisteredJobs(R) == [id \in Ids |-> IF id \in R /\ jobs[id] > 0 THEN jobs[id] - 1 ELSE jobs[id]]

\* UA_Subscription_deleteMembers for the subscriptions R
DeleteSubscriptions(R) ==
    /\ list' = SelectSeq(list, LAMBDA id : id \notin R)
    /\ subs' = [id \in Ids |-> IF id \in R THEN NewSub(0) ELSE subs[id]]
    /\ jobs' = UnregisteredJobs(R)
    /\ registered' = [id \in Ids |-> registered[id] /\ id \notin R]
    /\ UNCHANGED lastId

\* SubscriptionManager_getUniqueUIntID
UniqueId == lastId + 1

\* Service_CreateSubscription
CreateSubscription(timed, keepAlive) ==
    /\ UniqueId \in Ids
    /\ lastId' = UniqueId
    /\ list' = <<UniqueId>> \o list
    /\ subs' = [subs EXCEPT ![UniqueId] = NewSub(keepAlive)]
    /\ RegisterUpdateJob(UniqueId, timed)

\* Service_CreateMonitoredItems for one item
CreateMonitoredItems(id) ==
    /\ id \in Live
    /\ node # NoNode
    /\ UniqueId \in Ids
    /\ lastId' = UniqueId
    /\ subs' = [subs EXCEPT ![id].items = <<[id |-> UniqueId, last |-> Nothing, queue |-> <<>>]>> \o @]
    /\ UNCHANGED <<list, registered, jobs>>

\* Service_DeleteMonitoredItems for one item
DeleteMonitoredItems(id, mon) ==
    /\ subs' = [subs EXCEPT ![id].items = SelectSeq(@, LAMBDA m : m.id # mon)]
    /\ UNCHANGED <<list, registered, jobs, lastId>>

\* Service_ModifySubscription
ModifySubscription(id, timed, keepAlive) ==
    /\ id \in Live
    /\ registered[id] /\ timed => Reregisters
    /\ subs' = [subs EXCEPT ![id].keepAlive = keepAlive]
    /\ RegisterUpdateJob(id, timed)
    /\ UNCHANGED <<node, list, lastId, clientVars>>

\* The first message that was not published yet, 0 if there is none.
FirstUnpublished(s) == SelectInSeq(s.notes, LAMBDA m : ~m.once)

\* Service_Republish: the message is marked as published.
Republish(id, num) ==
    LET i == SelectInSeq(subs[id].notes, LAMBDA m : m.num = num)
    IN
    /\ id \in Live
    /\ i # 0
    /\ subs' = [subs EXCEPT ![id].notes[i].once = TRUE]
    /\ UNCHANGED <<node, list, registered, jobs, lastId, clientVars>>

\* The subscriptions after the acknowledgements and the forced updates of Service_Publish:
\* a subscription without a job is sampled now.
Refreshed(id, how) ==
    LET acked == Deleted(subs[id], {a[2] : a \in {b \in pendingAcks : b[1] = id}})
    IN  CASE id \notin Live -> subs[id]
          [] registered[id] -> acked
          [] OTHER -> Updated(acked, how)

\* Mutant of Published: all messages up to the next number are deleted.
PublishedForgotten(s) ==
    LET i == FirstUnpublished(s)
    IN  IF i = 0 THEN s ELSE Deleted(s, 1 .. s.notes[i].num)

\* One pass of the loop of Service_Publish: the first message that was not published is
\* marked, and deleted if it is a keep-alive.
Published(s) ==
    LET i == FirstUnpublished(s)
        marked == [s EXCEPT !.notes[i].once = TRUE]
    IN  CASE i = 0 -> s
          [] i # 0 /\ s.notes[i].num > s.seqNo -> Deleted(marked, {s.seqNo + 1})
          [] OTHER -> marked

\* With nothing to publish the first subscription makes a keep-alive, which is sent and deleted.
ForcedKeepAlive(s) ==
    Deleted(GenerateKeepAlive([s EXCEPT !.keepAlive = KeepAliveMin]), {s.seqNo + 1})

\* The subscriptions, in the order of the list, that have a message to publish.
WithMessage(fresh) == SelectSeq(list, LAMBDA id : FirstUnpublished(fresh[id]) # 0)

\* Service_Publish
ServicePublish(fresh) ==
    subs' = CASE WithMessage(fresh) # <<>> -> [id \in Ids |-> Published(fresh[id])]
              [] list # <<>> /\ WithMessage(fresh) = <<>> -> [fresh EXCEPT ![list[1]] = ForcedKeepAlive(@)]
              [] OTHER -> fresh

\* Subscription and number of the message in the answer, if any: there is room for one, that
\* of the last subscription in the list that has one.
PublishAnswer(fresh) ==
    LET last == Last(WithMessage(fresh))
    IN  CASE WithMessage(fresh) # <<>> -> {<<last, fresh[last].notes[FirstUnpublished(fresh[last])].num>>}
          [] list # <<>> /\ WithMessage(fresh) = <<>> -> {<<list[1], fresh[list[1]].seqNo + 1>>}
          [] OTHER -> {}

-----------------------------------------------------------------------------
(* The client library; each call includes its execution by the server *)

\* UA_Client_Subscriptions_new
SubscriptionsNew(timed, keepAlive, lost) ==
    /\ CreateSubscription(timed, keepAlive)
    /\ clientSubs' = IF lost THEN clientSubs ELSE clientSubs \cup {UniqueId}
    /\ UNCHANGED <<node, clientItems, pendingAcks>>

\* UA_Client_Subscriptions_remove, once the items are removed: the client keeps the
\* subscription unless the server says that it was deleted.
SubscriptionsRemove(id, lost) ==
    /\ id \in clientSubs
    /\ clientItems[id] = {}
    /\ DeleteSubscriptions({id} \cap Live)
    /\ clientSubs' = IF lost \/ id \notin Live THEN clientSubs ELSE clientSubs \ {id}
    /\ UNCHANGED <<node, clientItems, pendingAcks>>

\* UA_Client_Subscriptions_addMonitoredItem
AddMonitoredItem(id, lost) ==
    /\ id \in clientSubs
    /\ CreateMonitoredItems(id)
    /\ clientItems' = IF lost THEN clientItems ELSE [clientItems EXCEPT ![id] = @ \cup {UniqueId}]
    /\ UNCHANGED <<node, clientSubs, pendingAcks>>

\* UA_Client_Subscriptions_removeMonitoredItem.  The client looks only at the result of the
\* call, not of the item, so an item the server does not know is removed as well; the call
\* fails only for an unknown subscription.
RemoveMonitoredItem(id, mon, lost) ==
    /\ id \in clientSubs
    /\ mon \in clientItems[id]
    /\ DeleteMonitoredItems(id, mon)
    /\ clientItems' = IF lost \/ id \notin Live THEN clientItems ELSE [clientItems EXCEPT ![id] = @ \ {mon}]
    /\ UNCHANGED <<node, clientSubs, pendingAcks>>

\* UA_Client_processPublishRx: acknowledgements stay pending only for unknown subscriptions.
KeptAcks(A) == {a \in A : a[1] \notin Live}

\* The rest of UA_Client_processPublishRx: the message of a subscription that the client
\* knows is handled and will be acknowledged, be it data or a keep-alive.
ProcessPublishRx(answer) == pendingAcks' = KeptAcks(pendingAcks) \cup {a \in answer : a[1] \in clientSubs}

\* UA_Client_Subscriptions_manuallySendPublishRequest
SendPublishRequest(how, lost) ==
    LET fresh == [id \in Ids |-> Refreshed(id, how)]
    IN
    /\ how = "again" => \A id \in Live : Repeatable(id)
    /\ ServicePublish(fresh)
    /\ IF lost THEN UNCHANGED pendingAcks ELSE ProcessPublishRx(PublishAnswer(fresh))
    /\ UNCHANGED <<node, list, registered, jobs, lastId, clientSubs, clientItems>>

-----------------------------------------------------------------------------
(* The environment *)

Write ==
    /\ node # NoNode
    /\ node < ChangeBound
    /\ node' = node + 1
    /\ UNCHANGED <<serverVars, clientVars>>

DeleteNode ==
    /\ node # NoNode
    /\ node' = NoNode
    /\ UNCHANGED <<serverVars, clientVars>>

\* SubscriptionManager_deleteMembers, when the session times out or is closed.
EndSession ==
    /\ list # <<>>
    /\ DeleteSubscriptions(Live)
    /\ UNCHANGED <<node, clientVars>>

Next ==
    \/ Write
    \/ DeleteNode
    \/ EndSession
    \/ \E how \in {"skip", "same", "again"}, lost \in BOOLEAN : SendPublishRequest(how, lost)
    \/ \E id \in Ids :
         \/ UpdateJob(id)
         \/ \E timed \in BOOLEAN, keepAlive \in KeepAlives : ModifySubscription(id, timed, keepAlive)
         \/ \E num \in 1 .. subs[id].seqNo + 1 : Republish(id, num)
         \/ \E lost \in BOOLEAN : SubscriptionsRemove(id, lost) \/ AddMonitoredItem(id, lost)
         \/ \E mon \in Ids, lost \in BOOLEAN : RemoveMonitoredItem(id, mon, lost)
    \/ \E timed, lost \in BOOLEAN, keepAlive \in KeepAlives : SubscriptionsNew(timed, keepAlive, lost)

\* The timer executes its jobs again and again; nothing obliges the client to call anything.
Spec == Init /\ [][Next]_vars /\ \A id \in Ids : WF_vars(UpdateJob(id))

-----------------------------------------------------------------------------
(* Properties *)

Value == -1 .. ChangeBound
Item == [id : Ids, last : Value \cup {Nothing}, queue : Seq(Value)]
Datum == [item : Ids, value : Value]
Message == [num : Nat, data : Seq(Datum), once : BOOLEAN]
Sub == [items : Seq(Item), seqNo : Nat, keepAlive : Int, notes : Seq(Message), size : Int]

\* Every variable has its type: no subscription is in the list twice, and a
\* subscription has no more timer jobs than were registered.
TypeOK ==
    /\ node \in Value
    /\ list \in Seq(Ids)
    /\ IsInjective(list)
    /\ subs \in [Ids -> Sub]
    /\ registered \in [Ids -> BOOLEAN]
    /\ jobs \in [Ids -> 0 .. JobBound]
    /\ lastId \in Nat
    /\ clientSubs \subseteq Ids
    /\ clientItems \in [Ids -> SUBSET Ids]
    /\ pendingAcks \subseteq Ids \X Nat

\* The count of queued messages, kept next to the list by every insertion and deletion, is
\* its length and stays within the limit that protects the server.
SizesExact == \A id \in Ids : subs[id].size = Len(subs[id].notes) /\ subs[id].size <= MaxNotifications

\* No sampled value waits in the queue of an item: whatever a step samples it also puts into
\* a message, so deleting an item or a full queue never loses a value.
QueuesDrained == \A id \in Ids : \A i \in 1 .. Len(subs[id].items) : subs[id].items[i].queue = <<>>

\* Indices of the data messages of a subscription.
DataAt(s) == {i \in 1 .. Len(s.notes) : s.notes[i].data # <<>>}

\* Data messages are numbered in the order they were made, newest first in the list, and a
\* later number never carries an older value: the client can order what it receives.
NumbersOrdered ==
    \A id \in Ids :
        LET s == subs[id]
        IN  /\ \A i \in DataAt(s) : s.notes[i].num < s.seqNo
            /\ \A i, k \in DataAt(s) : i < k =>
                  /\ s.notes[i].num > s.notes[k].num
                  /\ \A d \in Range(s.notes[i].data), e \in Range(s.notes[k].data) :
                        d.item = e.item => d.value >= e.value

\* "Unhook/Unregister any timed work assiociated with this subscription": no timer job points
\* at a subscription that is freed.
JobsOfLive == \A id \in Ids : jobs[id] > 0 => id \in Live

\* Acknowledgements do not pile up in the client: whatever answers are lost and messages
\* republished or discarded, it has at most one to deliver to the subscriptions that live.
AcksBounded == \A a, b \in pendingAcks : a[1] \in Live /\ b[1] \in Live => a = b

\* The queues of both sides are in order after every call and every update: exact sizes,
\* numbers that increase with the age of the data, nothing sampled but not queued, no timer
\* job left behind and no pile of acknowledgements.
QueueInv == TypeOK /\ SizesExact /\ QueuesDrained /\ NumbersOrdered /\ JobsOfLive /\ AcksBounded

\* Numbers of the data messages of a subscription.
DataNums(s) == {s.notes[i].num : i \in DataAt(s)}

\* A data message stays available to Publish and Republish until its number is
\* acknowledged, its subscription ends or the queue of messages is full.
RetainedUntilAcked ==
    [][\A id \in Live \cap Range(list') :
          \A num \in DataNums(subs[id]) \ DataNums(subs'[id]) :
              <<id, num>> \in pendingAcks \/ subs[id].size >= MaxNotifications]_vars

Unpublished(s) == {s.notes[i].num : i \in {k \in DataAt(s) : ~s.notes[k].once}}

\* "We processed this message, add it to the list of pending acks": only messages that were
\* published are acknowledged, so none is deleted before.
AckedWasPublished ==
    [][\A id \in Live \cap Range(list') :
          Unpublished(subs[id]) \subseteq DataNums(subs'[id]) \/ subs[id].size >= MaxNotifications]_vars

\* A subscription with a timer has an item that has not seen the value of the node.
Behind(id) == registered[id] /\ node # NoNode /\ \E i \in 1 .. Len(subs[id].items) : subs[id].items[i].last # node

\* A written value is sampled by every item of a subscription with a timer, whatever calls
\* create, modify and delete items and subscriptions meanwhile.
ChangesSampled == \A id \in Ids : Behind(id) ~> ~Behind(id)
=============================================================================
