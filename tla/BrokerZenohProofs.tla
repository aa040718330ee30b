------------------------- MODULE BrokerZenohProofs --------------------------
(***************************************************************************)
(* Proofs about BrokerZenoh for every set of ids, topics, values and       *)
(* addresses and every matching relation.                                  *)
(***************************************************************************)
EXTENDS BrokerZenoh, TLAPS

(* A new process satisfies the invariant. *)
LEMMA ZInitInv == ZInit => ZInv
<1> SUFFICES ASSUME ZInit PROVE ZInv
  OBVIOUS
<1> USE NoneAssumption DEF ZInit, FreshProcess
<1>1. ZTypeOK
  BY DEF ZTypeOK
<1>2. WorkerConsistent /\ TableConsistent /\ DeclaredAllocated
  BY DEF WorkerConsistent, TableConsistent, DeclaredAllocated
<1>3. DeclaredMatchesTable
  BY DEF DeclaredMatchesTable, Accounted
<1>4. HandlerTargetIntact /\ NoDoubleUndeclare /\ SessionBacksTables /\ DeadIsFresh
  BY DEF HandlerTargetIntact, NoDoubleUndeclare, SessionBacksTables, DeadIsFresh
<1> QED
  BY <1>1, <1>2, <1>3, <1>4 DEF ZInv

(* The end of the process re-establishes it, unless the cause is a double   *)
(* undeclare.                                                               *)
LEMMA DieInv ==
  ASSUME NEW cause \in Deaths \ {"double_undeclare"}, Die(cause)
  PROVE  ZInv'
<1> USE NoneAssumption DEF Die, FreshProcess
<1>1. ZTypeOK'
  BY DEF ZTypeOK, Deaths
<1>2. (WorkerConsistent /\ TableConsistent /\ DeclaredAllocated)'
  BY DEF WorkerConsistent, TableConsistent, DeclaredAllocated
<1>3. DeclaredMatchesTable'
  BY DEF DeclaredMatchesTable, Accounted
<1>4. (HandlerTargetIntact /\ NoDoubleUndeclare /\ SessionBacksTables /\ DeadIsFresh)'
  BY DEF HandlerTargetIntact, NoDoubleUndeclare, SessionBacksTables, DeadIsFresh
<1> QED
  BY <1>1, <1>2, <1>3, <1>4 DEF ZInv

LEMMA StutterInv ==
  ASSUME ZInv, UNCHANGED zvars
  PROVE  ZInv'
  BY DEF ZInv, zvars, ZTypeOK, WorkerConsistent, TableConsistent, DeclaredAllocated,
         DeclaredMatchesTable, Accounted, HandlerTargetIntact, NoDoubleUndeclare,
         SessionBacksTables, DeadIsFresh

-----------------------------------------------------------------------------
(* connect, publisher and publish leave the subscriptions alone. *)
LEMMA ConnectInv ==
  ASSUME ZInv, NEW opened \in BOOLEAN, Connect(opened)
  PROVE  ZInv'
  BY DEF ZInv, Connect, Idle, tables, worker, zenoh, ZTypeOK, WorkerConsistent,
         TableConsistent, DeclaredAllocated, DeclaredMatchesTable, Accounted,
         HandlerTargetIntact, NoDoubleUndeclare, SessionBacksTables, DeadIsFresh

LEMMA PublisherInv ==
  ASSUME ZInv, NEW i \in Ids, NEW t \in Topics, NEW ok \in BOOLEAN, Publisher(i, t, ok)
  PROVE  ZInv'
<1> USE DEF Publisher, Idle, worker, zenoh
<1>1. ZTypeOK'
  BY DEF ZInv, ZTypeOK, Pub
<1>2. (WorkerConsistent /\ TableConsistent /\ DeclaredAllocated)'
  BY DEF ZInv, WorkerConsistent, TableConsistent, DeclaredAllocated
<1>3. DeclaredMatchesTable'
  BY DEF ZInv, DeclaredMatchesTable, Accounted
<1>4. (HandlerTargetIntact /\ NoDoubleUndeclare /\ SessionBacksTables /\ DeadIsFresh)'
  BY DEF ZInv, HandlerTargetIntact, NoDoubleUndeclare, SessionBacksTables, DeadIsFresh
<1> QED
  BY <1>1, <1>2, <1>3, <1>4 DEF ZInv

LEMMA PublishInv ==
  ASSUME ZInv, NEW i \in Ids, NEW v \in Values, NEW ok \in BOOLEAN, Publish(i, v, ok)
  PROVE  ZInv'
<1> USE DEF Publish, Idle, tables, worker
<1>1. publishers[i] \in Pub
  BY DEF ZInv, ZTypeOK
<1>2. [key |-> publishers[i].key, val |-> v] \in Sample
  BY <1>1 DEF Pub, Sample
<1>3. ZTypeOK'
  BY <1>2 DEF ZInv, ZTypeOK
<1>4. (WorkerConsistent /\ TableConsistent /\ DeclaredAllocated)'
  BY DEF ZInv, WorkerConsistent, TableConsistent, DeclaredAllocated
<1>5. DeclaredMatchesTable'
  BY DEF ZInv, DeclaredMatchesTable, Accounted
<1>6. (HandlerTargetIntact /\ NoDoubleUndeclare /\ SessionBacksTables /\ DeadIsFresh)'
  BY DEF ZInv, HandlerTargetIntact, NoDoubleUndeclare, SessionBacksTables, DeadIsFresh
<1> QED
  BY <1>3, <1>4, <1>5, <1>6 DEF ZInv

-----------------------------------------------------------------------------
(* The two halves of subscriber, and its refusal. *)
LEMMA SubscriberDeclareInv ==
  ASSUME ZInv, NEW i \in Ids, NEW t \in Topics, NEW o \in SubObjs,
         SubscriberDeclare(i, t, o)
  PROVE  ZInv'
<1> USE NoneAssumption DEF SubscriberDeclare, Idle, tables, zenoh
<1>1. [id |-> i, key |-> t] \in Sub /\ [id |-> i, key |-> t] # None
  BY DEF Sub
<1>2. ZTypeOK'
  BY <1>1 DEF ZInv, ZTypeOK
<1>3. /\ heap'[o] = [id |-> i, key |-> t]
      /\ \A p \in SubObjs \ {o} : heap'[p] = heap[p]
  BY DEF ZInv, ZTypeOK
<1>4. \A j \in Ids : subscribers[j] # o
  BY DEF ZInv, TableConsistent
<1>5. WorkerConsistent'
  BY <1>1, <1>3 DEF ZInv, ZTypeOK, WorkerConsistent
<1>6. TableConsistent'
  BY <1>3, <1>4 DEF ZInv, ZTypeOK, TableConsistent
<1>7. DeclaredAllocated'
  BY <1>1, <1>3 DEF ZInv, ZTypeOK, DeclaredAllocated
<1>8. DeclaredMatchesTable'
  BY DEF ZInv, WorkerConsistent, DeclaredMatchesTable, Accounted
<1>9. HandlerTargetIntact'
  <2> SUFFICES ASSUME NEW c \in inflight
               PROVE  heap'[c.sub] # None /\ c.key \in Matches[heap'[c.sub].key]
    BY DEF HandlerTargetIntact
  <2>1. c.sub \in SubObjs /\ heap[c.sub] # None
    BY DEF ZInv, ZTypeOK, Call, HandlerTargetIntact
  <2>2. heap'[c.sub] = heap[c.sub]
    BY <2>1, <1>3
  <2> QED
    BY <2>1, <2>2 DEF ZInv, HandlerTargetIntact
<1>10. (NoDoubleUndeclare /\ SessionBacksTables /\ DeadIsFresh)'
  BY DEF ZInv, NoDoubleUndeclare, SessionBacksTables, DeadIsFresh
<1> QED
  BY <1>2, <1>5, <1>6, <1>7, <1>8, <1>9, <1>10 DEF ZInv

LEMMA SubscriberRefusedInv ==
  ASSUME ZInv, NEW i \in Ids, NEW t \in Topics, NEW o \in SubObjs,
         SubscriberRefused(i, t, o)
  PROVE  ZInv'
<1> USE NoneAssumption DEF SubscriberRefused, Idle, tables, worker, zenoh
<1>1. [id |-> i, key |-> t] \in Sub
  BY DEF Sub
<1>2. ZTypeOK'
  BY <1>1 DEF ZInv, ZTypeOK
<1>3. \A p \in SubObjs : heap[p] # None => heap'[p] = heap[p]
  BY DEF ZInv, ZTypeOK
<1>4. WorkerConsistent'
  BY <1>3 DEF ZInv, ZTypeOK, WorkerConsistent
<1>5. TableConsistent'
  BY <1>3 DEF ZInv, ZTypeOK, TableConsistent
<1>6. DeclaredAllocated'
  BY <1>3 DEF ZInv, ZTypeOK, DeclaredAllocated
<1>7. DeclaredMatchesTable'
  BY DEF ZInv, DeclaredMatchesTable, Accounted
<1>8. HandlerTargetIntact'
  <2> SUFFICES ASSUME NEW c \in inflight
               PROVE  heap'[c.sub] # None /\ c.key \in Matches[heap'[c.sub].key]
    BY DEF HandlerTargetIntact
  <2>1. c.sub \in SubObjs /\ heap[c.sub] # None
    BY DEF ZInv, ZTypeOK, Call, HandlerTargetIntact
  <2>2. heap'[c.sub] = heap[c.sub]
    BY <2>1, <1>3
  <2> QED
    BY <2>1, <2>2 DEF ZInv, HandlerTargetIntact
<1>9. (NoDoubleUndeclare /\ SessionBacksTables /\ DeadIsFresh)'
  BY DEF ZInv, NoDoubleUndeclare, SessionBacksTables, DeadIsFresh
<1> QED
  BY <1>2, <1>4, <1>5, <1>6, <1>7, <1>8, <1>9 DEF ZInv

LEMMA SubscriberEmplaceInv ==
  ASSUME ZInv, SubscriberEmplace
  PROVE  ZInv'
<1> USE NoneAssumption DEF SubscriberEmplace, zenoh
<1> DEFINE i == heap[cur].id
<1>1. cur \in SubObjs /\ cur # None /\ heap[cur] \in Sub /\ cur \in declared
  BY DEF ZInv, ZTypeOK, WorkerConsistent
<1>2. i \in Ids /\ subscribers[i] = None
  BY <1>1 DEF Sub, ZInv, WorkerConsistent
<1>3. /\ subscribers'[i] = cur
      /\ \A j \in Ids \ {i} : subscribers'[j] = subscribers[j]
  BY <1>2 DEF ZInv, ZTypeOK
<1>4. ZTypeOK'
  BY <1>1, <1>2 DEF ZInv, ZTypeOK
<1>5. WorkerConsistent'
  BY DEF ZInv, WorkerConsistent
<1>6. (TableConsistent /\ DeclaredAllocated)'
  BY <1>1, <1>2, <1>3 DEF ZInv, TableConsistent, DeclaredAllocated
<1>7. DeclaredMatchesTable'
  BY <1>1, <1>2, <1>3 DEF ZInv, DeclaredMatchesTable, Accounted
<1>8. (HandlerTargetIntact /\ NoDoubleUndeclare)'
  BY DEF ZInv, HandlerTargetIntact, NoDoubleUndeclare
<1>9. (SessionBacksTables /\ DeadIsFresh)'
  BY <1>1 DEF ZInv, SessionBacksTables, DeadIsFresh
<1> QED
  BY <1>4, <1>5, <1>6, <1>7, <1>8, <1>9 DEF ZInv

-----------------------------------------------------------------------------
(* The steps of disconnect. *)
LEMMA DisconnectBeginInv ==
  ASSUME ZInv, DisconnectBegin
  PROVE  ZInv'
<1> USE DEF DisconnectBegin, Idle, tables, zenoh
<1>1. (ZTypeOK /\ WorkerConsistent)'
  BY DEF ZInv, ZTypeOK, WorkerConsistent
<1>2. DeclaredMatchesTable'
  BY DEF ZInv, DeclaredMatchesTable, Accounted
<1>3. (TableConsistent /\ DeclaredAllocated /\ HandlerTargetIntact)'
  BY DEF ZInv, TableConsistent, DeclaredAllocated, HandlerTargetIntact
<1>4. (NoDoubleUndeclare /\ SessionBacksTables /\ DeadIsFresh)'
  BY DEF ZInv, NoDoubleUndeclare, SessionBacksTables, DeadIsFresh
<1> QED
  BY <1>1, <1>2, <1>3, <1>4 DEF ZInv

(* An entry not yet visited is still declared: the undeclare is never the   *)
(* second one.  Two entries never share an object, so one undeclare removes *)
(* one entry from the loop.                                                 *)
LEMMA UndeclareSubscriberInv ==
  ASSUME ZInv, NEW i \in Ids, UndeclareSubscriber(i)
  PROVE  ZInv'
<1> USE NoneAssumption DEF UndeclareSubscriber, tables, zenoh
<1>1. i \in todo /\ subscribers[i] # None
  BY DEF ZInv, WorkerConsistent
<1>2. subscribers[i] \in declared
  BY <1>1 DEF ZInv, DeclaredMatchesTable, Accounted
<1>3. \A j \in Ids : subscribers[j] = subscribers[i] => j = i
  BY <1>1 DEF ZInv, TableConsistent
<1>4. cur = None
  BY DEF ZInv, WorkerConsistent
<1>5. /\ declared' = declared \ {subscribers[i]}
      /\ todo' = todo \ {i}
      /\ UNCHANGED <<proc, session, tables, heap, pc, cur, zenoh>>
  BY <1>2
<1>6. (ZTypeOK /\ WorkerConsistent)'
  BY <1>4, <1>5 DEF ZInv, ZTypeOK, WorkerConsistent
<1>7. DeclaredMatchesTable'
  <2>1. \A o : o \in declared' <=> o \in (Accounted \ {None})'
    BY <1>1, <1>3, <1>4, <1>5 DEF ZInv, ZTypeOK, DeclaredMatchesTable, Accounted
  <2> QED
    BY <2>1 DEF DeclaredMatchesTable
<1>8. (TableConsistent /\ DeclaredAllocated /\ HandlerTargetIntact)'
  BY <1>5 DEF ZInv, TableConsistent, DeclaredAllocated, HandlerTargetIntact
<1>9. (NoDoubleUndeclare /\ SessionBacksTables /\ DeadIsFresh)'
  BY <1>5 DEF ZInv, NoDoubleUndeclare, SessionBacksTables, DeadIsFresh
<1> QED
  BY <1>6, <1>7, <1>8, <1>9 DEF ZInv

LEMMA DisconnectEndInv ==
  ASSUME ZInv, DisconnectEnd
  PROVE  ZInv'
<1> USE NoneAssumption DEF DisconnectEnd, zenoh
<1>1. CASE Die("null_publisher")
  BY <1>1, DieInv DEF Deaths
<1>2. CASE /\ subscribers' = [i \in Ids |-> None]
           /\ publishers' = [i \in Ids |-> None]
           /\ pc' = "idle"
           /\ UNCHANGED <<proc, session, heap, declared, cur, todo, zenoh>>
  <2> USE <1>2
  <2>1. declared = {} /\ cur = None
    BY DEF ZInv, WorkerConsistent, DeclaredMatchesTable, Accounted
  <2>2. ZTypeOK'
    BY DEF ZInv, ZTypeOK
  <2>3. (WorkerConsistent /\ TableConsistent /\ DeclaredAllocated)'
    BY <2>1 DEF ZInv, WorkerConsistent, TableConsistent, DeclaredAllocated
  <2>4. DeclaredMatchesTable'
    BY <2>1 DEF DeclaredMatchesTable, Accounted
  <2>5. HandlerTargetIntact'
    BY DEF ZInv, HandlerTargetIntact
  <2>6. (NoDoubleUndeclare /\ SessionBacksTables /\ DeadIsFresh)'
    BY <2>1 DEF ZInv, NoDoubleUndeclare, SessionBacksTables, DeadIsFresh
  <2> QED
    BY <2>2, <2>3, <2>4, <2>5, <2>6 DEF ZInv
<1> QED
  BY <1>1, <1>2

-----------------------------------------------------------------------------
(* zenoh's thread changes net and inflight only. *)
LEMMA ForeignSampleInv ==
  ASSUME ZInv, NEW t \in Topics, NEW v \in Values, ForeignSample(t, v)
  PROVE  ZInv'
<1> USE DEF ForeignSample, tables, worker
<1>1. [key |-> t, val |-> v] \in Sample
  BY DEF Sample
<1>2. ZTypeOK'
  BY <1>1 DEF ZInv, ZTypeOK
<1>3. (WorkerConsistent /\ TableConsistent /\ DeclaredAllocated)'
  BY DEF ZInv, WorkerConsistent, TableConsistent, DeclaredAllocated
<1>4. DeclaredMatchesTable'
  BY DEF ZInv, DeclaredMatchesTable, Accounted
<1>5. (HandlerTargetIntact /\ NoDoubleUndeclare /\ SessionBacksTables /\ DeadIsFresh)'
  BY DEF ZInv, HandlerTargetIntact, NoDoubleUndeclare, SessionBacksTables, DeadIsFresh
<1> QED
  BY <1>2, <1>3, <1>4, <1>5 DEF ZInv

LEMMA DispatchInv ==
  ASSUME ZInv, Dispatch
  PROVE  ZInv'
<1> USE DEF Dispatch, tables, worker
<1>1. Head(net) \in Sample /\ Tail(net) \in Seq(Sample)
  BY DEF ZInv, ZTypeOK
<1>2. Head(net).key \in Topics /\ Head(net).val \in Values
  BY <1>1 DEF Sample
<1>3. \A o \in Interested(Head(net)) :
        o \in SubObjs /\ heap[o] # None /\ Head(net).key \in Matches[heap[o].key]
  BY DEF Interested, ZInv, ZTypeOK, DeclaredAllocated
<1>4. ZTypeOK'
  BY <1>1, <1>2, <1>3 DEF ZInv, ZTypeOK, Call
<1>5. HandlerTargetIntact'
  BY <1>3 DEF HandlerTargetIntact
<1>6. (WorkerConsistent /\ TableConsistent /\ DeclaredAllocated)'
  BY DEF ZInv, WorkerConsistent, TableConsistent, DeclaredAllocated
<1>7. DeclaredMatchesTable'
  BY DEF ZInv, DeclaredMatchesTable, Accounted
<1>8. (NoDoubleUndeclare /\ SessionBacksTables /\ DeadIsFresh)'
  BY DEF ZInv, NoDoubleUndeclare, SessionBacksTables, DeadIsFresh
<1> QED
  BY <1>4, <1>5, <1>6, <1>7, <1>8 DEF ZInv

LEMMA SubscribeHandlerInv ==
  ASSUME ZInv, NEW c \in inflight, SubscribeHandler(c)
  PROVE  ZInv'
<1> USE DEF SubscribeHandler, tables, worker
<1>1. (ZTypeOK /\ HandlerTargetIntact)'
  BY DEF ZInv, ZTypeOK, HandlerTargetIntact
<1>2. (WorkerConsistent /\ TableConsistent /\ DeclaredAllocated)'
  BY DEF ZInv, WorkerConsistent, TableConsistent, DeclaredAllocated
<1>3. DeclaredMatchesTable'
  BY DEF ZInv, DeclaredMatchesTable, Accounted
<1>4. (NoDoubleUndeclare /\ SessionBacksTables /\ DeadIsFresh)'
  BY DEF ZInv, NoDoubleUndeclare, SessionBacksTables, DeadIsFresh
<1> QED
  BY <1>1, <1>2, <1>3, <1>4 DEF ZInv

LEMMA StartInv ==
  ASSUME ZInv, Start
  PROVE  ZInv'
<1> USE DEF Start, tables, worker, zenoh
<1>1. (ZTypeOK /\ HandlerTargetIntact)'
  BY DEF ZInv, ZTypeOK, HandlerTargetIntact
<1>2. (WorkerConsistent /\ TableConsistent /\ DeclaredAllocated)'
  BY DEF ZInv, WorkerConsistent, TableConsistent, DeclaredAllocated
<1>3. DeclaredMatchesTable'
  BY DEF ZInv, DeclaredMatchesTable, Accounted
<1>4. (NoDoubleUndeclare /\ SessionBacksTables /\ DeadIsFresh)'
  BY DEF ZInv, NoDoubleUndeclare, SessionBacksTables, DeadIsFresh
<1> QED
  BY <1>1, <1>2, <1>3, <1>4 DEF ZInv

-----------------------------------------------------------------------------
(* Every step of the two threads, every crash and restart keeps the         *)
(* invariant.                                                               *)
LEMMA ZStepInv == ZInv /\ [ZNext]_zvars => ZInv'
<1> SUFFICES ASSUME ZInv, [ZNext]_zvars PROVE ZInv'
  OBVIOUS
<1>1. CASE UNCHANGED zvars
  BY <1>1, StutterInv
<1>2. ASSUME NEW ok \in BOOLEAN, Connect(ok) PROVE ZInv'
  BY <1>2, ConnectInv
<1>3. ASSUME NEW i \in Ids,
             SubscriberKnown(i) \/ PublisherKnown(i) \/ PublishUnknown(i)
      PROVE  ZInv'
  BY <1>3, StutterInv DEF SubscriberKnown, PublisherKnown, PublishUnknown
<1>4. ASSUME NEW i \in Ids, NEW t \in Topics, NEW o \in SubObjs,
             SubscriberDeclare(i, t, o) \/ SubscriberRefused(i, t, o)
      PROVE  ZInv'
  BY <1>4, SubscriberDeclareInv, SubscriberRefusedInv
<1>5. ASSUME NEW i \in Ids,
             NullSession(subscribers, i) \/ NullSession(publishers, i)
      PROVE  ZInv'
  BY <1>5, DieInv DEF NullSession, Deaths
<1>6. ASSUME NEW i \in Ids, NEW t \in Topics, NEW ok \in BOOLEAN, Publisher(i, t, ok)
      PROVE  ZInv'
  BY <1>6, PublisherInv
<1>7. ASSUME NEW i \in Ids, NEW v \in Values, NEW ok \in BOOLEAN, Publish(i, v, ok)
      PROVE  ZInv'
  BY <1>7, PublishInv
<1>8. ASSUME NEW i \in Ids, UndeclareSubscriber(i) PROVE ZInv'
  BY <1>8, UndeclareSubscriberInv
<1>9. CASE SubscriberEmplace
  BY <1>9, SubscriberEmplaceInv
<1>10. CASE DisconnectBegin \/ DisconnectEnd
  BY <1>10, DisconnectBeginInv, DisconnectEndInv
<1>11. CASE ZenohThread
  BY <1>11, ForeignSampleInv, DispatchInv, SubscribeHandlerInv
     DEF ZenohThread, HandlerSkipped
<1>12. CASE Kill
  BY <1>12, DieInv DEF Kill, Deaths
<1>13. CASE Start
  BY <1>13, StartInv
<1> QED
  BY <1>1, <1>2, <1>3, <1>4, <1>5, <1>6, <1>7, <1>8, <1>9, <1>10, <1>11, <1>12, <1>13
     DEF ZNext, ApiCall

(* The inductive invariant of the broker holds in every behaviour.          *)
THEOREM ZInvariant == ZSpec => []ZInv
  BY ZInitInv, ZStepInv, PTL DEF ZSpec

(* The broker's variables keep their types. *)
THEOREM ZTypeCorrect == ZSpec => []ZTypeOK
<1>1. ZInv => ZTypeOK
  BY DEF ZInv
<1> QED
  BY <1>1, ZInvariant, PTL

(* zenoh has exactly the subscriptions that subscriber and disconnect can    *)
(* still account for, between any two steps of the two threads.             *)
THEOREM TableMatchesZenoh == ZSpec => []DeclaredMatchesTable
<1>1. ZInv => DeclaredMatchesTable
  BY DEF ZInv
<1> QED
  BY <1>1, ZInvariant, PTL

(* zenoh has at most one subscription per resource id: subscriber declares  *)
(* one only for an id that neither the table nor the call under way holds.  *)
THEOREM AtMostOneSubscription == ZSpec => []OneSubscriptionPerId
<1>1. ZInv => OneSubscriptionPerId
  <2> SUFFICES ASSUME ZInv, NEW o \in declared, NEW p \in declared,
                      heap[o].id = heap[p].id
               PROVE  o = p
    BY DEF OneSubscriptionPerId
  <2>1. ASSUME NEW q \in declared
        PROVE  q = cur \/ \E i \in Ids : q = subscribers[i] /\ q # None
    BY DEF ZInv, DeclaredMatchesTable, Accounted
  <2>2. ASSUME NEW i \in Ids, subscribers[i] # None
        PROVE  heap[subscribers[i]].id = i
    BY <2>2 DEF ZInv, TableConsistent
  <2>3. cur # None => subscribers[heap[cur].id] = None
    BY DEF ZInv, WorkerConsistent
  <2>4. o # None /\ p # None
    BY NoneAssumption DEF ZInv, ZTypeOK
  <2> QED
    BY <2>1, <2>2, <2>3, <2>4
<1> QED
  BY <1>1, ZInvariant, PTL

(* A handler that zenoh's thread has started, also one whose subscription   *)
(* the worker thread has undeclared since, finds its Sub object.            *)
THEOREM HandlerSafe == ZSpec => []HandlerTargetIntact
<1>1. ZInv => HandlerTargetIntact
  BY DEF ZInv
<1> QED
  BY <1>1, ZInvariant, PTL

(* disconnect undeclares no subscription twice. *)
THEOREM UndeclaredOnce == ZSpec => []NoDoubleUndeclare
<1>1. ZInv => NoDoubleUndeclare
  BY DEF ZInv
<1> QED
  BY <1>1, ZInvariant, PTL

(* Tables and declarations exist only together with the session. *)
THEOREM TablesNeedSession == ZSpec => []SessionBacksTables
<1>1. ZInv => SessionBacksTables
  BY DEF ZInv
<1> QED
  BY <1>1, ZInvariant, PTL

-----------------------------------------------------------------------------
(* The refinement.  Only emplacing a subscription, adding a publisher and   *)
(* forgetting everything change the topic tables.                           *)
LEMMA SameTopics ==
  ASSUME UNCHANGED tables,
         \A i \in Ids : subscribers[i] # None =>
           heap'[subscribers[i]] = heap[subscribers[i]]
  PROVE  UNCHANGED Routing!rvars
  BY DEF tables, SubTopic, PubTopic, Routing!rvars

LEMMA ForgetsTopics ==
  ASSUME subscribers' = [i \in Ids |-> None], publishers' = [i \in Ids |-> None]
  PROVE  Routing!Forget
  BY DEF SubTopic, PubTopic, Routing!Forget, Routing!Unbound

LEMMA DieForgets ==
  ASSUME NEW cause, Die(cause)
  PROVE  Routing!Forget
  BY ForgetsTopics DEF Die, FreshProcess

(* A new object is at an address no entry points to. *)
LEMMA NewObjectKeepsTopics ==
  ASSUME ZInv, NEW i \in Ids, NEW t \in Topics, NEW o \in SubObjs,
         SubscriberDeclare(i, t, o) \/ SubscriberRefused(i, t, o)
  PROVE  UNCHANGED Routing!rvars
<1>1. heap[o] = None /\ UNCHANGED tables
  BY DEF SubscriberDeclare, SubscriberRefused
<1>2. heap' = [heap EXCEPT ![o] = [id |-> i, key |-> t]]
  BY DEF SubscriberDeclare, SubscriberRefused
<1>3. ASSUME NEW j \in Ids, subscribers[j] # None
      PROVE  heap'[subscribers[j]] = heap[subscribers[j]]
  BY <1>1, <1>2, <1>3 DEF ZInv, ZTypeOK, TableConsistent
<1> QED
  BY <1>1, <1>3, SameTopics

LEMMA EmplaceBinds ==
  ASSUME ZInv, SubscriberEmplace
  PROVE  \E i \in Ids, t \in Topics : Routing!BindSubscriber(i, t)
<1> USE NoneAssumption DEF SubscriberEmplace
<1> DEFINE i == heap[cur].id
           t == heap[cur].key
<1>1. cur \in SubObjs /\ cur # None /\ heap[cur] \in Sub
  BY DEF ZInv, ZTypeOK, WorkerConsistent
<1>2. i \in Ids /\ t \in Topics /\ subscribers[i] = None
  BY <1>1 DEF Sub, ZInv, WorkerConsistent
<1>3. subscribers \in [Ids -> SubObjs \union {None}]
  BY DEF ZInv, ZTypeOK
<1>4. SubTopic' = [SubTopic EXCEPT ![i] = t]
  <2>1. ASSUME NEW j \in Ids
        PROVE  SubTopic'[j] = [SubTopic EXCEPT ![i] = t][j]
    BY <1>1, <1>2, <1>3 DEF SubTopic
  <2> QED
    BY <2>1 DEF SubTopic
<1>5. SubTopic[i] = None /\ PubTopic' = PubTopic
  BY <1>2 DEF SubTopic, PubTopic
<1>6. Routing!BindSubscriber(i, t)
  BY <1>4, <1>5 DEF Routing!BindSubscriber
<1> QED
  BY <1>2, <1>6

LEMMA PublisherBinds ==
  ASSUME ZInv, NEW i \in Ids, NEW t \in Topics, NEW ok \in BOOLEAN, Publisher(i, t, ok)
  PROVE  Routing!BindPublisher(i, t)
<1> USE NoneAssumption DEF Publisher
<1>1. publishers \in [Ids -> Pub \union {None}] /\ [key |-> t, declared |-> ok] \in Pub
  BY DEF ZInv, ZTypeOK, Pub
<1>2. PubTopic' = [PubTopic EXCEPT ![i] = t]
  <2>1. ASSUME NEW j \in Ids
        PROVE  PubTopic'[j] = [PubTopic EXCEPT ![i] = t][j]
    BY <1>1 DEF PubTopic
  <2> QED
    BY <2>1 DEF PubTopic
<1>3. PubTopic[i] = None /\ SubTopic' = SubTopic
  BY DEF PubTopic, SubTopic
<1> QED
  BY <1>2, <1>3 DEF Routing!BindPublisher

LEMMA StepRefines == ZInv /\ [ZNext]_zvars => [Routing!RNext]_Routing!rvars
<1> SUFFICES ASSUME ZInv, [ZNext]_zvars PROVE [Routing!RNext]_Routing!rvars
  OBVIOUS
<1>1. CASE UNCHANGED <<subscribers, publishers, heap>>
  BY <1>1, SameTopics DEF tables
<1>2. ASSUME NEW i \in Ids, NEW t \in Topics, NEW o \in SubObjs,
             SubscriberDeclare(i, t, o) \/ SubscriberRefused(i, t, o)
      PROVE  UNCHANGED Routing!rvars
  BY <1>2, NewObjectKeepsTopics
<1>3. CASE SubscriberEmplace
  BY <1>3, EmplaceBinds DEF Routing!RNext
<1>4. ASSUME NEW i \in Ids, NEW t \in Topics, NEW ok \in BOOLEAN, Publisher(i, t, ok)
      PROVE  Routing!RNext
  BY <1>4, PublisherBinds DEF Routing!RNext
<1>5. ASSUME NEW cause, Die(cause)
      PROVE  Routing!RNext
  BY <1>5, DieForgets DEF Routing!RNext
<1>6. CASE DisconnectEnd
  BY <1>6, <1>5, ForgetsTopics DEF DisconnectEnd, Routing!RNext
<1>7. ASSUME NEW i \in Ids, UndeclareSubscriber(i)
      PROVE  Routing!RNext \/ UNCHANGED <<subscribers, publishers, heap>>
  BY <1>7, <1>5 DEF UndeclareSubscriber, tables
<1>8. CASE ApiCall
  <2>1. CASE \/ \E ok \in BOOLEAN : Connect(ok)
             \/ \E i \in Ids : SubscriberKnown(i) \/ PublisherKnown(i) \/ PublishUnknown(i)
             \/ \E i \in Ids, v \in Values, ok \in BOOLEAN : Publish(i, v, ok)
             \/ DisconnectBegin
    BY <2>1, <1>1 DEF Connect, SubscriberKnown, PublisherKnown, PublishUnknown,
                      Publish, DisconnectBegin, tables, zvars
  <2>2. ASSUME NEW i \in Ids,
               NullSession(subscribers, i) \/ NullSession(publishers, i)
        PROVE  Routing!RNext
    BY <2>2, <1>5 DEF NullSession
  <2> QED
    BY <1>8, <2>1, <2>2, <1>1, <1>2, <1>3, <1>4, <1>6, <1>7 DEF ApiCall
<1>9. CASE ZenohThread \/ Start
  BY <1>9, <1>1 DEF ZenohThread, ForeignSample, Dispatch, SubscribeHandler,
                    HandlerSkipped, Start, tables
<1>10. CASE Kill
  BY <1>10, <1>5 DEF Kill
<1>11. CASE UNCHANGED zvars
  BY <1>11, <1>1 DEF zvars
<1> QED
  BY <1>8, <1>9, <1>10, <1>11 DEF ZNext

(* The broker, with its objects, threads and crashes, implements the routing *)
(* table: an id is never rebound while it is in use.                        *)
THEOREM RefinesRouting == ZSpec => ImplementsRouting
<1>1. ZInit => Routing!RInit
  BY DEF ZInit, FreshProcess, SubTopic, PubTopic, Routing!RInit, Routing!Unbound
<1> QED
  BY <1>1, StepRefines, ZInvariant, PTL
     DEF ImplementsRouting, ZSpec, Routing!RSpec
=============================================================================
