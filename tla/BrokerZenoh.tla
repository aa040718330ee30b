---------------------------- MODULE BrokerZenoh -----------------------------
(***************************************************************************)
(* The proxy's zenoh broker (src/BrokerZenoh.cpp): the tables from resource *)
(* ids to subscriptions and publishers, the Sub objects zenoh holds        *)
(* pointers to, and the two threads that meet there.  The worker thread    *)
(* makes the API calls one after the other; zenoh's own thread runs        *)
(* subscribeHandler for the samples that match a declared subscription.    *)
(*                                                                         *)
(* zenoh itself is external.  It is modelled from how the code uses it: a  *)
(* session delivers every written sample, also its own, to the declared    *)
(* subscriptions whose pattern matches; a declaration may be refused       *)
(* (NULL); a callback that is under way is not waited for by an undeclare. *)
(* A zn_ call on a NULL session, an undeclare of a NULL publisher and a    *)
(* second undeclare of the same subscription end the process.              *)
(***************************************************************************)
EXTENDS Naturals, Sequences, FiniteSets

CONSTANTS
  Ids,      \* resource ids
  Topics,   \* topic names and patterns
  Matches,  \* Matches[p]: the topics the pattern p matches
  Values,   \* payloads
  SubObjs,  \* heap addresses; a bound on the Sub objects of one process
  MaxNet,   \* bound: samples zenoh holds for its thread
  None      \* null pointer, absent entry

ASSUME MatchesAssumption == Matches \in [Topics -> SUBSET Topics]
ASSUME MaxNetAssumption == MaxNet \in Nat

VARIABLES
  proc,        \* "running", or why the process ended
  session,     \* _zenoh_session is not NULL
  subscribers, \* _subscribers: id -> Sub *
  publishers,  \* _publishers: id -> the Pub's topic and whether zn_publisher is set
  heap,        \* the Sub objects; disconnect() never deletes one
  declared,    \* the Sub objects zenoh has as handler arguments
  pc,          \* where the worker thread is inside a call
  cur,         \* subscriber(): declared, not yet in the table
  todo,        \* disconnect(): ids whose subscription is still to be undeclared
  net,         \* samples on their way to this session
  inflight     \* handler calls zenoh's thread has started for one sample

tables == <<subscribers, publishers>>
worker == <<pc, cur, todo>>
zenoh == <<net, inflight>>
zvars == <<proc, session, subscribers, publishers, heap, declared,
           pc, cur, todo, net, inflight>>

Sub == [id : Ids, key : Topics]
Pub == [key : Topics, declared : BOOLEAN]
Sample == [key : Topics, val : Values]
Call == [sub : SubObjs, key : Topics, val : Values]

ASSUME NoneAssumption ==
  /\ None \notin SubObjs /\ None \notin Topics
  /\ None \notin Sub /\ None \notin Pub

Deaths == {"null_session", "null_publisher", "double_undeclare", "killed"}

(* A new process: BrokerZenoh's constructor, empty maps, no session. *)
FreshProcess ==
  [session |-> FALSE,
   subscribers |-> [i \in Ids |-> None],
   publishers |-> [i \in Ids |-> None],
   heap |-> [o \in SubObjs |-> None]]

ZInit ==
  /\ proc = "running"
  /\ session = FreshProcess.session
  /\ subscribers = FreshProcess.subscribers
  /\ publishers = FreshProcess.publishers
  /\ heap = FreshProcess.heap
  /\ declared = {}
  /\ pc = "idle" /\ cur = None /\ todo = {}
  /\ net = <<>> /\ inflight = {}

-----------------------------------------------------------------------------
(* The end of the process: zenoh drops the session and its declarations.   *)
Die(cause) ==
  /\ proc' = cause
  /\ session' = FreshProcess.session
  /\ subscribers' = FreshProcess.subscribers
  /\ publishers' = FreshProcess.publishers
  /\ heap' = FreshProcess.heap
  /\ declared' = {}
  /\ pc' = "idle" /\ cur' = None /\ todo' = {}
  /\ net' = <<>> /\ inflight' = {}

Kill == proc = "running" /\ Die("killed")

Start ==
  /\ proc \in Deaths
  /\ proc' = "running"
  /\ UNCHANGED <<session, tables, heap, declared, worker, zenoh>>

(* The worker thread is between two calls. *)
Idle == proc = "running" /\ pc = "idle"

-----------------------------------------------------------------------------
(* Mutant of Connect: without the check, every call takes zn_open's answer. *)
ConnectReopens(opened) ==
  /\ Idle
  /\ session' = opened
  /\ UNCHANGED <<proc, tables, heap, declared, worker, zenoh>>

(* connect(): zn_open unless there is a session; opened is zn_open's answer. *)
Connect(opened) ==
  /\ Idle
  /\ session' = (session \/ opened)
  /\ UNCHANGED <<proc, tables, heap, declared, worker, zenoh>>

(* subscriber() of an id that is in the table does nothing.  *)
SubscriberKnown(i) ==
  /\ Idle
  /\ subscribers[i] # None
  /\ UNCHANGED zvars

(* Mutant of SubscriberDeclare: the table is not consulted. *)
SubscriberDeclareAlways(i, t, o) ==
  /\ Idle
  /\ session
  /\ heap[o] = None
  /\ heap' = [heap EXCEPT ![o] = [id |-> i, key |-> t]]
  /\ declared' = declared \union {o}
  /\ pc' = "emplace" /\ cur' = o
  /\ UNCHANGED <<proc, session, tables, todo, zenoh>>

(* Mutant of SubscriberDeclare: the object does not keep the pattern. *)
SubscriberDeclareNoPattern(i, t, o) ==
  /\ Idle
  /\ subscribers[i] = None /\ session
  /\ heap[o] = None
  /\ heap' = [heap EXCEPT ![o] = [id |-> i, key |-> None]]
  /\ declared' = declared \union {o}
  /\ pc' = "emplace" /\ cur' = o
  /\ UNCHANGED <<proc, session, tables, todo, zenoh>>

(* subscriber(), first half: new Sub, zn_declare_subscriber.  From here on *)
(* zenoh may call the handler with the new object.                         *)
SubscriberDeclare(i, t, o) ==
  /\ Idle
  /\ subscribers[i] = None /\ session
  /\ heap[o] = None
  /\ heap' = [heap EXCEPT ![o] = [id |-> i, key |-> t]]
  /\ declared' = declared \union {o}
  /\ pc' = "emplace" /\ cur' = o
  /\ UNCHANGED <<proc, session, tables, todo, zenoh>>

(* Mutant of SubscriberRefused: no return, the refused Sub is emplaced. *)
SubscriberRefusedEmplaces(i, t, o) ==
  /\ Idle
  /\ subscribers[i] = None /\ session
  /\ heap[o] = None
  /\ heap' = [heap EXCEPT ![o] = [id |-> i, key |-> t]]
  /\ subscribers' = [subscribers EXCEPT ![i] = o]
  /\ UNCHANGED <<proc, session, publishers, declared, worker, zenoh>>

(* subscriber(), refused by zenoh: the new Sub is leaked, the id stays free. *)
SubscriberRefused(i, t, o) ==
  /\ Idle
  /\ subscribers[i] = None /\ session
  /\ heap[o] = None
  /\ heap' = [heap EXCEPT ![o] = [id |-> i, key |-> t]]
  /\ UNCHANGED <<proc, session, tables, declared, worker, zenoh>>

(* subscriber(), second half: _subscribers.emplace. *)
SubscriberEmplace ==
  /\ proc = "running" /\ pc = "emplace"
  /\ subscribers' = [subscribers EXCEPT ![heap[cur].id] = cur]
  /\ pc' = "idle" /\ cur' = None
  /\ UNCHANGED <<proc, session, publishers, heap, declared, todo, zenoh>>

(* subscriber() and publisher() of a free id on a NULL session. *)
NullSession(table, i) ==
  /\ Idle
  /\ table[i] = None /\ ~session
  /\ Die("null_session")

PublisherKnown(i) ==
  /\ Idle
  /\ publishers[i] # None
  /\ UNCHANGED zvars

(* Mutant of Publisher: the table is not consulted. *)
PublisherRebinds(i, t, accepted) ==
  /\ Idle
  /\ session
  /\ publishers' = [publishers EXCEPT ![i] = [key |-> t, declared |-> accepted]]
  /\ UNCHANGED <<proc, session, subscribers, heap, declared, worker, zenoh>>

(* publisher() of a free id: the Pub enters the table even when zenoh      *)
(* refuses it and zn_publisher is NULL.                                    *)
Publisher(i, t, accepted) ==
  /\ Idle
  /\ publishers[i] = None /\ session
  /\ publishers' = [publishers EXCEPT ![i] = [key |-> t, declared |-> accepted]]
  /\ UNCHANGED <<proc, session, subscribers, heap, declared, worker, zenoh>>

(* publish() of an id without publisher: ENOENT. *)
PublishUnknown(i) ==
  /\ Idle
  /\ publishers[i] = None
  /\ UNCHANGED zvars

(* publish(): zn_write to the topic of the id; written is its return code 0. *)
Publish(i, v, written) ==
  /\ Idle
  /\ publishers[i] # None
  /\ written => Len(net) < MaxNet
  /\ net' = IF written THEN Append(net, [key |-> publishers[i].key, val |-> v]) ELSE net
  /\ UNCHANGED <<proc, session, tables, heap, declared, worker, inflight>>

(* disconnect(): the loop over _subscribers, in the map's order.           *)
DisconnectBegin ==
  /\ Idle
  /\ pc' = "undeclare"
  /\ todo' = {i \in Ids : subscribers[i] # None}
  /\ UNCHANGED <<proc, session, tables, heap, declared, cur, zenoh>>

UndeclareSubscriber(i) ==
  /\ proc = "running" /\ pc = "undeclare" /\ i \in todo
  /\ IF subscribers[i] \in declared
     THEN /\ declared' = declared \ {subscribers[i]}
          /\ todo' = todo \ {i}
          /\ UNCHANGED <<proc, session, tables, heap, pc, cur, zenoh>>
     ELSE Die("double_undeclare")

(* Mutant of DisconnectEnd: the Sub objects are deleted. *)
DisconnectEndDeletes ==
  /\ proc = "running" /\ pc = "undeclare" /\ todo = {}
  /\ heap' = [o \in SubObjs |-> None]
  /\ subscribers' = [i \in Ids |-> None]
  /\ publishers' = [i \in Ids |-> None]
  /\ pc' = "idle"
  /\ UNCHANGED <<proc, session, declared, cur, todo, zenoh>>

(* Mutant of DisconnectEnd: _subscribers is not cleared. *)
DisconnectEndKeeps ==
  /\ proc = "running" /\ pc = "undeclare" /\ todo = {}
  /\ publishers' = [i \in Ids |-> None]
  /\ pc' = "idle"
  /\ UNCHANGED <<proc, session, subscribers, heap, declared, cur, todo, zenoh>>

(* disconnect(), after the loop: clear the subscribers, undeclare and clear *)
(* the publishers.  The Sub and Pub objects stay allocated.                *)
DisconnectEnd ==
  /\ proc = "running" /\ pc = "undeclare" /\ todo = {}
  /\ IF \A i \in Ids : publishers[i] # None => publishers[i].declared
     THEN /\ subscribers' = [i \in Ids |-> None]
          /\ publishers' = [i \in Ids |-> None]
          /\ pc' = "idle"
          /\ UNCHANGED <<proc, session, heap, declared, cur, todo, zenoh>>
     ELSE Die("null_publisher")

-----------------------------------------------------------------------------
(* zenoh's thread. *)

(* A sample written elsewhere in the zenoh network. *)
ForeignSample(t, v) ==
  /\ proc = "running" /\ session
  /\ Len(net) < MaxNet
  /\ net' = Append(net, [key |-> t, val |-> v])
  /\ UNCHANGED <<proc, session, tables, heap, declared, worker, inflight>>

Interested(sample) == {o \in declared : sample.key \in Matches[heap[o].key]}

(* The next sample: one handler call for each matching subscription. *)
Dispatch ==
  /\ proc = "running"
  /\ net # <<>> /\ inflight = {}
  /\ inflight' = {[sub |-> o, key |-> Head(net).key, val |-> Head(net).val] :
                    o \in Interested(Head(net))}
  /\ net' = Tail(net)
  /\ UNCHANGED <<proc, session, tables, heap, declared, worker>>

(* subscribeHandler: the callback gets the id stored in the object.        *)
SubscribeHandler(c) ==
  /\ proc = "running"
  /\ c \in inflight
  /\ inflight' = inflight \ {c}
  /\ UNCHANGED <<proc, session, tables, heap, declared, worker, net>>

(* The subscription was undeclared before zenoh made the call. *)
HandlerSkipped(c) ==
  /\ c.sub \notin declared
  /\ SubscribeHandler(c)

-----------------------------------------------------------------------------
(* The calls the proxy makes, with any arguments, and zenoh's thread. *)
ApiCall ==
  \/ \E ok \in BOOLEAN : Connect(ok)
  \/ \E i \in Ids :
       \/ SubscriberKnown(i)
       \/ \E t \in Topics, o \in SubObjs :
            SubscriberDeclare(i, t, o) \/ SubscriberRefused(i, t, o)
       \/ NullSession(subscribers, i) \/ NullSession(publishers, i)
       \/ PublisherKnown(i)
       \/ \E t \in Topics, ok \in BOOLEAN : Publisher(i, t, ok)
       \/ PublishUnknown(i)
       \/ \E v \in Values, ok \in BOOLEAN : Publish(i, v, ok)
       \/ UndeclareSubscriber(i)
  \/ SubscriberEmplace
  \/ DisconnectBegin
  \/ DisconnectEnd

ZenohThread ==
  \/ \E t \in Topics, v \in Values : ForeignSample(t, v)
  \/ Dispatch
  \/ \E c \in inflight : SubscribeHandler(c) \/ HandlerSkipped(c)

ZNext == ApiCall \/ ZenohThread \/ Kill \/ Start

ZSpec == ZInit /\ [][ZNext]_zvars

-----------------------------------------------------------------------------
(* Type correctness of the broker's and zenoh's state. *)
ZTypeOK ==
  /\ proc \in {"running"} \union Deaths
  /\ session \in BOOLEAN
  /\ subscribers \in [Ids -> SubObjs \union {None}]
  /\ publishers \in [Ids -> Pub \union {None}]
  /\ heap \in [SubObjs -> Sub \union {None}]
  /\ declared \subseteq SubObjs
  /\ pc \in {"idle", "emplace", "undeclare"}
  /\ cur \in SubObjs \union {None}
  /\ todo \subseteq Ids
  /\ net \in Seq(Sample)
  /\ inflight \subseteq Call

(* The subscriptions the worker thread still has to account for: the table's *)
(* entries (in a disconnect, the ones not yet undeclared) and the new one.  *)
Accounted ==
  {subscribers[i] : i \in {j \in Ids : pc = "undeclare" => j \in todo}} \union {cur}

(* zenoh has exactly the subscriptions the broker can still undeclare: none *)
(* is orphaned by a refused declaration, an overwritten entry or a cleared  *)
(* table, and none is gone that the table still shows (subscriber,          *)
(* disconnect).                                                             *)
DeclaredMatchesTable == declared = Accounted \ {None}

(* Whatever the worker thread is in the middle of, zenoh has at most one    *)
(* subscription for an id, so a sample is forwarded once per id.            *)
OneSubscriptionPerId ==
  \A o, p \in declared : heap[o].id = heap[p].id => o = p

(* subscribeHandler runs on zenoh's thread, possibly after the worker has   *)
(* undeclared its subscription and cleared the table: the Sub it was given  *)
(* is still allocated and is for a pattern that matches the sample.         *)
HandlerTargetIntact ==
  \A c \in inflight :
    heap[c.sub] # None /\ c.key \in Matches[heap[c.sub].key]

(* disconnect never hands zenoh a subscription that is already undeclared,  *)
(* however often and between which calls it runs.                           *)
NoDoubleUndeclare == proc # "double_undeclare"

(* Nothing is in a table or declared without a session: the session is      *)
(* never closed while the process runs and tables never outlive it.         *)
SessionBacksTables ==
  (declared # {} \/ \E i \in Ids : subscribers[i] # None \/ publishers[i] # None)
    => session

(* The inductive strengthening: what each intermediate point of subscriber  *)
(* and disconnect owes, that table and object agree on the id, that a       *)
(* declared object is allocated, and that a dead process holds nothing.     *)
WorkerConsistent ==
  /\ pc = "emplace" <=> cur # None
  /\ cur # None => /\ cur \in declared
                   /\ heap[cur] # None
                   /\ subscribers[heap[cur].id] = None
  /\ pc # "undeclare" => todo = {}
  /\ \A i \in todo : subscribers[i] # None

TableConsistent ==
  \A i \in Ids : subscribers[i] # None =>
    heap[subscribers[i]] # None /\ heap[subscribers[i]].id = i

DeclaredAllocated == \A o \in declared : heap[o] # None

DeadIsFresh ==
  proc # "running" =>
    /\ ~session /\ declared = {} /\ pc = "idle" /\ inflight = {}
    /\ \A i \in Ids : subscribers[i] = None /\ publishers[i] = None

ZInv ==
  /\ ZTypeOK
  /\ WorkerConsistent
  /\ TableConsistent
  /\ DeclaredAllocated
  /\ DeclaredMatchesTable
  /\ HandlerTargetIntact
  /\ NoDoubleUndeclare
  /\ SessionBacksTables
  /\ DeadIsFresh

(* The topic tables of the abstract specification: what _subscribers and    *)
(* _publishers say of each id.                                              *)
SubTopic == [i \in Ids |-> IF subscribers[i] = None THEN None
                           ELSE heap[subscribers[i]].key]
PubTopic == [i \in Ids |-> IF publishers[i] = None THEN None ELSE publishers[i].key]

Routing == INSTANCE RoutingTable
             WITH NoTopic <- None, subTopic <- SubTopic, pubTopic <- PubTopic

(* The broker implements the routing table: an id keeps the topic of its    *)
(* first declaration until a disconnect or the end of the process forgets   *)
(* every id at once.                                                        *)
ImplementsRouting == Routing!RSpec
=============================================================================
