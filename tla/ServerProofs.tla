---------------------------- MODULE ServerProofs ----------------------------
(***************************************************************************)
(* Proofs about the goroutines of the server: the event streams, for every *)
(* number of streams, topologies and sessions and every buffer and limit,  *)
(* and the locks that requests hold, for any number of requests.           *)
(***************************************************************************)
EXTENDS EventStreams, RequestLocks, FiniteSetTheorems, TLAPS

-----------------------------------------------------------------------------
(* Event streams.                                                           *)

USE DEF mapVars, brokerVars, slotVars, vars

\* The streams that hold a slot of session c.
SlotHolders(c) == {s \in Streams : holds[s] /\ SessionOf[s] = c}

LEMMA InitType == Init => TypeOK
<1> SUFFICES ASSUME Init PROVE TypeOK
  OBVIOUS
<1>1. rev \in [Topologies -> Nat] /\ org \in [Topologies -> Orgs \cup {Gone}]
  BY DEF Init
<1>2. unpublished \subseteq Events /\ live \subseteq Sessions /\ subscribers \subseteq Streams
  BY DEF Init
<1>3. total \in Nat /\ isClosed \in BOOLEAN /\ panicked \in BOOLEAN
  BY DEF Init
<1>4. queue \in [Streams -> Seq(Events)] /\ shut \in [Streams -> BOOLEAN]
  <2>1. <<>> \in Seq(Events)
    OBVIOUS
  <2> QED
    BY <2>1 DEF Init
<1>5. slots \in [Sessions -> Nat] /\ holds \in [Streams -> BOOLEAN]
  BY DEF Init
<1>6. /\ pc \in [Streams -> Pcs] /\ got \in [Streams -> Events \cup {NoEvent}]
      /\ orgRead \in [Streams -> Orgs \cup {Gone}] /\ granted \in [Streams -> BOOLEAN]
  BY DEF Init, Pcs
<1> QED
  BY <1>1, <1>2, <1>3, <1>4, <1>5, <1>6 DEF TypeOK

\* One more stream among finitely many.
LEMMA CountAdd ==
  ASSUME NEW S \in SUBSET Streams, NEW s \in Streams, s \notin S
  PROVE  Cardinality(S \cup {s}) = Cardinality(S) + 1
<1>1. IsFiniteSet(S)
  BY FiniteAssumption, FS_Subset
<1> QED
  BY <1>1, FS_AddElement

\* One stream less.
LEMMA CountRemove ==
  ASSUME NEW S \in SUBSET Streams, NEW s \in S
  PROVE  Cardinality(S \ {s}) = Cardinality(S) - 1 /\ Cardinality(S) > 0
<1>1. IsFiniteSet(S)
  BY FiniteAssumption, FS_Subset
<1>2. Cardinality(S \ {s}) = Cardinality(S) - 1
  BY <1>1, FS_RemoveElement
<1>3. Cardinality(S) \in Nat /\ Cardinality(S) # 0
  BY <1>1, FS_EmptySet, FS_CardinalityType
<1> QED
  BY <1>2, <1>3

LEMMA CountNat ==
  ASSUME NEW S \in SUBSET Streams PROVE Cardinality(S) \in Nat
<1>1. IsFiniteSet(S)
  BY FiniteAssumption, FS_Subset
<1> QED
  BY <1>1, FS_CardinalityType

LEMMA NextType == StreamsInv /\ [Next]_vars => TypeOK'
<1> SUFFICES ASSUME StreamsInv, [Next]_vars PROVE TypeOK'
  OBVIOUS
<1>0. TypeOK
  BY DEF StreamsInv
<1> USE <1>0 DEF TypeOK, Step, Pcs
<1>1. ASSUME NEW s \in Streams, Open(s) PROVE TypeOK'
  BY <1>1 DEF Open
<1>2. ASSUME NEW s \in Streams, Acquire(s) PROVE TypeOK'
  <2>1. SessionOf[s] \in Sessions
    BY StreamsAssumption
  <2>2. pc' \in [Streams -> Pcs]
    BY <1>2 DEF Acquire
  <2>3. slots' \in [Sessions -> Nat] /\ holds' \in [Streams -> BOOLEAN]
    <3>1. slots' = [slots EXCEPT ![SessionOf[s]] = @ + 1] \/ slots' = slots
      BY <1>2 DEF Acquire
    <3>2. holds' = [holds EXCEPT ![s] = TRUE] \/ holds' = holds
      BY <1>2 DEF Acquire
    <3>3. slots' \in [Sessions -> Nat]
      <4>1. slots \in [Sessions -> Nat] /\ slots[SessionOf[s]] + 1 \in Nat
        BY <2>1
      <4> HIDE <1>0 DEF TypeOK, Step, Pcs
      <4> QED
        BY <2>1, <3>1, <4>1
    <3>4. holds' \in [Streams -> BOOLEAN]
      BY <3>2
    <3> QED
      BY <3>3, <3>4
  <2>4. UNCHANGED <<mapVars, live, brokerVars, got, orgRead, granted>>
    BY <1>2 DEF Acquire
  <2> QED
    BY <2>2, <2>3, <2>4
<1>3. ASSUME NEW s \in Streams, TrySubscribe(s) PROVE TypeOK'
  <2>1. pc' \in [Streams -> Pcs]
    BY <1>3 DEF TrySubscribe, Subscribe
  <2>2. subscribers' \subseteq Streams /\ total' \in Nat
    BY <1>3 DEF TrySubscribe, Subscribe
  <2>3. shut' \in [Streams -> BOOLEAN]
    BY <1>3 DEF TrySubscribe, Subscribe, CloseChannel
  <2>4. panicked' \in BOOLEAN
    BY <1>3 DEF TrySubscribe, Subscribe, CloseChannel
  <2>5. UNCHANGED <<mapVars, live, isClosed, queue, slotVars, got, orgRead, granted>>
    BY <1>3 DEF TrySubscribe
  <2> QED
    BY <2>1, <2>2, <2>3, <2>4, <2>5
<1>4. ASSUME NEW s \in Streams, ReadOrganization(s) PROVE TypeOK'
  BY <1>4, StreamsAssumption DEF ReadOrganization
<1>5. ASSUME NEW s \in Streams, Admit(s) \/ Skip(s) \/ Refuse(s) \/ Write(s) PROVE TypeOK'
  BY <1>5 DEF Admit, Skip, Refuse, Write
<1>6. ASSUME NEW s \in Streams, Leave(s) PROVE TypeOK'
  <2>1. s \in subscribers => total > 0
    BY CountRemove DEF StreamsInv, CountsExact
  <2>2. pc' \in [Streams -> Pcs]
    BY <1>6 DEF Leave
  <2>3. subscribers' \subseteq Streams /\ total' \in Nat
    BY <1>6, <2>1 DEF Leave, Cancel, StillSubscribed
  <2>4. shut' \in [Streams -> BOOLEAN]
    BY <1>6 DEF Leave, Cancel, CloseChannel
  <2>5. panicked' \in BOOLEAN
    BY <1>6 DEF Leave, Cancel, CloseChannel
  <2>6. UNCHANGED <<mapVars, live, isClosed, queue, slotVars, got, orgRead, granted>>
    BY <1>6 DEF Leave
  <2> QED
    BY <2>2, <2>3, <2>4, <2>5, <2>6
<1>7. ASSUME NEW s \in Streams, ReleaseSlot(s) PROVE TypeOK'
  <2>1. SessionOf[s] \in Sessions
    BY StreamsAssumption
  <2>2. holds[s] => slots[SessionOf[s]] > 0
    <3>1. holds[s] => s \in SlotHolders(SessionOf[s])
      BY DEF SlotHolders
    <3>2. SlotHolders(SessionOf[s]) \in SUBSET Streams
      BY DEF SlotHolders
    <3>3. slots[SessionOf[s]] = Cardinality(SlotHolders(SessionOf[s]))
      BY <2>1 DEF StreamsInv, CountsExact, SlotHolders
    <3> QED
      BY <3>1, <3>2, <3>3, CountRemove
  <2> QED
    BY <1>7, <2>1, <2>2 DEF ReleaseSlot, Held
<1>8. ASSUME NEW s \in Streams, Receive(s) PROVE TypeOK'
  <2>1. queue[s] \in Seq(Events) /\ queue[s] # <<>>
    BY <1>8 DEF Receive
  <2>2. Head(queue[s]) \in Events /\ Tail(queue[s]) \in Seq(Events)
    BY <2>1
  <2>3. granted' \in [Streams -> BOOLEAN]
    BY <1>8 DEF Receive, Grants, MayRead, Authenticated
  <2> QED
    BY <1>8, <2>2, <2>3 DEF Receive
<1>9. ASSUME NEW s \in Streams, SeeClosed(s) \/ Heartbeat(s) \/ Disconnect(s) PROVE TypeOK'
  BY <1>9 DEF SeeClosed, Heartbeat, Disconnect
<1>10. ASSUME NEW e \in unpublished, Publish(e) PROVE TypeOK'
  <2>1. \A s \in Streams : Append(queue[s], e) \in Seq(Events)
    BY <1>10
  <2>2. queue' \in [Streams -> Seq(Events)]
    BY <1>10, <2>1 DEF Publish
  <2>3. panicked' \in BOOLEAN
    BY <1>10, Zenon DEF Publish
  <2>4. unpublished' \subseteq Events
    BY <1>10 DEF Publish
  <2>5. UNCHANGED <<rev, org, live, subscribers, total, isClosed, shut, slotVars, pc, got, orgRead, granted>>
    BY <1>10, Zenon DEF Publish
  <2> QED
    BY <2>2, <2>3, <2>4, <2>5
<1>11. ASSUME NEW t \in Topologies, NEW o \in Orgs, Commit(t, o) PROVE TypeOK'
  <2>1. rev[t] \in Nat /\ rev[t] + 1 \in Nat
    OBVIOUS
  <2>2. [topo |-> t, rev |-> rev[t] + 1, org |-> o] \in Events
    BY <2>1 DEF Events
  <2>3. unpublished' \subseteq Events
    BY <1>11, <2>2 DEF Commit
  <2>4. rev' \in [Topologies -> Nat] /\ org' \in [Topologies -> Orgs \cup {Gone}]
    BY <1>11, <2>1 DEF Commit
  <2>5. UNCHANGED <<live, brokerVars, slotVars, pc, got, orgRead>> /\ granted' \in [Streams -> BOOLEAN]
    BY <1>11 DEF Commit, Grants, MayRead, Authenticated
  <2> QED
    BY <2>3, <2>4, <2>5
<1>12. ASSUME NEW t \in Topologies, Delete(t) PROVE TypeOK'
  BY <1>12 DEF Delete
<1>13. ASSUME NEW c \in Sessions, EndSession(c) PROVE TypeOK'
  BY <1>13 DEF EndSession
<1>14. CASE Close
  BY <1>14 DEF Close, RemainingAfterClose
<1>15. CASE UNCHANGED vars
  BY <1>15
<1> QED
  BY <1>1, <1>2, <1>3, <1>4, <1>5, <1>6, <1>7, <1>8, <1>9, <1>10, <1>11, <1>12, <1>13,
     <1>14, <1>15 DEF Next, Handle

-----------------------------------------------------------------------------
(* The rest of the inductive invariant.                                     *)

LEMMA InitInv == Init => StreamsInv
<1> SUFFICES ASSUME Init PROVE StreamsInv
  OBVIOUS
<1>1. TypeOK
  BY InitType
<1>2. ChannelsOpen /\ SlotsHeld /\ NoPanic
  BY DEF Init, ChannelsOpen, SlotsHeld, NoPanic
<1>3. Cardinality({}) = 0
  BY FS_EmptySet
<1>4. CountsExact
  <2>1. \A c \in Sessions : {s \in Streams : holds[s] /\ SessionOf[s] = c} = {}
    BY DEF Init
  <2>2. \A c \in Sessions : slots[c] = 0
    BY DEF Init
  <2> QED
    BY <1>3, <2>1, <2>2 DEF CountsExact, Init
<1>5. WithinLimits
  <2>1. \A t \in Topologies : SubscribersOf(t) = {}
    BY DEF Init, SubscribersOf
  <2>2. \A s \in Streams : Len(queue[s]) = 0
    BY DEF Init
  <2>3. \A c \in Sessions : slots[c] = 0
    BY DEF Init
  <2>4. Cardinality(subscribers) <= PerBroker
    BY <1>3, BoundsAssumption DEF Init
  <2>5. \A t \in Topologies : Cardinality(SubscribersOf(t)) <= PerTopology
    BY <1>3, <2>1, BoundsAssumption
  <2>6. \A c \in Sessions : slots[c] <= PerSession
    BY <2>3, BoundsAssumption
  <2>7. \A s \in Streams : Len(queue[s]) <= Buffer
    BY <2>2, BoundsAssumption
  <2> QED
    BY <2>4, <2>5, <2>6, <2>7 DEF WithinLimits
<1> QED
  BY <1>1, <1>2, <1>4, <1>5 DEF StreamsInv

\* Only a stream that has subscribed can be subscribed, and only open channels
\* are: no step closes or sends to a channel that is already closed.
LEMMA NextOpen == StreamsInv /\ [Next]_vars => ChannelsOpen' /\ NoPanic'
<1> SUFFICES ASSUME StreamsInv, [Next]_vars PROVE ChannelsOpen' /\ NoPanic'
  OBVIOUS
<1> USE DEF ChannelsOpen, NoPanic, Step
<1>0. TypeOK /\ ChannelsOpen /\ NoPanic
  BY DEF StreamsInv
<1>t. /\ shut \in [Streams -> BOOLEAN] /\ pc \in [Streams -> Pcs]
      /\ subscribers \subseteq Streams
  BY <1>0 DEF TypeOK
<1>1. ASSUME NEW s \in Streams,
             \/ Open(s) \/ Acquire(s) \/ ReadOrganization(s) \/ Admit(s) \/ Write(s) \/ Skip(s)
             \/ Refuse(s) \/ ReleaseSlot(s) \/ Receive(s) \/ SeeClosed(s) \/ Heartbeat(s)
             \/ Disconnect(s)
      PROVE  ChannelsOpen' /\ NoPanic'
  <2>1. UNCHANGED <<subscribers, isClosed, shut, panicked>>
    BY <1>1 DEF Open, Acquire, ReadOrganization, Admit, Write, Skip, Refuse, ReleaseSlot, Receive,
                SeeClosed, Heartbeat, Disconnect
  <2>2. \E to \in {"checked", "slotted", "open", "rechecking", "authorizing", "writing", "leaving", "ended"} :
           /\ pc' = [pc EXCEPT ![s] = to]
           /\ to \in {"checked", "slotted"} => pc[s] \in {"idle", "checked"}
           /\ to = "ended" => pc[s] \in {"checked", "cancelled"}
    BY <1>1 DEF Open, Acquire, ReadOrganization, Admit, Write, Skip, Refuse, ReleaseSlot, Receive,
                SeeClosed, Heartbeat, Disconnect
  <2> QED
    BY <2>1, <2>2, <1>0, <1>t
<1>2. ASSUME NEW s \in Streams, TrySubscribe(s) PROVE ChannelsOpen' /\ NoPanic'
  <2>1. pc[s] = "slotted" /\ ~shut[s] /\ s \notin subscribers
    BY <1>2, <1>0, <1>t DEF TrySubscribe, Subscribe
  <2>2. CASE CloseChannel(s) /\ UNCHANGED subscribers
    <3>1. shut' = [shut EXCEPT ![s] = TRUE] /\ ~panicked'
      BY <2>1, <2>2, <1>0 DEF CloseChannel
    <3>2. UNCHANGED isClosed
      BY <1>2 DEF TrySubscribe
    <3>3. pc' = [pc EXCEPT ![s] = "open"] \/ pc' = [pc EXCEPT ![s] = "leaving"]
      BY <1>2 DEF TrySubscribe, Subscribe
    <3> QED
      BY <3>1, <3>2, <3>3, <2>1, <2>2, <1>0, <1>t
  <2>3. CASE /\ ~isClosed /\ pc' = [pc EXCEPT ![s] = "open"]
             /\ subscribers' = subscribers \cup {s} /\ UNCHANGED <<shut, panicked>>
    <3>1. UNCHANGED isClosed
      BY <1>2 DEF TrySubscribe
    <3> QED
      BY <3>1, <2>1, <2>3, <1>0, <1>t
  <2> QED
    BY <1>2, <2>2, <2>3 DEF TrySubscribe, Subscribe
<1>3. ASSUME NEW s \in Streams, Leave(s) PROVE ChannelsOpen' /\ NoPanic'
  <2>1. pc[s] = "leaving" /\ pc' = [pc EXCEPT ![s] = "cancelled"] /\ UNCHANGED isClosed
    BY <1>3 DEF Leave
  <2>2. CASE s \in subscribers
    <3>1. subscribers' = subscribers \ {s} /\ CloseChannel(s)
      BY <1>3, <2>2 DEF Leave, Cancel, StillSubscribed
    <3>2. shut' = [shut EXCEPT ![s] = TRUE] /\ ~panicked'
      BY <2>2, <3>1, <1>0 DEF CloseChannel
    <3> QED
      BY <2>1, <3>1, <3>2, <1>0, <1>t
  <2>3. CASE s \notin subscribers
    <3>1. UNCHANGED <<subscribers, shut, panicked>>
      BY <1>3, <2>3 DEF Leave, Cancel, StillSubscribed
    <3> QED
      BY <2>1, <2>3, <3>1, <1>0, <1>t
  <2> QED
    BY <2>2, <2>3
<1>4. ASSUME NEW e \in unpublished, Publish(e) PROVE ChannelsOpen' /\ NoPanic'
  <2>1. ~panicked'
    BY <1>4, <1>0 DEF Publish, SubscribersOf
  <2>2. UNCHANGED <<subscribers, isClosed, shut, pc>>
    BY <1>4 DEF Publish
  <2> QED
    BY <2>1, <2>2, <1>0
<1>5. CASE Close
  <2>1. ~panicked' /\ subscribers' = {} /\ UNCHANGED pc
    BY <1>5, <1>0 DEF Close, RemainingAfterClose
  <2>2. \A s \in Streams : shut'[s] => shut[s] \/ s \in subscribers
    BY <1>5, <1>t DEF Close
  <2> QED
    BY <2>1, <2>2, <1>0
<1>6. ASSUME NEW t \in Topologies, NEW o \in Orgs, Commit(t, o) PROVE ChannelsOpen' /\ NoPanic'
  BY <1>6, <1>0 DEF Commit
<1>7. ASSUME NEW t \in Topologies, Delete(t) PROVE ChannelsOpen' /\ NoPanic'
  BY <1>7, <1>0 DEF Delete
<1>8. ASSUME NEW c \in Sessions, EndSession(c) PROVE ChannelsOpen' /\ NoPanic'
  BY <1>8, <1>0 DEF EndSession
<1>9. CASE UNCHANGED vars
  BY <1>9, <1>0
<1> QED
  BY <1>1, <1>2, <1>3, <1>4, <1>5, <1>6, <1>7, <1>8, <1>9 DEF Next, Handle

\* A subset of a finite set of streams is no larger.
LEMMA CountSubset ==
  ASSUME NEW S \in SUBSET Streams, NEW T \in SUBSET S
  PROVE  Cardinality(T) <= Cardinality(S)
<1>1. IsFiniteSet(S)
  BY FiniteAssumption, FS_Subset
<1> QED
  BY <1>1, FS_Subset

\* What the broker counts, and the limits of its subscriptions.
LEMMA NextBroker ==
  StreamsInv /\ [Next]_vars =>
      /\ total' = Cardinality(subscribers')
      /\ Cardinality(subscribers') <= PerBroker
      /\ \A t \in Topologies : Cardinality(SubscribersOf(t)') <= PerTopology
<1> DEFINE Goal == /\ total' = Cardinality(subscribers')
                   /\ Cardinality(subscribers') <= PerBroker
                   /\ \A t \in Topologies : Cardinality(SubscribersOf(t)') <= PerTopology
<1> SUFFICES ASSUME StreamsInv, [Next]_vars PROVE Goal
  OBVIOUS
<1>0. /\ total = Cardinality(subscribers) /\ Cardinality(subscribers) <= PerBroker
      /\ \A t \in Topologies : Cardinality(SubscribersOf(t)) <= PerTopology
      /\ subscribers \in SUBSET Streams /\ total \in Nat
  BY DEF StreamsInv, CountsExact, WithinLimits, TypeOK
<1>b. PerBroker \in Nat /\ PerTopology \in Nat
  BY BoundsAssumption
<1>c. \A t \in Topologies : SubscribersOf(t) \in SUBSET Streams
  BY <1>0 DEF SubscribersOf
<1>1. CASE UNCHANGED <<subscribers, total>>
  BY <1>0, <1>1 DEF SubscribersOf
<1>2. ASSUME NEW s \in Streams, TrySubscribe(s), ~UNCHANGED <<subscribers, total>> PROVE Goal
  <2>1. /\ HasRoom(s) /\ pc[s] = "slotted"
        /\ subscribers' = subscribers \cup {s} /\ total' = total + 1
    BY <1>2 DEF TrySubscribe, Subscribe, Step
  <2>2. s \notin subscribers
    BY <2>1 DEF StreamsInv, ChannelsOpen
  <2>3. Cardinality(subscribers') = Cardinality(subscribers) + 1
    BY <1>0, <2>1, <2>2, CountAdd
  <2>4. total' = Cardinality(subscribers') /\ Cardinality(subscribers') <= PerBroker
    BY <1>0, <1>b, <2>1, <2>3 DEF HasRoom
  <2>5. ASSUME NEW t \in Topologies PROVE Cardinality(SubscribersOf(t)') <= PerTopology
    <3>1. CASE TopoOf[s] = t
      <4>1. SubscribersOf(t)' = SubscribersOf(t) \cup {s}
        BY <2>1, <3>1 DEF SubscribersOf
      <4>2. s \notin SubscribersOf(t)
        BY <2>2 DEF SubscribersOf
      <4>3. Cardinality(SubscribersOf(t)') = Cardinality(SubscribersOf(t)) + 1
        BY <4>1, <4>2, <1>c, CountAdd
      <4>4. Cardinality(SubscribersOf(t)) < PerTopology
        BY <2>1, <3>1 DEF HasRoom
      <4>5. Cardinality(SubscribersOf(t)) \in Nat
        BY <1>c, CountNat
      <4> QED
        BY <4>3, <4>4, <4>5, <1>b
    <3>2. CASE TopoOf[s] # t
      <4>1. SubscribersOf(t)' = SubscribersOf(t)
        BY <2>1, <3>2 DEF SubscribersOf
      <4> QED
        BY <4>1, <1>0
    <3> QED
      BY <3>1, <3>2
  <2> QED
    BY <2>4, <2>5
<1>3. ASSUME NEW s \in Streams, Leave(s), ~UNCHANGED <<subscribers, total>> PROVE Goal
  <2>1. s \in subscribers /\ subscribers' = subscribers \ {s} /\ total' = total - 1
    BY <1>3 DEF Leave, Cancel, StillSubscribed
  <2>2. Cardinality(subscribers') = Cardinality(subscribers) - 1
    BY <1>0, <2>1, CountRemove
  <2>3. \A t \in Topologies : SubscribersOf(t)' \in SUBSET SubscribersOf(t)
    BY <2>1 DEF SubscribersOf
  <2>4. \A t \in Topologies : Cardinality(SubscribersOf(t)') <= Cardinality(SubscribersOf(t))
    BY <2>3, <1>c, CountSubset
  <2>5. \A t \in Topologies : SubscribersOf(t)' \in SUBSET Streams
    BY <2>3, <1>c
  <2>6. \A t \in Topologies : Cardinality(SubscribersOf(t)) \in Nat /\ Cardinality(SubscribersOf(t)') \in Nat
    BY <2>5, <1>c, CountNat
  <2> QED
    BY <1>0, <1>b, <2>1, <2>2, <2>4, <2>6
<1>4. CASE Close
  <2>1. subscribers' = {} /\ total' = 0
    BY <1>4 DEF Close, RemainingAfterClose
  <2>2. \A t \in Topologies : SubscribersOf(t)' = {}
    BY <2>1 DEF SubscribersOf
  <2> QED
    BY <2>1, <2>2, <1>b, FS_EmptySet
<1>5. \/ UNCHANGED <<subscribers, total>> \/ Close
      \/ \E s \in Streams : TrySubscribe(s) \/ Leave(s)
  BY DEF Next, Handle, Open, Acquire, ReadOrganization, Admit, Write, Skip, Refuse, ReleaseSlot,
         Receive, SeeClosed, Heartbeat, Disconnect, Publish, Commit, Delete, EndSession
<1> QED
  BY <1>1, <1>2, <1>3, <1>4, <1>5

\* What a session holds.
LEMMA NextSlots ==
  StreamsInv /\ [Next]_vars =>
      /\ SlotsHeld'
      /\ \A c \in Sessions : slots'[c] = Cardinality(SlotHolders(c)') /\ slots'[c] <= PerSession
<1> DEFINE Exact == \A c \in Sessions : slots'[c] = Cardinality(SlotHolders(c)') /\ slots'[c] <= PerSession
<1> SUFFICES ASSUME StreamsInv, [Next]_vars PROVE SlotsHeld' /\ Exact
  OBVIOUS
<1>0. /\ \A c \in Sessions : slots[c] = Cardinality(SlotHolders(c)) /\ slots[c] <= PerSession
      /\ holds \in [Streams -> BOOLEAN] /\ slots \in [Sessions -> Nat] /\ pc \in [Streams -> Pcs]
      /\ SlotsHeld
  BY DEF StreamsInv, CountsExact, WithinLimits, TypeOK, SlotHolders
<1>b. PerSession \in Nat
  BY BoundsAssumption
<1>c. \A c \in Sessions : SlotHolders(c) \in SUBSET Streams
  BY DEF SlotHolders
<1>d. \A s \in Streams : SessionOf[s] \in Sessions
  BY StreamsAssumption
<1>1. ASSUME UNCHANGED slotVars,
             \A s \in Streams : pc'[s] \in {"idle", "checked", "ended"} =>
                                    pc[s] \in {"idle", "checked", "ended"} \/ ~holds[s]
      PROVE  SlotsHeld' /\ Exact
  BY <1>0, <1>1 DEF SlotsHeld, SlotHolders
<1>2. ASSUME NEW s \in Streams, Acquire(s), ~UNCHANGED slotVars PROVE SlotsHeld' /\ Exact
  <2> DEFINE c == SessionOf[s]
  <2>1. /\ slots[c] < PerSession /\ pc[s] = "checked" /\ pc' = [pc EXCEPT ![s] = "slotted"]
        /\ slots' = [slots EXCEPT ![c] = @ + 1] /\ holds' = [holds EXCEPT ![s] = TRUE]
    BY <1>2 DEF Acquire, Step
  <2>2. c \in Sessions /\ ~holds[s] /\ s \notin SlotHolders(c)
    BY <2>1, <1>0, <1>d DEF SlotsHeld, SlotHolders
  <2>3. SlotHolders(c)' = SlotHolders(c) \cup {s}
    BY <2>1, <1>0 DEF SlotHolders
  <2>4. Cardinality(SlotHolders(c)') = Cardinality(SlotHolders(c)) + 1
    BY <2>2, <2>3, <1>c, CountAdd
  <2>5. slots'[c] = Cardinality(SlotHolders(c)') /\ slots'[c] <= PerSession
    BY <2>1, <2>2, <2>4, <1>0, <1>b
  <2>6. ASSUME NEW d \in Sessions, d # c
        PROVE  slots'[d] = Cardinality(SlotHolders(d)') /\ slots'[d] <= PerSession
    <3>1. SlotHolders(d)' = SlotHolders(d) /\ slots'[d] = slots[d]
      BY <2>1, <2>6, <1>0 DEF SlotHolders
    <3> QED
      BY <3>1, <1>0
  <2>7. SlotsHeld'
    BY <2>1, <1>0 DEF SlotsHeld
  <2> QED
    BY <2>5, <2>6, <2>7
<1>3. ASSUME NEW s \in Streams, ReleaseSlot(s), holds[s] PROVE SlotsHeld' /\ Exact
  <2> DEFINE c == SessionOf[s]
  <2>1. /\ pc' = [pc EXCEPT ![s] = "ended"]
        /\ slots' = [slots EXCEPT ![c] = @ - 1] /\ holds' = [holds EXCEPT ![s] = FALSE]
    BY <1>3 DEF ReleaseSlot, Step, Held
  <2>2. c \in Sessions /\ s \in SlotHolders(c)
    BY <1>3, <1>d DEF SlotHolders
  <2>3. SlotHolders(c)' = SlotHolders(c) \ {s}
    BY <2>1, <1>0 DEF SlotHolders
  <2>4. Cardinality(SlotHolders(c)') = Cardinality(SlotHolders(c)) - 1
    BY <2>2, <2>3, <1>c, CountRemove
  <2>5. slots'[c] = Cardinality(SlotHolders(c)') /\ slots'[c] <= PerSession
    BY <2>1, <2>2, <2>4, <1>0, <1>b
  <2>6. ASSUME NEW d \in Sessions, d # c
        PROVE  slots'[d] = Cardinality(SlotHolders(d)') /\ slots'[d] <= PerSession
    <3>1. SlotHolders(d)' = SlotHolders(d) /\ slots'[d] = slots[d]
      BY <2>1, <2>6, <1>0 DEF SlotHolders
    <3> QED
      BY <3>1, <1>0
  <2>7. SlotsHeld'
    BY <2>1, <1>0 DEF SlotsHeld
  <2> QED
    BY <2>5, <2>6, <2>7
<1>4. ASSUME NEW s \in Streams, ReleaseSlot(s), ~holds[s] PROVE SlotsHeld' /\ Exact
  <2>1. pc' = [pc EXCEPT ![s] = "ended"] /\ UNCHANGED slotVars
    BY <1>4, <1>0 DEF ReleaseSlot, Step, Held
  <2> QED
    BY <2>1, <1>1, <1>4, <1>0
<1>5. ASSUME NEW s \in Streams, Acquire(s), UNCHANGED slotVars PROVE SlotsHeld' /\ Exact
  <2>1. pc[s] = "checked" /\ (pc' = [pc EXCEPT ![s] = "slotted"] \/ pc' = [pc EXCEPT ![s] = "ended"])
    BY <1>5 DEF Acquire, Step
  <2> QED
    BY <2>1, <1>1, <1>5, <1>0
<1>6. ASSUME NEW s \in Streams,
             \/ Open(s) \/ TrySubscribe(s) \/ ReadOrganization(s) \/ Admit(s) \/ Write(s) \/ Skip(s)
             \/ Refuse(s) \/ Leave(s) \/ Receive(s) \/ SeeClosed(s) \/ Heartbeat(s) \/ Disconnect(s)
      PROVE  SlotsHeld' /\ Exact
  <2>1. UNCHANGED slotVars
    BY <1>6 DEF Open, TrySubscribe, ReadOrganization, Admit, Write, Skip, Refuse, Leave, Receive,
                SeeClosed, Heartbeat, Disconnect
  <2>2. \E to \in {"checked", "open", "rechecking", "authorizing", "writing", "leaving", "cancelled"} :
           /\ pc' = [pc EXCEPT ![s] = to]
           /\ to = "checked" => pc[s] = "idle"
    BY <1>6 DEF Open, TrySubscribe, Subscribe, ReadOrganization, Admit, Write, Skip, Refuse, Leave,
                Receive, SeeClosed, Heartbeat, Disconnect, Step
  <2> QED
    BY <2>1, <2>2, <1>1, <1>0
<1>7. CASE UNCHANGED <<slots, holds, pc>>
  BY <1>7, <1>1, <1>0
<1>8. \/ UNCHANGED <<slots, holds, pc>>
      \/ \E s \in Streams :
            \/ Open(s) \/ Acquire(s) \/ TrySubscribe(s) \/ ReadOrganization(s) \/ Admit(s) \/ Write(s)
            \/ Skip(s) \/ Refuse(s) \/ Leave(s) \/ ReleaseSlot(s) \/ Receive(s) \/ SeeClosed(s)
            \/ Heartbeat(s) \/ Disconnect(s)
  BY DEF Next, Handle, Publish, Commit, Delete, EndSession, Close
<1> QED
  BY <1>2, <1>3, <1>4, <1>5, <1>6, <1>7, <1>8

\* A channel holds at most its buffer.
LEMMA NextQueue ==
  StreamsInv /\ [Next]_vars => \A s \in Streams : Len(queue'[s]) <= Buffer
<1> SUFFICES ASSUME StreamsInv, [Next]_vars, NEW s \in Streams PROVE Len(queue'[s]) <= Buffer
  OBVIOUS
<1>0. /\ queue \in [Streams -> Seq(Events)] /\ unpublished \subseteq Events
      /\ Len(queue[s]) <= Buffer
  BY DEF StreamsInv, TypeOK, WithinLimits
<1>b. Buffer \in Nat
  BY BoundsAssumption
<1>1. CASE UNCHANGED queue
  BY <1>0, <1>1
<1>2. ASSUME NEW r \in Streams, Receive(r) PROVE Len(queue'[s]) <= Buffer
  <2>1. queue' = [queue EXCEPT ![r] = Tail(@)] /\ queue[r] # <<>>
    BY <1>2 DEF Receive
  <2>2. queue[r] \in Seq(Events) /\ Len(Tail(queue[r])) = Len(queue[r]) - 1
    BY <2>1, <1>0
  <2>3. queue'[s] = queue[s] \/ (r = s /\ queue'[s] = Tail(queue[s]))
    BY <2>1, <1>0
  <2>4. Len(queue[r]) \in Nat /\ (r = s => Len(Tail(queue[r])) <= Buffer)
    BY <2>2, <1>0, <1>b
  <2> QED
    BY <2>3, <2>4, <1>0
<1>3. ASSUME NEW e \in unpublished, Publish(e) PROVE Len(queue'[s]) <= Buffer
  <2>1. queue'[s] = queue[s] \/ (Len(queue[s]) < Buffer /\ queue'[s] = Append(queue[s], e))
    BY <1>3 DEF Publish
  <2>2. queue[s] \in Seq(Events) /\ Len(queue[s]) \in Nat /\ e \in Events
    BY <1>0
  <2>3. Len(Append(queue[s], e)) = Len(queue[s]) + 1
    BY <2>2
  <2> QED
    BY <2>1, <2>2, <2>3, <1>0, <1>b
<1>4. \/ UNCHANGED queue \/ \E r \in Streams : Receive(r) \/ \E e \in unpublished : Publish(e)
  BY DEF Next, Handle, Open, Acquire, TrySubscribe, ReadOrganization, Admit, Write, Skip, Refuse,
         Leave, ReleaseSlot, SeeClosed, Heartbeat, Disconnect, Commit, Delete, EndSession, Close
<1> QED
  BY <1>1, <1>2, <1>3, <1>4

-----------------------------------------------------------------------------

\* The broker's registry, its counters and the session slots keep an inductive
\* invariant under every order of handlers, cancellations, mutations, logouts
\* and shutdown.
THEOREM StreamsInvariant == Spec => []StreamsInv
<1>1. Init => StreamsInv
  BY InitInv
<1>2. StreamsInv /\ [Next]_vars => StreamsInv'
  <2> SUFFICES ASSUME StreamsInv, [Next]_vars PROVE StreamsInv'
    OBVIOUS
  <2>1. TypeOK' /\ ChannelsOpen' /\ NoPanic' /\ SlotsHeld'
    BY NextType, NextOpen, NextSlots
  <2>2. CountsExact'
    BY NextBroker, NextSlots DEF CountsExact, SlotHolders
  <2>3. WithinLimits'
    BY NextBroker, NextSlots, NextQueue DEF WithinLimits
  <2> QED
    BY <2>1, <2>2, <2>3 DEF StreamsInv
<1> QED
  BY <1>1, <1>2, PTL DEF Spec

\* Every variable of the model keeps its type.
THEOREM StreamsTypeCorrect == Spec => []TypeOK
<1>1. StreamsInv => TypeOK
  BY DEF StreamsInv
<1> QED
  BY <1>1, StreamsInvariant, PTL

\* No channel of the broker is ever closed twice or sent to after its close,
\* for any number of streams and whenever the broker is shut down.
THEOREM NeverPanics == Spec => []NoPanic
<1>1. StreamsInv => NoPanic
  BY DEF StreamsInv
<1> QED
  BY <1>1, StreamsInvariant, PTL

\* Broker.total and Server.sessionStreams count exactly the subscribers and the
\* slots held: none leaks and none is given back twice.
THEOREM CountersExact == Spec => []CountsExact
<1>1. StreamsInv => CountsExact
  BY DEF StreamsInv
<1> QED
  BY <1>1, StreamsInvariant, PTL

\* The limits on subscribers, session streams and buffered events hold for
\* every value of the limits.
THEOREM LimitsKept == Spec => []WithinLimits
<1>1. StreamsInv => WithinLimits
  BY DEF StreamsInv
<1> QED
  BY <1>1, StreamsInvariant, PTL

\* What a check of the stream knows of the event it took: as long as the map is in the
\* event's organization and the session may read it, that has been recorded; so it has
\* when the check read that organization and the session still may read it now; and
\* what is about to be written has passed both.
GrantsKept ==
    \A s \in Streams : got[s] # NoEvent =>
        /\ Grants(s, got[s], org[TopoOf[s]]) => granted[s]
        /\ pc[s] = "authorizing" /\ Grants(s, got[s], orgRead[s]) => granted[s]
        /\ pc[s] = "writing" => granted[s]

\* The step of a stream concerns its own event, its own check and its own progress.
LEMMA GrantsOfOthers ==
  ASSUME TypeOK, GrantsKept, NEW s \in Streams, UNCHANGED <<org, live>>, NEW to, Step(s, pc[s], to),
         \A r \in Streams \ {s} : got'[r] = got[r] /\ orgRead'[r] = orgRead[r] /\ granted'[r] = granted[r],
         got'[s] # NoEvent =>
            /\ Grants(s, got'[s], org[TopoOf[s]]) => granted'[s]
            /\ to = "authorizing" /\ Grants(s, got'[s], orgRead'[s]) => granted'[s]
            /\ to = "writing" => granted'[s]
  PROVE  GrantsKept'
<1>1. ASSUME NEW r \in Streams, got'[r] # NoEvent
      PROVE  /\ Grants(r, got[r], org[TopoOf[r]])' => granted'[r]
             /\ pc'[r] = "authorizing" /\ Grants(r, got[r], orgRead[r])' => granted'[r]
             /\ pc'[r] = "writing" => granted'[r]
  <2>1. pc'[s] = to /\ \A q \in Streams \ {s} : pc'[q] = pc[q]
    BY DEF Step, TypeOK
  <2>2. CASE r = s
    BY <1>1, <2>1, <2>2 DEF Grants, MayRead, Authenticated
  <2>3. CASE r # s
    BY <1>1, <2>1, <2>3 DEF GrantsKept, Grants, MayRead, Authenticated
  <2> QED
    BY <2>2, <2>3
<1> QED
  BY <1>1 DEF GrantsKept

\* Every step keeps it: a map moves only through Commit, which records, and sessions
\* only end.
LEMMA NextGrants == TypeOK /\ GrantsKept /\ [Next]_vars => GrantsKept'
<1> SUFFICES ASSUME TypeOK, GrantsKept, [Next]_vars PROVE GrantsKept'
  OBVIOUS
<1>1. ASSUME NEW s \in Streams, Receive(s) PROVE GrantsKept'
  <2>1. /\ got'[s] = Head(queue[s]) /\ granted'[s] = Grants(s, got'[s], org[TopoOf[s]])
        /\ \A r \in Streams \ {s} : got'[r] = got[r] /\ granted'[r] = granted[r]
    BY <1>1 DEF Receive, TypeOK
  <2>2. Step(s, pc[s], "rechecking") /\ UNCHANGED <<org, live, orgRead>>
    BY <1>1 DEF Receive, Step
  <2> QED
    BY <2>1, <2>2, GrantsOfOthers
<1>2. ASSUME NEW s \in Streams, Heartbeat(s) PROVE GrantsKept'
  <2>1. Step(s, pc[s], "rechecking") /\ UNCHANGED <<org, live, orgRead, granted>>
    BY <1>2 DEF Heartbeat, Step
  <2>2. got'[s] = NoEvent /\ \A r \in Streams \ {s} : got'[r] = got[r]
    BY <1>2 DEF Heartbeat, TypeOK
  <2> QED
    BY <2>1, <2>2, GrantsOfOthers
<1>3. ASSUME NEW s \in Streams, ReadOrganization(s) PROVE GrantsKept'
  <2>1. UNCHANGED <<org, live, got, granted>> /\ \E to \in {"leaving", "authorizing"} : Step(s, pc[s], to)
    BY <1>3 DEF ReadOrganization, Step
  <2>2. orgRead'[s] = org[TopoOf[s]] /\ \A r \in Streams \ {s} : orgRead'[r] = orgRead[r]
    BY <1>3 DEF ReadOrganization, TypeOK
  <2>3. got[s] # NoEvent => (Grants(s, got[s], org[TopoOf[s]]) => granted[s])
    BY DEF GrantsKept
  <2>4. PICK to \in {"leaving", "authorizing"} : Step(s, pc[s], to)
    BY <2>1
  <2> QED
    BY <2>1, <2>2, <2>3, <2>4, GrantsOfOthers
<1>4. ASSUME NEW s \in Streams, Admit(s) PROVE GrantsKept'
  <2>1. /\ UNCHANGED <<org, live, got, orgRead, granted>> /\ pc[s] = "authorizing"
        /\ Step(s, pc[s], "writing")
    BY <1>4 DEF Admit, Step
  <2>2. got[s] # NoEvent => Grants(s, got[s], orgRead[s])
    BY <1>4 DEF Admit, Belongs, Grants
  <2>3. got[s] # NoEvent => granted[s] /\ (Grants(s, got[s], org[TopoOf[s]]) => granted[s])
    BY <2>1, <2>2 DEF GrantsKept
  <2> QED
    BY <2>1, <2>3, GrantsOfOthers
<1>5. ASSUME NEW s \in Streams,
             \/ Open(s) \/ Acquire(s) \/ TrySubscribe(s) \/ Skip(s) \/ Refuse(s) \/ Write(s)
             \/ Leave(s) \/ ReleaseSlot(s) \/ SeeClosed(s) \/ Disconnect(s)
      PROVE  GrantsKept'
  <2>1. /\ UNCHANGED <<org, live, got, orgRead, granted>>
        /\ \E to \in Pcs \ {"authorizing", "writing"} : Step(s, pc[s], to)
    BY <1>5 DEF Open, Acquire, TrySubscribe, Subscribe, Skip, Refuse, Write, Leave, ReleaseSlot,
                SeeClosed, Disconnect, Step, Pcs
  <2>2. got[s] # NoEvent => (Grants(s, got[s], org[TopoOf[s]]) => granted[s])
    BY DEF GrantsKept
  <2>3. PICK to \in Pcs \ {"authorizing", "writing"} : Step(s, pc[s], to)
    BY <2>1
  <2> QED
    BY <2>1, <2>2, <2>3, GrantsOfOthers
<1>6. ASSUME NEW t \in Topologies, NEW o \in Orgs, Commit(t, o) PROVE GrantsKept'
  <2>1. /\ UNCHANGED <<live, pc, got, orgRead>>
        /\ \A r \in Topologies : org'[r] = IF r = t THEN o ELSE org[r]
        /\ \A s \in Streams : granted'[s] =
              (granted[s] \/ (TopoOf[s] = t /\ got[s] # NoEvent /\ Grants(s, got[s], o)))
    BY <1>6 DEF Commit, TypeOK
  <2>2. ASSUME NEW s \in Streams, got'[s] # NoEvent
        PROVE  /\ Grants(s, got[s], org[TopoOf[s]])' => granted'[s]
               /\ pc'[s] = "authorizing" /\ Grants(s, got[s], orgRead[s])' => granted'[s]
               /\ pc'[s] = "writing" => granted'[s]
    <3>1. TopoOf[s] \in Topologies
      BY StreamsAssumption
    <3> QED
      BY <2>1, <2>2, <3>1 DEF GrantsKept, Grants, MayRead, Authenticated
  <2> QED
    BY <2>2 DEF GrantsKept
<1>7. ASSUME NEW t \in Topologies, Delete(t) PROVE GrantsKept'
  <2>1. /\ UNCHANGED <<live, pc, got, orgRead, granted>>
        /\ \A r \in Topologies : org'[r] = IF r = t THEN Gone ELSE org[r]
    BY <1>7 DEF Delete, TypeOK
  <2>2. ASSUME NEW s \in Streams, got[s] # NoEvent, got[s].org = Gone PROVE FALSE
    BY <2>2, GoneAssumption DEF TypeOK, Events
  <2>3. \A s \in Streams : TopoOf[s] \in Topologies
    BY StreamsAssumption
  <2> QED
    BY <2>1, <2>2, <2>3 DEF GrantsKept, Grants, MayRead, Authenticated
<1>8. ASSUME NEW c \in Sessions, EndSession(c) PROVE GrantsKept'
  <2>1. UNCHANGED <<org, pc, got, orgRead, granted>> /\ live' \subseteq live
    BY <1>8 DEF EndSession
  <2> QED
    BY <2>1 DEF GrantsKept, Grants, MayRead, Authenticated
<1>9. CASE UNCHANGED <<org, live, pc, got, orgRead, granted>>
  BY <1>9 DEF GrantsKept, Grants, MayRead, Authenticated
<1>10. (\E e \in unpublished : Publish(e)) \/ Close \/ UNCHANGED vars
       => UNCHANGED <<org, live, pc, got, orgRead, granted>>
  BY DEF Publish, Close
<1> QED
  BY <1>1, <1>2, <1>3, <1>4, <1>5, <1>6, <1>7, <1>8, <1>9, <1>10 DEF Next, Handle

\* Whatever moves, deletions and sign-outs come between the publication of an event,
\* its reception by the stream, the check and the write: an event is written only if the
\* session could read its map where it was produced, at one moment since it was taken.
THEOREM ReadersOnly == Spec => DeliveredToReadersOnly
<1>1. Init => GrantsKept
  BY DEF Init, GrantsKept
<1>2. Spec => []GrantsKept
  BY <1>1, NextGrants, StreamsTypeCorrect, PTL DEF Spec
<1>3. GrantsKept /\ [Next]_vars =>
        [\A s \in Streams : pc[s] = "writing" /\ pc'[s] = "open" /\ got[s] # NoEvent => granted[s]]_vars
  BY DEF GrantsKept
<1> QED
  BY <1>2, <1>3, PTL DEF Spec, DeliveredToReadersOnly

-----------------------------------------------------------------------------
(* Locks.  While fewer transactions are under way than the pool has         *)
(* connections, requests never come to wait for each other, whatever their  *)
(* number.                                                                  *)
(*                                                                          *)
(* The resources are ranked by the paths: who holds one waits only for      *)
(* later ones, directoryMu before createMu, rows before the mutex of the    *)
(* Manager, everything before a connection.  Only a transaction breaks the  *)
(* order, for it waits while it holds a connection; a circle would need     *)
(* every connection to belong to one.                                       *)

Resources == {"dir", "pending", "excl", "create", "mu", "conn", "row"}

Wants(p, i) == p[i + 1] \ p[i]

\* What the holder of a resource may wait for.
Ranked(p) ==
    \A i \in Nat \ {0} : i < Len(p) =>
        /\ Wants(p, i) \subseteq Resources
        /\ "mu" \in p[i]      => Wants(p, i) \subseteq {"conn"}
        /\ "row" \in p[i]     => Wants(p, i) \subseteq {"mu"}
        /\ "create" \in p[i]  => Wants(p, i) \subseteq {"conn"}
        /\ "pending" \in p[i] => Wants(p, i) \subseteq {"excl"}
        /\ "excl" \in p[i]    => Wants(p, i) \subseteq {"mu", "conn"}
        /\ "dir" \in p[i]     => Wants(p, i) \subseteq {"conn", "create", "mu", "row"}

\* A connection is given back before anything else is waited for.
GivesBack(p) ==
    \A i \in Nat \ {0} : i < Len(p) => ("conn" \in p[i] => Wants(p, i) = {})

\* Every path keeps the ranks.
LEMMA PathsRanked ==
    ASSUME NEW k \in Kinds \cup {"none"}
    PROVE  Ranked(Path(k))
<1>1. Ranked(ReadPath)
  <2>1. \A i \in Nat \ {0} : i < Len(ReadPath) => i \in 1 .. 6 BY DEF ReadPath
  <2> QED BY <2>1 DEF Ranked, Resources, Wants, ReadPath
<1>2. Ranked(WritePath)
  <2>1. \A i \in Nat \ {0} : i < Len(WritePath) => i \in 1 .. 7 BY DEF WritePath
  <2> QED BY <2>1 DEF Ranked, Resources, Wants, WritePath
<1>3. Ranked(CreatePath)
  <2>1. \A i \in Nat \ {0} : i < Len(CreatePath) => i \in 1 .. 11 BY DEF CreatePath
  <2> QED BY <2>1 DEF Ranked, Resources, Wants, CreatePath
<1>4. Ranked(CopyPath)
  <2>1. \A i \in Nat \ {0} : i < Len(CopyPath) => i \in 1 .. 9 BY DEF CopyPath
  <2> QED BY <2>1 DEF Ranked, Resources, Wants, CopyPath
<1>5. Ranked(AdministerPath)
  <2>1. \A i \in Nat \ {0} : i < Len(AdministerPath) => i \in 1 .. 11 BY DEF AdministerPath
  <2> QED BY <2>1 DEF Ranked, Resources, Wants, AdministerPath
<1>6. Ranked(SignInPath)
  <2>1. \A i \in Nat \ {0} : i < Len(SignInPath) => i \in 1 .. 3 BY DEF SignInPath
  <2> QED BY <2>1 DEF Ranked, Resources, Wants, SignInPath
<1>7. Ranked(<<{}>>)
  BY DEF Ranked
<1> QED BY <1>1, <1>2, <1>3, <1>4, <1>5, <1>6, <1>7 DEF Path, Kinds

\* Only a transaction waits with a connection in its hand.
LEMMA ConnectionsGivenBack ==
    ASSUME NEW k \in Kinds \cup {"none"}, k # "write"
    PROVE  GivesBack(Path(k))
<1>1. GivesBack(ReadPath)
  <2>1. \A i \in Nat \ {0} : i < Len(ReadPath) => i \in 1 .. 6 BY DEF ReadPath
  <2> QED BY <2>1 DEF GivesBack, Wants, ReadPath
<1>2. GivesBack(CreatePath)
  <2>1. \A i \in Nat \ {0} : i < Len(CreatePath) => i \in 1 .. 11 BY DEF CreatePath
  <2> QED BY <2>1 DEF GivesBack, Wants, CreatePath
<1>3. GivesBack(CopyPath)
  <2>1. \A i \in Nat \ {0} : i < Len(CopyPath) => i \in 1 .. 9 BY DEF CopyPath
  <2> QED BY <2>1 DEF GivesBack, Wants, CopyPath
<1>4. GivesBack(AdministerPath)
  <2>1. \A i \in Nat \ {0} : i < Len(AdministerPath) => i \in 1 .. 11 BY DEF AdministerPath
  <2> QED BY <2>1 DEF GivesBack, Wants, AdministerPath
<1>5. GivesBack(SignInPath)
  <2>1. \A i \in Nat \ {0} : i < Len(SignInPath) => i \in 1 .. 3 BY DEF SignInPath
  <2> QED BY <2>1 DEF GivesBack, Wants, SignInPath
<1>6. GivesBack(<<{}>>)
  BY DEF GivesBack
<1> QED BY <1>1, <1>2, <1>3, <1>4, <1>5, <1>6 DEF Path, Kinds

LEMMA PathLengths ==
    ASSUME NEW k \in Kinds \cup {"none"}
    PROVE  Len(Path(k)) \in Nat \ {0}
BY DEF Path, Kinds, ReadPath, WritePath, CreatePath, CopyPath, AdministerPath, SignInPath

-----------------------------------------------------------------------------
\* The transactions under way stay within their bound.
TransactionsBounded == Cardinality(Transacting) <= MaxTransactions

LocksInv == LocksTypeOK /\ TransactionsBounded

LEMMA InitLocks == LocksInit => LocksInv
<1> SUFFICES ASSUME LocksInit PROVE LocksInv
  OBVIOUS
<1> USE DEF LocksInit
<1>1. \A w \in Requests : Len(Path(kind[w])) = 1
  BY DEF Path
<1>2. LocksTypeOK
  <2>1. kind \in [Requests -> Kinds \cup {"none"}]
    OBVIOUS
  <2>1a. topo \in [Requests -> Maps]
    OBVIOUS
  <2>2. pos \in [Requests -> Nat \ {0}]
    OBVIOUS
  <2>3. ASSUME NEW w \in Requests PROVE pos[w] <= Len(Path(kind[w]))
    <3>1. Len(Path(kind[w])) = 1
      BY <1>1
    <3>2. pos[w] = 1
      OBVIOUS
    <3> HIDE DEF LocksInit
    <3> QED BY <3>1, <3>2
  <2> QED BY <2>1, <2>1a, <2>2, <2>3 DEF LocksTypeOK
<1>3. Transacting = {}
  BY DEF Transacting
<1>4. TransactionsBounded
  BY <1>3, FS_EmptySet, PoolAssumption DEF TransactionsBounded
<1> QED BY <1>2, <1>4 DEF LocksInv

LEMMA NextLocks == LocksInv /\ [LocksNext]_lockVars => LocksInv'
<1> SUFFICES ASSUME LocksInv, [LocksNext]_lockVars PROVE LocksInv'
  OBVIOUS
<1> USE DEF LocksInv
<1>0. IsFiniteSet(Transacting)
  BY RequestsAssumption, FS_Subset DEF Transacting
<1>1. ASSUME NEW w \in Requests, NEW k \in Kinds, Send(w, k) PROVE LocksInv'
  <2> USE <1>1 DEF Send, LocksTypeOK
  <2>1. pos[w] = 1
    BY DEF Path
  <2>2. LocksTypeOK'
    BY <2>1, PathLengths
  <2>3. CASE k # "write"
    <3>1. Transacting' \subseteq Transacting
      BY <2>3 DEF Transacting, UnderWay
    <3> QED BY <1>0, <2>2, <3>1, FS_Subset, FS_CardinalityType, PoolAssumption DEF TransactionsBounded
  <2>4. CASE k = "write"
    <3>1. Transacting' \subseteq Transacting \cup {w}
      BY DEF Transacting, UnderWay
    <3>2. IsFiniteSet(Transacting \cup {w}) /\ Cardinality(Transacting \cup {w}) <= Cardinality(Transacting) + 1
      <4> HIDE <1>1 DEF Send, LocksTypeOK
      <4>1. IsFiniteSet(Transacting \cup {w})
        BY <1>0, FS_AddElement
      <4>2. Cardinality(Transacting \cup {w}) = IF w \in Transacting THEN Cardinality(Transacting) ELSE Cardinality(Transacting) + 1
        BY <1>0, FS_AddElement
      <4>3. Cardinality(Transacting) \in Nat
        BY <1>0, FS_CardinalityType
      <4> QED BY <4>1, <4>2, <4>3
    <3>3. Cardinality(Transacting') <= Cardinality(Transacting \cup {w}) /\ IsFiniteSet(Transacting')
      BY <3>1, <3>2, FS_Subset
    <3>4. Cardinality(Transacting) \in Nat /\ Cardinality(Transacting') \in Nat /\ Cardinality(Transacting \cup {w}) \in Nat
      BY <1>0, <3>2, <3>3, FS_CardinalityType
    <3> QED BY <2>2, <2>4, <3>2, <3>3, <3>4, PoolAssumption DEF TransactionsBounded
  <2> QED BY <2>3, <2>4
<1>2. ASSUME NEW w \in Requests, Advance(w) \/ Return(w) PROVE LocksInv'
  <2> USE DEF LocksTypeOK
  <2>1. Len(Path(kind[w])) \in Nat \ {0}
    BY PathLengths
  <2>2. UnderWay(w) /\ kind' = kind /\ topo' = topo
    BY <1>2 DEF Advance, Return
  <2>3. \E n \in Nat \ {0} : n <= Len(Path(kind[w])) /\ pos' = [pos EXCEPT ![w] = n]
    <3>1. CASE Advance(w)
      <4>1. pos[w] + 1 \in Nat \ {0} /\ pos[w] + 1 <= Len(Path(kind[w]))
        BY <2>1, <2>2 DEF UnderWay
      <4> QED BY <3>1, <4>1 DEF Advance
    <3>2. CASE Return(w)
      <4>1. Len(Path(kind[w])) <= Len(Path(kind[w]))
        BY <2>1
      <4> QED BY <2>1, <3>2, <4>1 DEF Return
    <3> QED BY <1>2, <3>1, <3>2
  <2>4. LocksTypeOK'
    BY <2>2, <2>3
  <2>5. Transacting' \subseteq Transacting
    BY <2>2, <2>3 DEF Transacting, UnderWay
  <2> QED BY <1>0, <2>4, <2>5, FS_Subset, FS_CardinalityType, PoolAssumption DEF TransactionsBounded
<1>3. CASE UNCHANGED lockVars
  BY <1>3 DEF lockVars, LocksTypeOK, TransactionsBounded, Transacting, UnderWay
<1> QED BY <1>1, <1>2, <1>3 DEF LocksNext, Finished

\* In every behaviour the variables have their types.
THEOREM LocksTypeCorrect == LocksSpec => []LocksTypeOK
<1>1. LocksInv => LocksTypeOK
  BY DEF LocksInv
<1> QED BY InitLocks, NextLocks, <1>1, PTL DEF LocksSpec

-----------------------------------------------------------------------------
\* What a request of a circle waits for is withheld by requests of the circle.
LEMMA EachWaits ==
    ASSUME NEW ws \in SUBSET Requests, WaitForEachOther(ws), NEW w \in ws
    PROVE  \E r \in Wanted(w) : Withheld(w, r) # {} /\ Withheld(w, r) \subseteq ws
BY DEF WaitForEachOther, Blockers

\* The ranks of the paths, read at the place of a request.
LEMMA RanksHeld ==
    ASSUME LocksTypeOK, NEW w \in Requests, UnderWay(w)
    PROVE  /\ Wanted(w) \subseteq Resources
           /\ "mu" \in Holding(w)      => Wanted(w) \subseteq {"conn"}
           /\ "row" \in Holding(w)     => Wanted(w) \subseteq {"mu"}
           /\ "create" \in Holding(w)  => Wanted(w) \subseteq {"conn"}
           /\ "pending" \in Holding(w) => Wanted(w) \subseteq {"excl"}
           /\ "excl" \in Holding(w)    => Wanted(w) \subseteq {"mu", "conn"}
           /\ "dir" \in Holding(w)     => Wanted(w) \subseteq {"conn", "create", "mu", "row"}
           /\ kind[w] # "write" /\ "conn" \in Holding(w) => Wanted(w) = {}
<1>1. kind[w] \in Kinds \cup {"none"} /\ pos[w] \in Nat \ {0} /\ pos[w] < Len(Path(kind[w]))
  BY DEF LocksTypeOK, UnderWay
<1>2. Ranked(Path(kind[w]))
  BY <1>1, PathsRanked
<1>3. kind[w] # "write" => GivesBack(Path(kind[w]))
  BY <1>1, ConnectionsGivenBack
<1>4. Wanted(w) = Wants(Path(kind[w]), pos[w]) /\ Holding(w) = Path(kind[w])[pos[w]]
  BY DEF Wanted, Holding, Wants
<1>5. kind[w] # "write" /\ "conn" \in Holding(w) => Wanted(w) = {}
  BY <1>1, <1>3, <1>4 DEF GivesBack
<1> QED BY <1>1, <1>2, <1>4, <1>5 DEF Ranked

\* Of two or more resources in a circle one has the highest rank, and nobody
\* waits for that one; so there is no circle.
LEMMA NoCircle ==
    ASSUME LocksInv, MaxTransactions < Connections
    PROVE  NoCircularWait
<1> SUFFICES ASSUME NEW ws \in SUBSET Requests, ws # {}, WaitForEachOther(ws)
             PROVE  FALSE
  BY DEF NoCircularWait
<1> DEFINE Blocked(w, r) == r \in Wanted(w) /\ Withheld(w, r) # {} /\ Withheld(w, r) \subseteq ws
<1>1. \A w \in ws : \E r \in Resources : Blocked(w, r)
  BY EachWaits, RanksHeld DEF LocksInv, WaitForEachOther
<1>2. \A w \in ws : UnderWay(w) /\ w \in Requests
  BY DEF WaitForEachOther
<1>conn. ASSUME NEW w \in ws PROVE ~Blocked(w, "conn")
  <2> SUFFICES ASSUME Blocked(w, "conn") PROVE FALSE
    OBVIOUS
  <2>1. Holders("conn") \subseteq ws /\ ~(Cardinality(Holders("conn")) < Connections)
    BY DEF Withheld
  <2>2. ASSUME NEW v \in Holders("conn") PROVE v \in Transacting
    <3>1. v \in ws /\ "conn" \in Holding(v)
      BY <2>1 DEF Holders
    <3>2. Wanted(v) # {}
      BY <1>1, <3>1
    <3>3. kind[v] = "write"
      BY <1>2, <3>1, <3>2, RanksHeld DEF LocksInv
    <3> QED BY <1>2, <3>1, <3>3 DEF Transacting
  <2>3. IsFiniteSet(Transacting) /\ Holders("conn") \subseteq Transacting
    BY <2>2, RequestsAssumption, FS_Subset DEF Transacting
  <2>4. /\ Cardinality(Holders("conn")) <= Cardinality(Transacting)
        /\ Cardinality(Holders("conn")) \in Nat
        /\ Cardinality(Transacting) \in Nat
    BY <2>3, FS_Subset, FS_CardinalityType
  <2> QED BY <2>1, <2>4, PoolAssumption DEF LocksInv, TransactionsBounded
<1>mu. ASSUME NEW w \in ws PROVE ~Blocked(w, "mu")
  <2> SUFFICES ASSUME Blocked(w, "mu") PROVE FALSE
    OBVIOUS
  <2>1. PICK v \in ws : "mu" \in Holding(v)
    BY DEF Withheld, Holders
  <2>2. Wanted(v) \subseteq {"conn"}
    BY <1>2, <2>1, RanksHeld DEF LocksInv
  <2> QED BY <1>1, <1>conn, <2>2
<1>row. ASSUME NEW w \in ws PROVE ~Blocked(w, "row")
  <2> SUFFICES ASSUME Blocked(w, "row") PROVE FALSE
    OBVIOUS
  <2>1. PICK v \in ws : "row" \in Holding(v)
    BY DEF Withheld, Holders
  <2>2. Wanted(v) \subseteq {"mu"}
    BY <1>2, <2>1, RanksHeld DEF LocksInv
  <2> QED BY <1>1, <1>mu, <2>2
<1>create. ASSUME NEW w \in ws PROVE ~Blocked(w, "create")
  <2> SUFFICES ASSUME Blocked(w, "create") PROVE FALSE
    OBVIOUS
  <2>1. PICK v \in ws : "create" \in Holding(v)
    BY DEF Withheld, Holders
  <2>2. Wanted(v) \subseteq {"conn"}
    BY <1>2, <2>1, RanksHeld DEF LocksInv
  <2> QED BY <1>1, <1>conn, <2>2
<1>excl. ASSUME NEW w \in ws PROVE ~Blocked(w, "excl")
  <2> SUFFICES ASSUME Blocked(w, "excl") PROVE FALSE
    OBVIOUS
  <2>1. PICK v \in ws : "dir" \in Holding(v)
    BY DEF Withheld, Holders
  <2>2. Wanted(v) \subseteq {"conn", "create", "mu", "row"}
    BY <1>2, <2>1, RanksHeld DEF LocksInv
  <2> QED BY <1>1, <1>conn, <1>create, <1>mu, <1>row, <2>2
<1>dir. ASSUME NEW w \in ws, NEW r \in {"dir", "pending"} PROVE ~Blocked(w, r)
  <2> SUFFICES ASSUME Blocked(w, r) PROVE FALSE
    OBVIOUS
  <2>1. PICK v \in ws : "pending" \in Holding(v) \/ "excl" \in Holding(v)
    BY DEF Withheld, Holders
  <2>2. Wanted(v) \subseteq {"excl", "mu", "conn"}
    BY <1>2, <2>1, RanksHeld DEF LocksInv
  <2> QED BY <1>1, <1>conn, <1>excl, <1>mu, <2>2
<1> QED BY <1>1, <1>conn, <1>mu, <1>row, <1>create, <1>excl, <1>dir DEF Resources

\* While fewer transactions are under way than the pool has connections,
\* requests never come to wait for each other (server.go's directoryMu and
\* createMu, Manager.mu, the row locks and the pool).
THEOREM NoRequestsWaitForEachOther ==
    ASSUME MaxTransactions < Connections
    PROVE  LocksSpec => []NoCircularWait
<1>1. LocksInv => NoCircularWait
  BY NoCircle
<1> QED BY InitLocks, NextLocks, <1>1, PTL DEF LocksSpec
=============================================================================
