---------------------------- MODULE EventStreams ----------------------------
(***************************************************************************)
(* Server-sent events: the broker of internal/sse with its bounded         *)
(* channels, and the events handler of internal/handler that holds a slot  *)
(* of its session, subscribes, checks its authorization again for every    *)
(* event and heartbeat, and gives everything back when it ends.            *)
(*                                                                         *)
(* Mutations appear only as what they do to a stream: a commit decides the *)
(* revision and the organization of a map, and its event is published      *)
(* later, outside every lock (Server.publish).                             *)
(***************************************************************************)
EXTENDS Naturals, FiniteSets, Sequences

CONSTANTS
    Streams,      \* GET /events requests
    Topologies,   \* topology ids
    Orgs,         \* organization ids
    Gone,         \* the organization of a deleted topology
    Sessions,     \* session tokens
    NoEvent,      \* what a heartbeat carries
    TopoOf,       \* the topology each stream asks for
    SessionOf,    \* the session each stream belongs to
    AccessOf,     \* the organizations of each session; an account change ends it
    Buffer,       \* subscriberBuffer
    PerTopology,  \* maxTopologySubscribers
    PerBroker,    \* maxSubscribers
    PerSession,   \* maxSessionEventStreams
    MaxRev        \* bound: commits on one topology

ASSUME GoneAssumption == Gone \notin Orgs
ASSUME FiniteAssumption == IsFiniteSet(Streams)
ASSUME StreamsAssumption ==
    /\ TopoOf \in [Streams -> Topologies]
    /\ SessionOf \in [Streams -> Sessions]
    /\ AccessOf \in [Sessions -> SUBSET Orgs]
ASSUME BoundsAssumption ==
    /\ Buffer \in Nat \ {0} /\ PerTopology \in Nat /\ PerBroker \in Nat
    /\ PerSession \in Nat /\ MaxRev \in Nat

VARIABLES
    rev,          \* committed revision of each topology
    org,          \* its organization, or Gone
    unpublished,  \* events of commits whose handler has not called publish yet
    live,         \* the sessions that are signed in
    subscribers,  \* Broker.subscribers, of all topologies together
    total,        \* Broker.total
    isClosed,     \* Broker.isClosed
    queue,        \* the buffer of each stream's channel
    shut,         \* whether the channel has been closed
    panicked,     \* a channel was closed twice, or sent to after its close
    slots,        \* Server.sessionStreams
    holds,        \* whether the stream holds a slot of its session
    pc,           \* progress of each events handler
    got,          \* the event it took from its channel
    orgRead,      \* the organization its last check read
    granted       \* history: since the stream took that event, there was a moment at
                  \* which the map was in the event's organization and the session could read it

mapVars    == <<rev, org, unpublished>>
brokerVars == <<subscribers, total, isClosed, queue, shut, panicked>>
slotVars   == <<slots, holds>>
vars == <<mapVars, live, brokerVars, slotVars, pc, got, orgRead, granted>>

Events == [topo : Topologies, rev : Nat, org : Orgs]

Pcs == {"idle", "checked", "slotted", "open", "rechecking", "authorizing",
        "writing", "leaving", "cancelled", "ended"}

Init ==
    /\ rev = [t \in Topologies |-> 1]
    /\ org \in [Topologies -> Orgs]
    /\ unpublished = {}
    /\ live = Sessions
    /\ subscribers = {} /\ total = 0 /\ isClosed = FALSE
    /\ queue = [s \in Streams |-> <<>>]
    /\ shut = [s \in Streams |-> FALSE]
    /\ panicked = FALSE
    /\ slots = [c \in Sessions |-> 0]
    /\ holds = [s \in Streams |-> FALSE]
    /\ pc = [s \in Streams |-> "idle"]
    /\ got = [s \in Streams |-> NoEvent]
    /\ orgRead = [s \in Streams |-> Gone]
    /\ granted = [s \in Streams |-> FALSE]

SubscribersOf(t) == {s \in subscribers : TopoOf[s] = t}

Step(s, from, to) == pc[s] = from /\ pc' = [pc EXCEPT ![s] = to]

Authenticated(s) == SessionOf[s] \in live

MayRead(s, o) == Authenticated(s) /\ o \in AccessOf[SessionOf[s]]

\* History: an event may be written to the stream of a map that is in organization o.
Grants(s, event, o) == event.org = o /\ MayRead(s, o)

-----------------------------------------------------------------------------
(* The broker.                                                              *)

\* close(channel) panics on a closed channel.
CloseChannel(s) ==
    /\ shut' = [shut EXCEPT ![s] = TRUE]
    /\ panicked' = (panicked \/ shut[s])

HasRoom(s) ==
    total < PerBroker /\ Cardinality(SubscribersOf(TopoOf[s])) < PerTopology

\* TrySubscribe.  A closed broker hands out a closed channel and no error; the
\* handler then finds its stream at an end.
Subscribe(s) ==
    \/ /\ isClosed
       /\ Step(s, "slotted", "open")
       /\ CloseChannel(s)
       /\ UNCHANGED <<subscribers, total>>
    \/ /\ ~isClosed /\ ~HasRoom(s)
       /\ Step(s, "slotted", "leaving")
       /\ CloseChannel(s)
       /\ UNCHANGED <<subscribers, total>>
    \/ /\ ~isClosed /\ HasRoom(s)
       /\ Step(s, "slotted", "open")
       /\ subscribers' = subscribers \cup {s}
       /\ total' = total + 1
       /\ UNCHANGED <<shut, panicked>>

\* variant: the channel is closed whether or not it is still subscribed
StillSubscribedAnyway(s) == TRUE

StillSubscribed(s) == s \in subscribers

\* cancel: only a channel still subscribed is removed, counted and closed.
Cancel(s) ==
    IF StillSubscribed(s)
    THEN /\ subscribers' = subscribers \ {s}
         /\ total' = total - 1
         /\ CloseChannel(s)
    ELSE UNCHANGED <<subscribers, total, shut, panicked>>

\* PublishScoped: each subscriber of the topology with room gets the event, and a
\* full channel is skipped.
Publish(e) ==
    LET receivers == {s \in SubscribersOf(e.topo) : Len(queue[s]) < Buffer} IN
    /\ e \in unpublished
    /\ unpublished' = unpublished \ {e}
    /\ queue' = [s \in Streams |-> IF s \in receivers THEN Append(queue[s], e) ELSE queue[s]]
    /\ panicked' = (panicked \/ \E s \in receivers : shut[s])
    /\ UNCHANGED <<rev, org, live, subscribers, total, isClosed, shut, slotVars, pc, got, orgRead, granted>>

RemainingAfterClose == {}

\* Broker.Close, at shutdown.
Close ==
    /\ ~isClosed
    /\ isClosed' = TRUE
    /\ shut' = [s \in Streams |-> shut[s] \/ s \in subscribers]
    /\ panicked' = (panicked \/ \E s \in subscribers : shut[s])
    /\ subscribers' = RemainingAfterClose
    /\ total' = 0
    /\ UNCHANGED <<mapVars, live, queue, slotVars, pc, got, orgRead, granted>>

-----------------------------------------------------------------------------
(* The events handler.                                                      *)

\* getAuthorizedTopology.
Open(s) ==
    /\ Step(s, "idle", "checked")
    /\ org[TopoOf[s]] # Gone /\ MayRead(s, org[TopoOf[s]])
    /\ UNCHANGED <<mapVars, live, brokerVars, slotVars, got, orgRead, granted>>

\* acquireSessionStream.  A session that ended meanwhile has no slots to count;
\* the first check of the stream will end it.
Acquire(s) ==
    LET c == SessionOf[s] IN
    /\ \/ /\ Authenticated(s) /\ slots[c] < PerSession
          /\ Step(s, "checked", "slotted")
          /\ slots' = [slots EXCEPT ![c] = @ + 1]
          /\ holds' = [holds EXCEPT ![s] = TRUE]
       \/ /\ Authenticated(s) /\ slots[c] >= PerSession
          /\ Step(s, "checked", "ended")
          /\ UNCHANGED slotVars
       \/ /\ ~Authenticated(s)
          /\ Step(s, "checked", "slotted")
          /\ UNCHANGED slotVars
    /\ UNCHANGED <<mapVars, live, brokerVars, got, orgRead, granted>>

TrySubscribe(s) ==
    /\ Subscribe(s)
    /\ UNCHANGED <<mapVars, live, isClosed, queue, slotVars, got, orgRead, granted>>

\* The select statement: an event, ...
Receive(s) ==
    /\ queue[s] # <<>>
    /\ Step(s, "open", "rechecking")
    /\ got' = [got EXCEPT ![s] = Head(queue[s])]
    /\ queue' = [queue EXCEPT ![s] = Tail(@)]
    /\ granted' = [granted EXCEPT ![s] = Grants(s, Head(queue[s]), org[TopoOf[s]])]
    /\ UNCHANGED <<mapVars, live, subscribers, total, isClosed, shut, panicked, slotVars, orgRead>>

\* ... the end of the channel, after the events left in its buffer, ...
SeeClosed(s) ==
    /\ queue[s] = <<>> /\ shut[s]
    /\ Step(s, "open", "leaving")
    /\ UNCHANGED <<mapVars, live, brokerVars, slotVars, got, orgRead, granted>>

\* variant: a heartbeat is written without another check
HeartbeatUnchecked(s) == pc[s] = "open" /\ UNCHANGED vars

\* ... a heartbeat, ...
Heartbeat(s) ==
    /\ Step(s, "open", "rechecking")
    /\ got' = [got EXCEPT ![s] = NoEvent]
    /\ UNCHANGED <<mapVars, live, brokerVars, slotVars, orgRead, granted>>

\* ... or a client that went away, which a cancelled query or a failing write shows as well.
Disconnect(s) ==
    /\ \E from \in {"open", "rechecking", "writing"} : Step(s, from, "leaving")
    /\ UNCHANGED <<mapVars, live, brokerVars, slotVars, got, orgRead, granted>>

\* eventStreamAuthorized reads the organization of the map first ...
ReadOrganization(s) ==
    LET o == org[TopoOf[s]] IN
    /\ IF o = Gone THEN Step(s, "rechecking", "leaving") ELSE Step(s, "rechecking", "authorizing")
    /\ orgRead' = [orgRead EXCEPT ![s] = o]
    /\ UNCHANGED <<mapVars, live, brokerVars, slotVars, got, granted>>

\* variant: the organization of the event is not compared
BelongsAnyway(s) == TRUE

\* A heartbeat, or an event produced in the organization the check has just read.
Belongs(s) == got[s] # NoEvent => got[s].org = orgRead[s]

\* ... and then the account.  What belongs to the stream will be written, ...
Admit(s) ==
    /\ MayRead(s, orgRead[s]) /\ Belongs(s)
    /\ Step(s, "authorizing", "writing")
    /\ UNCHANGED <<mapVars, live, brokerVars, slotVars, got, orgRead, granted>>

\* ... an event of another organization is skipped.
Skip(s) ==
    /\ MayRead(s, orgRead[s]) /\ ~Belongs(s)
    /\ Step(s, "authorizing", "open")
    /\ UNCHANGED <<mapVars, live, brokerVars, slotVars, got, orgRead, granted>>

Refuse(s) ==
    /\ ~MayRead(s, orgRead[s])
    /\ Step(s, "authorizing", "leaving")
    /\ UNCHANGED <<mapVars, live, brokerVars, slotVars, got, orgRead, granted>>

\* The event or the heartbeat is written and flushed: nothing is checked any more.
Write(s) ==
    /\ Step(s, "writing", "open")
    /\ UNCHANGED <<mapVars, live, brokerVars, slotVars, got, orgRead, granted>>

\* The deferred calls, last first: cancel ...
Leave(s) ==
    /\ Step(s, "leaving", "cancelled")
    /\ Cancel(s)
    /\ UNCHANGED <<mapVars, live, isClosed, queue, slotVars, got, orgRead, granted>>

\* variant: the slot of a session is given back although none was taken
HeldAnyway(s) == slots[SessionOf[s]] > 0

Held(s) == holds[s]

\* ... and release.
ReleaseSlot(s) ==
    /\ Step(s, "cancelled", "ended")
    /\ slots' = IF Held(s) THEN [slots EXCEPT ![SessionOf[s]] = @ - 1] ELSE slots
    /\ holds' = [holds EXCEPT ![s] = FALSE]
    /\ UNCHANGED <<mapVars, live, brokerVars, got, orgRead, granted>>

-----------------------------------------------------------------------------
(* The rest of the server.                                                  *)

\* A mutation commits; a replacement may move the map.
Commit(t, o) ==
    /\ org[t] # Gone /\ rev[t] <= MaxRev
    /\ rev' = [rev EXCEPT ![t] = @ + 1]
    /\ org' = [org EXCEPT ![t] = o]
    /\ unpublished' = unpublished \cup {[topo |-> t, rev |-> rev[t] + 1, org |-> o]}
    /\ granted' = [s \in Streams |-> granted[s] \/ (TopoOf[s] = t /\ got[s] # NoEvent /\ Grants(s, got[s], o))]
    /\ UNCHANGED <<live, brokerVars, slotVars, pc, got, orgRead>>

\* deleteTopology publishes nothing.
Delete(t) ==
    /\ org[t] # Gone
    /\ org' = [org EXCEPT ![t] = Gone]
    /\ UNCHANGED <<rev, unpublished, live, brokerVars, slotVars, pc, got, orgRead, granted>>

\* Logout, an expired session, or a changed account: its sessions end.
EndSession(c) ==
    /\ c \in live
    /\ live' = live \ {c}
    /\ UNCHANGED <<mapVars, brokerVars, slotVars, pc, got, orgRead, granted>>

Handle(s) ==
    \/ Acquire(s) \/ TrySubscribe(s) \/ ReadOrganization(s)
    \/ Admit(s) \/ Skip(s) \/ Refuse(s) \/ Write(s) \/ Leave(s) \/ ReleaseSlot(s)

Next ==
    \/ \E s \in Streams :
          \/ Open(s) \/ Handle(s) \/ Receive(s) \/ SeeClosed(s) \/ Heartbeat(s) \/ Disconnect(s)
    \/ \E e \in unpublished : Publish(e)
    \/ \E t \in Topologies, o \in Orgs : Commit(t, o)
    \/ \E t \in Topologies : Delete(t)
    \/ \E c \in Sessions : EndSession(c)
    \/ Close

Spec == Init /\ [][Next]_vars

\* Handlers are scheduled, a write returns or fails, and heartbeats tick; the select
\* statement picks any ready case at random, so one that is ready again and
\* again is taken in the end.  Receive and SeeClosed are the two outcomes of one case.
StreamFairness ==
    \A s \in Streams :
        /\ WF_vars(Handle(s))
        /\ SF_vars(Heartbeat(s))
        /\ SF_vars(Receive(s) \/ SeeClosed(s))

FairSpec == Spec /\ StreamFairness

-----------------------------------------------------------------------------
(* Properties.                                                              *)

\* The types of the variables.
TypeOK ==
    /\ rev \in [Topologies -> Nat]
    /\ org \in [Topologies -> Orgs \cup {Gone}]
    /\ unpublished \subseteq Events
    /\ live \subseteq Sessions
    /\ subscribers \subseteq Streams
    /\ total \in Nat
    /\ isClosed \in BOOLEAN
    /\ queue \in [Streams -> Seq(Events)]
    /\ shut \in [Streams -> BOOLEAN]
    /\ panicked \in BOOLEAN
    /\ slots \in [Sessions -> Nat]
    /\ holds \in [Streams -> BOOLEAN]
    /\ pc \in [Streams -> Pcs]
    /\ got \in [Streams -> Events \cup {NoEvent}]
    /\ orgRead \in [Streams -> Orgs \cup {Gone}]
    /\ granted \in [Streams -> BOOLEAN]

\* No order of cancellation, shutdown and publication closes a channel twice
\* or sends to a closed one: in Go either would bring the process down.
NoPanic == ~panicked

\* Only open channels are subscribed, and a closed broker has none.
ChannelsOpen ==
    /\ \A s \in subscribers :
          ~shut[s] /\ pc[s] \in {"open", "rechecking", "authorizing", "writing", "leaving"}
    /\ isClosed => subscribers = {}
    /\ \A s \in Streams : pc[s] \in {"idle", "checked", "slotted"} => ~shut[s]

\* A slot is held between acquireSessionStream and release.
SlotsHeld ==
    \A s \in Streams : holds[s] => pc[s] \notin {"idle", "checked", "ended"}

\* The counters agree with what they count, so that no path through a handler
\* (refused, shut down, cut off, signed out half way) leaks or steals a slot.
CountsExact ==
    /\ total = Cardinality(subscribers)
    /\ \A c \in Sessions :
          slots[c] = Cardinality({s \in Streams : holds[s] /\ SessionOf[s] = c})

\* "maxTopologySubscribers and maxSubscribers bound open streams so one
\* principal cannot hold an unlimited number of connections".
WithinLimits ==
    /\ Cardinality(subscribers) <= PerBroker
    /\ \A t \in Topologies : Cardinality(SubscribersOf(t)) <= PerTopology
    /\ \A c \in Sessions : slots[c] <= PerSession
    /\ \A s \in Streams : Len(queue[s]) <= Buffer

\* The inductive invariant behind NoPanic, CountsExact and WithinLimits.
StreamsInv ==
    TypeOK /\ ChannelsOpen /\ SlotsHeld /\ NoPanic /\ CountsExact /\ WithinLimits

\* An event is written only if, at one moment after the stream took it from its
\* channel, the map was in the organization that the event was produced in and the
\* session was live and could read that organization: no event that waited in the
\* channel outlives the sign-out, the move or the deletion that came while it waited,
\* though the map moves away, and back, between the check and the write.  A move or a
\* sign-out between the check (eventStreamAuthorized) and the write does not stop it.
DeliveredToReadersOnly ==
    [][\A s \in Streams :
          pc[s] = "writing" /\ pc'[s] = "open" /\ got[s] # NoEvent => granted[s]]_vars

\* A stream ends once its session has, or its map is deleted, or the broker is
\* closed, although nothing is ever sent to it again.
StreamsEnd ==
    \A s \in Streams :
        (pc[s] = "open" /\ (isClosed \/ ~Authenticated(s) \/ org[TopoOf[s]] = Gone))
            ~> pc[s] = "ended"
=============================================================================
