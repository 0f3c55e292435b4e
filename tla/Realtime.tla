------------------------------ MODULE Realtime ------------------------------
(***************************************************************************)
(* The sockets of a duel: the lease that leaves one person one connection, *)
(* the session events that cross processes through Redis, and the queue of *)
(* a socket that reads slowly.                                             *)
(*                                                                         *)
(* A process is single-threaded; every command to Redis is a step of its   *)
(* own, and what the process does next happens when the reply is there.    *)
(* A client or the heartbeat may close a socket at any time.               *)
(***************************************************************************)
EXTENDS Integers, Sequences, FiniteSets, SequencesExt

CONSTANTS
    Processes,  \* API instances
    Conns,      \* connections of one person to one session, in the order they may come
    Listeners,  \* other people's sockets, with the process each is on: <<n, process>>
    Events,     \* events of one type published to the session
    MaxQueue,   \* WS_SLOW_CONSUMER_MAX_QUEUE
    TooSlow,    \* WS_SLOW_CONSUMER_DISCONNECT_THRESHOLD
    MaxPosts    \* bound: events for the slow socket

ASSUME RealtimeAssumption ==
    /\ IsFiniteSet(Conns) /\ Conns \subseteq Nat \ {0} /\ \A l \in Listeners : l[2] \in Processes
    /\ {MaxQueue, TooSlow, MaxPosts} \subseteq Nat

VARIABLES
    conn,      \* the connections
    local,     \* localSocketByConnectionKey of every process
    owner,     \* the lease in Redis
    snatched,  \* history: a lease found gone was taken from a newer connection
    feed,      \* per listener: whether its subscription is being made, made, or undone
    channel,   \* per process: subscriptions, the subscription Redis has, what is under way to it
    recent,    \* recentlyDispatched of every process
    got,       \* how often a process dispatched an event
    clash,     \* history: two events had one key, or a subscription crossed its undoing
    out        \* the slow socket: its queue, whether a flush is scheduled, what was sent

leaseVars == <<conn, local, owner, snatched>>
feedVars == <<feed, channel, recent, got, clash>>
rtVars == <<leaseVars, feedVars, out>>

Gone == 0
RtInit ==
    /\ conn = [c \in Conns |-> [pc |-> "new", refresh |-> "off", alive |-> FALSE,
                               rank |-> 0, endedBy |-> c]]
    /\ local = [p \in Processes |-> Gone] /\ owner = Gone /\ snatched = FALSE
    /\ feed = [l \in Listeners |-> "off"]
    /\ channel = [p \in Processes |-> [known |-> FALSE, live |-> FALSE, inbox |-> <<>>]]
    /\ recent = [p \in Processes |-> {}]
    /\ got = [p \in Processes |-> [e \in Events |-> 0]]
    /\ clash = FALSE
    /\ out = [open |-> TRUE, queue |-> <<>>, flushing |-> FALSE, sent |-> <<>>, posted |-> <<>>]

----------------------------------------------------------------------------
(* acquireConnectionLease, startLeaseRefresh, releaseConnectionLease. *)

\* The person's older socket on this process is closed at once.
Closed(c, by) == [conn EXCEPT ![c].alive = FALSE, ![c].endedBy = IF @ = c THEN by ELSE @,
                              ![c].pc = IF @ = "open" THEN "closing" ELSE @]

Arrive(c, p) ==
    /\ conn[c].pc = "new" /\ \A d \in Conns : d < c => conn[d].pc # "new"
    /\ conn' = [(IF local[p] = Gone THEN conn ELSE Closed(local[p], c))
                    EXCEPT ![c].pc = "claim", ![c].alive = TRUE]
    /\ local' = [local EXCEPT ![p] = c]
    /\ UNCHANGED <<owner, snatched>>

Claims == Cardinality({d \in Conns : conn[d].rank > 0})
Holds(c) == [conn EXCEPT ![c].pc = "greeting", ![c].refresh = "idle", ![c].rank = Claims + 1]

\* SET NX, or after a look at the owner an unconditional SET; when Redis fails, neither.
Claim(c) ==
    /\ conn[c].pc = "claim"
    /\ \/ owner = Gone /\ owner' = c /\ conn' = Holds(c)
       \/ owner # Gone /\ owner' = owner /\ conn' = [conn EXCEPT ![c].pc = "takeover"]
       \/ owner' = owner /\ conn' = [conn EXCEPT ![c].pc = "greeting"]
    /\ UNCHANGED <<local, snatched>>

TakeOver(c) ==
    /\ conn[c].pc = "takeover" /\ owner' = c /\ conn' = Holds(c)
    /\ UNCHANGED <<local, snatched>>

\* Subscribed and announced, the socket gets its handlers: one that closed before, or that
\* was refused here, is never released and its timer goes on.
Greeted(c) ==
    /\ conn[c].pc = "greeting"
    /\ \E welcome \in BOOLEAN :
           conn' = [conn EXCEPT ![c].alive = @ /\ welcome,
                                ![c].pc = IF conn[c].alive /\ welcome THEN "open" ELSE "left"]
    /\ UNCHANGED <<local, owner, snatched>>

Refresh(c) ==
    /\ conn[c].refresh = "idle" /\ owner # c
    /\ conn' = [conn EXCEPT ![c].refresh = "look"]
    /\ UNCHANGED <<local, owner, snatched>>

\* A mistake of the kind NewestKept excludes: a lease that is gone counts as taken.
NotMine(c) == owner # c
TakenByOther(c) == owner # Gone /\ owner # c

Ticking(c) == IF conn[c].pc = "closed" THEN "off" ELSE "idle"

Look(c) ==
    /\ conn[c].refresh = "look"
    /\ conn' = IF TakenByOther(c) THEN [Closed(c, owner) EXCEPT ![c].refresh = Ticking(c)]
               ELSE [conn EXCEPT ![c].refresh = "take"]
    /\ UNCHANGED <<local, owner, snatched>>

\* Whoever took the lease since, and even when this socket has closed since.
Take(c) ==
    /\ conn[c].refresh = "take"
    /\ owner' = c
    /\ snatched' = (snatched \/ \E d \in Conns : conn[d].rank > conn[c].rank)
    /\ conn' = [conn EXCEPT ![c].refresh = Ticking(c)]
    /\ UNCHANGED local

\* An outage makes the refreshes fail until the circuit opens and the timer is cleared.
StopRefreshing(c) ==
    /\ conn[c].refresh # "off"
    /\ conn' = [conn EXCEPT ![c].refresh = "off"]
    /\ UNCHANGED <<local, owner, snatched>>

LeaseExpires == owner # Gone /\ owner' = Gone /\ UNCHANGED <<conn, local, snatched>>

Hangs(c) ==
    /\ conn[c].alive /\ conn' = Closed(c, c)
    /\ UNCHANGED <<local, owner, snatched>>

\* A refresh under way is not stopped by clearing its timer.
Release(c) ==
    /\ conn[c].pc = "closing"
    /\ conn' = [conn EXCEPT ![c].pc = "closed", ![c].refresh = IF @ = "idle" THEN "off" ELSE @]
    /\ local' = [p \in Processes |-> IF local[p] = c THEN Gone ELSE local[p]]
    /\ owner' \in {owner, IF owner = c THEN Gone ELSE owner}
    /\ UNCHANGED snatched

LeaseSteps ==
    /\ \/ LeaseExpires
       \/ \E c \in Conns : \/ \E p \in Processes : Arrive(c, p)
                           \/ Claim(c) \/ TakeOver(c) \/ Greeted(c) \/ Refresh(c) \/ Look(c)
                           \/ Take(c) \/ StopRefreshing(c) \/ Hangs(c) \/ Release(c)
    /\ UNCHANGED <<feedVars, out>>

----------------------------------------------------------------------------
(* SessionManager: subscribe, publish, dispatchFromRedis. *)

On(p) == {l \in Listeners : l[2] = p /\ feed[l] \in {"subscribing", "on"}}

Subscribe(l) ==
    LET p == l[2] IN
    /\ feed[l] = "off"
    /\ feed' = [feed EXCEPT ![l] = IF channel[p].known THEN "on" ELSE "subscribing"]
    /\ channel' = [channel EXCEPT ![p].live = @ \/ ~channel[p].known]
    /\ clash' = (clash \/ \E x \in Listeners : x[2] = p /\ feed[x] = "leaving")
    /\ UNCHANGED <<recent, got>>

Subscribed(l) ==
    /\ feed[l] = "subscribing"
    /\ feed' = [feed EXCEPT ![l] = "on"]
    /\ channel' = [channel EXCEPT ![l[2]].known = TRUE]
    /\ UNCHANGED <<recent, got, clash>>

\* The last listener of a process tells Redis, and later forgets the subscription.
Unsubscribe(l) ==
    LET p == l[2]
        last == On(p) = {l} /\ channel[p].known
    IN /\ feed[l] = "on"
       /\ feed' = [feed EXCEPT ![l] = IF last THEN "leaving" ELSE "off"]
       /\ channel' = [channel EXCEPT ![p].live = @ /\ ~last]
       /\ UNCHANGED <<recent, got, clash>>

Unsubscribed(l) ==
    /\ feed[l] = "leaving"
    /\ feed' = [feed EXCEPT ![l] = "off"]
    /\ channel' = [channel EXCEPT ![l[2]].known = FALSE]
    /\ UNCHANGED <<recent, got, clash>>

Published(e) == \E p \in Processes : got[p][e] > 0

\* A mistake of the kind EventsArrive excludes: the key is not remembered.
RememberNothing(p, key) == recent
Remember(p, key) == [recent EXCEPT ![p] = @ \cup {key}]

\* Locally first; then to every process with a subscription, this one included.
Publish(p, e, ms) ==
    /\ ~Published(e) /\ \A f \in Events : f < e => Published(f)
    /\ got' = [got EXCEPT ![p][e] = 1]
    /\ recent' = Remember(p, ms)
    /\ \E reached \in BOOLEAN :
           channel' = [q \in Processes |-> IF reached /\ channel[q].live
                           THEN [channel[q] EXCEPT !.inbox = Append(@, [event |-> e, key |-> ms])]
                           ELSE channel[q]]
    /\ clash' = (clash \/ \E q \in Processes : \/ ms \in recent[q]
                                               \/ \E m \in Range(channel[q].inbox) : m.key = ms)
    /\ UNCHANGED feed

FromRedis(p) ==
    /\ channel[p].inbox # <<>>
    /\ LET m == Head(channel[p].inbox)
           mine == m.key \in recent[p]
       IN /\ recent' = [recent EXCEPT ![p] = @ \ {m.key}]
          /\ got' = IF mine THEN got ELSE [got EXCEPT ![p][m.event] = @ + 1]
    /\ channel' = [channel EXCEPT ![p].inbox = Tail(@)]
    /\ UNCHANGED <<feed, clash>>

\* Five seconds: later, an event that is still under way counts as another process's.
Forget(p, key) ==
    /\ key \in recent[p]
    /\ recent' = [recent EXCEPT ![p] = @ \ {key}]
    /\ clash' = (clash \/ \E m \in Range(channel[p].inbox) : m.key = key)
    /\ UNCHANGED <<feed, channel, got>>

FeedSteps ==
    /\ \/ \E l \in Listeners : Subscribe(l) \/ Subscribed(l) \/ Unsubscribe(l) \/ Unsubscribed(l)
       \/ \E p \in Processes : \/ FromRedis(p)
                               \/ \E e \in Events, ms \in 1..2 : Publish(p, e, ms)
                               \/ \E ms \in 1..2 : Forget(p, ms)
    /\ UNCHANGED <<leaseVars, out>>

----------------------------------------------------------------------------
(* enqueueOutbound, flushOutbound, clearSocketQueue. *)

Full(critical) == Len(out.queue) >= MaxQueue /\ ~critical

Post(critical) ==
    /\ out.open /\ Len(out.posted) < MaxPosts
    /\ LET event == <<Len(out.posted) + 1, critical>>
           told == [out EXCEPT !.posted = Append(@, event)]
       IN out' = IF Full(critical)
                 THEN [told EXCEPT !.open = Len(out.queue) < TooSlow]
                 ELSE [told EXCEPT !.queue = Append(@, event), !.flushing = TRUE]
    /\ UNCHANGED <<leaseVars, feedVars>>

\* The socket takes what its buffer has room for; with more waiting, another flush follows.
Flush ==
    /\ out.flushing /\ out.open
    /\ \E n \in 0..Len(out.queue) :
           out' = [out EXCEPT !.sent = @ \o SubSeq(out.queue, 1, n),
                              !.queue = SubSeq(@, n + 1, Len(@)),
                              !.flushing = n < Len(out.queue)]
    /\ UNCHANGED <<leaseVars, feedVars>>

CloseSlow ==
    /\ out' = [out EXCEPT !.open = FALSE, !.queue = <<>>, !.flushing = FALSE]
    /\ UNCHANGED <<leaseVars, feedVars>>

QueueSteps == (\E critical \in BOOLEAN : Post(critical)) \/ Flush \/ CloseSlow

RtSteps == LeaseSteps \/ FeedSteps \/ QueueSteps

RtSpec == RtInit /\ [][RtSteps]_rtVars

RtTypeOK ==
    /\ owner \in Conns \cup {Gone} /\ \A p \in Processes : local[p] \in Conns \cup {Gone}
    /\ \A c \in Conns : /\ conn[c].pc \in {"new", "claim", "takeover", "greeting", "open", "left",
                                          "closing", "closed"}
                        /\ conn[c].refresh \in {"off", "idle", "look", "take"}
    /\ \A l \in Listeners : feed[l] \in {"off", "subscribing", "on", "leaving"}

(***************************************************************************)
(* A connection is thrown out only for one that came, or claimed, after it *)
(* unless a refresh that found the lease gone took it back from a newer    *)
(* connection (startLeaseRefresh reads the owner and then sets it).        *)
(***************************************************************************)
NewestKept ==
    /\ RtTypeOK
    /\ ~snatched => \A c \in Conns :
           LET by == conn[c].endedBy
           IN by # c => by \in Conns /\ (by > c \/ conn[by].rank > conn[c].rank)

(***************************************************************************)
(* No process hands an event to its listeners twice, and a process with a  *)
(* settled listener has its subscription, unless two events of a type fell *)
(* on one millisecond, an echo took five seconds, or a subscription was    *)
(* asked for while the last one was being undone.  And a slow socket gets  *)
(* every critical event, in order, for as long as it is open: sent, or     *)
(* queued with a flush to come.                                            *)
(***************************************************************************)
DeliveredOnce ==
    ~clash => /\ \A p \in Processes, e \in Events : got[p][e] <= 1
              /\ \A l \in Listeners : feed[l] = "on" => channel[l[2]].live
NothingCriticalIsLost ==
    out.open =>
        /\ out.queue # <<>> => out.flushing
        /\ LET reached == out.sent \o out.queue IN
           /\ {x \in Range(out.posted) : x[2]} \subseteq Range(reached)
           /\ Range(reached) \subseteq Range(out.posted)
           /\ \A i, j \in DOMAIN reached : i < j => reached[i][1] < reached[j][1]
        /\ Cardinality({x \in Range(out.queue) : ~x[2]}) <= MaxQueue
EventsArrive == DeliveredOnce /\ NothingCriticalIsLost
============================================================================
