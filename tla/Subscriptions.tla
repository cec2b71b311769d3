---------------------------- MODULE Subscriptions ----------------------------
(***************************************************************************)
(* eth_subscribe over WebSocket and the streaming calls over gRPC.  Both   *)
(* read from broadcast channels of the SubscriptionManager: a channel      *)
(* keeps its last Capacity events, and a receiver that falls further       *)
(* behind is told so and goes on with the oldest event still kept.         *)
(*                                                                         *)
(* The module has the channel of logs, whose streams also filter; the      *)
(* channels of heads, pending transactions and sync states differ from it  *)
(* only by having no filter.  The dev node publishes heads and nothing     *)
(* else, so that with it a log stream stays silent: what follows is what   *)
(* the manager promises whoever publishes.  A log is its address and its   *)
(* topics.                                                                 *)
(***************************************************************************)
EXTENDS LogFilter, FiniteSets

CONSTANTS JsonClients, GrpcClients,
          Logs,          \* logs that may be published: [address, topics]
          Filters,       \* filters that clients ask for: [addresses, topics]
          Capacity,      \* capacity of the channel, 256 in the code
          MaxPublished   \* bound on the number of published logs

Clients == JsonClients \cup GrpcClients

VARIABLES log,             \* everything published on the channel
          subscriptions,   \* the ids registered with the manager
          next_id,
          id,              \* id[c]: the id of a client's subscription, 0 for none
          phase,           \* idle, registered, accepted, streaming, ended
          open,            \* the client has not closed its side
          filter,
          next,            \* next[c]: the index of the next event of its receiver
          got,             \* got[c]: the indices of the logs sent to the client
          lagged,          \* lagged[c]: its receiver was told of missed events
          accepted,        \* accepted[c]: events published when the call returned
          first            \* first[c]: the first index its receiver waited for
vars == <<log, subscriptions, next_id, id, phase, open, filter, next, got, lagged, accepted, first>>

(***************************************************************************)
(* Filters.                                                                *)
(***************************************************************************)
\* subscribe_logs of gRPC.
GrpcFilter(f) == [addresses |-> Kept(f.addresses),
                  topics |-> [i \in DOMAIN f.topics |-> Kept(f.topics[i])]]

NoFilter == [addresses |-> {}, topics |-> <<>>]
Init ==
    /\ log = <<>> /\ subscriptions = {} /\ next_id = 1
    /\ id = [c \in Clients |-> 0]
    /\ phase = [c \in Clients |-> "idle"]
    /\ open = [c \in Clients |-> TRUE]
    /\ filter = [c \in Clients |-> NoFilter]
    /\ next = [c \in Clients |-> 0]
    /\ got = [c \in Clients |-> <<>>]
    /\ lagged = [c \in Clients |-> FALSE]
    /\ accepted = [c \in Clients |-> 0]
    /\ first = [c \in Clients |-> 0]

\* publish_log.  Its callers are the manager's users: in the repository the dev
\* node calls publish_new_head alone, from the task that indexes a block.
Publish(l) ==
    /\ Len(log) < MaxPublished
    /\ log' = Append(log, l)
    /\ UNCHANGED <<subscriptions, next_id, id, phase, open, filter, next, got, lagged, accepted, first>>

(***************************************************************************)
(* eth_subscribe: the handler registers the subscription, accepts the call *)
(* and leaves the streaming to a task, which subscribes to the channel     *)
(* when it first runs.                                                     *)
(***************************************************************************)
Register(c, f) ==
    /\ c \in JsonClients /\ phase[c] = "idle" /\ Parses(f)
    /\ id' = [id EXCEPT ![c] = next_id]
    /\ next_id' = next_id + 1
    /\ subscriptions' = subscriptions \cup {next_id}
    /\ filter' = [filter EXCEPT ![c] = f]
    /\ phase' = [phase EXCEPT ![c] = "registered"]
    /\ UNCHANGED <<log, open, next, got, lagged, accepted, first>>

\* A filter that does not parse is refused before anything is registered.
Refuse(c, f) ==
    /\ c \in JsonClients /\ phase[c] = "idle" /\ ~Parses(f)
    /\ phase' = [phase EXCEPT ![c] = "ended"]
    /\ UNCHANGED <<log, subscriptions, next_id, id, open, filter, next, got, lagged, accepted, first>>

\* pending.accept() fails when the connection is gone.
Accept(c) ==
    /\ phase[c] = "registered"
    /\ phase' = [phase EXCEPT ![c] = IF open[c] THEN "accepted" ELSE "ended"]
    /\ accepted' = [accepted EXCEPT ![c] = Len(log)]
    /\ UNCHANGED <<log, subscriptions, next_id, id, open, filter, next, got, lagged, first>>

Attach(c) ==
    /\ phase[c] = "accepted"
    /\ next' = [next EXCEPT ![c] = Len(log) + 1]
    /\ first' = [first EXCEPT ![c] = Len(log) + 1]
    /\ phase' = [phase EXCEPT ![c] = "streaming"]
    /\ UNCHANGED <<log, subscriptions, next_id, id, open, filter, got, lagged, accepted>>

(***************************************************************************)
(* subscribe_logs of the gRPC service: the receiver exists before the call *)
(* returns, and nothing is registered.                                     *)
(***************************************************************************)
SubscribeLogs(c, f) ==
    /\ c \in GrpcClients /\ phase[c] = "idle"
    /\ filter' = [filter EXCEPT ![c] = GrpcFilter(f)]
    /\ next' = [next EXCEPT ![c] = Len(log) + 1]
    /\ first' = [first EXCEPT ![c] = Len(log) + 1]
    /\ accepted' = [accepted EXCEPT ![c] = Len(log)]
    /\ phase' = [phase EXCEPT ![c] = "streaming"]
    /\ UNCHANGED <<log, subscriptions, next_id, id, open, got, lagged>>

(***************************************************************************)
(* Streaming.                                                              *)
(***************************************************************************)
Oldest == IF Len(log) > Capacity THEN Len(log) - Capacity + 1 ELSE 1

\* A receiver that is too far behind is moved to the oldest event kept.
MutantLag(c) ==
    /\ next[c] < Oldest
    /\ next' = [next EXCEPT ![c] = Oldest]
    /\ UNCHANGED <<lagged, got, phase>>
MutantLagStuck(c) ==
    /\ next[c] < Oldest
    /\ lagged' = [lagged EXCEPT ![c] = TRUE]
    /\ UNCHANGED <<next, got, phase>>
Lag(c) ==
    /\ next[c] < Oldest
    /\ next' = [next EXCEPT ![c] = Oldest]
    /\ lagged' = [lagged EXCEPT ![c] = TRUE]
    /\ UNCHANGED <<got, phase>>

Deliver(c) ==
    LET send == Matches(log[next[c]], filter[c]) IN
    /\ next[c] >= Oldest
    /\ next' = [next EXCEPT ![c] = @ + 1]
    /\ got' = IF send /\ open[c] THEN [got EXCEPT ![c] = Append(@, next[c])] ELSE got
    /\ phase' = IF send /\ ~open[c] THEN [phase EXCEPT ![c] = "ended"] ELSE phase
    /\ UNCHANGED lagged

Recv(c) ==
    /\ phase[c] = "streaming" /\ next[c] <= Len(log)
    /\ Lag(c) \/ Deliver(c)
    /\ UNCHANGED <<log, subscriptions, next_id, id, open, filter, accepted, first>>

\* The client goes away; its stream notices and ends.
Close(c) ==
    /\ open[c]
    /\ open' = [open EXCEPT ![c] = FALSE]
    /\ UNCHANGED <<log, subscriptions, next_id, id, phase, filter, next, got, lagged, accepted, first>>

Closed(c) ==
    /\ phase[c] = "streaming" /\ ~open[c]
    /\ phase' = [phase EXCEPT ![c] = "ended"]
    /\ UNCHANGED <<log, subscriptions, next_id, id, open, filter, next, got, lagged, accepted, first>>

Next ==
    \/ \E l \in Logs : Publish(l)
    \/ \E c \in Clients, f \in Filters : Register(c, f) \/ Refuse(c, f) \/ SubscribeLogs(c, f)
    \/ \E c \in Clients : Accept(c) \/ Attach(c) \/ Recv(c) \/ Close(c) \/ Closed(c)

Spec == Init /\ [][Next]_vars

\* Handlers and tasks that can run do run: they wait for nothing but each other.
Fairness == \A c \in Clients : WF_vars(Accept(c)) /\ WF_vars(Attach(c))
                                 /\ WF_vars(Recv(c)) /\ WF_vars(Closed(c))
-----------------------------------------------------------------------------
\* A client that was never told it lags has received every log its filter asks
\* for among those its receiver went past.
OnlyLagLoses ==
    \A c \in Clients :
        phase[c] = "streaming" /\ open[c] /\ ~lagged[c] =>
            \A i \in first[c]..next[c] - 1 :
                Matches(log[i], filter[c]) => \E n \in DOMAIN got[c] : got[c][n] = i

\* Logs reach a client in the order of their publication, each at most once,
\* lagging or not.
DeliveredInOrder == \A c \in Clients : \A m, n \in DOMAIN got[c] : m < n => got[c][m] < got[c][n]

\* No log reaches a client that was published before its call returned, or that
\* its filter does not ask for: with a topic asked for at a position, a log
\* without a topic there is left out.
OnlyAskedFor ==
    \A c \in Clients : \A n \in DOMAIN got[c] :
        LET l == log[got[c][n]] IN
        /\ got[c][n] > accepted[c]
        /\ \A S \in filter[c].addresses : \E s \in S : l.address = s
        /\ \A i \in DOMAIN filter[c].topics : \A S \in filter[c].topics[i] :
             \E s \in S : i <= Len(l.topics) /\ l.topics[i] = s

\* A client that keeps its connection is served to the end of what has been
\* published, however often it lags behind.
CatchesUp ==
    \A c \in Clients : phase[c] \in {"accepted", "streaming"} ~>
                         (next[c] = Len(log) + 1 \/ ~open[c])

\* No event that a client asked for is lost after its call has returned, unless
\* it fell behind ("subscribers that fall behind will miss messages").
NothingMissed ==
    \A c \in Clients :
        phase[c] = "streaming" /\ open[c] /\ ~lagged[c] =>
            \A i \in accepted[c] + 1..next[c] - 1 :
                Matches(log[i], filter[c]) => \E n \in DOMAIN got[c] : got[c][n] = i

\* The subscriptions the manager calls active are those of clients that are
\* being served or about to be.
ActiveAreServed ==
    \A i \in subscriptions : \E c \in JsonClients : id[c] = i /\ phase[c] # "ended"
=============================================================================
