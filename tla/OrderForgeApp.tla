---------------------------- MODULE OrderForgeApp ----------------------------
(***************************************************************************)
(* The application around the books: one thread that takes events from an  *)
(* edge-triggered epoll (TCPReactor), accepts and reads connections        *)
(* (TCPConnectionHandler, TCPClientHandler), gives orders to their book    *)
(* and sends what the book reports to the connections of the feed.         *)
(*                                                                         *)
(* Its peers and the kernel go on between any two of its system calls.     *)
(* A handler is named by its connection.  Sockets are blocking.  External, *)
(* from how src/ uses it: epoll appends a file to its ready list at each   *)
(* arrival and when it is added ready, and looks at the files again when   *)
(* it hands them out; a receive queue keeps messages, then the end of the  *)
(* stream (FIN) or the error of a reset (RST).                             *)
(*                                                                         *)
(* A definition whose name ends in Slip is a plausible slip in the         *)
(* operator of that name, against which the properties are tried.          *)
(***************************************************************************)
EXTENDS Integers, SequencesExt

CONSTANTS
    Conns,       \* the connections that may be made
    Feeds,       \* the connection types, one listener each
    Effects,     \* the feeds a book may report to, in order, for one order
    Messages,    \* among "order", "unknown" (symbol) and "invalid"
    MayReset,    \* peers may reset connections
    Sizes,       \* the max_events_ and the file descriptors for connections
                 \* that a process may have; BOUND on the descriptors
    SendBuffer,  \* updates a connection's send buffer holds
    MaxMessages  \* BOUND: messages sent in a behaviour

ASSUME KindsAssumption == Messages \subseteq {"order", "unknown", "invalid"}
ASSUME EffectsAssumption == Effects \subseteq Seq(Feeds)
ASSUME SizesAssumption ==
    /\ Sizes \subseteq [events : Nat \ {0}, open : Nat \ {0}]
    /\ {SendBuffer, MaxMessages} \subseteq Nat \ {0}
    /\ MayReset \in BOOLEAN /\ Conns \cap Feeds = {} /\ IsFiniteSet(Feeds)

VARIABLES
    peer,        \* what the other end of a connection has done
    feed,        \* the listener it connected to
    backlog,     \* connections a listener has not accepted
    inbox,       \* the receive queue of a connection
    unread,      \* updates sent to the peer and not yet read by it
    messages,    \* messages sent
    size,        \* the sizes of this process
    ready,       \* epoll's ready list
    batch,       \* events_: what epoll_wait returned and is not handled
    alive,       \* client handlers that exist
    registered,  \* <<c, f>>: c's handler is in the set of feed f in event_handlers_
    calls,       \* the feeds the book has still to report to
    targets,     \* of registered, what the broadcast in progress has still to call
    published,   \* history: the feeds of the updates broadcast
    joined,      \* history: how many before the handler was registered
    sent,        \* history: the updates given to the connection
    state        \* "up", "exception" (uncaught) or "undefined" (behaviour)

peers == <<peer, feed, messages, size>>
sockets == <<backlog, inbox, unread>>
handlers == <<alive, registered>>
feeds == <<published, joined, sent>>
vars == <<peers, sockets, ready, batch, handlers, calls, targets, feeds, state>>

Handlers == Conns \cup Feeds
Events == [handler : Handlers, in : BOOLEAN]

TypeOK ==
    /\ peer \in [Conns -> {"new", "open", "closed", "reset"}]
    /\ feed \in [Conns -> Feeds]
    /\ backlog \in [Feeds -> Seq(Conns)]
    /\ inbox \in [Conns -> Seq(Messages \cup {"FIN", "RST"})]
    /\ unread \in [Conns -> 0 .. SendBuffer]
    /\ messages \in 0 .. MaxMessages
    /\ ready \in Seq(Handlers) /\ IsInjective(ready)
    /\ batch \in Seq(Events) /\ Len(batch) <= size.events
    /\ alive \subseteq Conns /\ registered \subseteq Conns \X Feeds
    /\ size \in Sizes /\ Cardinality(alive) <= size.open
    /\ calls \in Seq(Feeds) /\ targets \subseteq registered
    /\ published \in Seq(Feeds) /\ joined \in [Conns -> Nat]
    /\ sent \in [Conns -> Seq(Nat)]
    /\ state \in {"up", "exception", "undefined"}

Init ==
    /\ peer = [c \in Conns |-> "new"] /\ feed \in [Conns -> Feeds]
    /\ backlog = [l \in Feeds |-> <<>>] /\ inbox = [c \in Conns |-> <<>>]
    /\ unread = [c \in Conns |-> 0] /\ messages = 0
    /\ size \in Sizes
    /\ ready = <<>> /\ batch = <<>>
    /\ alive = {} /\ registered = {} /\ calls = <<>> /\ targets = {}
    /\ published = <<>> /\ joined = [c \in Conns |-> 0] /\ sent = [c \in Conns |-> <<>>]
    /\ state = "up"

-----------------------------------------------------------------------------
(* The kernel *)

\* What q has of S, in its order.
Only(q, S) ==
    LET kept[i \in 0 .. Len(q)] ==
            IF i = 0 THEN <<>>
            ELSE IF q[i] \in S THEN Append(kept[i - 1], q[i]) ELSE kept[i - 1]
    IN  kept[Len(q)]

Edge(h) == IF Contains(ready, h) THEN ready ELSE Append(ready, h)
ClientEdge(c) == IF c \in alive THEN Edge(c) ELSE ready

Readable(h) == IF h \in Feeds THEN backlog[h] # <<>> ELSE inbox[h] # <<>>
Writable(h) == h \in Conns /\ (peer[h] # "open" \/ unread[h] < SendBuffer)
Reports(h) == Readable(h) \/ Writable(h)

Connected(c) == peer[c] = "open" /\ (c \in alive \/ Contains(backlog[feed[c]], c))

-----------------------------------------------------------------------------
(* The peers: any time, whatever the thread is doing *)

Connect(c) ==
    /\ peer[c] = "new"
    /\ peer' = [peer EXCEPT ![c] = "open"]
    /\ backlog' = [backlog EXCEPT ![feed[c]] = Append(@, c)]
    /\ ready' = Edge(feed[c])
    /\ UNCHANGED <<feed, messages, size, inbox, unread>>

Arrives(c, m) == inbox' = [inbox EXCEPT ![c] = Append(@, m)] /\ ready' = ClientEdge(c)

SendMessage(c, m) ==
    /\ Connected(c) /\ messages < MaxMessages
    /\ messages' = messages + 1 /\ Arrives(c, m)
    /\ UNCHANGED <<peer, feed, size, backlog, unread>>

\* To close a connection with something unread in it is to reset it.
Close(c) ==
    /\ Connected(c) /\ unread[c] = 0
    /\ peer' = [peer EXCEPT ![c] = "closed"] /\ Arrives(c, "FIN")
    /\ UNCHANGED <<feed, messages, size, backlog, unread>>

Reset(c) ==
    /\ MayReset /\ Connected(c)
    /\ peer' = [peer EXCEPT ![c] = "reset"] /\ Arrives(c, "RST")
    /\ UNCHANGED <<feed, messages, size, backlog, unread>>

\* Room in a send buffer that was full is an edge, too.
Receive(c) ==
    /\ peer[c] = "open" /\ unread[c] > 0
    /\ unread' = [unread EXCEPT ![c] = @ - 1]
    /\ ready' = IF unread[c] = SendBuffer THEN ClientEdge(c) ELSE ready
    /\ UNCHANGED <<peers, backlog, inbox>>

Peers ==
    /\ state = "up"
    /\ \E c \in Conns :
        \/ Connect(c) \/ Close(c) \/ Reset(c) \/ Receive(c)
        \/ \E m \in Messages : SendMessage(c, m)
    /\ UNCHANGED <<batch, handlers, calls, targets, feeds, state>>

-----------------------------------------------------------------------------
(* TCPReactor *)

\* epoll_wait: at most max_events_, each once, with what it is ready for now.
TakenSlip(n) == n
Taken(n) == Min({size.events, n})
Reporting == Only(ready, {h \in Handlers : Reports(h)})

Idle == batch = <<>> /\ calls = <<>> /\ targets = {}

EpollWait ==
    /\ Idle /\ ready # <<>>
    /\ LET q == Reporting
           n == Taken(Len(q))
       IN  /\ batch' = [i \in 1 .. n |-> [handler |-> q[i], in |-> Readable(q[i])]]
           /\ ready' = SubSeq(q, n + 1, Len(q))
    /\ UNCHANGED <<peers, sockets, handlers, calls, targets, feeds, state>>

\* run goes through the batch; a handler acts on EPOLLIN only.
Handling == calls = <<>> /\ targets = {} /\ batch # <<>>
Now == Head(batch).handler
ActsSlip(e) == TRUE
Acts(e) == e.in
AfterEventSlip == <<>>
AfterEvent == Tail(batch)

HandleNothing ==
    /\ Handling /\ ~Acts(Head(batch)) /\ batch' = AfterEvent
    /\ UNCHANGED <<peers, sockets, ready, handlers, calls, targets, feeds, state>>

\* unregister_handler erases the handler from the set of its feed; closing
\* the descriptor takes it out of epoll.
UnregisteredSlip(c) == registered
Unregistered(c) == registered \ {<<c, feed[c]>>}
WithoutSlip(c) == ready
Without(c) == RemoveFirst(ready, c)

-----------------------------------------------------------------------------
(* TCPConnectionHandler and TCPClientHandler: handle_event *)

\* One accept an event; the new client is writable, so it is ready at once.
\* Its handler may be allocated where one was deleted that is still in a set:
\* then that entry has become its own.
Stray == {e \in registered : e[1] \notin alive}
Renamed(g, c) == {<<IF e[1] = g THEN c ELSE e[1], e[2]>> : e \in registered}
AddressTaken(c) == {registered} \cup {Renamed(e[1], c) : e \in Stray}

AcceptConnection(l) ==
    /\ Now = l /\ backlog[l] # <<>>
    /\ batch' = AfterEvent
    /\ \/ /\ Cardinality(alive) < size.open
          /\ LET c == Head(backlog[l]) IN
             /\ alive' = alive \cup {c}
             /\ \E r \in AddressTaken(c) : registered' = r \cup {<<c, l>>}
             /\ joined' = [joined EXCEPT ![c] = Len(published)]
             /\ ready' = Edge(c)
          /\ backlog' = [backlog EXCEPT ![l] = Tail(@)]
       \/ /\ Cardinality(alive) >= size.open     \* accept fails
          /\ UNCHANGED <<backlog, handlers, joined, ready>>
    /\ UNCHANGED <<peers, inbox, unread, calls, targets, published, sent, state>>

\* One read an event, which takes all the messages that have come.
Ended(c) == inbox[c] # <<>> /\ Last(inbox[c]) \in {"FIN", "RST"}
Chunk(c) == IF Ended(c) THEN Front(inbox[c]) ELSE inbox[c]
AfterChunk(c) == IF Ended(c) THEN <<Last(inbox[c])>> ELSE <<>>

\* parse_order takes one order.  Text that is none, or more than one, makes
\* json::parse throw, a wrong or missing field get_value.  A part of an
\* order is "invalid".
ThrowsSlip(chunk) == chunk # <<"order">>
Throws(chunk) == Len(chunk) > 1 \/ Contains(chunk, "invalid")

\* OrderForgeApp::handle_event: order_books_.find, then add_order.  The symbol
\* it looks for is a view into the JSON value parse_order has destroyed, which
\* may no longer say what it did: the order may go nowhere.
ReadMessages(c) ==
    /\ Now = c /\ Chunk(c) # <<>>
    /\ inbox' = [inbox EXCEPT ![c] = AfterChunk(c)]
    /\ \/ /\ Throws(Chunk(c))
          /\ state' = "exception" /\ UNCHANGED <<calls, batch>>
       \/ /\ ~Throws(Chunk(c))
          /\ \/ Chunk(c) = <<"order">> /\ calls' \in Effects
             \/ UNCHANGED calls
          /\ batch' = AfterEvent /\ UNCHANGED state
    /\ UNCHANGED <<peers, backlog, unread, ready, handlers, targets, feeds>>

Disconnect(c) ==
    /\ registered' = Unregistered(c) /\ alive' = alive \ {c} /\ ready' = Without(c)

\* read fails: the handler closes and deletes itself, and stays registered.
Fail(c) ==
    /\ alive' = alive \ {c} /\ ready' = Without(c) /\ UNCHANGED registered

\* What is left is the end of the stream, or an error.  The error is
\* reported once: after a send that failed, read finds the end.
ReadEnd(c) ==
    /\ Now = c /\ Chunk(c) = <<>> /\ inbox[c] # <<>>
    /\ inbox' = [inbox EXCEPT ![c] = <<>>] /\ batch' = AfterEvent
    /\ \/ Disconnect(c)
       \/ Head(inbox[c]) = "RST" /\ Fail(c)
    /\ UNCHANGED <<peers, backlog, unread, calls, targets, feeds, state>>

HandleEvent ==
    /\ Handling /\ Acts(Head(batch))
    /\ \/ \E l \in Feeds : AcceptConnection(l)
       \/ \E c \in Conns : ReadMessages(c) \/ ReadEnd(c)

-----------------------------------------------------------------------------
(* The book's callbacks: broadcast_all to the feed's connections *)

\* Every set is gone through and every handler asked for its feed.  What a
\* deleted one answers is what its memory holds.
TargetsSlip(f) == {registered}
Targets(f) ==
    {{e \in registered \ Stray : feed[e[1]] = f} \cup d : d \in SUBSET Stray}

Broadcast ==
    /\ targets = {} /\ calls # <<>>
    /\ targets' \in Targets(Head(calls))
    /\ published' = Append(published, Head(calls))
    /\ calls' = Tail(calls)
    /\ UNCHANGED <<peers, sockets, ready, batch, handlers, joined, sent, state>>

\* send blocks while the buffer is full.  What a peer that is gone is sent
\* is lost; it answers with a reset, which is an edge.
SendUpdate(e) ==
    LET c == e[1] IN
    /\ c \in alive
    /\ \/ /\ peer[c] = "open" /\ unread[c] < SendBuffer
          /\ unread' = [unread EXCEPT ![c] = @ + 1]
          /\ sent' = [sent EXCEPT ![c] = Append(@, Len(published))]
          /\ UNCHANGED ready
       \/ /\ peer[c] # "open"
          /\ ready' = Edge(c) /\ UNCHANGED <<unread, sent>>
    /\ targets' = targets \ {e}
    /\ UNCHANGED state

\* A call of a handler that was deleted: nothing is known from here on.
SendDangling(e) ==
    /\ e \in Stray
    /\ state' = "undefined" /\ UNCHANGED <<unread, sent, ready, targets>>

Send ==
    /\ \E e \in targets : SendUpdate(e) \/ SendDangling(e)
    /\ UNCHANGED <<peers, backlog, inbox, batch, handlers, calls, published, joined>>

Thread ==
    /\ state = "up"
    /\ EpollWait \/ HandleNothing \/ HandleEvent \/ Broadcast \/ Send

Next == Peers \/ Thread

\* Reactor::run loops for ever and epoll_wait does not wait.
Spec == Init /\ [][Next]_vars /\ WF_vars(Thread)

-----------------------------------------------------------------------------
(* Properties *)

\* The pointers in events_ are of handlers that exist, though handlers delete
\* themselves while the batch is gone through (TCPReactor::run).
BatchIsLive ==
    state = "up" => \A i \in DOMAIN batch : batch[i].handler \in alive \cup Feeds

\* No accept or read is made that would block the only thread, though what
\* epoll_wait saw may be long past when the handler acts on it.
NeverBlocks ==
    Handling /\ Acts(Head(batch)) /\ state = "up" => Readable(Now)

\* Every connection has been given the updates of its feed, and of no other,
\* since it was accepted, in order and each once (broadcast_all, the handlers
\* of OrderForgeApp); or each as often as its handler is in event_handlers_.
Due(c, n) == n > joined[c] /\ published[n] = feed[c]
Copies(c) == Cardinality({f \in Feeds : <<c, f>> \in registered})
Times(c, n) == Cardinality({i \in DOMAIN sent[c] : sent[c][i] = n})
InOrder(c) == \A i, j \in DOMAIN sent[c] : i < j => sent[c][i] <= sent[c][j]
FeedExact ==
    \A c \in alive : peer[c] = "open" /\ (\A f \in Feeds : <<c, f>> \notin targets) =>
        /\ InOrder(c) /\ \A i \in DOMAIN sent[c] : sent[c][i] \in DOMAIN published
        /\ \A n \in DOMAIN published : Times(c, n) = IF Due(c, n) THEN Copies(c) ELSE 0

\* event_handlers_ holds each handler that exists, once and in the set of its
\* feed.  Anything else it holds, a deleted handler or one in a set of another
\* feed, was left there by a connection of that feed that its peer reset.
DanglingOnlyAfterReset ==
    /\ \A c \in alive : <<c, feed[c]>> \in registered
    /\ \A e \in registered :
        \/ e[1] \in alive /\ e[2] = feed[e[1]]
        \/ \E c \in Conns : feed[c] = e[2] /\ peer[c] = "reset"

\* The peers that the one accept and the one read an event are enough for:
\* never two things waiting at a socket, and a descriptor for each of them.
OneAtATime ==
    /\ \A l \in Feeds : Len(backlog[l]) <= 1
    /\ \A c \in Conns : Len(inbox[c]) <= 1
    /\ Cardinality(alive) = size.open => \A l \in Feeds : backlog[l] = <<>>
Polite ==
    /\ OneAtATime
    /\ \A c \in Conns : peer[c] # "reset" /\ ~Contains(inbox[c], "invalid")

\* If the peers keep to that, and read what they are sent, every connection is
\* accepted and everything they send is read, the end of the stream included,
\* for as long as the process is up: no edge is lost.
AllReading == \A c \in Conns : []<>(peer[c] # "open" \/ unread[c] < SendBuffer)
EverythingHandled ==
    []OneAtATime /\ AllReading =>
        /\ \A c \in Conns : inbox[c] # <<>> ~> inbox[c] = <<>> \/ state # "up"
        /\ \A l \in Feeds : backlog[l] # <<>> ~> backlog[l] = <<>> \/ state # "up"

\* Nothing that polite peers do ends the process.
SurvivesPolitePeers == []Polite => []( state = "up" )

\* Clients that only send valid orders do not end the process, as the test
\* client of python/app_testing takes for granted when it writes two orders
\* one after the other on a connection.
SurvivesOrders == state = "up"

=============================================================================
