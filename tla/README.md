# OrderForge in TLA+

A verification project for the OrderForge matching engine: TLA+ modules that
model its parts from the C++ source, TLC configurations that check them on
small instances, and theorems about them that TLAPS checks for every value of
the constants. Paths below are relative to the repository, which `src/`
stands for. `PROJECT.json` has the list of components, runs, findings, hazards
and theorems, and says for every definition which lines it models.

Run TLC and the prover in this directory:

    tlc -config MCOrderBook_core.cfg MCOrderBook.tla
    tlapm OrderBookProofs.tla

## 1. The system

One process, one engine thread and one log thread.

| Part | State | Operations | Modelled in |
|---|---|---|---|
| `OrderBook`, `BookSide`, `OrderBookDataMap` | two maps price -> level, `orders_id_map_` | `add_order` (limit, market, fill and kill), `remove_order` | `OrderBook` |
| `PriceLevel` | FIFO of orders, `total_qty_`, nodes marked for removal | `add_order`, `remove_order`, `match_order`, `remove_marked_order_nodes` | `OrderBook` |
| `MatchingEngine` | order being matched, modified orders, trades, levels to purge | `match_order` of one pair | `OrderBook` |
| `HashLinkedList`, `PoolAllocator` | links, id map; free list of one pool for all lists | `push`, `pop`, `remove`, `remove_node`; `allocate`, `deallocate`, `expand_pool` | `HashedLinkedList` |
| `IdGenerator` | a counter seeded from the date of the first id | `generate_id` | `IdGenerator` |
| `Logger`, `RingBuffer`, log macros | blocks, their end marks, write and read positions, the function of each type, `run_` | `register_type`, `write_buffer` (engine thread), `read_buffer` (log thread), `stop` | `Logger` |
| `Reactor`, `TCPReactor`, `TCPConnectionHandler`, `TCPClientHandler` | epoll set, the batch of events, the handlers by type | `run`, `register_handler`, `unregister_handler`, `broadcast_all`, `handle_event`, `send_buffer` | `OrderForgeApp` |
| `OrderForgeApp` | the books by symbol | `handle_event` (parse, find the book, `add_order`), the update handlers | `OrderForgeApp` |
| JSON protocol | none | `parse_order`, `to_json_string` | `MessageProtocol`, `OrderEntry` |
| `ScaledInt` | an integer | conversions from and to double, `+=`, `-=` | `ScaledInt`, `OrderEntry` |
| configuration, protobuf, demo, benchmark, Python client | | | not modelled |

How they interact. A TCP client's bytes make `TCPReactor::run` call its
handler, which reads once and calls `OrderForgeApp::handle_event`; that parses
one order, finds the book by symbol and calls `add_order`. `add_order` calls
the four update handlers while it works, and each of them sends a JSON line to
every connection of its feed, before `add_order` goes on. Every engine function
logs: it copies a struct into the ring buffer, which the log thread formats.
All is single-threaded but the log thread.

What is hard, and what must be right:

- **A match is a long sequence.** One `add_order` visits levels, reduces two
  orders at a time, marks nodes, erases levels, reports, unlinks, publishes and
  rests the remainder. In between, subscribers run. Totals must be the sums of
  the orders, the book must not be crossed, no order with quantity may
  disappear, both feeds must end with what the book holds, priority must be
  price, then time.
- **Ids.** Clients may choose order ids; a level refuses a duplicate and the id
  map keeps the older entry. Entries outlive fills.
- **Pointers.** List nodes come from a pool shared by all levels; nodes and
  levels are removed while pointers to them are kept.
- **Two threads without a lock** share the ring buffer, whose two write
  positions and end marks are stored one by one.
- **Edge-triggered events on blocking sockets**, one `accept` or `read` for
  each; handlers that delete themselves; peers that coalesce messages, stop
  reading, close or reset.
- **Restarts**: the id generator starts again from the date.
- **Numbers.** A price is a double times 100, cut off; a level's total is a sum
  modulo 2^64, and a level whose total is zero is erased.
- **Memory that is not an object.** Log structs are written over the bytes of
  older ones, and one of them holds a `std::string`; the symbol of an order is a
  view into a JSON value that is gone.

`PROJECT.json` lists these hazards one by one, at the line where they bite.

## 2. Modules

### OrderBook (`order_book.cpp`, `book_side.h`, `order_book_data.h`, `price_level.cpp`, `matching_engine.cpp`)

`pc` is how far the call in progress has come: `idle`, `match` (the loop over
the levels), `level` (the loop over one level's FIFO), `publish` (the four loops
at the end of `match_order`), `rest`, `done` (the private update of the order
itself). Actions, in the order of the code: `LimitOrder`, `MarketOrder`,
`FillAndKillOrder`; `MatchLevel`, `MatchOrder`, `LevelDone`, `MatchDone`;
`ReportModified`, `RemoveMarkedNode`, `PublishTrade`, `PublishLevelUpdate`,
`MatchReturns`; `RestOrder`, `Return`; and `CancelResting`, `CancelStale`,
`CancelUnknown` for `remove_order`. The subscribers are three variables:
`mirror` applies each public level update, `reported` keeps the last private
update of each order, `executed` adds up its trades. They are what the feed
properties compare with the book. Data that no decision reads (timestamps,
accounts, client ids, symbols) is left out; a trade's private and public update
are one step. Prices and quantities are the scaled integers; that sums fit in
64 bits is assumed here, and left open in `OrderEntry`.

`MCOrderBook` builds the incoming orders from small sets. `PriceTimeBook` is
the abstract book: one queue per price and side, the order being worked on
(`taker`) and what it is to do next (`phase`); no levels, marks or feeds, and the
rules that matching takes from the best price's head and that an order queues
behind its equals. `OrderBookRefinement` maps a level to its queue (`Live`: its
FIFO from behind the orders that have nothing left and wait to be unlinked, which
come first) and states the implementation: the safety part is
`PriceTimePriority`, the liveness part `OrdersAreServed`. `OrderBookOwner` says
what `modified`, `trades`, `reported` and `executed` add up to in the middle of a
match. `OrderBookProofs`, `OrderBookFeedProofs`, `OrderBookOwnerProofs` and
`OrderBookRefinementProofs` have the theorems.

### HashedLinkedList (`hashed_linked_list.h`, `pool_allocator.h`)

Nodes are the slots of the pool with `id`, `left` and `right`; each list has its
`front`, `back` and `nodeMap`; the pool has `free`, `slots` and `poolSize`. One
action per call (`Push`, `RemoveId`, `Pop`), built from the private functions
(`PopFront`, `PopBack`, `PopMiddle`, `RemoveNode`). Calls are single-threaded
and call nobody, so each is one step. `allocate(n)` is called with the node's
size in *bytes* and makes sure of n free *slots*, so the pool grows while it
has free slots: `NodeBytes` keeps that. A freed slot is blanked, so that a stale
pointer to it is noticed. `queue` is what callers have pushed and not removed.
The invariants compare the links in both directions (`IterationIsQueue`,
`BackwardIsQueue`) and the map (`FindsItsNode`) with it, and account for every
slot of the pool (`SlotsConserved`). `HashedLinkedListProofs` proves them.

### IdGenerator (`id_generator.h`)

The generator is a static object: `Count` is its counter or, if no id was asked
for yet, the one its constructor would start from. `GenerateId`, `Midnight`,
`Restart`. `DailySpec` adds what the scheme needs of its environment: a process
that has generated ids is restarted on a later day than that of its first id,
and generates at most `COUNTER_SPACE` ids. The theorems about it are in `OrderEntryProofs`, with those of the engine that uses it.

### ScaledInt, MessageProtocol, OrderEntry (`scaled_int.h`, `message_protocol_json.h`, `message_protocol_write_json.h`, and the code an order's numbers pass)

`ScaledInt` and `MessageProtocol` are operators only. A double is a binary
fraction of `Precision` bits, and every operation on doubles rounds to the
nearest; `Scaled` multiplies and cuts off, `Descaled` divides. `MessageProtocol`
knows a text by its faults; `Checks` is the list of everything `parse_order`
looks at, in its order, each with what its failure comes to: an error and its
code, or an exception. The first that fails, the least index, decides
(`ParseOrder`). A text that is no JSON has no fields to be wrong
(`BrokenAssumption`).

`OrderEntry` puts them together with the generator: `HandleEvent` parses a text,
gives the order an id, converts its numbers, and rests it at a level (`Rest`) or
lets it take from the levels (`Take`) in the arithmetic of the machine; a level
whose total is zero after that is erased. The order's symbol is a view of memory
that was freed, so the book may not be found (`NotFound`). An error and an
exception both end the process (`Crash`); `StartAgain` starts another.
`LevelLine` is what the feed shows of a level; JSON prints a double so that it is
read back unchanged. The book is the smallest that has totals: buy orders rest,
sell orders are at market. What a level does to its list is one step here, and
many in `OrderBook`.

### Logger (`ring_buffer.h`, `logger.h`)

The writer (`GetWritePointer`, `StoreBlock`, `StoreOffset`, `CopyRecord`,
`ForwardWritePointer`, `Stop`, `Joined`) and the log thread (`CheckWrap`,
`LoadOffset`, `LoadBlock`, `GetReadPointer`, `Read`, `Empty`) take one step per
access to shared state. Stores become visible in program order, as on x86-64;
the relaxed atomics promise less. Records are of two kinds, texts (a
`std::string` in the ring) and structs of plain data. A kind is registered before
the engine writes it (`RegisterCommonTypes` at start-up, `RegisterBookTypes` in a
book's constructor); the log thread dies of a record whose kind is not. A text
is assigned to what was in the memory before (`Assignable`): a fresh page, which
is as good as an empty string, another text at the same place, or bytes of
something else, and then the process is `undefined`. `Spec` has every interleaving. `CalmSpec` is
the environment the ring buffer needs to work at all: the log thread takes no
step while the writer is between the stores of a block switch, and the writer is
never a block ahead of it (`CalmWrite`).

### OrderForgeApp (`tcp_reactor.cpp`, `tcp_connection_handler.cpp`, `tcp_client_handler.cpp`, `order_forge_app.cpp`, `message_protocol_json.h`)

The thread takes one step per system call or callback: `EpollWait` takes what
has something to report (`Reporting`) from epoll's list, as many as `events_`
holds (`Taken`), into `batch`, `HandleEvent` looks at its head (`AcceptConnection`, `ReadMessages`,
`ReadEnd`), `Broadcast` computes a feed's targets, `Send` gives one update to
one of them. The peers (`Connect`, `SendMessage`, `Close`, `Reset`, `Receive`)
move in between. epoll, TCP and the socket buffers are external and modelled
from how the code uses them: an edge for every arrival, a mask taken when
`epoll_wait` returns, FIN and RST behind the data, sends that block when the
buffer is full and fail when the peer is gone. A message is an order for a book,
one for an unknown symbol, or text `parse_order` refuses. An order for a book may
not find it, its symbol being a view of freed memory. What one `read`
returns is all that has come: two orders are one text that does not parse.
`state` becomes `exception` when an exception leaves `handle_event`, and
`undefined` when a deleted handler is called; the model claims nothing after
that. `registered` says which handler is in which feed's set: a handler that is
deleted after a failed `read` stays there, and may or may not be called by a
broadcast (what its memory says is anybody's), until a new handler is allocated at
its address and is in two sets. The feeds a book reports to for an order are a parameter (`Effects`);
`OrderBook` has them in full.

### Slips

A definition `XSlip` next to `X` is a plausible slip in `X`: an off-by-one, a
dropped guard, a missing reset. No specification uses it. Putting it in the place
of `X` must make TLC refute the property `PROJECT.json` pairs it with, which
shows that the property looks at the code.

## 3. Runs

| Run | Configuration | Shows | Bounds |
|---|---|---|---|
| `book_core` | `MCOrderBook_core` | totals, no crossed book, exact public and private feeds, cancellability, reports before trades, no order lost, the book implements `PriceTimeBook`, every order is worked on until it has left or rests, and the invariants of the refinement proof hold (`PromiseInv`) | 4 orders, 2 prices, 2 quantities, all sides and types, removals of any id between calls |
| `book_reuse` | `MCOrderBook_reuse` | the inductive invariants of the book and its public feed (`IInv`, `FeedInv`), no order lost, every call returns, with ids chosen and reused by clients, zero quantities, orders marked FILLED | 3 orders |
| `book_limit` | `MCOrderBook_limit` | **violation**: a limit order trades beyond its limit | 3 orders |
| `list_pool` | `MCHashedLinkedList` | iteration both ways, the map, no slot lost or used twice | 2 lists, 4 ids, pool growing from 1 to 7 slots |
| `order_entry` | `MCOrderEntry` | a text's first fault decides and errors name it; prices lose a tick at most, keep their order and come back from the feed at most a tick lower; totals are exact whenever they can be; nothing leaves the book but by trades while sums fit; ids are not issued again by later days' processes | 3 prices, 3 quantities (one negative), every text with one fault or two, doubles of 8 bits, quantities of 5, 2 days, space of 3, 4 ids |
| `id_restart` | `IdGenerator_restart` | **violation**: a restart on the same day issues ids again | |
| `log_calm` | `Logger_calm` | records are read whole, once, in order; every one is formatted; stop returns | 2 blocks of 5, records of 2 and 3, 10 records: around the ring more than twice |
| `log_switch` | `Logger_switch` | **violation**: `can_read` answers yes with nothing to read, during a block switch | 3 records |
| `log_stop` | `Logger_stop` | **violation**: a record written just before `stop` is lost | 3 records |
| `log_reuse` | `Logger_reuse` | **violation**: a text is assigned to the bytes of another record | 5 records |
| `app_loop` | `MCOrderForgeApp_loop` | event pointers stay valid, accept and read never block, feeds are exact (twice exact for a handler in two sets), a handler dangles only after a reset, polite peers are served and end nothing | 2 peers, 2 feeds, 2 messages of 3 kinds, 2 events a batch and 2 descriptors or 1 of each, send buffers of 1 |
| `app_orders` | `MCOrderForgeApp_orders` | **violation**: two orders in one read end the process | 2 peers, valid orders only |

Why the bounds are enough. A match relates an order with at most a level in
progress, one before it and one after it; two prices with four orders give a
filled, a partly filled and an untouched order in one level and a level beside
it, and a sweep of both. Every removal case of a
list (front, back, middle, only node) needs three nodes; the fourth id makes a
slot used again while three are in use. The ring is passed more than once, with
records that fit exactly and that do not. With 8 bits 0.29 becomes 28 ticks, as
with the 53 bits of a real double, and 28 ticks, shown as 0.28, come back as 27,
as 1.15 comes back as 1.14 with 53; with 5 bits two orders add up to nothing, and -1 becomes 31. The id space of a
day is used up within the ids of the run, so that the next day's begins at once. Two peers are enough for one that goes
while the other's order is broadcast to it, for more ready
handlers than a batch holds, for a backlog of two and for running out of
descriptors. The one bound on a counter in each
guard is marked `BOUND` where the constant is declared.

Fairness. `OrderBook`: weak fairness of the engine's steps; a call in progress
is the only thing its thread does. `Logger`: of each thread, which the operating
system runs; `stop` itself need not be called. `OrderForgeApp`: of the engine
thread, which loops for ever and never waits in `epoll_wait`; *not* of the
peers. What must be asked of them for liveness is in the property
(`EverythingHandled`): that they read what they are sent, and that never two
things wait at a socket. `PriceTimeBook`'s fairness is implied, not assumed:
`OrdersAreServed` is a property TLC checks of `OrderBook`.

Deadlock is checked for the book and the lists. It is switched off where
behaviours end: all ids generated, both threads stopped, the process gone.

## 4. What the violations show

- `book_limit`: `BookSide::match_order` compares no price. A limit or fill and
  kill order that crosses the best level goes through all of them while it has
  quantity left. `MatchingEngine` stores the price and never reads it.
- `id_restart`: order and trade ids are unique only as long as the process is
  not started twice on a day.
- `log_switch`: a block switch is three separate stores; the log thread in the
  middle of them takes old or foreign bytes for a record.
- `log_stop`: the log thread looks at `run_` after it found the buffer empty, and
  does not look again.
- `log_reuse`: the ring's memory is taken for a constructed `FormatStringLog`. That
  is harmless the first time round, when the pages are fresh, and wherever only
  texts are logged; with orders in between, the first text that lands on an
  order's bytes assigns through a pointer made of them.
- `app_orders`: messages are not framed. `python/app_testing/main.py` writes two
  orders one after the other; if they arrive before one `read`, `json::parse`
  throws and nothing catches it.

Two divergences have no run of their own. `readme.md` says that the scaled
integer is "maintaining accuracy in computations"; `NumbersFaithful` says how far:
one conversion loses a tick for about one price in twenty, and a price that is
echoed again and again goes down each time (1.16, 1.15, 1.14, 1.13, 1.12).
`to_json_string` of a last trade has the key `"symbol:"` where the others have
`"symbol"`.

The passing runs state their limits as properties too: after a reset by its peer
a deleted handler stays registered, and the next handler to get its memory may be
sent everything twice (`DanglingOnlyAfterReset`, `FeedExact`), and a second
connection waiting at a listener is not accepted until a third one comes (the
premise of `EverythingHandled`).

## 5. Proofs

All theorems hold for every value of the constants that the named assumptions
of the modules allow.

### The book

`OrderBookProofs`: `Invariant` (`Spec => []IInv`), `TypeCorrect`,
`LevelTotalsCorrect`, `NeverCrossed`. `OrderBookFeedProofs`: `FeedInvariant`,
`PublicFeedCorrect`, `NoOrderLostCorrect`. They assume of `OrderBook` that
prices are integers, that incoming orders are typed and come with all their
quantity left, that ids are positive, and that `None` is none of the values it
stands beside; nothing of the ids clients choose, of zero quantities or of the
status an order arrives with.

Neither totals nor prices are inductive alone. That a level is not left behind
with quantity when the walk ends is a matter of what the walk knows:
`WalkLeavesNothing` says that while the order has quantity left, every level it
has been through is empty and will be erased, and `ScanLeavesNothing` the same of
the orders it has been through in the level it is in. So when the walk ends with
quantity left the opposite side is empty (`RestDoesNotCross`), and resting cannot
cross. Unlinking by pointer keeps the totals because what is marked has nothing
left (`MarksAreFilled`) and a level holds an id once (`UniqueIds`). A level's sum
is stated with a witness, the function of its running totals (`RunningTotals`,
`Tally`), since the prover cannot do induction over a recursive sum; the lemmas
of the module say what appending, removing and reducing do to such a witness.

For the public feed, `FeedInv` says what the updates still to be published
repair: every price the feed is wrong about is owed an update or is being walked
(`FeedFollows`), and what is owed says what the book holds (`UpdatesHold`). That
no order is lost is a fact about each step from `IInv`: a level is erased only
when its total, the sum, is zero, and only filled nodes are unlinked.

`OrderBookOwnerProofs`: `CancellableCorrect`, `PrivateFeedCorrect`,
`FillsReportedFirst`, and `OrderBookRefinementProofs`: `PromiseInvariant`,
`PriceTimePriorityCorrect`, are proved under `FreshOrders`: clients leave the id
to the engine and send open orders of positive quantity, as in run `book_core`.
That is no convenience: an id that is in use already is refused by its level and
recorded and reported all the same, so that without it orders are in the book
that cannot be cancelled, or whose owner was told something else (the hazards in
`PROJECT.json` say where).

`OwnerInv` is what connects the book with the reports in the middle of a match:
every order is where its map entry says (`OrdersRestWell`), each changed order is
in `modified` once and each trade's passive order in `trades` once
(`WalkIsNoted`), what was announced and what is still to be announced add up to
what the order has lost (`OwnersAreTold`, `TakerIsTold`), and an update comes before the
trade it is behind (`TradesAreBacked`).

`PriceTimePriorityCorrect` is the refinement: initial states map to initial
states and every step of `OrderBook` to a step of `PriceTimeBook` or none.
`MatchOrder` is `Take`, and for that the order at the walk's position must be the
head of the queue (`FilledComeFirst`: what is filled comes first) and the level
the best with an offer (`WalkIsBestFirst`, and `LevelsOffer`: a level's total says
whether it has one). `MatchDone` and what follows it stutter until
`MatchReturns`, which is `Settle`; unlinking a filled order is invisible.

### The lists

`HashedLinkedListProofs`: `ListInvariant` and from it `ListTypes`,
`IterationCorrect`, `BackwardCorrect`, `MapCorrect`, `PoolCorrect`, for any
number of lists on one pool, any ids and any sizes of node and block. `ListInv`
is the conjunction of the run's five invariants: together they are inductive,
alone none is. What the private functions do is said once: taking a
node out of the middle, off an end or as the only one (`Unlinked`), putting one
at the back (`Pushed`), and taking a slot from a pool that may have to grow
(`AllocateFacts`).

### The ring buffer

`LoggerProofs`: `LogInvariant` and from it `LoggerTypes`, `RecordsInOrder` and
`CanReadCorrect`, for `CalmSpec`, any number and size of blocks, and any
interleaving that `CalmSpec` has. `LogInv` is a picture of the ring: the records
that were written and not read lie one behind another (`Laid`, with a witness for
where each ends), from the reader's place to the writer's in the block both are
in (`Together`), or up to the end mark of the reader's block and on in the
writer's (`Behind`). Without the calm block switch the theorems are false, as
`log_switch` shows.

### Ids, numbers and texts

`OrderEntryProofs`: `DailyInvariant` and `DailyIdsUnique` for `DailySpec` of the
generator, any days and any counter space, from `IdInv`: issued ids grow, up to
the counter, the counter stays in the space of the day of its process's first id
(`InDay`), and that day is over before another process constructs its generator
(`DayOver`). `EntryImplementsDaily` (`EntrySpec => DailySpec`: every step of the
engine is one of the generator or leaves it alone, the crash included), and from
it `EntryIdInvariant` and `EntryIdsUnique`.

`RefusalsCorrect` is about the order of `parse_order`'s checks: every fault a text
can have is checked for (`FaultsAreChecked`), a field it lacks before anything
that could throw (`ChecksFacts`), every check that fails with an error names the
field it is about (`Rows`), and so the first that fails, the least index (`Least`),
refuses the text as it should, whatever set of faults it has.

`BookInvariant`, and from it `EntryTypes`, `TotalsCorrect` and `OnlyTradesCorrect`,
are about the book's numbers in the arithmetic of the machine. A level's total is
not the sum of what its orders have left: it differs from it by a multiple of
2^Width (`Congruent`), and that is what resting (`RestLevel`) and matching (`MatchLevel`) keep, wrapping or not. Two numbers of
Width bits that differ by a multiple of 2^Width are equal (`Fits`): so a total is
exact when the sum fits, and a level that is erased, its total being zero, held
nothing. What a taker takes away in all is then the sum of its trades
(`TakeTrades`, level by level). Sums are `SumFunctionOnSet` of the community
modules; its recursion is unfolded once (`SumUnfold`), and that a sum is a number,
that any element can be taken out of it, that sums add, and that zeros can be left
out (`SumFacts`, `SumAdds`, `SumLess`) are each proved by a least counterexample.

`NumbersCorrect` is about the two roundings of a conversion. A number that leaves
the significand a bit to spare has, in a double, a last bit worth less than one over the
scale (`DoubleFacts`, `BackFacts`); multiplying back and rounding again is off by less
than one in all (`Halves`), so that cutting off gives the number or the one below.
That prices keep their order follows from this alone: two prices that differ come
to levels that are the same or in their order. `NumbersInv` carries it through
resting and matching.

Assumed are powers of two (`NumbersAssumption`, `ExponentsAssumption`: that 2^k is
a positive number and grows with k, since the prover knows nothing of `^`), that a
scale is at most 2^(Precision + 1), and of clients that their numbers are below
2^(Precision - 1), 2^52 for the code's doubles, and their quantities not zero once
converted (`RangeAssumption`). Beyond 2^53 doubles skip numbers, and nothing
is claimed.

### The event loop

`OrderForgeAppProofs`: `AppInvariant` and from it `AppTypes`, `BatchCorrect`,
`NeverBlocksCorrect`, `DanglingCorrect`, `FeedsCorrect` and `PoliteSurvive`, for any
number of peers, feeds, messages, descriptors and events of a batch. `AppInv` adds to the run's invariants
where connections wait (`Placed`), that a reset in an inbox is one of the peer
(`Explained`), that epoll's list holds live handlers (`ReadyIsLive`), and that the
batch holds each handler once, with something to read if `epoll_wait` said so
(`Batched`): it is being there once that makes it safe for a handler to delete
itself. `Only` is a recursive function; what it keeps of a queue is proved by
least counterexample (`Least`, `KeptExists`, `OnlyFacts`).

`FeedsCorrect` needs `FeedInv` beside it: for every connection and update, what it
was given and what the broadcast in progress is still to give it (`Pending`) are
together what is due: as many copies as `event_handlers_` holds of it if the
update was published on its feed since it was accepted, none otherwise (`Given`).
Only the last update is being sent (`Sending`), and a handler is given nothing
before it is accepted (`Newcomers`); so when nothing is pending the feed is exact.
It assumes that there are finitely many feeds.

`PoliteSurvive` is no liveness: while all peers are polite an inbox holds at most
one valid order, so no read gets two of them or part of one, and no deleted handler
is registered, so that no step leaves `state = "up"`.

### Only model-checked

- Liveness, out of the prover's reach: `OrdersAreServed`, `Returns`,
  `EveryRecordFormatted`, `StopReturns`, `EverythingHandled`.
- The runs that show violations.

## 6. Plan

Done, in this order: `OrderBook`, `MCOrderBook`, `OrderBookProofs`;
`PriceTimeBook`, `OrderBookRefinement`; `Logger`; `HashedLinkedList`;
`IdGenerator` and its proof; `OrderForgeApp`; `ScaledInt`, `MessageProtocol`,
`OrderEntry`; the kinds of records and their registration in `Logger`; the proofs
of the feeds, of the refinement, of the lists, of the ring buffer, of the event
loop and its feeds, of the refusals, of the totals modulo 2^Width and of the
conversions.

To model next:

1. A composition of `OrderBook` and `OrderForgeApp`, with the callbacks of the
   one as the `Effects` of the other.
2. The end of the process: static objects destroyed after `main`'s, with records
   of theirs unread.

To prove next: what the passing runs check is liveness or has its theorem. Left are
theorems of the composition, once there is one, and what can be kept of
`OrderBookOwnerProofs` when clients choose ids that no level refuses.

## 7. Not modelled

Configuration (read once at start-up), formatting and the log level, the
protobuf schema (only its build file is there), demo, benchmark and Python
client (drivers), `Reactor::stop`, the reactor's destructor, `broadcast_all` to
everyone and `BookSide::remove_orders` (called by nobody), allocation failure,
weak memory orders, what is destroyed in which order at exit, the operators of
`ScaledInt` that only tests use.
