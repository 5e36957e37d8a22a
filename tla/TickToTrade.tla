------------------------------ MODULE TickToTrade ------------------------------
(***************************************************************************)
(* The capstone pipeline: the exchange simulator publishes market events   *)
(* into shm_feed.hpp's ring, which is the ring of ShmIpcBus with events    *)
(* for messages, and the trading engine applies each event it consumes to  *)
(* its own L2 book and computes the mid price from it.                     *)
(***************************************************************************)
EXTENDS ShmIpcBus, L2OrderBook

\* Msgs are MarketEvents: a side, a price and a quantity, 0 to remove the level.
ASSUME EventAssumption == Msgs \subseteq [side : Sides, price : Int, qty : Nat]

VARIABLES book,   \* the trading engine's book
          signal, \* the mid price it computed last, doubled
          seen    \* the events this engine has applied
vars == <<shmVars, book, signal, seen>>
engine == <<book, signal, seen>>

TInit == Init /\ book = EmptyBook /\ signal = 0 /\ seen = <<>>

FeedCreate == Create /\ UNCHANGED engine
FeedDestroy == (Destroy \/ ProducerDies) /\ UNCHANGED engine
FeedPublish == Publish /\ UNCHANGED engine

FeedAttach == Attach /\ UNCHANGED engine

\* The engine's book goes with its process: the next one starts empty.
EngineDies == ConsumerDies /\ book' = EmptyBook /\ signal' = 0 /\ seen' = <<>>

\* A consume() that has not returned a message yet.
FeedPoll == (ConsumeLoadR \/ ConsumeLoadW \/ ConsumeCopy) /\ UNCHANGED engine

\* What a slot's bytes are as an event: zeros are an ask of quantity 0 (their side
\* is not BUY), a slot caught in the middle of a write is any event.
NoEvent == [side |-> "sell", price |-> 0, qty |-> 0]
EventsIn(slot) == CASE slot = Zeroed -> {NoEvent}
                    [] slot = Torn -> Msgs \cup {NoEvent}
                    [] OTHER -> {slot}

\* consume() returns an event, whatever its type: update_level, then mid_price.
FeedConsume ==
  /\ ConsumeStore
  /\ \E e \in EventsIn(consumer.out) :
       /\ book' = update_level(book, e.side, e.price, e.qty)
       /\ signal' = mid_price2(book')
       /\ seen' = Append(seen, e)

Next ==
  \/ FeedCreate \/ FeedDestroy \/ FeedPublish
  \/ FeedAttach \/ EngineDies \/ FeedPoll \/ FeedConsume

\* Both processes poll; nothing else has to happen.
Fairness == WF_vars(FeedPoll \/ FeedConsume)
Spec == TInit /\ [][Next]_vars /\ Fairness

-----------------------------------------------------------------------------
\* The quantity the events give for a price: that of the last one about it.
Quantity(events, side, price) ==
  LET about == {i \in DOMAIN events :
                  events[i].side = side /\ events[i].price = price} IN
  IF about = {} THEN 0
  ELSE events[CHOOSE i \in about : \A j \in about : j <= i].qty

Prices(events, side) ==
  {p \in {events[i].price : i \in DOMAIN events} : Quantity(events, side, p) # 0}

\* No event has made the side deeper than the book can hold.
NeverTooDeep(side) ==
  \A n \in 0..Len(seen) : Cardinality(Prices(SubSeq(seen, 1, n), side)) <= MaxDepth

(***************************************************************************)
(* BookIsFeed: every level in the book has a non-zero quantity, the one the *)
(* last event about that price gave; levels are strictly sorted, best       *)
(* first; and as long as the side never held more than MAX_DEPTH prices no  *)
(* price is missing, so the signal is computed from the true best prices    *)
(* (orderbook.hpp:77-121 with the consumer loop of bench_tick_to_trade.cpp).*)
(* A side that was too deep once has lost a level for good.                 *)
(***************************************************************************)
BookIsFeed ==
  LET side(s) ==
        /\ Len(book[s]) <= MaxDepth
        /\ \A i \in DOMAIN book[s] :
             /\ book[s][i].qty = Quantity(seen, s, book[s][i].price)
             /\ book[s][i].qty # 0
             /\ i > 1 => Better(s, book[s][i - 1].price, book[s][i].price)
        /\ NeverTooDeep(s) => Len(book[s]) = Cardinality(Prices(seen, s))
      TrueBest(s) == CHOOSE p \in Prices(seen, s) :
                       \A q \in Prices(seen, s) \ {p} : Better(s, p, q) IN
  /\ \A s \in Sides : side(s)
  /\ (\A s \in Sides : Prices(seen, s) # {} /\ NeverTooDeep(s)) =>
       /\ signal = TrueBest("buy") + TrueBest("sell")
       /\ spread(book) = TrueBest("sell") - TrueBest("buy")
=============================================================================
