------------------------------ MODULE L2OrderBook ------------------------------
(***************************************************************************)
(* orderbook.hpp: the levels of a side are an array sorted from the best   *)
(* price to the worst, of at most MAX_DEPTH entries.  A level is a price   *)
(* with its quantity; the order count travels with the quantity.           *)
(***************************************************************************)
EXTENDS Integers, Sequences, SequencesExt

CONSTANT MaxDepth
ASSUME DepthAssumption == MaxDepth \in Nat \ {0}

Sides == {"buy", "sell"}
EmptyBook == [s \in Sides |-> <<>>]

Better(side, p, q) == IF side = "buy" THEN p > q ELSE p < q

UpdateAppends(side, levels, price, qty) ==   \* mutant: no sorted position
  LET at == {i \in DOMAIN levels : levels[i].price = price} IN
  IF at # {} THEN [levels EXCEPT ![CHOOSE k \in at : TRUE].qty = qty]
  ELSE IF qty = 0 \/ Len(levels) = MaxDepth THEN levels
  ELSE Append(levels, [price |-> price, qty |-> qty])

\* update_side(): change or remove the level of the price; else insert it in
\* front of the first level it is better than, dropping the last level of a full side.
update_side(side, levels, price, qty) ==
  LET at == {i \in DOMAIN levels : levels[i].price = price}
      worse == {i \in DOMAIN levels : Better(side, price, levels[i].price)}
      insert_pos == IF worse = {} THEN Len(levels) + 1 ELSE Min(worse)
      grown == InsertAt(levels, insert_pos, [price |-> price, qty |-> qty])
  IN IF at # {} THEN IF qty = 0 THEN RemoveAt(levels, Min(at))
                               ELSE [levels EXCEPT ![Min(at)].qty = qty]
     ELSE IF qty = 0 THEN levels
     ELSE SubSeq(grown, 1, IF Len(grown) > MaxDepth THEN MaxDepth ELSE Len(grown))

update_level(book, side, price, qty) ==
  [book EXCEPT ![side] = update_side(side, @, price, qty)]

\* best_bid(), best_ask(): the first level; <<>> for nullopt.
best(book, side) == IF book[side] = <<>> THEN <<>> ELSE <<book[side][1]>>

\* mid_price(), doubled to stay an integer: 0 for an empty book.
mid_price2(book) ==
  LET b == best(book, "buy")  a == best(book, "sell") IN
  CASE b # <<>> /\ a # <<>> -> b[1].price + a[1].price
    [] b # <<>> /\ a = <<>> -> 2 * b[1].price
    [] b = <<>> /\ a # <<>> -> 2 * a[1].price
    [] OTHER -> 0

spread(book) ==
  LET b == best(book, "buy")  a == best(book, "sell") IN
  IF b # <<>> /\ a # <<>> THEN a[1].price - b[1].price ELSE 0
=============================================================================
