------------------------- MODULE MCMarketSimulator -------------------------
(***************************************************************************)
(* MarketSimulator for TLC: orders of both sides, types and times in force *)
(* over books of up to three levels at two venues, in one to three passes.  *)
(***************************************************************************)
EXTENDS MarketSimulator

MCCost == <<0, 5>>
MCLatency == <<2, 1>>

L(price, size) == [price |-> price, size |-> size]
Asks == {<< <<L(100, 1), L(101, 5), L(103, 2)>>, <<L(96, 3), L(99, 2)>> >>,
         << <<L(100, 2)>>, <<L(98, 6), L(99, 1)>> >>,
         << Snapshot(L(100, 4)), Snapshot(L(0, 4)) >>}
Bids == {<< <<L(103, 1), L(101, 5), L(100, 2)>>, <<L(106, 3), L(102, 2)>> >>,
         << <<L(100, 2)>>, <<L(105, 6), L(101, 1)>> >>}

Orders == [side : {"buy"}, type : {"limit"}, price : {99, 101}, lots : {0, 4, 9}, tif : {"GTC", "IOC", "FOK"}]
            \cup [side : {"sell"}, type : {"limit", "market"}, price : {101}, lots : {4, 9}, tif : {"GTC", "FOK"}]

State(displayed, queue, sure) == [displayed |-> displayed, queue |-> queue, sure |-> sure, slippage |-> 10]
NoVenueState == [v \in {} |-> State(0, 0, TRUE)]
VenueStates == {NoVenueState, <<State(2, 1, TRUE), State(6, 0, TRUE)>>, <<State(8, 0, FALSE), State(4, 4, TRUE)>>}

MCCases ==
  {c \in [order : Orders, books : Asks \cup Bids, states : VenueStates, passes : {1, 3}] :
     IF c.order.side = "buy" THEN c.books \in Asks ELSE c.books \in Bids}
=============================================================================
