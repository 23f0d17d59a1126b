--------------------------- MODULE PortfolioState ---------------------------
(***************************************************************************)
(* The read side of src/risk/portfolio_state.py: what PortfolioState says  *)
(* of the positions it tracks.  A book is the set of positions held in     *)
(* PortfolioState._positions (a dict engine -> id -> position, flattened); *)
(* a position is a record                                                  *)
(*     [id, engine, coin, side, size]                                      *)
(* with size in whole USD of notional.                                     *)
(***************************************************************************)
EXTENDS Integers, FiniteSets, FiniteSetsExt

\* The engine ids that the code treats by name.
Acevault  == "acevault"
Recovered == "recovered"

Sides == {"long", "short"}

\* get_open_positions(engine_id).
OpenPositions(book, engine) == {p \in book : p.engine = engine}

\* get_gross_exposure(): the sum of |position_size_usd| over every engine.
GrossExposure(book) == MapThenSumSet(LAMBDA p : p.size, book)

Signed(p) == IF p.side = "long" THEN p.size ELSE -p.size

\* get_net_exposure() restricted to one coin: what the venue, which holds one
\* netted position per coin, should show for this book.
NetOn(book, coin) == MapThenSumSet(Signed, {p \in book : p.coin = coin})

SideCount(book, side) == Cardinality({p \in book : p.side = side})

\* Mutant: off by one at the limit.
OverloadedPastLimit(book, side, limit) == SideCount(book, side) > limit

\* is_correlated_overloaded / is_correlated_short_overloaded: the open
\* positions on the side of the new signal, of all engines, reach the limit.
CorrelatedOverloaded(book, side, limit) == SideCount(book, side) >= limit
=============================================================================
