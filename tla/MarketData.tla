----------------------------- MODULE MarketData -----------------------------
(***************************************************************************)
(* The vocabulary that all parts of the system share: core/Exchange.hpp,   *)
(* core/Side.hpp and core/MarketUpdate.hpp.  Prices and quantities are     *)
(* doubles in the code; here they are naturals, which is enough to tell    *)
(* which price is better and whether a quantity is zero.                   *)
(***************************************************************************)
EXTENDS Naturals

CONSTANTS
    Price,          \* the prices that occur
    Quantity,       \* the quantities that occur; 0 removes a quote
    Ticker,         \* the instruments
    Connected       \* the exchanges given on the command line

(* The enumerators of core/Exchange.hpp, MAX excepted. *)
Exchange == {"BINANCE", "BITMEX", "BYBIT", "COINBASE",
             "HYPERLIQUID", "INTERNAL", "KRAKEN", "OKX"}

Side == {"ASK", "BID"}

ASSUME PriceAssumption == Price \subseteq Nat

ASSUME QuantityAssumption == Quantity \subseteq Nat

ASSUME ConnectedAssumption == Connected \subseteq Exchange

(* What a session of an exchange publishes.  processMessage stores the      *)
(* session's own exchange in every update.                                 *)
MarketUpdate ==
    [side : Side, price : Price, quantity : Quantity,
     ticker : Ticker, exchange : Connected]

=============================================================================
