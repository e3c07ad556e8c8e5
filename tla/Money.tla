-------------------------------- MODULE Money --------------------------------
(***************************************************************************)
(* What a checkout charges: the exchange rates behind their two cache      *)
(* entries, the line items of a package in the payer's currency, and the   *)
(* platform fee.  A checkout reads the rates once for its lines, again for *)
(* the fallback line and again for the fee, and other pages read them too. *)
(* Amounts are in thousandths of a currency's main unit.                   *)
(***************************************************************************)
EXTENDS Integers, FiniteSets, FiniteSetsExt, Scenarios

CONSTANTS
  Items,       \* the records of the package
  Balances     \* bound: the balances they may have

ASSUME MoneyConstantsOK == IsFiniteSet(Items) /\ Balances \subseteq Nat

\* The words of a scenario: outage (Frankfurter may fail), partial (it may
\* leave out the yen), archived (a record of the package may be inactive).

VARIABLES
  balance, currency,  \* of each record
  inactive,           \* records with is_active = FALSE
  payer,              \* the payer's currency
  fresh, stale,       \* the two cache entries: {} or {rates}
  till                \* the checkout

moneyVars == <<balance, currency, inactive, payer, fresh, stale, till>>

Currencies == {"usd", "jpy", "kwd"}

\* get_currency_decimals: how many of the smallest unit make one
MinorUnits == [usd |-> 100, jpy |-> 1, kwd |-> 1000]

\* Relative to one another: 1 USD = 100 JPY = 0.5 KWD.
Published == [usd |-> 2, jpy |-> 200, kwd |-> 1]
WithoutYen == [c \in {"usd", "kwd"} |-> Published[c]]
NoRates == [c \in {} |-> 0]
Unavailable == -1

Bills == [rates : {Published, WithoutYen, NoRates}, total : Int,
          lines : 0..Cardinality(Items)]
NoBill == [rates |-> NoRates, total |-> 0, lines |-> 0]

MoneyTypeOK ==
  /\ balance \in [Items -> Balances] /\ currency \in [Items -> Currencies]
  /\ inactive \subseteq Items /\ payer \in Currencies
  /\ \A entry \in {fresh, stale} :
       Cardinality(entry) <= 1 /\ entry \subseteq {Published, WithoutYen, NoRates}
  /\ till.bill \in Bills
  /\ till.pc \in {"reading", "fetching", "counting", "refused", "priced", "charged"}

MoneyInit ==
  /\ balance \in [Items -> Balances] /\ currency \in [Items -> Currencies]
  /\ inactive \in IF "archived" \in env THEN SUBSET Items ELSE {{}}
  /\ payer \in Currencies
  /\ fresh = {}
  /\ stale \in IF "outage" \in env THEN {{}, {Published}} ELSE {{}}
  /\ till = [pc |-> "reading", need |-> "lines", rates |-> NoRates,
             bill |-> NoBill, fee |-> 0]

-----------------------------------------------------------------------------
(* Arithmetic.                                                             *)

\* ROUND_HALF_UP and ROUND_CEILING of n / d, for n >= 0
RoundHalfUp(n, d) == (2 * n + d) \div (2 * d)
RoundUp(n, d) == (n + d - 1) \div d

ToStripe(amount, c) == RoundHalfUp(amount * MinorUnits[c], 1000)

Converted(amount, from, to, rates) ==
  RoundHalfUp(amount * rates[to] * MinorUnits[to], rates[from] * 1000)
    * (1000 \div MinorUnits[to])

\* Mutant: convert, which passes an amount through when a rate is missing.
ConvertLeniently(amount, from, to, rates) ==
  IF from = to \/ amount = 0 \/ ~({from, to} \subseteq DOMAIN rates)
  THEN amount ELSE Converted(amount, from, to, rates)

\* convert_strict
Convert(amount, from, to, rates) ==
  IF from = to \/ amount = 0 THEN amount
  ELSE IF {from, to} \subseteq DOMAIN rates THEN Converted(amount, from, to, rates)
  ELSE Unavailable

-----------------------------------------------------------------------------
(* get_rates                                                               *)

\* Another page reads the rates as well.
ReadElsewhere ==
  /\ fresh = {} /\ till.pc \in {"reading", "fetching", "counting"}
  /\ \/ fresh' = {Published} /\ stale' = {Published}
     \/ "outage" \in env /\ fresh' = {NoRates} /\ UNCHANGED stale
  /\ UNCHANGED <<balance, currency, inactive, payer, till>>

ReadRates ==
  /\ till.pc = "reading"
  /\ \/ /\ fresh = {}
        /\ till' = [till EXCEPT !.pc = "fetching"]
     \/ \E rates \in fresh :
          till' = [till EXCEPT !.pc = "counting", !.rates = rates]
  /\ UNCHANGED <<balance, currency, inactive, payer, fresh, stale>>

\* _fetch_rates: a quote without a rate is left out.
FetchRates ==
  /\ till.pc = "fetching"
  /\ \E rates \in {Published} \cup IF "partial" \in env THEN {WithoutYen} ELSE {} :
       /\ fresh' = {rates} /\ stale' = {rates}
       /\ till' = [till EXCEPT !.pc = "counting", !.rates = rates]
  /\ UNCHANGED <<balance, currency, inactive, payer>>

\* The empty answer is cached for a minute; this reader falls back.
FetchRatesFails ==
  /\ "outage" \in env /\ till.pc = "fetching"
  /\ fresh' = {NoRates}
  /\ \E rates \in IF stale = {} THEN {NoRates} ELSE stale :
       till' = [till EXCEPT !.pc = "counting", !.rates = rates]
  /\ UNCHANGED <<balance, currency, inactive, payer, stale>>

RatesExpire ==
  /\ till.pc \in {"reading", "fetching", "counting"}
  /\ fresh # {} /\ fresh' = {}
  /\ UNCHANGED <<balance, currency, inactive, payer, stale, till>>

-----------------------------------------------------------------------------
(* build_line_items                                                        *)

Positive == {i \in Items \ inactive : balance[i] > 0}
InPayers(i, rates) == Convert(balance[i], currency[i], payer, rates)
Unpriced(rates) == {i \in Positive : InPayers(i, rates) = Unavailable}
Billable(rates) == {i \in Positive : ToStripe(InPayers(i, rates), payer) > 0}
LineTotal(rates) ==
  MapThenSumSet(LAMBDA i : ToStripe(InPayers(i, rates), payer), Billable(rates))

\* _fallback_line_item: one line for the sum of all active balances
FallbackTotal(rates) ==
  ToStripe(MapThenSumSet(LAMBDA i : InPayers(i, rates), Positive), payer)

PriceLines ==
  /\ till.pc = "counting" /\ till.need = "lines"
  /\ LET rates == till.rates IN
     till' = IF Unpriced(rates) # {} THEN [till EXCEPT !.pc = "refused"]
             ELSE IF Billable(rates) = {}
             THEN [till EXCEPT !.pc = "reading", !.need = "fallback"]
             ELSE [till EXCEPT !.pc = "priced", !.bill =
                     [rates |-> rates, total |-> LineTotal(rates),
                      lines |-> Cardinality(Billable(rates))]]
  /\ UNCHANGED <<balance, currency, inactive, payer, fresh, stale>>

PriceFallback ==
  /\ till.pc = "counting" /\ till.need = "fallback"
  /\ LET rates == till.rates IN
     till' = IF Unpriced(rates) # {} \/ FallbackTotal(rates) <= 0
             THEN [till EXCEPT !.pc = "refused"]
             ELSE [till EXCEPT !.pc = "priced", !.bill =
                     [rates |-> rates, total |-> FallbackTotal(rates), lines |-> 1]]
  /\ UNCHANGED <<balance, currency, inactive, payer, fresh, stale>>

-----------------------------------------------------------------------------
(* PlatformFeeCalculator.compute                                           *)

Fixed(usd, rates) == ToStripe(Convert(usd, "usd", payer, rates), payer)
FixedKnown(rates) == Convert(300, "usd", payer, rates) # Unavailable

\* 2.9 % and 0.3 % for safety, with 0.30 USD; then 1 %, at least 0.25 USD
Processing(total, rates) == RoundUp(total * 32, 1000) + Fixed(300, rates)
Margin(total, rates) ==
  LET percent == RoundUp(total, 100) IN
  IF percent > Fixed(250, rates) THEN percent ELSE Fixed(250, rates)

\* Mutant: the fee is not capped at the payment.
FeeUncapped(total, rates) == Processing(total, rates) + Margin(total, rates)

Fee(total, rates) ==
  LET fee == Processing(total, rates) + Margin(total, rates) IN
  IF fee > total THEN total ELSE fee

\* Only a creator with a payout account has a fee, at rates read anew.
AskFee ==
  /\ till.pc = "priced"
  /\ till' = [till EXCEPT !.pc = "reading", !.need = "fee"]
  /\ UNCHANGED <<balance, currency, inactive, payer, fresh, stale>>

ChargeFee ==
  /\ till.pc = "counting" /\ till.need = "fee"
  /\ till' = IF FixedKnown(till.rates)
             THEN [till EXCEPT !.pc = "charged", !.fee = Fee(till.bill.total, till.rates)]
             ELSE [till EXCEPT !.pc = "refused"]
  /\ UNCHANGED <<balance, currency, inactive, payer, fresh, stale>>

MoneyNext ==
  \/ ReadElsewhere \/ ReadRates \/ FetchRates \/ FetchRatesFails \/ RatesExpire
  \/ PriceLines \/ PriceFallback \/ AskFee \/ ChargeFee

MoneySpec == MoneyInit /\ [][MoneyNext /\ UNCHANGED env]_<<env, moneyVars>>

-----------------------------------------------------------------------------
(* Properties.                                                             *)

\* Exact amounts are in parts of a smallest unit.
Parts == 400000

\* Payments are matched with the session's total to the cent, so the lines must
\* say what the records are worth: half of the smallest unit per record off at
\* most, and never an amount whose rate was missing, whichever cache entry the
\* rates came from (checkout.py; exchange_rates.py, convert_strict).
BillMatchesRecords ==
  till.pc \in {"priced", "charged"} =>
    LET rates == till.bill.rates
        worth(i) ==
          IF currency[i] = payer THEN balance[i] * MinorUnits[payer] * (Parts \div 1000)
          ELSE balance[i] * rates[payer] * MinorUnits[payer] * (400 \div rates[currency[i]])
        exact == MapThenSumSet(worth, Positive)
        off == till.bill.total * Parts - exact
    IN /\ \A i \in Positive : currency[i] = payer \/ {currency[i], payer} \subseteq DOMAIN rates
       /\ off <= Cardinality(Positive) * (Parts \div 2)
       /\ -off <= Cardinality(Positive) * (Parts \div 2)

\* What Stripe keeps (2.9 % and 30 cents) comes out of the fee, and the platform
\* keeps its 1 %, or 25 cents, unless the fee is the whole payment (money.py,
\* PlatformFeeCalculator), in currencies with and without smaller units.
FeeCoversCosts ==
  till.pc = "charged" =>
    LET total == till.bill.total
        cents(c) == (c * Published[payer] * MinorUnits[payer] * 10) \div Published["usd"]
        left == till.fee * 1000 - total * 29 - cents(30)
    IN /\ till.fee <= total
       /\ till.fee < total => left >= total * 10 /\ left >= cents(25)
=============================================================================
