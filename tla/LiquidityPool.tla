--------------------------- MODULE LiquidityPool ---------------------------
(***************************************************************************)
(* types.Pool (src/pools/types/pools.go): a product pool of a base and a   *)
(* quote asset.  Providers add and remove liquidity for shares; swaps are  *)
(* simulated by the pool and applied by a service through AddAmount,       *)
(* SubAmount and AddAccumulatedFees.                                       *)
(*                                                                         *)
(* Amounts are uint64.  Parts of an amount are computed in big.Float, from *)
(* int64s: numbers of 53 bits, to the nearest of which a product is        *)
(* rounded, and which hold all integers only up to 2^53.  (A quotient has  *)
(* 64 bits and is taken for exact.)  A small model needs small numbers of  *)
(* bits for that to be seen.                                               *)
(***************************************************************************)
EXTENDS Integers, FiniteSets, Functions

CONSTANTS Providers,
          Width,       \* the bits of an amount, 64 in the code
          Bits,        \* the precision of big.NewFloat, 53 in the code
          RatioNum, RatioDen,  \* InitialAssetsRatio
          FeeNum, FeeDen,      \* FeeFactor
          Inputs,     \* what users put in: base assets, shares, swaps
          MaxCalls     \* bound: calls of a behaviour

ASSUME PoolAssumption ==
  /\ IsFiniteSet(Providers)
  /\ Bits \in Nat \ {0} /\ Width \in Nat /\ Bits < Width
  /\ MaxCalls \in Nat /\ Inputs \subseteq Nat /\ \A n \in Inputs : n < 2 ^ Width
  /\ RatioNum \in Nat /\ RatioNum < 2 ^ Width /\ RatioDen \in Nat \ {0}
  /\ FeeNum \in Nat /\ FeeDen \in Nat \ {0}
  \* What the provers do not know of powers.
  /\ 2 ^ 0 = 1 /\ 2 ^ 1 = 2
  /\ \A e \in 0 .. 2 * Width + 1 : 2 ^ e \in Nat \ {0}
  /\ \A d, e \in 0 .. 2 * Width + 1 :
       d + e <= 2 * Width + 1 => 2 ^ (d + e) = 2 ^ d * 2 ^ e

VARIABLES base, quote, shares,   \* AmountBase, AmountQuote, AmountShares
          fees,                  \* FeesCollectedBase, FeesCollectedQuote
          sequence,
          failed,                \* the amounts of a pool that a call left with an
                                 \* error, in the hands of the caller
          \* kept for the properties only
          held,                  \* held[p]: the shares of provider p
          put, taken,            \* base and quote of p, in and out
          calls, swaps,
          exact                  \* no amount so far had more than Bits bits

pool == <<base, quote, shares, fees, sequence>>
accounts == <<held, put, taken>>
poolVars == <<pool, failed, accounts, calls, swaps, exact>>

Sides == {"base", "quote"}
None == [a \in Sides |-> 0]

PoolInit ==
  /\ base = 0 /\ quote = 0 /\ shares = 0
  /\ fees = None
  /\ sequence = 0
  /\ failed = <<>>
  /\ held = [p \in Providers |-> 0]
  /\ put = [p \in Providers |-> None]
  /\ taken = [p \in Providers |-> None]
  /\ calls = 0 /\ swaps = 0
  /\ exact = TRUE

-----------------------------------------------------------------------------
(* Arithmetic                                                              *)

Amount == 0 .. 2 ^ Width - 1

\* What remains of a number in a uint64.
Uint64(n) == n % 2 ^ Width

IsInt64(n) == n < 2 ^ (Width - 1)

\* big.Float's SetInt64(int64(n)) up to its sign, which Uint64 drops in the end.
Signed(n) == IF IsInt64(n) THEN n ELSE 2 ^ Width - n

\* x / z to the nearest integer, the even one of two.
Nearest(x, z) ==
  LET q == x \div z
      r == x % z
  IN  IF 2 * r > z \/ (2 * r = z /\ q % 2 = 1) THEN q + 1 ELSE q

\* 2^Exponent(x, z) is the greatest power of 2 not above x / z >= 1.
Exponent(x, z) == CHOOSE e \in 0 .. 2 * Width : z * 2 ^ e <= x /\ x < z * 2 ^ (e + 1)

\* The integer part of x / z rounded to Bits bits.
Float(x, z) ==
  IF x < z THEN IF (z - x) * 2 ^ (Bits + 1) <= z THEN 1 ELSE 0
  ELSE LET e == Exponent(x, z)
       IN  IF e < Bits
           THEN Nearest(x * 2 ^ (Bits - 1 - e), z) \div 2 ^ (Bits - 1 - e)
           ELSE Nearest(x, z * 2 ^ (e + 1 - Bits)) * 2 ^ (e + 1 - Bits)

\* Mutant of Portion: rounded up.
PortionUp(x, y, z) == (x * y + z - 1) \div z

\* math.Int(MulF(x, Quo(y, z))): MulF multiplies 1, of Bits bits, by x and then by
\* the ratio.
Portion(x, y, z) == Float(Float(Signed(x), 1) * Signed(y), Signed(z))

\* The integer part of x times a decimal fraction, which as a float64 is a little
\* more or less than the fraction.
Fraction(x, num, den) ==
  LET n == (Signed(x) * num) \div den
      u == 1 + n \div 2 ^ (Bits - 1)
  IN  (n - u .. n + u) \cap Nat

\* Integers from here on are no longer all numbers of Bits bits.
Limit == 2 ^ Bits
StaysExact(amounts) == exact' = (exact /\ \A n \in amounts : n < Limit)

-----------------------------------------------------------------------------
Call ==
  /\ failed = <<>>
  /\ calls < MaxCalls
  /\ calls' = calls + 1

\* AddLiquidity and RemoveLiquidity end by assigning the results of checked
\* additions or subtractions.  One that is no uint64 ends them with an error; its
\* field is 0 by then, and the fields before it are changed.
Succeeds(s, b, q) == {s, b, q} \subseteq Amount

Fail(s, b, q) ==
  /\ ~Succeeds(s, b, q)
  /\ failed' = IF s \notin Amount THEN <<0, base, quote>>
               ELSE IF b \notin Amount THEN <<s, 0, quote>> ELSE <<s, b, 0>>
  /\ UNCHANGED <<pool, accounts, swaps, exact>>

Assign(s, b, q) ==
  /\ Succeeds(s, b, q)
  /\ shares' = s /\ base' = b /\ quote' = q
  /\ sequence' = sequence + 1
  /\ UNCHANGED <<fees, failed, swaps>>

\* Mutant of Drop: the caller saves the pool in spite of the error.
SaveFailed ==
  /\ failed # <<>>
  /\ shares' = failed[1] /\ base' = failed[2] /\ quote' = failed[3]
  /\ failed' = <<>>
  /\ UNCHANGED <<fees, sequence, accounts, calls, swaps, exact>>

\* The caller drops that pool; the next call finds the one that was saved.
Drop ==
  /\ failed # <<>>
  /\ failed' = <<>>
  /\ UNCHANGED <<pool, accounts, calls, swaps, exact>>

\* What goes in is as much as the shares that come out are for.
Deposit(p, baseIn, quoteIn, sharesOut) ==
  LET s == shares + Uint64(sharesOut)
      b == base + baseIn
      q == quote + Uint64(quoteIn)
  IN  \/ Fail(s, b, q)
      \/ /\ Assign(s, b, q)
         /\ held' = [held EXCEPT ![p] = @ + Uint64(sharesOut)]
         /\ put' = [put EXCEPT ![p]["base"] = @ + baseIn,
                               ![p]["quote"] = @ + Uint64(quoteIn)]
         /\ UNCHANGED taken
         /\ StaysExact({quoteIn, sharesOut, s, b, q})

\* In a pool without base assets the initial ratio holds.  The shares are the sum
\* of what goes in, in Bits bits, before the quote amount was cut to an integer.
AddFirstLiquidity(p, baseIn) ==
  /\ Call
  /\ baseIn > 0
  /\ base = 0
  /\ \E quoteIn \in Fraction(baseIn, RatioNum, RatioDen), cut \in 0 .. 1 :
       Deposit(p, baseIn, quoteIn, Float(Float(Signed(baseIn), 1) + quoteIn + cut, 1))

AddLiquidity(p, baseIn) ==
  /\ Call
  /\ baseIn > 0
  /\ base > 0
  /\ Deposit(p, baseIn, Portion(quote, baseIn, base), Portion(shares, baseIn, base))

Withdraw(p, sharesIn, baseOut, quoteOut) ==
  LET s == shares - sharesIn
      b == base - Uint64(baseOut)
      q == quote - Uint64(quoteOut)
  IN  \/ Fail(s, b, q)
      \/ /\ Assign(s, b, q)
         /\ held' = [held EXCEPT ![p] = @ - sharesIn]
         /\ taken' = [taken EXCEPT ![p]["base"] = @ + Uint64(baseOut),
                                   ![p]["quote"] = @ + Uint64(quoteOut)]
         /\ UNCHANGED <<put, exact>>

\* Mutant of RemoveLiquidity: the shares are subtracted before the ratio is taken.
RemoveLiquidityLate(p, sharesIn) ==
  /\ Call
  /\ sharesIn > 0 /\ sharesIn <= held[p] /\ sharesIn < shares
  /\ Withdraw(p, sharesIn, Portion(base, sharesIn, shares - sharesIn),
                           Portion(quote, sharesIn, shares - sharesIn))

\* A provider returns shares that it holds, which are no more than the pool's.
RemoveLiquidity(p, sharesIn) ==
  /\ Call
  /\ sharesIn > 0 /\ sharesIn <= held[p] /\ sharesIn <= shares
  /\ Withdraw(p, sharesIn, Portion(base, sharesIn, shares), Portion(quote, sharesIn, shares))

\* Balances gives a reserve as an int64, and NewBalance turns a negative one to 0.
Balance(reserve) == IF IsInt64(reserve) THEN reserve ELSE 0

\* Mutant of AmountOut: the fee is not taken off first.
AmountOutWithFee(reserveIn, reserveOut, amtIn, fee) ==
  (Balance(reserveOut) * amtIn) \div (Balance(reserveIn) + amtIn - fee)

\* simulateProductPoolSwap, in big.Int.
AmountOut(reserveIn, reserveOut, amtIn, fee) ==
  (Balance(reserveOut) * (amtIn - fee)) \div (Balance(reserveIn) + (amtIn - fee))

\* AddAmount of the asset and SubAmount of the other one.
Exchange(asset, amtIn, amtOut) ==
  /\ IF asset = "base" THEN base' = base + amtIn /\ quote' = quote - amtOut
                       ELSE quote' = quote + amtIn /\ base' = base - amtOut
  /\ {base', quote'} \subseteq Amount

\* AddAccumulatedFees, which does not check its addition.
AddAccumulatedFees(asset, fee) == fees' = [fees EXCEPT ![asset] = Uint64(@ + fee)]

\* A service applies a simulated swap in a pool that has both assets: what is
\* left of the amount after the fee goes in, the answer goes out, and the fee is
\* collected; each of the three increments the sequence.  An error ends the swap
\* before anything is saved.
Swap(asset, amtIn) ==
  /\ Call
  /\ swaps' = swaps + 1
  /\ base > 0 /\ quote > 0
  /\ IsInt64(amtIn)
  /\ \E fee \in Fraction(amtIn, FeeNum, FeeDen) :
       /\ amtIn - fee > 0
       /\ AddAccumulatedFees(asset, fee)
       /\ Exchange(asset, amtIn - fee,
                   IF asset = "base" THEN AmountOut(base, quote, amtIn, fee)
                                     ELSE AmountOut(quote, base, amtIn, fee))
  /\ sequence' = sequence + 3
  /\ StaysExact({base', quote'})
  /\ UNCHANGED <<shares, failed, accounts>>

PoolNext ==
  \/ Drop
  \/ \E n \in Inputs :
       \/ \E p \in Providers : AddFirstLiquidity(p, n) \/ AddLiquidity(p, n) \/ RemoveLiquidity(p, n)
       \/ \E asset \in Sides : Swap(asset, n)

PoolSpec == PoolInit /\ [][PoolNext]_poolVars

-----------------------------------------------------------------------------
(* Properties                                                              *)

\* The variables have their types.
PoolTypeOK ==
  /\ base \in Amount /\ quote \in Amount /\ shares \in Amount
  /\ fees \in [Sides -> Amount]
  /\ failed \in {<<>>} \cup (Amount \X Amount \X Amount)
  /\ sequence \in 0 .. 3 * calls /\ calls \in 0 .. MaxCalls /\ swaps \in 0 .. calls
  /\ held \in [Providers -> Amount]
  /\ put \in [Providers -> [Sides -> Nat]] /\ taken \in [Providers -> [Sides -> Nat]]
  /\ exact \in BOOLEAN

\* The shares of the pool are those of its providers, whatever is rounded or
\* overflows and however a call ends.
SharesAreHeld == SumFunctionOnSet(held, Providers) = shares

\* The last provider leaves an empty pool, and a pool with shares has base
\* assets: otherwise the initial ratio would price the next shares although
\* there are others, or new shares would be worth nothing.  It is so as long as all
\* amounts are below 2^Bits; above, the rounding of a whole reserve leaves a rest.
EmptiesCompletely ==
  exact => /\ shares = 0 <=> base = 0
           /\ shares = 0 => quote = 0

\* Without swaps, whatever providers add and remove and however amounts are
\* rounded, nobody gets more than a unit of rounding per call out of the others, as
\* long as all amounts are below 2^Bits.  (The unit of rounding is greater above.)
OnlyRoundingGained ==
  exact /\ swaps = 0 =>
    \A p \in Providers, a \in Sides : taken[p][a] <= put[p][a] + calls

\* A swap between reserves that are int64s never lowers their product, and never
\* empties one.  (A greater one counts as none, and the swap takes all of the other.)
ProductNeverFalls ==
  [][swaps' # swaps /\ IsInt64(base) /\ IsInt64(quote) =>
       base' * quote' >= base * quote /\ base' > 0 /\ quote' > 0]_poolVars
=============================================================================
