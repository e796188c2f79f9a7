---------------------------- MODULE OrdersProofs ----------------------------
(***************************************************************************)
(* What is proved about the arithmetic of a round: that a settlement nets  *)
(* stock against debt for every number of units, that a demand list comes  *)
(* to rest, that averages of two round towards zero, and that the Default  *)
(* demand never turns back in numbers of any width.                        *)
(***************************************************************************)
EXTENDS MCOrders, FiniteSetTheorems, TLAPS

Nets(stock, back, request, out) ==
  LET net  == stock - back - request
      left == AtLeast0(stock - back)
      lost == IF net > 0 THEN 0 ELSE left
      made == IF net > 0 THEN 0 ELSE request - left
  IN  /\ out.stock = AtLeast0(net) /\ out.back = AtLeast0(-net)
      /\ stock + made = out.stock + out.sent + lost

\* A settlement, of any stock, debt and request.
LEMMA SettlementNets ==
  ASSUME NEW stock \in Nat, NEW back \in Nat, NEW request \in Nat
  PROVE  Nets(stock, back, request, SettleRequest(stock, back, request))
BY DEF Nets, SettleRequest, PayBackOrders, AtLeast0

\* A list answers with one of its entries, and to an entry with itself.
LEMMA ListFreezes ==
  ASSUME NEW s, s.type = "List", NEW list \in Seq(Int), list # <<>>, s.list = list,
         NEW last \in Int
  PROVE  generate_demand(generate_demand(last, s), s) = generate_demand(last, s)
<1>1. Len(list) \in 1..Len(list)  OBVIOUS
<1>2. ASSUME NEW x \in Int, \E i \in DOMAIN list : list[i] = x
      PROVE  generate_demand(x, s) = x
  BY <1>2 DEF generate_demand
<1>3. CASE \E i \in DOMAIN list : list[i] = last
  BY <1>2, <1>3
<1>4. CASE ~ \E i \in DOMAIN list : list[i] = last
  <2>1. generate_demand(last, s) = list[Len(list)]  BY <1>4 DEF generate_demand
  <2>2. list[Len(list)] \in Int /\ Len(list) \in DOMAIN list  BY <1>1
  <2>. QED BY <1>2, <2>1, <2>2
<1>. QED BY <1>3, <1>4

(***************************************************************************)
(* A fold over two players is their sum, whichever of them it takes first: *)
(* the recursion of the fold has a solution, and so is one.                *)
(***************************************************************************)
LEMMA SumOfTwo ==
  ASSUME NEW f \in [{1, 2} -> Int]
  PROVE  FoldFunction(+, 0, f) = f[1] + f[2]
<1>. DEFINE pick(s) == CHOOSE i \in s : TRUE
            sums == [s \in SUBSET {1, 2} |->
                       (IF 1 \in s THEN f[1] ELSE 0) + (IF 2 \in s THEN f[2] ELSE 0)]
            Fold(g) == g = [s \in SUBSET {1, 2} |->
                              IF s = {} THEN 0 ELSE f[pick(s)] + g[s \ {pick(s)}]]
<1>1. ASSUME NEW s \in SUBSET {1, 2}, s # {} PROVE pick(s) \in s
  BY <1>1
<1>2. ASSUME NEW s \in SUBSET {1, 2}
      PROVE  sums[s] = IF s = {} THEN 0 ELSE f[pick(s)] + sums[s \ {pick(s)}]
  <2>1. CASE s = {}  BY <2>1
  <2>2. CASE s # {}
    <3>. DEFINE x == pick(s)
    <3>1. x \in s /\ s \ {x} \in SUBSET {1, 2}  BY <1>1, <2>2
    <3>. HIDE DEF x
    <3>2. sums[s] = f[x] + sums[s \ {x}]  BY <3>1
    <3>. QED BY <2>2, <3>2 DEF x
  <2>. QED BY <2>1, <2>2
<1>. HIDE DEF pick
<1>3. Fold(sums)  BY <1>2
<1>. DEFINE iter == CHOOSE g : Fold(g)
<1>4. Fold(iter)  BY <1>3
<1>. HIDE DEF iter, sums
<1>5. ASSUME NEW s \in SUBSET {1, 2}
      PROVE  iter[s] = IF s = {} THEN 0 ELSE f[pick(s)] + iter[s \ {pick(s)}]
  BY <1>4, Zenon
<1>. HIDE DEF Fold
<1>6. iter[{}] = 0
  <2>1. {} \in SUBSET {1, 2}  OBVIOUS
  <2>. QED BY <1>5, <2>1
<1>7. iter[{1}] = f[1] /\ iter[{2}] = f[2]
  <2>1. pick({1}) = 1 /\ pick({2}) = 2  BY <1>1
  <2>2. {1} \ {1} = {} /\ {2} \ {2} = {} /\ {1} # {} /\ {2} # {}  OBVIOUS
  <2>3. iter[{1}] = f[1] + iter[{}]  BY <1>5, <2>1, <2>2
  <2>4. iter[{2}] = f[2] + iter[{}]  BY <1>5, <2>1, <2>2
  <2>. QED BY <1>6, <2>3, <2>4
<1>8. iter[{1, 2}] = f[1] + f[2]
  <2>. DEFINE x == pick({1, 2})
  <2>1. x \in {1, 2}  BY <1>1
  <2>2. iter[{1, 2}] = f[x] + iter[{1, 2} \ {x}]
    <3>1. {1, 2} # {}  OBVIOUS
    <3>. QED BY <1>5, <3>1
  <2>. HIDE DEF x
  <2>3. CASE x = 1
    <3>1. {1, 2} \ {x} = {2}  BY <2>3
    <3>. QED BY <1>7, <2>2, <2>3, <3>1
  <2>4. CASE x = 2
    <3>1. {1, 2} \ {x} = {1}  BY <2>4
    <3>2. f[1] \in Int /\ f[2] \in Int  OBVIOUS
    <3>3. iter[{1, 2}] = f[2] + f[1]  BY <1>7, <2>2, <2>4, <3>1
    <3>4. f[2] + f[1] = f[1] + f[2]  BY <3>2
    <3>. QED BY <3>3, <3>4
  <2>. QED BY <2>1, <2>3, <2>4
<1>9. FoldFunction(+, 0, f) = iter[{1, 2}]
  <2>1. DOMAIN f = {1, 2}  OBVIOUS
  <2>. QED BY <2>1, Zenon DEF FoldFunction, FoldFunctionOnSet, MapThenFoldSet, pick, Fold, iter
<1>. QED BY <1>8, <1>9

\* "The average of two exceeds v", in divisions that round towards zero.
LEMMA AverageOfTwo ==
  ASSUME NEW a \in Int, NEW b \in Int, NEW v \in Int
  PROVE  evaluate_value_exceed(Purses(a, b), [type |-> "ValueExceed", resource |-> "Money",
                                              met_by |-> "Average", value |-> v]).met
           <=> (IF v >= 0 THEN a + b >= 2 * (v + 1) ELSE a + b > 2 * v)
<1>. DEFINE cond  == [type |-> "ValueExceed", resource |-> "Money", met_by |-> "Average",
                      value |-> v]
            money == [p \in DOMAIN Purses(a, b) |-> Extract(Purses(a, b)[p], cond.resource)]
<1>1. DOMAIN Purses(a, b) = {1, 2}  BY DEF Purses
<1>2. money \in [{1, 2} -> Int] /\ money[1] = a /\ money[2] = b
  BY <1>1 DEF Purses, Extract
<1>3. FoldFunction(+, 0, money) = a + b  BY <1>2, SumOfTwo
<1>4. Cardinality({1, 2}) = 2
  <2>1. {1, 2} = {1} \cup {2}  OBVIOUS
  <2>2. IsFiniteSet({1}) /\ Cardinality({1}) = 1  BY FS_Singleton
  <2>. QED BY <2>1, <2>2, FS_AddElement
<1>5. evaluate_value_exceed(Purses(a, b), cond).met
        <=> TruncDiv(FoldFunction(+, 0, money), Cardinality(DOMAIN Purses(a, b))) > v
  BY Zenon DEF evaluate_value_exceed
<1>6. evaluate_value_exceed(Purses(a, b), cond).met <=> TruncDiv(a + b, 2) > v
  BY <1>1, <1>3, <1>4, <1>5
<1>7. TruncDiv(a + b, 2) > v <=> (IF v >= 0 THEN a + b >= 2 * (v + 1) ELSE a + b > 2 * v)
  BY DEF TruncDiv
<1>. QED BY <1>6, <1>7

LEMMA Limits == Lowest \in Int /\ Highest \in Int
BY BoundedDemandAssumption DEF Lowest, Highest

\* Half as much again, rounded towards zero, is never less; the cast keeps it
\* within the limits.
LEMMA DefaultGrows ==
  ASSUME NEW last \in Numbers, NEW s, s.type = "Default"
  PROVE  /\ next_demand(last, s) \in Numbers
         /\ IF last >= 0 THEN next_demand(last, s) >= last ELSE next_demand(last, s) <= last
<1>1. last \in Int /\ Lowest <= last /\ last <= Highest  BY DEF Numbers
<1>. DEFINE n == TruncDiv(3 * last, 2)
<1>2. n \in Int /\ IF last >= 0 THEN n >= last ELSE n <= last
  BY <1>1 DEF TruncDiv
<1>3. next_demand(last, s) = Saturate(n)  BY DEF next_demand, generate_demand
<1>. HIDE DEF n
<1>. QED BY <1>1, <1>2, <1>3, Limits DEF Saturate, Numbers
-----------------------------------------------------------------------------
(***************************************************************************)
(* What is picked, and what is known of it: an output is that of its       *)
(* input, and a game of the Default style runs within the limits.          *)
(***************************************************************************)
OrdersInv ==
  /\ input \in Inputs \cup {Rounds}
  /\ output # <<>> => input \in Inputs /\ output = Apply(input)
  /\ input = Rounds /\ style.type = "Default" => ~broken /\ demand \in Numbers

LEMMA InitOrdersInv == MCInit => OrdersInv
BY BoundedDemandAssumption DEF MCInit, Init, OrdersInv, Inputs, Rounds

LEMMA FinishRoundFacts ==
  ASSUME OrdersInv, PlayRound, style.type = "Default"
  PROVE  /\ ~broken' /\ demand' \in Numbers /\ style' = style
         /\ IF demand >= 0 THEN demand' >= demand ELSE demand' <= demand
<1>1. ~broken /\ demand \in Numbers  BY DEF OrdersInv, PlayRound
<1>2. ~Overflows(demand, style)  BY DEF Overflows
<1>3. demand' = next_demand(demand, style) /\ UNCHANGED <<style, broken>>
  BY <1>2 DEF PlayRound, Next, FinishRound, Panic
<1>. QED BY <1>1, <1>3, DefaultGrows

LEMMA NextOrdersInv == OrdersInv /\ [MCNext]_<<input, output, vars>> => OrdersInv'
<1>. SUFFICES ASSUME OrdersInv, [MCNext]_<<input, output, vars>> PROVE OrdersInv'
  OBVIOUS
<1>1. CASE ApplyOnce
  BY <1>1 DEF ApplyOnce, OrdersInv, vars, Apply
<1>2. CASE PlayRound
  <2>1. style' = style /\ UNCHANGED <<input, output>>
    BY <1>2 DEF PlayRound, Next, FinishRound, Panic
  <2>2. style.type = "Default" => ~broken' /\ demand' \in Numbers
    BY <1>2, FinishRoundFacts
  <2>. QED BY <2>1, <2>2 DEF OrdersInv, Apply
<1>3. CASE UNCHANGED <<input, output, vars>>
  BY <1>3 DEF OrdersInv, vars, Apply
<1>. QED BY <1>1, <1>2, <1>3 DEF MCNext

LEMMA AlwaysOrdersInv == MCSpec => []OrdersInv
BY InitOrdersInv, NextOrdersInv, PTL DEF MCSpec

\* Settling a request (game.rs:154-193) nets stock against debt, whatever the
\* numbers of units, and what is shipped is what the stock gives up, less the
\* units that vanish, and with those that were never there.
THEOREM SettlementsNet == MCSpec => []SettleNets
<1>1. OrdersInv => SettleNets
  <2>. SUFFICES ASSUME OrdersInv, output # <<>>, input.kind = "settle" PROVE SettleNets
    BY DEF SettleNets, Done
  <2>1. input \in [kind : {"settle"}, stock : Units, back : Units, request : Units]
    BY DEF OrdersInv, Inputs
  <2>2. input.stock \in Nat /\ input.back \in Nat /\ input.request \in Nat
    BY <2>1 DEF Units
  <2>3. output = SettleRequest(input.stock, input.back, input.request)
    BY DEF OrdersInv, Apply
  <2>4. Nets(input.stock, input.back, input.request, output)
    BY <2>2, <2>3, SettlementNets
  <2>. QED BY <2>4 DEF SettleNets, Nets
<1>. QED BY <1>1, AlwaysOrdersInv, PTL

\* A demand list (game.rs:962-972), whatever its entries, moves the demand at
\* most once.
THEOREM ListsComeToRest == MCSpec => []ListDemandFreezes
<1>1. OrdersInv => ListDemandFreezes
  <2>. SUFFICES ASSUME OrdersInv, output # <<>>, input.kind = "demand",
                       input.style.type = "List"
                PROVE  generate_demand(output.next, input.style) = output.next
    BY DEF ListDemandFreezes, Done
  <2>1. input \in [kind : {"demand"}, last : Signed, style : UnitStyles]
    BY DEF OrdersInv, Inputs
  <2>2. input.last \in Int  BY <2>1 DEF Signed
  <2>3. input.style.list \in Seq(Int) /\ input.style.list # <<>>
    <3>1. input.style \in UnitStyles  BY <2>1
    <3>2. input.style.list \in Lists  BY <3>1 DEF UnitStyles
    <3>. QED BY <3>2, MCOrdersAssumption
  <2>4. output.next = generate_demand(input.last, input.style)
    BY DEF OrdersInv, Apply
  <2>. QED BY <2>2, <2>3, <2>4, ListFreezes
<1>. QED BY <1>1, AlwaysOrdersInv, PTL

\* "Average exceeds v" (game.rs:467-474) for two players: the division
\* truncates, so for v >= 0 the sum must exceed by a whole unit per player.
THEOREM AveragesTruncate == MCSpec => []AverageTruncates
<1>1. OrdersInv => AverageTruncates
  <2>. SUFFICES ASSUME OrdersInv, output # <<>>, input.kind = "average"
                PROVE  AverageTruncates
    BY DEF AverageTruncates, Done
  <2>1. input \in [kind : {"average"}, a : Signed, b : Signed, cond : Averages]
    BY DEF OrdersInv, Inputs
  <2>2. input.a \in Int /\ input.b \in Int  BY <2>1 DEF Signed
  <2>3. PICK v \in Signed : input.cond = [type |-> "ValueExceed", resource |-> "Money",
                                          met_by |-> "Average", value |-> v]
    BY <2>1 DEF Averages
  <2>4. v \in Int /\ input.cond.value = v  BY <2>3 DEF Signed
  <2>5. output = evaluate_value_exceed(Purses(input.a, input.b), input.cond)
    BY DEF OrdersInv, Apply
  <2>6. output.met <=> (IF v >= 0 THEN input.a + input.b >= 2 * (v + 1)
                                  ELSE input.a + input.b > 2 * v)
    BY <2>2, <2>3, <2>4, <2>5, AverageOfTwo
  <2>. QED BY <2>4, <2>6 DEF AverageTruncates
<1>. QED BY <1>1, AlwaysOrdersInv, PTL

\* In the Default style the demand never turns back, in numbers of any width
\* and from any start, and no round panics: the cast from f64 saturates.
THEOREM DefaultDemandNeverTurns == MCSpec => DefaultNeverTurns
<1>1. ASSUME OrdersInv, [MCNext]_<<input, output, vars>>
      PROVE  [style.type = "Default" =>
               /\ ~broken'
               /\ IF demand >= 0 THEN demand' >= demand ELSE demand' <= demand]_vars
  <2>1. CASE PlayRound  BY <2>1, <1>1, FinishRoundFacts
  <2>2. CASE UNCHANGED vars  BY <2>2
  <2>. QED BY <1>1, <2>1, <2>2 DEF MCNext, ApplyOnce
<1>. QED BY <1>1, AlwaysOrdersInv, PTL DEF MCSpec, DefaultNeverTurns
-----------------------------------------------------------------------------
(***************************************************************************)
(* The powers of two, which the provers know only as the numbers of        *)
(* subsets.                                                                *)
(***************************************************************************)
LEMMA PowerCounts ==
  ASSUME NEW n \in Nat
  PROVE  /\ IsFiniteSet(SUBSET (1..n)) /\ Cardinality(SUBSET (1..n)) = 2^n
         /\ 2^n \in Nat /\ 2^n # 0
<1>1. IsFiniteSet(1..n) /\ Cardinality(1..n) = n
  BY FS_Interval
<1>2. IsFiniteSet(SUBSET (1..n)) /\ Cardinality(SUBSET (1..n)) = 2^n
  BY <1>1, FS_SUBSET
<1>3. {} \in SUBSET (1..n)  OBVIOUS
<1>. QED BY <1>2, <1>3, FS_CardinalityType, FS_EmptySet

\* Half of the subsets of 1..(n + 1) contain n + 1.
LEMMA PowerDoubles ==
  ASSUME NEW n \in Nat
  PROVE  2^(n + 1) = 2 * 2^n
<1>. DEFINE without == SUBSET (1..n)
            with    == {s \cup {n + 1} : s \in without}
            add     == [s \in without |-> s \cup {n + 1}]
<1>1. 1..(n + 1) = 1..n \cup {n + 1} /\ n + 1 \notin 1..n  OBVIOUS
<1>2. SUBSET (1..(n + 1)) = without \cup with
  <2>1. ASSUME NEW s \in SUBSET (1..(n + 1)) PROVE s \in without \cup with
    <3>1. CASE n + 1 \in s
      <4>1. s \ {n + 1} \in without  BY <1>1
      <4>2. s = (s \ {n + 1}) \cup {n + 1}  BY <3>1
      <4>. QED BY <4>1, <4>2
    <3>2. CASE n + 1 \notin s  BY <1>1, <3>2
    <3>. QED BY <3>1, <3>2
  <2>2. ASSUME NEW s \in without PROVE s \cup {n + 1} \in SUBSET (1..(n + 1))
    BY <1>1
  <2>3. \A t \in with : t \in SUBSET (1..(n + 1))  BY <2>2
  <2>4. \A s \in without : s \in SUBSET (1..(n + 1))  BY <1>1
  <2>. HIDE DEF without, with
  <2>. QED BY <2>1, <2>3, <2>4
<1>3. without \cap with = {}  BY <1>1
<1>4. ExistsBijection(without, with)
  <2>1. add \in [without -> with]  OBVIOUS
  <2>2. ASSUME NEW s \in without, NEW t \in without, add[s] = add[t] PROVE s = t
    <3>1. s \cup {n + 1} = t \cup {n + 1}  BY <2>2
    <3>2. n + 1 \notin s /\ n + 1 \notin t  BY <1>1
    <3>. QED BY <3>1, <3>2
  <2>3. \A t \in with : \E s \in without : add[s] = t  OBVIOUS
  <2>. QED BY <2>1, <2>2, <2>3 DEF ExistsBijection, Bijection, Injection, IsInjective, Surjection
<1>. HIDE DEF without, with, add
<1>5. /\ IsFiniteSet(without) /\ Cardinality(without) = 2^n
      /\ Cardinality(SUBSET (1..(n + 1))) = 2^(n + 1)
      /\ 2^n \in Nat
  <2>1. n + 1 \in Nat  OBVIOUS
  <2>. QED BY <2>1, PowerCounts DEF without
<1>6. IsFiniteSet(with) /\ Cardinality(with) = 2^n
  BY <1>4, <1>5, FS_Bijection
<1>7. Cardinality(without \cap with) = 0  BY <1>3, FS_EmptySet
<1>8. Cardinality(without \cup with) = 2^n + 2^n - 0
  BY <1>5, <1>6, <1>7, FS_Union
<1>9. 2^(n + 1) = 2^n + 2^n - 0  BY <1>2, <1>5, <1>8, Zenon
<1>. QED BY <1>5, <1>9

\* The width of the numbers, as a modulus.
Modulus == 2^Bits

LEMMA ModulusFacts ==
  /\ Modulus \in Nat /\ Modulus > 0
  /\ Lowest \in Int /\ Modulus = -2 * Lowest /\ Highest = Lowest + Modulus - 1
<1>1. Bits - 1 \in Nat /\ (Bits - 1) + 1 = Bits  BY BoundedDemandAssumption
<1>2. 2^Bits = 2 * 2^(Bits - 1)  BY <1>1, PowerDoubles
<1>3. 2^(Bits - 1) \in Nat /\ 2^(Bits - 1) # 0  BY <1>1, PowerCounts
<1>. DEFINE half == 2^(Bits - 1)
<1>4. Modulus = 2 * half /\ Lowest = -half /\ Highest = half - 1
  BY <1>2 DEF Modulus, Lowest, Highest
<1>. HIDE DEF half
<1>5. half \in Nat /\ half # 0  BY <1>3 DEF half
<1>. QED BY <1>4, <1>5

\* What wraps around differs by a multiple of the modulus, and fits.
LEMMA WrapFacts ==
  ASSUME NEW n \in Int
  PROVE  /\ Wrap(n) \in Numbers
         /\ \E q \in Int : Wrap(n) = n - q * Modulus
<1>. DEFINE m == Modulus
            low == Lowest
            q == (n - low) \div m
<1>1. m \in Nat /\ m > 0 /\ low \in Int /\ Highest = low + m - 1
  BY ModulusFacts
<1>2. Wrap(n) = ((n - low) % m) + low  BY DEF Wrap, Modulus
<1>. HIDE DEF m, low
<1>3. /\ (n - low) % m \in 0..(m - 1) /\ q \in Int
      /\ n - low = m * q + ((n - low) % m)
  BY <1>1
<1>4. Wrap(n) = n - q * m  BY <1>1, <1>2, <1>3
<1>5. Wrap(n) \in low..(low + m - 1)  BY <1>1, <1>2, <1>3
<1>. QED BY <1>1, <1>3, <1>4, <1>5 DEF Numbers, m, low

\* The only multiple of the modulus that fits is 0.
LEMMA NoOtherMultiple ==
  ASSUME NEW n \in Numbers, NEW k \in Int, n = k * Modulus
  PROVE  n = 0
<1>. DEFINE m == Modulus
<1>1. m \in Nat /\ m > 0 /\ n \in Int /\ -m < n /\ n < m /\ n = k * m
  BY ModulusFacts DEF Numbers
<1>. HIDE DEF m
<1>2. CASE k >= 1
  <2>1. k * m >= m  BY <1>1, <1>2
  <2>. QED BY <1>1, <2>1
<1>3. CASE k <= -1
  <2>1. k * m <= -m  BY <1>1, <1>3
  <2>. QED BY <1>1, <2>1
<1>4. CASE k = 0  BY <1>1, <1>4
<1>. QED BY <1>2, <1>3, <1>4

(***************************************************************************)
(* Round by round the demand has one more factor of two, until it has as   *)
(* many as the modulus.                                                    *)
(***************************************************************************)
Doublings(n, r) == \E k \in Int : n * 2^(Bits - r) = k * Modulus

LEMMA OneMoreDoubling ==
  ASSUME NEW n \in Int, NEW r \in Nat, r < Bits, Doublings(n, r),
         NEW i \in Int, i % 2 = 0
  PROVE  Doublings(Wrap(n * i), r + 1)
<1>. DEFINE p == 2^(Bits - (r + 1))
            m == Modulus
<1>1. PICK k \in Int : n * 2^(Bits - r) = k * m  BY DEF Doublings
<1>2. 2^(Bits - r) = 2 * p /\ p \in Nat
  <2>1. Bits - (r + 1) \in Nat /\ (Bits - (r + 1)) + 1 = Bits - r
    BY BoundedDemandAssumption
  <2>. QED BY <2>1, PowerDoubles, PowerCounts
<1>3. n * i \in Int  OBVIOUS
<1>4. PICK q \in Int : Wrap(n * i) = n * i - q * m  BY <1>3, WrapFacts
<1>5. PICK h \in Int : i = 2 * h
  <2>1. i \div 2 \in Int /\ i = 2 * (i \div 2)  OBVIOUS
  <2>. QED BY <2>1
<1>6. m \in Int  BY ModulusFacts
<1>. HIDE DEF p, m
<1>7. n * (2 * p) = k * m  BY <1>1, <1>2
<1>8. (n * (2 * h) - q * m) * p = (h * k - q * p) * m
  <2>1. (n * (2 * h)) * p = h * (n * (2 * p))  BY <1>2
  <2>2. (n * (2 * h)) * p = (h * k) * m  BY <1>2, <1>6, <1>7, <2>1
  <2>3. (q * m) * p = (q * p) * m  BY <1>2, <1>6
  <2>. QED BY <1>2, <1>6, <2>2, <2>3
<1>9. h * k - q * p \in Int  BY <1>2
<1>10. Wrap(n * i) * p = (h * k - q * p) * m  BY <1>4, <1>5, <1>8
<1>. QED BY <1>9, <1>10 DEF Doublings, p, m

EvenProduct == style.type = "Multiplication" /\ style.increase % 2 = 0

VanishInv ==
  /\ style.type = "Multiplication" => style.increase \in Int
  /\ EvenProduct => demand \in Numbers /\ round \in Nat
  /\ EvenProduct => IF round < Bits THEN Doublings(demand, round) ELSE demand = 0

LEMMA InitVanishInv == MCInit => VanishInv
<1>. SUFFICES ASSUME MCInit PROVE VanishInv
  OBVIOUS
<1>1. CASE input = Rounds /\ Init
  <2>1. style \in Styles /\ demand \in Starts /\ round = 0  BY <1>1 DEF Init
  <2>2. style.type = "Multiplication" => style.increase \in Int
    BY <2>1, BoundedDemandAssumption DEF OrderStyles
  <2>3. demand \in Numbers /\ demand \in Int
    BY <2>1, BoundedDemandAssumption, Limits DEF Numbers
  <2>4. Doublings(demand, 0)
    <3>1. Bits - 0 = Bits /\ Modulus \in Int  BY BoundedDemandAssumption, ModulusFacts
    <3>2. demand * 2^(Bits - 0) = demand * Modulus  BY <3>1 DEF Modulus
    <3>. QED BY <2>3, <3>2 DEF Doublings
  <2>. QED BY <2>1, <2>2, <2>3, <2>4, BoundedDemandAssumption DEF VanishInv
<1>2. CASE style = [type |-> "Default"]
  BY <1>2 DEF VanishInv, EvenProduct
<1>. QED BY <1>1, <1>2 DEF MCInit

LEMMA FinishEvenProduct ==
  ASSUME VanishInv, FinishRound, EvenProduct
  PROVE  /\ demand' \in Numbers /\ round' \in Nat
         /\ IF round' < Bits THEN Doublings(demand', round') ELSE demand' = 0
<1>1. style.type = "Multiplication" /\ style.increase \in Int /\ style.increase % 2 = 0
  BY DEF VanishInv, EvenProduct
<1>2. demand \in Numbers /\ demand \in Int /\ round \in Nat
  BY Limits DEF VanishInv, Numbers
<1>3. demand' = Wrap(demand * style.increase) /\ round' = round + 1
  BY <1>1 DEF FinishRound, next_demand, generate_demand
<1>4. demand' \in Numbers  BY <1>1, <1>2, <1>3, WrapFacts
<1>5. CASE round < Bits
  <2>1. Doublings(demand', round + 1)
    BY <1>1, <1>2, <1>3, <1>5, OneMoreDoubling DEF VanishInv
  <2>2. CASE round + 1 < Bits  BY <1>2, <1>3, <1>4, <2>1, <2>2
  <2>3. CASE ~(round + 1 < Bits)
    <3>1. Bits - (round + 1) = 0  BY <1>2, <1>5, <2>3, BoundedDemandAssumption
    <3>2. PICK k \in Int : demand' * 2^0 = k * Modulus  BY <2>1, <3>1 DEF Doublings
    <3>3. demand' \in Int  BY <1>4, Limits DEF Numbers
    <3>4. demand' = k * Modulus  BY <3>2, <3>3
    <3>5. demand' = 0  BY <1>4, <3>4, NoOtherMultiple
    <3>. QED BY <1>2, <1>3, <1>4, <2>3, <3>5
  <2>. QED BY <2>2, <2>3
<1>6. CASE ~(round < Bits)
  <2>1. demand = 0  BY <1>6 DEF VanishInv
  <2>2. PICK q \in Int : demand' = demand * style.increase - q * Modulus
    BY <1>1, <1>2, <1>3, WrapFacts
  <2>3. demand' = (-q) * Modulus  BY <1>1, <2>1, <2>2, ModulusFacts
  <2>4. demand' = 0  BY <1>4, <2>3, NoOtherMultiple
  <2>. QED BY <1>2, <1>3, <1>4, <1>6, <2>4, BoundedDemandAssumption
<1>. QED BY <1>5, <1>6

LEMMA NextVanishInv == VanishInv /\ [MCNext]_<<input, output, vars>> => VanishInv'
<1>. SUFFICES ASSUME VanishInv, [MCNext]_<<input, output, vars>> PROVE VanishInv'
  OBVIOUS
<1>1. CASE FinishRound
  <2>1. style' = style  BY <1>1 DEF FinishRound
  <2>. QED BY <1>1, <2>1, FinishEvenProduct DEF VanishInv, EvenProduct
<1>2. CASE UNCHANGED <<style, demand, round>>
  BY <1>2 DEF VanishInv, EvenProduct
<1>. QED BY <1>1, <1>2 DEF MCNext, ApplyOnce, PlayRound, Next, Panic, vars

\* Multiplying the demand by an even number wraps to 0 after at most as many
\* rounds as a number has bits, and it stays 0 (game.rs:948-961 in a release
\* build), whatever the width, the factor and the demand at the start.
THEOREM EvenProductsVanish == MCSpec => []EvenMultiplicationVanishes
<1>1. VanishInv => EvenMultiplicationVanishes
  BY BoundedDemandAssumption DEF VanishInv, EvenMultiplicationVanishes, EvenProduct
<1>. QED BY <1>1, InitVanishInv, NextVanishInv, PTL DEF MCSpec
=============================================================================
