------------------------ MODULE PortfolioService_proofs ------------------------
(***************************************************************************)
(* Positions and money of the portfolio service, for any users, symbols    *)
(* and fills.                                                              *)
(***************************************************************************)
EXTENDS PortfolioService, FiniteSetTheorems, WellFoundedInduction, SequenceTheorems, TLAPS

-----------------------------------------------------------------------------
(* Sums over a finite set.  The library adds one element at a time, whichever  *)
(* CHOOSE picks; its definition is by recursion over the subsets, so a lemma   *)
(* about it looks at a smallest subset for which it would fail.                *)

\* g summed over the subsets of T.
IsSum(h, g, T) ==
    h = [s \in SUBSET T |->
            IF s = {} THEN 0
            ELSE LET x == CHOOSE x \in s : TRUE IN g[x] + h[s \ {x}]]

\* A family of subsets of a finite set has a smallest member.
LEMMA SmallestMember ==
    ASSUME NEW S, IsFiniteSet(S), NEW B \in SUBSET SUBSET S, B # {}
    PROVE  \E T \in B : \A U \in B : U \subseteq T => U = T
<1>1. IsWellFoundedOn(StrictSubsetOrdering(S), FiniteSubsetsOf(S))
  BY FS_StrictSubsetOrderingWellFounded
<1>2. B \subseteq FiniteSubsetsOf(S)
  BY FS_FiniteSubsetsOfFinite
<1>3. PICK T \in B : \A U \in B : ~ (<<U, T>> \in StrictSubsetOrdering(S))
  BY <1>1, <1>2, WFMin
<1> QED
  BY <1>3 DEF StrictSubsetOrdering

\* Two sums of the same summands agree where both are defined.
LEMMA SumsAgree ==
    ASSUME NEW S, IsFiniteSet(S), NEW g, NEW h, NEW k, NEW U \in SUBSET S, NEW V \in SUBSET S,
           IsSum(h, g, U), IsSum(k, g, V), NEW s \in SUBSET (U \cap V)
    PROVE  h[s] = k[s]
<1> SUFFICES ASSUME h[s] # k[s] PROVE FALSE
  OBVIOUS
<1> DEFINE B == {t \in SUBSET (U \cap V) : h[t] # k[t]}
<1>1. B \in SUBSET SUBSET S /\ B # {}
  OBVIOUS
<1>2. PICK t \in B : \A u \in B : u \subseteq t => u = t
  <2> HIDE DEF B
  <2> QED
    BY <1>1, SmallestMember
<1> DEFINE x == CHOOSE x \in t : TRUE
<1>3. t # {}
  BY <1>2 DEF IsSum
<1>4. x \in t
  BY <1>3
<1>5. t \ {x} \in SUBSET (U \cap V) /\ t \ {x} \notin B
  BY <1>2, <1>4
<1>6. h[t] = g[x] + h[t \ {x}]
  BY <1>2, <1>3 DEF IsSum
<1>7. k[t] = g[x] + k[t \ {x}]
  BY <1>2, <1>3 DEF IsSum
<1> QED
  BY <1>2, <1>5, <1>6, <1>7

\* A finite set has a sum.
LEMMA SumExists ==
    ASSUME NEW S, IsFiniteSet(S), NEW g
    PROVE  \E h : IsSum(h, g, S)
<1> SUFFICES ASSUME ~ \E h : IsSum(h, g, S) PROVE FALSE
  OBVIOUS
<1> DEFINE B == {T \in SUBSET S : ~ \E h : IsSum(h, g, T)}
<1>1. B \in SUBSET SUBSET S /\ B # {}
  OBVIOUS
<1>2. PICK T \in B : \A U \in B : U \subseteq T => U = T
  <2> HIDE DEF B
  <2> QED
    BY <1>1, SmallestMember
<1> DEFINE Of0(U) == CHOOSE h : IsSum(h, g, U)
           H == [s \in SUBSET T |->
                   IF s = {} THEN 0
                   ELSE LET x == CHOOSE x \in s : TRUE IN g[x] + Of0(s \ {x})[s \ {x}]]
<1>3. ASSUME NEW U \in SUBSET T, U # T PROVE IsSum(Of0(U), g, U)
  <2>1. \E h : IsSum(h, g, U)
    BY <1>2, <1>3
  <2> QED
    BY <2>1
<1>4. ASSUME NEW U \in SUBSET T, U # T PROVE H[U] = Of0(U)[U]
  <2>1. IsSum(Of0(U), g, U)
    BY <1>3, <1>4
  <2> DEFINE x == CHOOSE x \in U : TRUE
  <2>2. CASE U = {}
    <3>1. H[U] = 0
      BY <2>2
    <3>2. Of0(U)[U] = 0
      BY <2>1, <2>2 DEF IsSum
    <3> QED
      BY <3>1, <3>2
  <2>3. CASE U # {}
    <3>1. x \in U /\ U \ {x} \in SUBSET T /\ U \ {x} # T
      BY <2>3
    <3>2. IsSum(Of0(U \ {x}), g, U \ {x})
      BY <1>3, <3>1
    <3>3. Of0(U \ {x})[U \ {x}] = Of0(U)[U \ {x}]
      <4> HIDE DEF Of0, x
      <4> QED
        BY <2>1, <3>1, <3>2, <1>2, SumsAgree
    <3>4. H[U] = g[x] + Of0(U \ {x})[U \ {x}]
      <4> HIDE DEF Of0
      <4> QED
        BY <2>3
    <3>5. Of0(U)[U] = g[x] + Of0(U)[U \ {x}]
      <4> HIDE DEF Of0
      <4> QED
        BY <2>1, <2>3 DEF IsSum
    <3> QED
      BY <3>3, <3>4, <3>5
  <2> QED
    BY <2>2, <2>3
<1>5. ASSUME NEW s \in SUBSET T, s # {}
      PROVE  LET x == CHOOSE x \in s : TRUE IN Of0(s \ {x})[s \ {x}] = H[s \ {x}]
  <2> DEFINE x == CHOOSE x \in s : TRUE
  <2>1. x \in s /\ s \ {x} \in SUBSET T /\ s \ {x} # T
    BY <1>5
  <2> HIDE DEF H, Of0
  <2> QED
    BY <1>4, <2>1
<1>6. IsSum(H, g, T)
  <2>1. H = [s \in SUBSET T |->
                IF s = {} THEN 0 ELSE LET x == CHOOSE x \in s : TRUE IN g[x] + H[s \ {x}]]
    <3>1. \A s \in SUBSET T :
             (IF s = {} THEN 0
              ELSE LET x == CHOOSE x \in s : TRUE IN g[x] + Of0(s \ {x})[s \ {x}])
           = (IF s = {} THEN 0 ELSE LET x == CHOOSE x \in s : TRUE IN g[x] + H[s \ {x}])
      <4> HIDE DEF H, Of0
      <4> QED
        BY <1>5
    <3>2. H = [s \in SUBSET T |->
                   IF s = {} THEN 0
                   ELSE LET x == CHOOSE x \in s : TRUE IN g[x] + Of0(s \ {x})[s \ {x}]]
      OBVIOUS
    <3> HIDE DEF H, Of0
    <3> QED
      BY <3>1, <3>2
  <2> HIDE DEF H
  <2> QED
    BY <2>1 DEF IsSum
<1> QED
  BY <1>2, <1>6

\* The sum of the library is such a sum.
LEMMA SumIsSum ==
    ASSUME NEW S, IsFiniteSet(S), NEW g
    PROVE  \E h : IsSum(h, g, S) /\ SumFunctionOnSet(g, S) = h[S]
<1> DEFINE h == CHOOSE h : IsSum(h, g, S)
<1>1. IsSum(h, g, S)
  BY SumExists
<1>2. SumFunctionOnSet(g, S) = h[S]
  BY DEF SumFunctionOnSet, FoldFunctionOnSet, MapThenFoldSet, IsSum
<1> QED
  BY <1>1, <1>2

\* The sum of nothing.
LEMMA SumEmpty ==
    ASSUME NEW g
    PROVE  SumFunctionOnSet(g, {}) = 0
<1>1. PICK h : IsSum(h, g, {}) /\ SumFunctionOnSet(g, {}) = h[{}]
  BY SumIsSum, FS_EmptySet
<1> QED
  BY <1>1 DEF IsSum

\* Whichever element is taken out first, the sum is the same, and an integer.
LEMMA AnyElement ==
    ASSUME NEW S, IsFiniteSet(S), NEW g, \A x \in S : g[x] \in Int, NEW h, IsSum(h, g, S),
           NEW T \in SUBSET S
    PROVE  h[T] \in Int /\ \A x \in T : h[T] = g[x] + h[T \ {x}]
<1> DEFINE Bad == {t \in SUBSET S : ~ (h[t] \in Int /\ \A x \in t : h[t] = g[x] + h[t \ {x}])}
<1> SUFFICES ASSUME T \in Bad PROVE FALSE
  OBVIOUS
<1>1. PICK t \in Bad : \A u \in Bad : u \subseteq t => u = t
  <2>1. Bad \in SUBSET SUBSET S /\ Bad # {}
    OBVIOUS
  <2> HIDE DEF Bad
  <2> QED
    BY <2>1, SmallestMember
<1>2. ASSUME NEW u \in SUBSET t, u # t
      PROVE  h[u] \in Int /\ \A x \in u : h[u] = g[x] + h[u \ {x}]
  BY <1>1, <1>2
<1>3. t \in SUBSET S /\ t # {}
  BY <1>1 DEF IsSum
<1> DEFINE c == CHOOSE x \in t : TRUE
<1>4. c \in t
  BY <1>3
<1>5. h[t] = g[c] + h[t \ {c}]
  BY <1>3 DEF IsSum
<1> HIDE DEF c, Bad
<1>6. h[t] \in Int
  <2>1. t \ {c} \in SUBSET t /\ t \ {c} # t
    BY <1>4
  <2>2. h[t \ {c}] \in Int /\ g[c] \in Int
    BY <1>2, <1>3, <1>4, <2>1
  <2> QED
    BY <1>5, <2>2
<1>7. ASSUME NEW x \in t PROVE h[t] = g[x] + h[t \ {x}]
  <2>1. CASE x = c
    BY <1>5, <2>1
  <2>2. CASE x # c
    <3>1. h[t \ {c}] = g[x] + h[(t \ {c}) \ {x}]
      <4>1. t \ {c} \in SUBSET t /\ t \ {c} # t /\ x \in t \ {c}
        BY <1>4, <2>2
      <4> QED
        BY <1>2, <4>1
    <3>2. h[t \ {x}] = g[c] + h[(t \ {x}) \ {c}]
      <4>1. t \ {x} \in SUBSET t /\ t \ {x} # t /\ c \in t \ {x}
        BY <1>4, <2>2
      <4> QED
        BY <1>2, <4>1
    <3>3. (t \ {c}) \ {x} = (t \ {x}) \ {c}
      OBVIOUS
    <3>4. h[(t \ {c}) \ {x}] \in Int
      <4>1. (t \ {c}) \ {x} \in SUBSET t /\ (t \ {c}) \ {x} # t
        BY <1>4
      <4> QED
        BY <1>2, <4>1
    <3>5. g[x] \in Int /\ g[c] \in Int
      BY <1>3, <1>4
    <3> DEFINE rest0 == h[(t \ {c}) \ {x}]
    <3>6. h[t] = g[c] + (g[x] + rest0) /\ h[t \ {x}] = g[c] + rest0 /\ rest0 \in Int
      BY <1>5, <3>1, <3>2, <3>3, <3>4
    <3> HIDE DEF rest0
    <3> QED
      BY <3>5, <3>6
  <2> QED
    BY <2>1, <2>2
<1> QED
  BY <1>1, <1>6, <1>7 DEF Bad

\* The sum of a set is an integer, and any element of it can be taken out.
LEMMA SumRemove ==
    ASSUME NEW S, IsFiniteSet(S), NEW g, \A x \in S : g[x] \in Int
    PROVE  /\ SumFunctionOnSet(g, S) \in Int
           /\ \A x \in S : SumFunctionOnSet(g, S) = g[x] + SumFunctionOnSet(g, S \ {x})
<1>1. PICK h : IsSum(h, g, S) /\ SumFunctionOnSet(g, S) = h[S]
  BY SumIsSum
<1>2. h[S] \in Int /\ \A x \in S : h[S] = g[x] + h[S \ {x}]
  <2>1. IsSum(h, g, S) /\ S \in SUBSET S
    BY <1>1
  <2>2. \A T \in SUBSET S : h[T] \in Int /\ \A x \in T : h[T] = g[x] + h[T \ {x}]
    BY <2>1, AnyElement
  <2> QED
    BY ONLY <2>1, <2>2
<1>3. ASSUME NEW x \in S PROVE SumFunctionOnSet(g, S \ {x}) = h[S \ {x}]
  <2>1. IsFiniteSet(S \ {x})
    BY FS_RemoveElement
  <2>2. PICK k : IsSum(k, g, S \ {x}) /\ SumFunctionOnSet(g, S \ {x}) = k[S \ {x}]
    BY <2>1, SumIsSum
  <2>3. S \ {x} \in SUBSET S /\ S \in SUBSET S /\ S \ {x} \in SUBSET (S \cap (S \ {x}))
    OBVIOUS
  <2>4. h[S \ {x}] = k[S \ {x}]
    BY <1>1, <2>2, <2>3, SumsAgree
  <2> QED
    BY <2>2, <2>4
<1> QED
  BY <1>1, <1>2, <1>3

\* An element that is not in the set adds its summand.
LEMMA SumAdd ==
    ASSUME NEW S, IsFiniteSet(S), NEW g, NEW x, x \notin S, \A y \in S \cup {x} : g[y] \in Int
    PROVE  SumFunctionOnSet(g, S \cup {x}) = SumFunctionOnSet(g, S) + g[x]
<1>1. IsFiniteSet(S \cup {x}) /\ (S \cup {x}) \ {x} = S
  BY FS_AddElement
<1>2. SumFunctionOnSet(g, S) \in Int
  BY SumRemove
<1>3. \A y \in S \cup {x} : SumFunctionOnSet(g, S \cup {x})
                              = g[y] + SumFunctionOnSet(g, (S \cup {x}) \ {y})
  BY <1>1, SumRemove
<1>4. SumFunctionOnSet(g, S \cup {x}) = g[x] + SumFunctionOnSet(g, S)
  BY <1>1, <1>3
<1> QED
  BY <1>2, <1>4

\* A sum depends on the summands of the set and on nothing else.
LEMMA SumsEqual ==
    ASSUME NEW S, IsFiniteSet(S), NEW g, NEW k, \A x \in S : g[x] = k[x]
    PROVE  SumFunctionOnSet(g, S) = SumFunctionOnSet(k, S)
<1>1. PICK h : IsSum(h, g, S) /\ SumFunctionOnSet(g, S) = h[S]
  BY SumIsSum
<1>2. IsSum(h, k, S)
  <2>1. \A s \in SUBSET S :
           (IF s = {} THEN 0 ELSE LET x == CHOOSE x \in s : TRUE IN g[x] + h[s \ {x}])
         = (IF s = {} THEN 0 ELSE LET x == CHOOSE x \in s : TRUE IN k[x] + h[s \ {x}])
    OBVIOUS
  <2>2. h = [s \in SUBSET S |-> IF s = {} THEN 0
                                ELSE LET x == CHOOSE x \in s : TRUE IN g[x] + h[s \ {x}]]
    BY <1>1 DEF IsSum
  <2>3. h = [s \in SUBSET S |-> IF s = {} THEN 0
                                ELSE LET x == CHOOSE x \in s : TRUE IN k[x] + h[s \ {x}]]
    BY <2>1, <2>2
  <2> QED
    BY <2>3 DEF IsSum
<1>3. PICK j : IsSum(j, k, S) /\ SumFunctionOnSet(k, S) = j[S]
  BY SumIsSum
<1>4. h[S] = j[S]
  BY <1>2, <1>3, SumsAgree
<1> QED
  BY <1>1, <1>3, <1>4

\* A sum in which one summand changes, changes by as much.
LEMMA SumChange ==
    ASSUME NEW S, IsFiniteSet(S), NEW g, NEW k, NEW x \in S,
           \A y \in S : g[y] \in Int /\ k[y] \in Int, \A y \in S \ {x} : g[y] = k[y]
    PROVE  SumFunctionOnSet(k, S) = SumFunctionOnSet(g, S) - g[x] + k[x]
<1>1. IsFiniteSet(S \ {x})
  BY FS_RemoveElement
<1>2. SumFunctionOnSet(g, S \ {x}) = SumFunctionOnSet(k, S \ {x})
  BY <1>1, SumsEqual
<1>3. SumFunctionOnSet(g, S) = g[x] + SumFunctionOnSet(g, S \ {x})
  BY SumRemove
<1>4. SumFunctionOnSet(k, S) = k[x] + SumFunctionOnSet(k, S \ {x})
  BY SumRemove
<1>5. SumFunctionOnSet(g, S \ {x}) \in Int
  BY <1>1, SumRemove
<1> QED
  BY <1>2, <1>3, <1>4, <1>5

-----------------------------------------------------------------------------
(* Types.                                                                   *)

USE SymbolsAssumption, BoundsAssumption

Accounts == Users \cup {Blank}
Working == {"apply", "mark", "remove", "publish"} \cup Recalculating

\* Every portfolio is typed, a stored position holds something, and a user without a
\* portfolio has nothing.
PortfolioOK(p) ==
    /\ p \in Portfolio
    /\ \A s \in Symbols : p.positions[s].side # "none" <=> p.positions[s].qty > 0
    /\ ~ p.exists => p = NoPortfolio

\* While the consumer works on a fill, the fill names a portfolio and a side; what it
\* has still to open is more than nothing when it applies it, and nothing when it is done.
WorkInv ==
    /\ \A u \in Accounts : PortfolioOK(portfolios[u])
    /\ pc.consumer \in Working => MatchingKeys /\ Event.side \in Sides
    /\ pc.consumer = "apply" => rest > 0
    /\ rest > 0 => pc.consumer \in {"apply", "remove"} \cup Recalculating

Typing == TypeOK /\ WorkInv

\* What the event in hand may say.
LEMMA EventFacts ==
    ASSUME TypeOK, next # 0
    PROVE  /\ log[next] \in Executions
           /\ Event.id \in Executions \cup {Blank} /\ Event.user \in Accounts
           /\ Event.symbol \in Symbols /\ Event.side \in Sides \cup {"other"}
           /\ Event.qty \in Nat /\ Event.price \in Nat /\ Event.fees \in Nat
           /\ MatchingKeys => /\ Event.id = log[next] /\ Event.user \in Users
                              /\ Event.user = EventOf[log[next]].user
                              /\ Event.symbol = EventOf[log[next]].symbol
                              /\ Event.side = EventOf[log[next]].side
                              /\ Event.qty = EventOf[log[next]].qty
                              /\ Event.price = EventOf[log[next]].price
                              /\ Event.fees = EventOf[log[next]].fees
           /\ ~ MatchingKeys => Event.qty = 0
<1>1. PICK e \in Executions : e = log[next]
  BY DEF TypeOK
<1>2. EventOf[e] \in [user : Users, symbol : Symbols, side : Sides \cup {"other"},
                      qty : Nat, price : Nat, fees : Nat]
  BY EventAssumption
<1>3. Event = Decode(e)
  BY <1>1 DEF Event
<1>4. CASE MatchingKeys
  BY <1>1, <1>2, <1>3, <1>4 DEF Decode, Accounts
<1>5. CASE ~ MatchingKeys
  BY <1>1, <1>2, <1>3, <1>5 DEF Decode, Accounts
<1> QED
  BY <1>4, <1>5

\* The event in hand stays what it is while neither the topic nor the offset changes,
\* or the topic only grows.
LEMMA SameEvent ==
    ASSUME next' = next, log'[next] = log[next]
    PROVE  Event' = Event
  BY DEF Event

\* The portfolio of an account, in its parts.
LEMMA PortfolioParts ==
    ASSUME NEW p, PortfolioOK(p)
    PROVE  /\ p.exists \in BOOLEAN /\ p.realized \in Int /\ p.unrealized \in Int
           /\ p.total \in Int /\ p.balance \in Int /\ p.count \in Nat
           /\ p.positions \in [Symbols -> PositionType]
           /\ \A s \in Symbols :
                 /\ p.positions[s].side \in Sides \cup {"none"}
                 /\ p.positions[s].qty \in Nat /\ p.positions[s].avg \in Nat
                 /\ p.positions[s].upnl \in Int
                 /\ p.positions[s].side # "none" <=> p.positions[s].qty > 0
  BY DEF PortfolioOK, Portfolio, PositionType

\* A position that is put in its place leaves the portfolio typed.
LEMMA PutTyping ==
    ASSUME NEW p, PortfolioOK(p), p.exists, NEW s \in Symbols, NEW pos \in PositionType,
           pos.side # "none" <=> pos.qty > 0
    PROVE  /\ PortfolioOK([p EXCEPT !.positions[s] = pos])
           /\ [p EXCEPT !.positions[s] = pos].exists
<1> DEFINE q == [p EXCEPT !.positions[s] = pos]
<1>1. p \in Portfolio
  BY DEF PortfolioOK
<1>2. q.positions = [p.positions EXCEPT ![s] = pos]
  BY <1>1 DEF Portfolio
<1>3. q.positions \in [Symbols -> PositionType]
  BY <1>1, <1>2 DEF Portfolio
<1>4. q \in Portfolio
  BY <1>1, <1>3 DEF Portfolio
<1>5. \A t \in Symbols : q.positions[t].side # "none" <=> q.positions[t].qty > 0
  BY <1>1, <1>2 DEF PortfolioOK, Portfolio
<1>6. q.exists
  BY <1>1 DEF Portfolio
<1> QED
  BY <1>4, <1>5, <1>6 DEF PortfolioOK

\* So does a profit that is realized.
LEMMA RealizeTyping ==
    ASSUME NEW p, PortfolioOK(p), p.exists, NEW pnl \in Int, NEW fees \in Int
    PROVE  /\ PortfolioOK(RealizePnL(p, pnl, fees))
           /\ RealizePnL(p, pnl, fees).exists
           /\ RealizePnL(p, pnl, fees).positions = p.positions
           /\ RealizePnL(p, pnl, fees).realized = p.realized + pnl - fees
           /\ RealizePnL(p, pnl, fees).balance = p.balance + pnl - fees
<1>1. p \in Portfolio
  BY DEF PortfolioOK
<1>2. p.realized \in Int /\ p.unrealized \in Int /\ p.balance \in Int /\ p.count \in Nat
  BY PortfolioParts
<1>3. RealizePnL(p, pnl, fees) \in Portfolio
  <2> DEFINE r == p.realized + pnl - fees
             t == p.realized + pnl - fees + p.unrealized
             b == p.balance + pnl - fees
             c == p.count + 1
  <2>1. r \in Int /\ t \in Int /\ b \in Int /\ c \in Nat
    BY <1>2
  <2>2. RealizePnL(p, pnl, fees) = [p EXCEPT !.realized = r, !.total = t, !.balance = b, !.count = c]
    BY DEF RealizePnL
  <2> HIDE DEF r, t, b, c
  <2>3. [p EXCEPT !.realized = r, !.total = t, !.balance = b, !.count = c] \in Portfolio
    BY <1>1, <2>1 DEF Portfolio
  <2> QED
    BY <2>2, <2>3
<1>4. /\ RealizePnL(p, pnl, fees).exists
      /\ RealizePnL(p, pnl, fees).positions = p.positions
      /\ RealizePnL(p, pnl, fees).realized = p.realized + pnl - fees
      /\ RealizePnL(p, pnl, fees).balance = p.balance + pnl - fees
  BY <1>1 DEF Portfolio, RealizePnL
<1> QED
  BY <1>3, <1>4 DEF PortfolioOK

\* A profit is an integer.
LEMMA ProfitType ==
    ASSUME NEW pos \in PositionType, NEW qty \in Nat, NEW price \in Nat
    PROVE  Profit(pos, qty, price) \in Int
<1>1. pos.avg \in Nat
  BY DEF PositionType
<1>2. (price - pos.avg) * qty \in Int /\ (pos.avg - price) * qty \in Int
  BY <1>1
<1> QED
  BY <1>2 DEF Profit

\* The profits of a portfolio's positions add up to an integer.
LEMMA UnrealizedType ==
    ASSUME NEW p, PortfolioOK(p)
    PROVE  Unrealized(p) \in Int
<1> DEFINE f == [s \in Symbols |-> p.positions[s].upnl]
<1>1. \A s \in Symbols : f[s] \in Int
  BY PortfolioParts
<1>2. DOMAIN f = Symbols
  OBVIOUS
<1> HIDE DEF f
<1>3. SumFunctionOnSet(f, Symbols) \in Int
  BY <1>1, SumRemove
<1>4. Unrealized(p) = SumFunctionOnSet(f, Symbols)
  BY <1>2 DEF Unrealized, SumFunction, f
<1> QED
  BY <1>3, <1>4

\* An average of natural numbers is one.
LEMMA QuotientType ==
    ASSUME NEW a \in Nat, NEW b \in Nat, b > 0
    PROVE  a \div b \in Nat
  OBVIOUS

PortfoliosTyped ==
    /\ portfolios \in [Accounts -> Portfolio]
    /\ \A u \in Accounts : PortfolioOK(portfolios[u])
    /\ \A u \in Accounts, s \in Symbols :
          LET pos == portfolios[u].positions[s]
          IN pos.side # "none" <=> pos.qty > 0

LEMMA TypedPortfolios == Typing => PortfoliosTyped
  BY DEF Typing, TypeOK, WorkInv, PortfoliosTyped, Accounts

\* One portfolio changes, into one that is typed.
LEMMA ChangeOne ==
    ASSUME PortfoliosTyped, NEW u \in Accounts, NEW p, PortfolioOK(p),
           portfolios' = [portfolios EXCEPT ![u] = p]
    PROVE  /\ PortfoliosTyped'
           /\ portfolios'[u] = p
           /\ \A v \in Accounts \ {u} : portfolios'[v] = portfolios[v]
<1>1. p \in Portfolio /\ \A s \in Symbols : p.positions[s].side # "none" <=> p.positions[s].qty > 0
  BY DEF PortfolioOK
<1>2. /\ portfolios' \in [Accounts -> Portfolio]
      /\ portfolios'[u] = p
      /\ \A v \in Accounts \ {u} : portfolios'[v] = portfolios[v]
  BY <1>1 DEF PortfoliosTyped
<1>3. ASSUME NEW v \in Accounts
      PROVE  /\ PortfolioOK(portfolios'[v])
             /\ \A s \in Symbols : portfolios'[v].positions[s].side # "none"
                                   <=> portfolios'[v].positions[s].qty > 0
  <2>1. CASE v = u
    BY <1>1, <1>2, <2>1
  <2>2. CASE v # u
    BY <1>2, <2>2 DEF PortfoliosTyped
  <2> QED
    BY <2>1, <2>2
<1> QED
  BY <1>2, <1>3 DEF PortfoliosTyped

\* The position of the event in hand is put in its place.
LEMMA PutsOne ==
    ASSUME Typing, next # 0, portfolios[Event.user].exists, NEW pos \in PositionType,
           pos.side # "none" <=> pos.qty > 0, Puts(pos)
    PROVE  LET p == [portfolios[Event.user] EXCEPT !.positions[Event.symbol] = pos]
           IN /\ portfolios' = [portfolios EXCEPT ![Event.user] = p]
              /\ PortfoliosTyped' /\ portfolios'[Event.user] = p /\ p.exists
              /\ \A v \in Accounts \ {Event.user} : portfolios'[v] = portfolios[v]
<1> DEFINE u == Event.user
           p == [portfolios[u] EXCEPT !.positions[Event.symbol] = pos]
<1>1. u \in Accounts /\ Event.symbol \in Symbols /\ PortfoliosTyped
  BY EventFacts, TypedPortfolios DEF Typing
<1>2. PortfolioOK(portfolios[u])
  BY <1>1 DEF PortfoliosTyped
<1>3. PortfolioOK(p) /\ p.exists
  BY <1>1, <1>2, PutTyping
<1>4. portfolios' = [portfolios EXCEPT ![u] = p]
  BY DEF Puts
<1> HIDE DEF p, u
<1>5. /\ PortfoliosTyped' /\ portfolios'[u] = p
      /\ \A v \in Accounts \ {u} : portfolios'[v] = portfolios[v]
  BY <1>1, <1>3, <1>4, ChangeOne
<1> QED
  BY <1>3, <1>4, <1>5 DEF p, u

\* A portfolio in which nothing is held, not yet made and new.
LEMMA EmptyPortfolio ==
    /\ NoPosition \in PositionType /\ NoPosition.side = "none" /\ NoPosition.qty = 0
    /\ NoPortfolio \in Portfolio /\ NewPortfolio \in Portfolio
    /\ ~ NoPortfolio.exists /\ NewPortfolio.exists
    /\ NewPortfolio.balance = InitialBalance /\ NewPortfolio.realized = 0
    /\ NoPortfolio.realized = 0
    /\ \A s \in Symbols : NoPortfolio.positions[s] = NoPosition
    /\ \A s \in Symbols : NewPortfolio.positions[s] = NoPosition
    /\ PortfolioOK(NoPortfolio) /\ PortfolioOK(NewPortfolio)
<1>1. NoPosition \in PositionType /\ NoPosition.side = "none" /\ NoPosition.qty = 0
  BY DEF NoPosition, PositionType
<1>2. NoPortfolio \in Portfolio /\ ~ NoPortfolio.exists /\ NoPortfolio.realized = 0
  BY <1>1 DEF NoPortfolio, Portfolio
<1>3. NewPortfolio \in Portfolio
  <2>1. InitialBalance \in Int
    BY MoneyAssumption
  <2>2. [NoPortfolio EXCEPT !.exists = TRUE] \in Portfolio
    BY <1>2 DEF Portfolio
  <2> DEFINE p == [NoPortfolio EXCEPT !.exists = TRUE]
  <2> HIDE DEF p
  <2>3. [p EXCEPT !.balance = InitialBalance] \in Portfolio
    BY <2>1, <2>2 DEF Portfolio, p
  <2> QED
    BY <2>3 DEF NewPortfolio, p
<1>4. /\ NewPortfolio.exists /\ NewPortfolio.balance = InitialBalance
      /\ NewPortfolio.realized = 0
  BY <1>2, MoneyAssumption DEF NewPortfolio, NoPortfolio
<1>5. /\ \A s \in Symbols : NoPortfolio.positions[s] = NoPosition
      /\ \A s \in Symbols : NewPortfolio.positions[s] = NoPosition
  BY DEF NewPortfolio, NoPortfolio
<1>6. PortfolioOK(NoPortfolio) /\ PortfolioOK(NewPortfolio)
  BY <1>1, <1>2, <1>3, <1>4, <1>5 DEF PortfolioOK
<1> QED
  BY <1>1, <1>2, <1>3, <1>4, <1>5, <1>6

\* Nobody has a portfolio.
LEMMA NoneTyped ==
    ASSUME portfolios = [u \in Users \cup {Blank} |-> NoPortfolio]
    PROVE  PortfoliosTyped
  BY EmptyPortfolio DEF PortfoliosTyped, Accounts

LEMMA InitTyping == Init => Typing
<1> SUFFICES ASSUME Init PROVE Typing
  OBVIOUS
<1> USE DEF Init
<1>1. PortfoliosTyped
  BY NoneTyped
<1>2. TypeOK
  BY <1>1 DEF TypeOK, PortfoliosTyped, Accounts
<1>3. WorkInv
  BY <1>1 DEF WorkInv, PortfoliosTyped, Working, Recalculating
<1> QED
  BY <1>2, <1>3 DEF Typing

\* What is said of the event in hand and of portfolios stays true when they stay, and
\* while the consumer stays where it is or comes to rest.
LEMMA DeliverTyping == ASSUME Typing, NEW e \in Executions, Deliver(e) PROVE Typing'
<1> USE DEF Typing, Deliver, moneyVars, boundVars
<1>1. log' \in Seq(Executions) /\ Len(log') = Len(log) + 1
      /\ \A i \in 1..Len(log) : log'[i] = log[i]
  BY DEF TypeOK
<1>2. next # 0 => Event' = Event
  BY <1>1, SameEvent DEF TypeOK
<1>3. next = 0 => pc.consumer \in {"fetch", "stopped"}
  BY DEF TypeOK
<1>4. pc.consumer \in {"fetch", "stopped"} \/ Event' = Event
  BY <1>2, <1>3
<1>5. TypeOK'
  BY <1>1, <1>4 DEF TypeOK
<1>6. WorkInv'
  BY <1>4 DEF WorkInv, Working, Recalculating
<1> QED
  BY <1>5, <1>6

LEMMA FetchTyping == ASSUME Typing, Fetch PROVE Typing'
<1> USE DEF Typing, Fetch, moneyVars, boundVars, Goes
<1>1. pc'.consumer = "handle" /\ pc'.http = pc.http /\ pc' = [pc EXCEPT !.consumer = "handle"]
  BY DEF TypeOK
<1>2. next' \in 0..Len(log) /\ committed \in 0..next' /\ next' > committed
  BY DEF TypeOK
<1>3. pc' \in [consumer : {"fetch", "handle", "apply", "mark", "remove", "publish", "commit",
                           "stopped"} \cup Recalculating,
               http : {"idle", "prices", "mark"} \cup Recalculating]
  BY <1>1 DEF TypeOK
<1>4. TypeOK'
  BY <1>1, <1>2, <1>3 DEF TypeOK
<1>5. WorkInv'
  BY <1>1 DEF WorkInv, Working, Recalculating
<1> QED
  BY <1>4, <1>5

\* The consumer stops, or skips a fill it knows.
LEMMA RestTyping == ASSUME Typing, FetchFails \/ SkipProcessed PROVE Typing'
<1> USE DEF Typing, FetchFails, SkipProcessed, kafkaVars, moneyVars, boundVars, Goes
<1>1. /\ pc'.consumer \in {"stopped", "commit"} /\ pc'.http = pc.http
      /\ pc' = [pc EXCEPT !.consumer = pc'.consumer]
      /\ pc.consumer = "fetch" => pc'.consumer = "stopped"
  BY DEF TypeOK
<1>2. Event' = Event
  BY DEF Event
<1>3. TypeOK'
  BY <1>1, <1>2, SMTT(40) DEF TypeOK
<1>4. WorkInv'
  BY <1>1, <1>2 DEF WorkInv, Working, Recalculating
<1> QED
  BY <1>3, <1>4

LEMMA CommitTyping == ASSUME Typing, Commit PROVE Typing'
<1> USE DEF Typing, Commit, moneyVars, boundVars, Goes
<1>1. /\ pc'.consumer \in {"fetch", "stopped"} /\ pc'.http = pc.http
      /\ pc' = [pc EXCEPT !.consumer = pc'.consumer]
  BY DEF TypeOK
<1>2. Event' = Event
  BY DEF Event
<1>3. TypeOK'
  BY <1>1, <1>2, SMTT(40) DEF TypeOK
<1>4. WorkInv'
  BY <1>1, <1>2 DEF WorkInv, Working, Recalculating
<1> QED
  BY <1>3, <1>4

Places == {"fetch", "handle", "apply", "mark", "remove", "publish", "commit", "stopped"}
          \cup Recalculating

\* A step of the consumer on the event in hand.
LEMMA ConsumerStep ==
    ASSUME Typing, UNCHANGED <<kafkaVars, boundVars>>,
           pc.consumer \notin {"fetch", "stopped"},
           NEW to \in Places, pc' = [pc EXCEPT !.consumer = to],
           PortfoliosTyped',
           \A u \in Accounts : portfolios[u].exists => portfolios'[u].exists,
           to \in Working => MatchingKeys /\ Event.side \in Sides /\ portfolios'[Event.user].exists,
           to = "apply" => rest' > 0, rest' \in Nat,
           rest' > 0 => to \in {"apply", "remove"} \cup Recalculating,
           local' \in [consumer : Int, http : Int], processed' \subseteq Executions \cup {Blank},
           trades' \subseteq [execution : Executions, pnl : Int, fees : Nat],
           unbooked' \in [Accounts -> Int], published' \subseteq Executions,
           updating' \in [user : Accounts, todo : SUBSET Symbols, held : Symbols \cup {NoSymbol}],
           updating'.user = updating.user
    PROVE  Typing'
<1> USE DEF Typing
<1>1. next # 0 /\ next > committed
  BY DEF TypeOK
<1>2. Event' = Event
  BY DEF Event, kafkaVars
<1>3. pc'.consumer = to /\ pc'.http = pc.http
  BY DEF TypeOK
<1>4. /\ log' \in Seq(Executions) /\ next' \in 0..Len(log')
      /\ committed' \in 0..next' /\ resumed' \in 0..committed'
      /\ updates' \in Nat /\ restarts' \in Nat /\ next' > committed'
  BY <1>1 DEF TypeOK, kafkaVars, boundVars
<1>5. pc' \in [consumer : Places, http : {"idle", "prices", "mark"} \cup Recalculating]
  BY DEF TypeOK, Places
<1>6. pc'.http # "idle" => portfolios'[updating'.user].exists
  <2>1. updating.user \in Accounts
    BY DEF TypeOK, Accounts
  <2> QED
    BY <1>3, <2>1 DEF TypeOK
<1>7. pc'.consumer \notin {"fetch", "handle", "stopped", "commit"} => pc'.consumer \in Working
  BY <1>3 DEF Places, Working
<1>8. TypeOK'
  BY <1>2, <1>3, <1>4, <1>5, <1>6, <1>7 DEF TypeOK, PortfoliosTyped, Accounts, Places
<1>9. WorkInv'
  BY <1>2, <1>3 DEF WorkInv, PortfoliosTyped
<1> QED
  BY <1>8, <1>9

\* What holds of the event in hand while the consumer works on it.
LEMMA WorkFacts ==
    ASSUME Typing, pc.consumer \in Working
    PROVE  /\ pc.consumer \notin {"fetch", "stopped"} /\ next # 0 /\ MatchingKeys
           /\ Event.side \in Sides /\ Event.user \in Users /\ Event.symbol \in Symbols
           /\ Event.user \in Accounts /\ Event.qty \in Nat /\ Event.price \in Nat
           /\ Event.fees \in Nat /\ Event.id = log[next] /\ Event.id \in Executions
           /\ portfolios[Event.user].exists /\ PortfolioOK(portfolios[Event.user])
           /\ Position = portfolios[Event.user].positions[Event.symbol]
           /\ Position \in PositionType
           /\ Position.side \in Sides \cup {"none"} /\ Position.qty \in Nat
           /\ Position.avg \in Nat /\ Position.upnl \in Int
           /\ (Position.side # "none" <=> Position.qty > 0)
<1> USE DEF Typing
<1>1. pc.consumer \notin {"fetch", "stopped", "handle", "commit"}
  BY DEF Working, Recalculating
<1>2. next # 0 /\ MatchingKeys /\ Event.side \in Sides
  BY <1>1 DEF TypeOK, WorkInv
<1>3. /\ Event.user \in Users /\ Event.symbol \in Symbols /\ Event.user \in Accounts
      /\ Event.qty \in Nat /\ Event.price \in Nat /\ Event.fees \in Nat
      /\ Event.id = log[next] /\ Event.id \in Executions
  BY <1>2, EventFacts
<1>4. portfolios[Event.user].exists
  BY <1>1 DEF TypeOK
<1>5. PortfolioOK(portfolios[Event.user])
  BY <1>3 DEF WorkInv
<1>6. Position = portfolios[Event.user].positions[Event.symbol]
  BY DEF Position
<1>7. portfolios[Event.user].positions \in [Symbols -> PositionType]
  BY <1>5, PortfolioParts
<1>8. Position \in PositionType
  BY <1>3, <1>6, <1>7
<1>9. /\ Position.side \in Sides \cup {"none"} /\ Position.qty \in Nat
      /\ Position.avg \in Nat /\ Position.upnl \in Int
      /\ (Position.side # "none" <=> Position.qty > 0)
  BY <1>3, <1>5, <1>6, PortfolioParts
<1> QED
  BY <1>1, <1>2, <1>3, <1>4, <1>5, <1>6, <1>8, <1>9

\* What the variables a step leaves alone are.
LEMMA VariableTypes ==
    ASSUME Typing
    PROVE  /\ local \in [consumer : Int, http : Int] /\ rest \in Nat
           /\ processed \subseteq Executions \cup {Blank}
           /\ trades \subseteq [execution : Executions, pnl : Int, fees : Nat]
           /\ unbooked \in [Accounts -> Int] /\ published \subseteq Executions
           /\ updating \in [user : Accounts, todo : SUBSET Symbols, held : Symbols \cup {NoSymbol}]
  BY DEF Typing, TypeOK, Accounts

LEMMA AcceptTyping == ASSUME Typing, Accept PROVE Typing'
<1> DEFINE p == IF portfolios[Event.user].exists THEN portfolios[Event.user] ELSE NewPortfolio
           to == IF rest' > 0 THEN "apply" ELSE "commit"
<1>1. pc.consumer = "handle" /\ next # 0
  BY DEF Accept, Typing, TypeOK
<1>2. /\ Event.user \in Accounts /\ Event.id \in Executions \cup {Blank}
      /\ Event.side \in Sides \cup {"other"} /\ Event.qty \in Nat
      /\ ~ MatchingKeys => Event.qty = 0
  BY <1>1, EventFacts DEF Typing
<1>5. PortfolioOK(p) /\ p.exists
  BY <1>2, EmptyPortfolio DEF Typing, WorkInv
<1>6. portfolios' = [portfolios EXCEPT ![Event.user] = p]
  BY DEF Accept
<1>7. /\ PortfoliosTyped' /\ portfolios'[Event.user] = p
      /\ \A v \in Accounts \ {Event.user} : portfolios'[v] = portfolios[v]
  <2> HIDE DEF p
  <2> QED
    BY <1>2, <1>5, <1>6, TypedPortfolios, ChangeOne
<1>8. rest' \in Nat /\ (rest' > 0 => MatchingKeys /\ Event.side \in Sides)
  BY <1>2 DEF Accept
<1>9. /\ UNCHANGED <<kafkaVars, boundVars, local, trades, unbooked, published, updating>>
      /\ processed' = processed \cup {Event.id} /\ pc' = [pc EXCEPT !.consumer = to]
  BY DEF Accept, Goes
<1>10. /\ to \in Places
       /\ to \in Working => MatchingKeys /\ Event.side \in Sides /\ portfolios'[Event.user].exists
       /\ to = "apply" => rest' > 0
       /\ rest' > 0 => to \in {"apply", "remove"} \cup Recalculating
  BY <1>5, <1>7, <1>8 DEF Places, Working, Recalculating
<1>11. \A u \in Accounts : portfolios[u].exists => portfolios'[u].exists
  BY <1>5, <1>7
<1>12. processed' \subseteq Executions \cup {Blank}
  BY <1>2, <1>9, VariableTypes
<1> HIDE DEF to, p
<1> QED
  BY <1>1, <1>7, <1>8, <1>9, <1>10, <1>11, <1>12, VariableTypes, ConsumerStep

\* The position of the fill in hand is changed, and nothing else of the portfolios.
LEMMA PutStep ==
    ASSUME Typing, pc.consumer \in Working, UNCHANGED <<kafkaVars, boundVars, local, trades>>,
           NEW to \in Places, pc' = [pc EXCEPT !.consumer = to],
           NEW pos \in PositionType, pos.side # "none" <=> pos.qty > 0, Puts(pos),
           to # "apply", rest' \in Nat, rest' > 0 => to \in Recalculating,
           processed' = processed, unbooked' \in [Accounts -> Int], published' = published,
           updating' \in [user : Accounts, todo : SUBSET Symbols, held : Symbols \cup {NoSymbol}],
           updating'.user = updating.user
    PROVE  Typing'
<1>1. /\ pc.consumer \notin {"fetch", "stopped"} /\ next # 0 /\ MatchingKeys
      /\ Event.side \in Sides /\ Event.user \in Accounts /\ portfolios[Event.user].exists
  BY WorkFacts
<1> DEFINE p == [portfolios[Event.user] EXCEPT !.positions[Event.symbol] = pos]
<1>2. /\ PortfoliosTyped' /\ portfolios'[Event.user] = p /\ p.exists
      /\ \A v \in Accounts \ {Event.user} : portfolios'[v] = portfolios[v]
  BY <1>1, PutsOne
<1> HIDE DEF p
<1>3. \A u \in Accounts : portfolios[u].exists => portfolios'[u].exists
  BY <1>2
<1>4. /\ to = "apply" => rest' > 0
      /\ rest' > 0 => to \in {"apply", "remove"} \cup Recalculating
      /\ portfolios'[Event.user].exists
  BY <1>2
<1>5. UNCHANGED <<kafkaVars, boundVars>> /\ local' = local /\ trades' = trades
  OBVIOUS
<1> QED
  BY <1>1, <1>2, <1>3, <1>4, <1>5, VariableTypes, ConsumerStep

\* The position a fill opens.
LEMMA OpenPut ==
    ASSUME Typing, OpenPosition
    PROVE  /\ pc.consumer = "apply" /\ pc.consumer \in Working /\ rest \in Nat /\ rest > 0
           /\ \E pos \in PositionType :
                 /\ Puts(pos) /\ (pos.side # "none" <=> pos.qty > 0)
                 /\ pos.side = Event.side /\ pos.qty = rest /\ pos.avg = Event.price
<1> DEFINE pos == NewPosition(Event.side, rest, Event.price)
<1>1. pc.consumer = "apply" /\ pc.consumer \in Working
  BY DEF OpenPosition, Working
<1>2. rest \in Nat /\ rest > 0
  BY <1>1 DEF Typing, TypeOK, WorkInv
<1>3. pos.side = Event.side /\ pos.qty = rest /\ pos.avg = Event.price
  BY DEF NewPosition
<1>4. pos \in PositionType /\ (pos.side # "none" <=> pos.qty > 0)
  BY <1>1, <1>2, WorkFacts DEF NewPosition, PositionType, Sides
<1>5. Puts(pos)
  BY DEF OpenPosition
<1> HIDE DEF pos
<1> QED
  BY <1>1, <1>2, <1>3, <1>4, <1>5

LEMMA OpenTyping == ASSUME Typing, OpenPosition PROVE Typing'
<1>1. PICK pos \in PositionType : Puts(pos) /\ (pos.side # "none" <=> pos.qty > 0)
  BY OpenPut
<1>2. /\ UNCHANGED <<kafkaVars, boundVars, local, trades, processed, unbooked, published, updating>>
      /\ rest' = 0 /\ pc' = [pc EXCEPT !.consumer = "sum"]
  BY DEF OpenPosition, Goes
<1>3. "sum" \in Places /\ "sum" # "apply"
  BY DEF Places, Recalculating
<1> QED
  BY <1>1, <1>2, <1>3, OpenPut, VariableTypes, PutStep

\* The position a fill adds to.
LEMMA AddPut ==
    ASSUME Typing, AddToPosition
    PROVE  /\ pc.consumer = "apply" /\ pc.consumer \in Working /\ rest \in Nat /\ rest > 0
           /\ Position.side = Event.side
           /\ \E pos \in PositionType :
                 /\ Puts(pos) /\ (pos.side # "none" <=> pos.qty > 0)
                 /\ pos.side = Position.side /\ pos.qty = Position.qty + rest
                 /\ pos.avg = (Position.avg * Position.qty + Event.price * rest)
                                \div (Position.qty + rest)
<1> DEFINE total == Position.qty + rest
           avg == (Position.avg * Position.qty + Event.price * rest) \div total
           pos == [Position EXCEPT !.qty = total, !.avg = avg]
<1>1. pc.consumer = "apply" /\ pc.consumer \in Working /\ Position.side = Event.side
  BY DEF AddToPosition, Working
<1>2. rest \in Nat /\ rest > 0
  BY <1>1 DEF Typing, TypeOK, WorkInv
<1>3. /\ Position \in PositionType /\ Position.qty \in Nat /\ Position.avg \in Nat
      /\ Event.price \in Nat /\ Position.side \in Sides
  BY <1>1, WorkFacts
<1>4. total \in Nat /\ total > 0
  BY <1>2, <1>3
<1>5. avg \in Nat
  <2>1. Position.avg * Position.qty \in Nat /\ Event.price * rest \in Nat
    BY <1>2, <1>3
  <2>2. Position.avg * Position.qty + Event.price * rest \in Nat
    BY <2>1
  <2> HIDE DEF total
  <2> QED
    BY <1>4, <2>2, QuotientType
<1>6. Puts(pos)
  BY DEF AddToPosition
<1>7. /\ total = Position.qty + rest
      /\ avg = (Position.avg * Position.qty + Event.price * rest) \div (Position.qty + rest)
  OBVIOUS
<1> HIDE DEF total, avg
<1>8. /\ pos \in PositionType /\ (pos.side # "none" <=> pos.qty > 0)
      /\ pos.side = Position.side /\ pos.qty = total /\ pos.avg = avg
  BY <1>3, <1>4, <1>5 DEF PositionType, Sides
<1> HIDE DEF pos
<1> QED
  BY <1>1, <1>2, <1>6, <1>7, <1>8

LEMMA AddTyping == ASSUME Typing, AddToPosition PROVE Typing'
<1>1. PICK pos \in PositionType : Puts(pos) /\ (pos.side # "none" <=> pos.qty > 0)
  BY AddPut
<1>2. /\ UNCHANGED <<kafkaVars, boundVars, local, trades, processed, unbooked, published, updating>>
      /\ rest' = 0 /\ pc' = [pc EXCEPT !.consumer = "mark"]
  BY DEF AddToPosition, Goes
<1>3. "mark" \in Places /\ "mark" # "apply"
  BY DEF Places
<1> QED
  BY <1>1, <1>2, <1>3, AddPut, VariableTypes, PutStep

\* The position a fill closes in part.
LEMMA ReducePut ==
    ASSUME Typing, ReducePosition
    PROVE  /\ pc.consumer = "apply" /\ pc.consumer \in Working /\ rest \in Nat /\ rest > 0
           /\ Position.side \in Sides /\ Position.side # Event.side
           /\ \E pos \in PositionType :
                 /\ Puts(pos) /\ (pos.side # "none" <=> pos.qty > 0)
                 /\ pos.side = Position.side /\ pos.qty = Position.qty - rest
                 /\ pos.avg = Position.avg
           /\ Profit(Position, rest, Event.price) \in Int
<1> DEFINE qty == Position.qty - rest
           pos == [Position EXCEPT !.qty = qty]
<1>1. pc.consumer = "apply" /\ pc.consumer \in Working /\ rest < Position.qty
  BY DEF ReducePosition, Working
<1>2. rest \in Nat /\ rest > 0 /\ Position \in PositionType /\ Position.qty \in Nat
  BY <1>1, WorkFacts, VariableTypes DEF Typing, WorkInv
<1>3. qty \in Nat /\ qty > 0 /\ qty = Position.qty - rest
  BY <1>1, <1>2
<1>4. Position.side \in Sides /\ Position.side # Event.side /\ Position.side # "none"
  BY DEF ReducePosition, Opposes, Sides
<1>5. Puts(pos)
  BY DEF ReducePosition
<1> HIDE DEF qty
<1>6. /\ pos \in PositionType /\ (pos.side # "none" <=> pos.qty > 0)
      /\ pos.side = Position.side /\ pos.qty = qty /\ pos.avg = Position.avg
  BY <1>2, <1>3, <1>4 DEF PositionType
<1>7. Profit(Position, rest, Event.price) \in Int
  BY <1>1, <1>2, WorkFacts, ProfitType
<1> HIDE DEF pos
<1> QED
  BY <1>1, <1>2, <1>3, <1>4, <1>5, <1>6, <1>7

LEMMA ReduceTyping == ASSUME Typing, ReducePosition PROVE Typing'
<1> DEFINE profit == Profit(Position, rest, Event.price)
<1>1. PICK pos \in PositionType : Puts(pos) /\ (pos.side # "none" <=> pos.qty > 0)
  BY ReducePut
<1>2. unbooked' = [unbooked EXCEPT ![Event.user] = @ + profit]
  BY DEF ReducePosition
<1>3. unbooked' \in [Accounts -> Int]
  <2>1. profit \in Int /\ Event.user \in Accounts
    BY ReducePut, WorkFacts
  <2> HIDE DEF profit
  <2> QED
    BY <1>2, <2>1, VariableTypes
<1>4. /\ UNCHANGED <<kafkaVars, boundVars, local, trades, processed, published, updating>>
      /\ rest' = 0 /\ pc' = [pc EXCEPT !.consumer = "mark"]
  BY DEF ReducePosition, Goes
<1>5. "mark" \in Places /\ "mark" # "apply"
  BY DEF Places
<1> HIDE DEF profit
<1> QED
  BY <1>1, <1>3, <1>4, <1>5, ReducePut, VariableTypes, PutStep

\* A profit is realized on the portfolio of the fill in hand.
LEMMA RealizeStep ==
    ASSUME Typing, pc.consumer \in Working, NEW pnl \in Int, NEW fees \in Int,
           portfolios' = [portfolios EXCEPT ![Event.user] = RealizePnL(@, pnl, fees)]
    PROVE  /\ PortfoliosTyped'
           /\ portfolios'[Event.user] = RealizePnL(portfolios[Event.user], pnl, fees)
           /\ \A v \in Accounts \ {Event.user} : portfolios'[v] = portfolios[v]
           /\ \A v \in Accounts : portfolios'[v].positions = portfolios[v].positions
           /\ \A v \in Accounts : portfolios[v].exists => portfolios'[v].exists
           /\ portfolios'[Event.user].exists
<1> DEFINE p == RealizePnL(portfolios[Event.user], pnl, fees)
<1>1. /\ Event.user \in Accounts /\ portfolios[Event.user].exists
      /\ PortfolioOK(portfolios[Event.user])
  BY WorkFacts
<1>2. PortfolioOK(p) /\ p.exists /\ p.positions = portfolios[Event.user].positions
  BY <1>1, RealizeTyping
<1>3. portfolios' = [portfolios EXCEPT ![Event.user] = p]
  OBVIOUS
<1>4. p = RealizePnL(portfolios[Event.user], pnl, fees)
  OBVIOUS
<1> HIDE DEF p
<1>5. /\ PortfoliosTyped' /\ portfolios'[Event.user] = p
      /\ \A v \in Accounts \ {Event.user} : portfolios'[v] = portfolios[v]
  BY <1>1, <1>2, <1>3, TypedPortfolios, ChangeOne
<1>6. \A v \in Accounts : /\ portfolios'[v].positions = portfolios[v].positions
                          /\ portfolios[v].exists => portfolios'[v].exists
  BY <1>2, <1>5
<1> QED
  BY <1>2, <1>4, <1>5, <1>6

LEMMA CloseTyping == ASSUME Typing, ClosePosition PROVE Typing'
<1> DEFINE pnl == Profit(Position, rest, Event.price)
<1>1. pc.consumer = "apply" /\ pc.consumer \in Working
  BY DEF ClosePosition, Working
<1>2. pnl \in Int /\ Event.fees \in Nat /\ Event.id \in Executions
  BY <1>1, WorkFacts, VariableTypes, ProfitType
<1>3. /\ portfolios' = [portfolios EXCEPT ![Event.user] = RealizePnL(@, pnl, Event.fees)]
      /\ trades' = trades \cup {[execution |-> Event.id, pnl |-> pnl, fees |-> Event.fees]}
      /\ rest' = 0 /\ pc' = [pc EXCEPT !.consumer = "remove"]
      /\ UNCHANGED <<kafkaVars, boundVars, local, processed, unbooked, published, updating>>
  BY DEF ClosePosition, Goes
<1> HIDE DEF pnl
<1>4. trades' \subseteq [execution : Executions, pnl : Int, fees : Nat]
  BY <1>2, <1>3, VariableTypes
<1>5. /\ PortfoliosTyped' /\ portfolios'[Event.user].exists
      /\ \A v \in Accounts : portfolios[v].exists => portfolios'[v].exists
  <2>1. Event.fees \in Int
    BY <1>2
  <2> QED
    BY <1>1, <1>2, <1>3, <2>1, RealizeStep
<1>6. "remove" \in Places /\ "remove" # "apply"
  BY DEF Places
<1> QED
  BY <1>1, <1>3, <1>4, <1>5, <1>6, WorkFacts, VariableTypes, ConsumerStep

LEMMA FlipTyping == ASSUME Typing, FlipPosition PROVE Typing'
<1> DEFINE pnl == Profit(Position, Position.qty, Event.price)
<1>1. pc.consumer = "apply" /\ pc.consumer \in Working /\ rest > Position.qty
  BY DEF FlipPosition, Working
<1>2. pnl \in Int /\ Position.qty \in Nat /\ rest \in Nat
  BY <1>1, WorkFacts, VariableTypes, ProfitType
<1>3. /\ portfolios' = [portfolios EXCEPT ![Event.user] = RealizePnL(@, pnl, 0)]
      /\ rest' = rest - Position.qty /\ pc' = [pc EXCEPT !.consumer = "remove"]
      /\ UNCHANGED <<kafkaVars, boundVars, local, processed, trades, unbooked, published, updating>>
  BY DEF FlipPosition, Goes
<1> HIDE DEF pnl
<1>4. rest' \in Nat
  BY <1>1, <1>2, <1>3
<1>5. /\ PortfoliosTyped' /\ portfolios'[Event.user].exists
      /\ \A v \in Accounts : portfolios[v].exists => portfolios'[v].exists
  <2>1. 0 \in Int
    OBVIOUS
  <2> QED
    BY <1>1, <1>2, <1>3, <2>1, RealizeStep
<1>6. "remove" \in Places /\ "remove" # "apply"
  BY DEF Places
<1> QED
  BY <1>1, <1>3, <1>4, <1>5, <1>6, WorkFacts, VariableTypes, ConsumerStep

LEMMA RemoveTyping == ASSUME Typing, RemovePosition PROVE Typing'
<1>1. pc.consumer = "remove" /\ pc.consumer \in Working
  BY DEF RemovePosition, Working
<1>2. /\ Puts(NoPosition) /\ pc' = [pc EXCEPT !.consumer = "sum"]
      /\ UNCHANGED <<kafkaVars, boundVars, local, rest, processed, trades, unbooked, published>>
  BY DEF RemovePosition, Goes
<1>3. /\ updating' \in [user : Accounts, todo : SUBSET Symbols, held : Symbols \cup {NoSymbol}]
      /\ updating'.user = updating.user
  BY VariableTypes DEF RemovePosition
<1>4. "sum" \in Places /\ "sum" # "apply" /\ "sum" \in Recalculating
  BY DEF Places, Recalculating
<1> QED
  BY <1>1, <1>2, <1>3, <1>4, EmptyPortfolio, VariableTypes, PutStep

\* A position that gets a new price keeps what is held.
LEMMA MarkPut ==
    ASSUME Typing, MarkPosition
    PROVE  /\ pc.consumer = "mark" /\ pc.consumer \in Working /\ rest = 0
           /\ \E pos \in PositionType :
                 /\ Puts(pos) /\ (pos.side # "none" <=> pos.qty > 0)
                 /\ pos.side = Position.side /\ pos.qty = Position.qty /\ pos.avg = Position.avg
<1> DEFINE pos == UpdatePrice(Position, Event.price)
<1>1. pc.consumer = "mark" /\ pc.consumer \in Working
  BY DEF MarkPosition, Working
<1>2. rest = 0
  BY <1>1, VariableTypes DEF Typing, WorkInv, Recalculating
<1>3. Profit(Position, Position.qty, Event.price) \in Int
  BY <1>1, WorkFacts, ProfitType
<1>4. /\ pos \in PositionType /\ (pos.side # "none" <=> pos.qty > 0)
      /\ pos.side = Position.side /\ pos.qty = Position.qty /\ pos.avg = Position.avg
  BY <1>1, <1>3, WorkFacts DEF UpdatePrice, PositionType
<1>5. Puts(pos)
  BY DEF MarkPosition
<1> HIDE DEF pos
<1> QED
  BY <1>1, <1>2, <1>4, <1>5

LEMMA MarkTyping == ASSUME Typing, MarkPosition PROVE Typing'
<1>1. PICK pos \in PositionType : Puts(pos) /\ (pos.side # "none" <=> pos.qty > 0)
  BY MarkPut
<1>2. /\ UNCHANGED <<kafkaVars, boundVars, local, rest, processed, trades, unbooked, published, updating>>
      /\ pc' = [pc EXCEPT !.consumer = "publish"]
  BY DEF MarkPosition, Goes
<1>3. "publish" \in Places /\ "publish" # "apply"
  BY DEF Places
<1> QED
  BY <1>1, <1>2, <1>3, MarkPut, VariableTypes, PutStep

LEMMA PublishTyping == ASSUME Typing, PublishUpdated PROVE Typing'
<1>1. pc.consumer = "publish" /\ pc.consumer \in Working
  BY DEF PublishUpdated, Working
<1>2. rest = 0
  BY <1>1, VariableTypes DEF Typing, WorkInv, Recalculating
<1>3. /\ UNCHANGED <<kafkaVars, boundVars, local, rest, processed, portfolios, trades, unbooked, updating>>
      /\ published' \in {published, published \cup {Event.id}}
      /\ pc' = [pc EXCEPT !.consumer = "commit"]
  BY DEF PublishUpdated, moneyVars, Goes
<1>4. published' \subseteq Executions
  BY <1>1, <1>3, WorkFacts, VariableTypes
<1>5. PortfoliosTyped'
  BY <1>3, TypedPortfolios DEF PortfoliosTyped
<1>6. "commit" \in Places /\ "commit" \notin Working
  BY DEF Places, Working, Recalculating
<1> QED
  BY <1>1, <1>2, <1>3, <1>4, <1>5, <1>6, WorkFacts, VariableTypes, ConsumerStep DEF Working

WebPlaces == {"idle", "prices", "mark"} \cup Recalculating

\* A step of the price update.
LEMMA UpdateStep ==
    ASSUME Typing, UNCHANGED <<kafkaVars, rest, processed, trades, unbooked, published, restarts>>,
           NEW to \in WebPlaces, pc' = [pc EXCEPT !.http = to],
           PortfoliosTyped',
           \A u \in Accounts : portfolios[u].exists => portfolios'[u].exists,
           local' \in [consumer : Int, http : Int],
           updating' \in [user : Accounts, todo : SUBSET Symbols, held : Symbols \cup {NoSymbol}],
           to # "idle" => portfolios[updating'.user].exists,
           updates' \in Nat
    PROVE  Typing'
<1> USE DEF Typing
<1>1. Event' = Event
  BY DEF Event, kafkaVars
<1>2. pc'.http = to /\ pc'.consumer = pc.consumer
  BY DEF TypeOK
<1>3. next = 0 => pc.consumer \in {"fetch", "stopped"}
  BY DEF TypeOK
<1>4. pc'.consumer \notin {"fetch", "handle", "stopped", "commit"} => portfolios'[Event.user].exists
  <2>1. next # 0 => Event.user \in Accounts
    BY EventFacts
  <2> QED
    BY <1>2, <1>3, <2>1 DEF TypeOK
<1>5. pc'.http # "idle" => portfolios'[updating'.user].exists
  <2>1. updating'.user \in Accounts
    OBVIOUS
  <2> QED
    BY <1>2, <2>1
<1>6. pc' \in [consumer : Places, http : WebPlaces]
  BY DEF TypeOK, Places, WebPlaces
<1>7. /\ log' \in Seq(Executions) /\ next' \in 0..Len(log')
      /\ committed' \in 0..next' /\ resumed' \in 0..committed'
      /\ rest' \in Nat /\ processed' \subseteq Executions \cup {Blank}
      /\ trades' \subseteq [execution : Executions, pnl : Int, fees : Nat]
      /\ unbooked' \in [Accounts -> Int] /\ published' \subseteq Executions
      /\ restarts' \in Nat
      /\ pc'.consumer \notin {"fetch", "stopped"} => next' > committed'
  BY <1>2 DEF TypeOK, kafkaVars, Accounts
<1>8. TypeOK'
  BY <1>1, <1>4, <1>5, <1>6, <1>7 DEF TypeOK, PortfoliosTyped, Accounts, Places, WebPlaces
<1>9. WorkInv'
  BY <1>1, <1>2 DEF WorkInv, PortfoliosTyped
<1> QED
  BY <1>8, <1>9

\* A recalculated total in its place.
LEMMA TotalTyping ==
    ASSUME NEW p, PortfolioOK(p), p.exists, NEW x \in Int
    PROVE  /\ PortfolioOK([p EXCEPT !.unrealized = x]) /\ [p EXCEPT !.unrealized = x].exists
           /\ PortfolioOK([p EXCEPT !.total = x]) /\ [p EXCEPT !.total = x].exists
           /\ [p EXCEPT !.unrealized = x].positions = p.positions
           /\ [p EXCEPT !.total = x].positions = p.positions
           /\ [p EXCEPT !.unrealized = x].realized = p.realized
           /\ [p EXCEPT !.total = x].realized = p.realized
           /\ [p EXCEPT !.unrealized = x].balance = p.balance
           /\ [p EXCEPT !.total = x].balance = p.balance
<1>1. p \in Portfolio
  BY DEF PortfolioOK
<1>2. [p EXCEPT !.unrealized = x] \in Portfolio /\ [p EXCEPT !.total = x] \in Portfolio
  BY <1>1 DEF Portfolio
<1>3. /\ [p EXCEPT !.unrealized = x].exists /\ [p EXCEPT !.total = x].exists
      /\ [p EXCEPT !.unrealized = x].positions = p.positions
      /\ [p EXCEPT !.total = x].positions = p.positions
      /\ [p EXCEPT !.unrealized = x].realized = p.realized
      /\ [p EXCEPT !.total = x].realized = p.realized
      /\ [p EXCEPT !.unrealized = x].balance = p.balance
      /\ [p EXCEPT !.total = x].balance = p.balance
  BY <1>1 DEF Portfolio
<1> QED
  BY <1>2, <1>3 DEF PortfolioOK

Actors == {"consumer", "http"}

\* Whose totals are recalculated.
LEMMA OfFacts ==
    ASSUME Typing, NEW a \in Actors, pc[a] \in Recalculating
    PROVE  Of(a) \in Accounts /\ portfolios[Of(a)].exists /\ PortfolioOK(portfolios[Of(a)])
<1>1. CASE a = "consumer"
  <2>1. pc.consumer \in Working
    BY <1>1 DEF Working
  <2> QED
    BY <1>1, <2>1, WorkFacts DEF Of
<1>2. CASE a = "http"
  <2>1. Of(a) = updating.user /\ updating.user \in Accounts /\ pc.http # "idle"
    BY <1>2, VariableTypes DEF Of, Recalculating
  <2> QED
    BY <2>1 DEF Typing, TypeOK, WorkInv
<1> QED
  BY <1>1, <1>2 DEF Actors

\* What a step of the recalculation does to the portfolios.
TotalsKept(p, q) == p.positions = q.positions /\ p.realized = q.realized
                    /\ p.balance = q.balance /\ p.exists = q.exists

LEMMA RecalculationStep ==
    ASSUME Typing, NEW a \in Actors, RecalculateTotals(a)
    PROVE  /\ pc[a] \in Recalculating
           /\ PortfoliosTyped'
           /\ \A u \in Accounts : TotalsKept(portfolios'[u], portfolios[u])
           /\ local' \in [consumer : Int, http : Int]
<1>1. pc[a] \in Recalculating
  BY DEF RecalculateTotals, SumPositions, StoreUnrealized, AddTotal, StoreTotal, Recalculating
<1>2. /\ Of(a) \in Accounts /\ portfolios[Of(a)].exists /\ PortfolioOK(portfolios[Of(a)])
      /\ local \in [consumer : Int, http : Int] /\ local[a] \in Int
      /\ PortfoliosTyped
  BY <1>1, OfFacts, VariableTypes, TypedPortfolios DEF Actors
<1>3. ASSUME UNCHANGED portfolios
      PROVE  PortfoliosTyped' /\ \A u \in Accounts : TotalsKept(portfolios'[u], portfolios[u])
  BY <1>2, <1>3 DEF PortfoliosTyped, TotalsKept
<1>4. ASSUME NEW p, PortfolioOK(p), portfolios' = [portfolios EXCEPT ![Of(a)] = p],
             TotalsKept(p, portfolios[Of(a)])
      PROVE  PortfoliosTyped' /\ \A u \in Accounts : TotalsKept(portfolios'[u], portfolios[u])
  <2>1. /\ PortfoliosTyped' /\ portfolios'[Of(a)] = p
        /\ \A v \in Accounts \ {Of(a)} : portfolios'[v] = portfolios[v]
    BY <1>2, <1>4, ChangeOne
  <2> QED
    BY <1>4, <2>1 DEF TotalsKept
<1>5. CASE SumPositions(a)
  <2>1. Unrealized(portfolios[Of(a)]) \in Int
    BY <1>2, UnrealizedType
  <2> QED
    BY <1>1, <1>2, <1>3, <1>5, <2>1 DEF SumPositions, Actors
<1>6. CASE StoreUnrealized(a)
  <2> DEFINE p == [portfolios[Of(a)] EXCEPT !.unrealized = local[a]]
  <2>1. PortfolioOK(p) /\ TotalsKept(p, portfolios[Of(a)])
    BY <1>2, TotalTyping DEF TotalsKept, PortfolioOK, Portfolio
  <2>2. portfolios' = [portfolios EXCEPT ![Of(a)] = p] /\ UNCHANGED local
    BY <1>6 DEF StoreUnrealized
  <2> HIDE DEF p
  <2> QED
    BY <1>1, <1>2, <1>4, <2>1, <2>2
<1>7. CASE AddTotal(a)
  <2>1. portfolios[Of(a)].realized + portfolios[Of(a)].unrealized \in Int
    BY <1>2, PortfolioParts
  <2> QED
    BY <1>1, <1>2, <1>3, <1>7, <2>1 DEF AddTotal, Actors
<1>8. CASE StoreTotal(a)
  <2> DEFINE p == [portfolios[Of(a)] EXCEPT !.total = local[a]]
  <2>1. PortfolioOK(p) /\ TotalsKept(p, portfolios[Of(a)])
    BY <1>2, TotalTyping DEF TotalsKept, PortfolioOK, Portfolio
  <2>2. portfolios' = [portfolios EXCEPT ![Of(a)] = p] /\ local' = [local EXCEPT ![a] = 0]
    BY <1>8 DEF StoreTotal
  <2>3. local' \in [consumer : Int, http : Int]
    BY <1>2, <2>2 DEF Actors
  <2> HIDE DEF p
  <2> QED
    BY <1>1, <1>4, <2>1, <2>2, <2>3
<1> QED
  BY <1>5, <1>6, <1>7, <1>8 DEF RecalculateTotals

LEMMA ConsumerTotalsTyping == ASSUME Typing, RecalculateTotals("consumer") PROVE Typing'
<1>1. "consumer" \in Actors
  BY DEF Actors
<1>2. /\ pc.consumer \in Recalculating /\ PortfoliosTyped'
      /\ \A u \in Accounts : TotalsKept(portfolios'[u], portfolios[u])
      /\ local' \in [consumer : Int, http : Int]
  <2>1. pc["consumer"] = pc.consumer
    OBVIOUS
  <2> QED
    BY <1>1, <2>1, RecalculationStep
<1>3. \A u \in Accounts : portfolios[u].exists => portfolios'[u].exists
  BY <1>2 DEF TotalsKept
<1>4. pc.consumer \in Working
  BY <1>2 DEF Working
<1>5. UNCHANGED <<kafkaVars, rest, processed, trades, unbooked, published, updating, boundVars>>
  BY DEF RecalculateTotals, SumPositions, StoreUnrealized, AddTotal, StoreTotal, Keeps
<1>6. PICK to \in {"unrealized", "total", "store", "apply", "publish"} :
         /\ pc' = [pc EXCEPT !.consumer = to]
         /\ to = "apply" => rest > 0
         /\ to = "publish" => ~ (rest > 0)
  BY DEF RecalculateTotals, SumPositions, StoreUnrealized, AddTotal, StoreTotal, Goes
<1>7. to \in Places /\ (rest' > 0 => to \in {"apply", "remove"} \cup Recalculating)
  BY <1>5, <1>6 DEF Places, Recalculating
<1> QED
  BY <1>2, <1>3, <1>4, <1>5, <1>6, <1>7, WorkFacts, VariableTypes, ConsumerStep

LEMMA WebTotalsTyping == ASSUME Typing, RecalculateTotals("http") PROVE Typing'
<1>1. "http" \in Actors
  BY DEF Actors
<1>2. /\ pc.http \in Recalculating /\ PortfoliosTyped'
      /\ \A u \in Accounts : TotalsKept(portfolios'[u], portfolios[u])
      /\ local' \in [consumer : Int, http : Int]
  <2>1. pc["http"] = pc.http
    OBVIOUS
  <2> QED
    BY <1>1, <2>1, RecalculationStep
<1>3. \A u \in Accounts : portfolios[u].exists => portfolios'[u].exists
  BY <1>2 DEF TotalsKept
<1>4. UNCHANGED <<kafkaVars, rest, processed, trades, unbooked, published, updating, boundVars>>
  BY DEF RecalculateTotals, SumPositions, StoreUnrealized, AddTotal, StoreTotal, Keeps
<1>5. PICK to \in {"unrealized", "total", "store", "idle"} : pc' = [pc EXCEPT !.http = to]
  BY DEF RecalculateTotals, SumPositions, StoreUnrealized, AddTotal, StoreTotal, Goes
<1>6. to \in WebPlaces
  BY <1>5 DEF WebPlaces, Recalculating
<1>7. portfolios[updating.user].exists /\ updates \in Nat
  BY <1>2 DEF Typing, TypeOK, Recalculating
<1>8. UNCHANGED <<kafkaVars, rest, processed, trades, unbooked, published, restarts>>
      /\ updating' = updating /\ updates' = updates
  BY <1>4 DEF boundVars
<1> QED
  BY <1>2, <1>3, <1>5, <1>6, <1>7, <1>8, VariableTypes, UpdateStep

LEMMA BeginTyping ==
    ASSUME Typing, NEW u \in Users, NEW symbols \in SUBSET Symbols \ {{}}, BeginUpdate(u, symbols)
    PROVE  Typing'
<1>1. /\ UNCHANGED <<kafkaVars, rest, processed, trades, unbooked, published, restarts>>
      /\ UNCHANGED <<portfolios, local>> /\ pc' = [pc EXCEPT !.http = "prices"]
      /\ updating' = [user |-> u, todo |-> symbols, held |-> NoSymbol]
      /\ updates' = updates + 1 /\ portfolios[u].exists
  BY DEF BeginUpdate, moneyVars, Goes
<1>2. PortfoliosTyped' /\ \A v \in Accounts : portfolios[v].exists => portfolios'[v].exists
  BY <1>1, TypedPortfolios DEF PortfoliosTyped
<1>3. /\ updating' \in [user : Accounts, todo : SUBSET Symbols, held : Symbols \cup {NoSymbol}]
      /\ updating'.user = u
  BY <1>1 DEF Accounts
<1>4. updates' \in Nat /\ "prices" \in WebPlaces
  BY <1>1 DEF Typing, TypeOK, WebPlaces
<1> QED
  BY <1>1, <1>2, <1>3, <1>4, VariableTypes, UpdateStep

LEMMA ReadTyping ==
    ASSUME Typing, NEW s \in Symbols, NEW price \in Prices, ReadPosition(s, price)
    PROVE  Typing'
<1> DEFINE pos == portfolios[updating.user].positions[s]
           profit == Profit(pos, pos.qty, price)
<1>1. /\ UNCHANGED <<kafkaVars, rest, processed, trades, unbooked, published, boundVars>>
      /\ UNCHANGED portfolios /\ pc.http = "prices"
      /\ \/ /\ updating' = [updating EXCEPT !.todo = @ \ {s}]
            /\ UNCHANGED <<pc, local>>
         \/ /\ updating' = [updating EXCEPT !.todo = @ \ {s}, !.held = s]
            /\ local' = [local EXCEPT !.http = profit]
            /\ pc' = [pc EXCEPT !.http = "mark"]
  BY DEF ReadPosition, moneyVars, Goes
<1>2. updating.user \in Accounts /\ portfolios[updating.user].exists /\ updates \in Nat
  BY <1>1 DEF Typing, TypeOK, Accounts
<1>3. profit \in Int
  <2>1. PortfolioOK(portfolios[updating.user])
    BY <1>2 DEF Typing, WorkInv
  <2>2. pos \in PositionType /\ pos.qty \in Nat /\ price \in Nat
    BY <2>1, PortfolioParts, MoneyAssumption
  <2> QED
    BY <2>2, ProfitType
<1> HIDE DEF pos, profit
<1>4. PortfoliosTyped' /\ \A v \in Accounts : portfolios[v].exists => portfolios'[v].exists
  BY <1>1, TypedPortfolios DEF PortfoliosTyped
<1>5. /\ updating' \in [user : Accounts, todo : SUBSET Symbols, held : Symbols \cup {NoSymbol}]
      /\ updating'.user = updating.user
      /\ local' \in [consumer : Int, http : Int]
  BY <1>1, <1>3, VariableTypes
<1>6. \E to \in {"prices", "mark"} : pc' = [pc EXCEPT !.http = to]
  BY <1>1 DEF Typing, TypeOK
<1>7. PICK to \in {"prices", "mark"} : pc' = [pc EXCEPT !.http = to]
  BY <1>6
<1>8. to \in WebPlaces
  BY DEF WebPlaces
<1>9. UNCHANGED <<kafkaVars, rest, processed, trades, unbooked, published, restarts>>
      /\ updates' = updates
  BY <1>1 DEF boundVars
<1> QED
  BY <1>2, <1>4, <1>5, <1>7, <1>8, <1>9, UpdateStep

LEMMA StoreMarkTyping == ASSUME Typing, StoreMark PROVE Typing'
<1> DEFINE u == updating.user
           s == updating.held
           pos == [portfolios[u].positions[s] EXCEPT !.upnl = local.http]
           p == [portfolios[u] EXCEPT !.positions[s] = pos]
<1>1. /\ UNCHANGED <<kafkaVars, rest, processed, trades, unbooked, published, boundVars>>
      /\ pc.http = "mark" /\ pc' = [pc EXCEPT !.http = "prices"]
      /\ updating' = [updating EXCEPT !.held = NoSymbol]
      /\ local' = [local EXCEPT !.http = 0]
      /\ \/ portfolios' = portfolios
         \/ s # NoSymbol /\ portfolios' = [portfolios EXCEPT ![u] = p]
  BY DEF StoreMark, Goes
<1>2. /\ u \in Accounts /\ portfolios[u].exists /\ updates \in Nat /\ s \in Symbols \cup {NoSymbol}
      /\ local.http \in Int /\ PortfolioOK(portfolios[u])
  BY <1>1 DEF Typing, TypeOK, WorkInv, Accounts
<1>3. PortfoliosTyped' /\ \A v \in Accounts : portfolios[v].exists => portfolios'[v].exists
  <2>1. CASE portfolios' = portfolios
    BY <2>1, TypedPortfolios DEF PortfoliosTyped
  <2>2. CASE s # NoSymbol /\ portfolios' = [portfolios EXCEPT ![u] = p]
    <3>1. s \in Symbols /\ portfolios[u].positions \in [Symbols -> PositionType]
      BY <1>2, <2>2, PortfolioParts
    <3>2. /\ portfolios[u].positions[s] \in PositionType
          /\ portfolios[u].positions[s].side # "none" <=> portfolios[u].positions[s].qty > 0
      BY <1>2, <3>1, PortfolioParts
    <3>3. pos \in PositionType /\ (pos.side # "none" <=> pos.qty > 0)
      BY <1>2, <3>2 DEF PositionType
    <3>4. PortfolioOK(p) /\ p.exists
      <4> HIDE DEF pos, u, s
      <4> QED
        BY <1>2, <3>1, <3>3, PutTyping
    <3>5. /\ PortfoliosTyped' /\ portfolios'[u] = p
          /\ \A v \in Accounts \ {u} : portfolios'[v] = portfolios[v]
      <4> HIDE DEF p, u
      <4> QED
        BY <1>2, <2>2, <3>4, TypedPortfolios, ChangeOne
    <3> HIDE DEF p, u
    <3> QED
      BY <3>4, <3>5
  <2> QED
    BY <1>1, <2>1, <2>2
<1>4. /\ updating' \in [user : Accounts, todo : SUBSET Symbols, held : Symbols \cup {NoSymbol}]
      /\ updating'.user = updating.user
      /\ local' \in [consumer : Int, http : Int]
  BY <1>1, VariableTypes
<1>5. "prices" \in WebPlaces
  BY DEF WebPlaces
<1>6. UNCHANGED <<kafkaVars, rest, processed, trades, unbooked, published, restarts>>
      /\ updates' = updates
  BY <1>1 DEF boundVars
<1> QED
  BY <1>1, <1>2, <1>3, <1>4, <1>5, <1>6, UpdateStep

LEMMA PricesDoneTyping == ASSUME Typing, PricesDone PROVE Typing'
<1>1. /\ UNCHANGED <<kafkaVars, rest, processed, trades, unbooked, published, restarts>>
      /\ UNCHANGED <<local, portfolios, updating, updates>>
      /\ pc.http = "prices" /\ pc' = [pc EXCEPT !.http = "sum"]
  BY DEF PricesDone, moneyVars, boundVars, Goes
<1>2. PortfoliosTyped' /\ \A v \in Accounts : portfolios[v].exists => portfolios'[v].exists
  BY <1>1, TypedPortfolios DEF PortfoliosTyped
<1>3. portfolios[updating.user].exists /\ updates \in Nat /\ "sum" \in WebPlaces
  BY <1>1 DEF Typing, TypeOK, WebPlaces, Recalculating
<1> QED
  BY <1>1, <1>2, <1>3, VariableTypes, UpdateStep

LEMMA RestartTyping == ASSUME Typing, Restart PROVE Typing'
<1> USE DEF Typing, Restart
<1>1. PortfoliosTyped'
  BY NoneTyped, EmptyPortfolio DEF PortfoliosTyped, Accounts
<1>2. TypeOK'
  BY <1>1 DEF TypeOK, PortfoliosTyped, Accounts
<1>3. WorkInv'
  BY <1>1 DEF WorkInv, PortfoliosTyped, Working, Recalculating
<1> QED
  BY <1>2, <1>3

\* Every step keeps the types.
LEMMA NextTyping == Typing /\ [Next]_vars => Typing'
<1> SUFFICES ASSUME Typing, [Next]_vars PROVE Typing'
  OBVIOUS
<1>1. CASE \E e \in Executions : Deliver(e)
  BY <1>1, DeliverTyping
<1>2. CASE Consumer
  BY <1>2, FetchTyping, RestTyping, AcceptTyping, OpenTyping, AddTyping, ReduceTyping, CloseTyping,
     FlipTyping, RemoveTyping, MarkTyping, ConsumerTotalsTyping, PublishTyping, CommitTyping
     DEF Consumer
<1>3. CASE UpdatePortfolioPrices
  BY <1>3, BeginTyping, ReadTyping, StoreMarkTyping, PricesDoneTyping, WebTotalsTyping
     DEF UpdatePortfolioPrices
<1>4. CASE Restart
  BY <1>4, RestartTyping
<1>5. CASE UNCHANGED vars
  <2>1. Event' = Event
    BY <1>5 DEF vars, kafkaVars, Event
  <2>2. TypeOK'
    BY <1>5, <2>1 DEF Typing, TypeOK, vars, kafkaVars, moneyVars, boundVars
  <2>3. WorkInv'
    BY <1>5, <2>1 DEF Typing, WorkInv, vars, kafkaVars, moneyVars, boundVars
  <2> QED
    BY <2>2, <2>3 DEF Typing
<1> QED
  BY <1>1, <1>2, <1>3, <1>4, <1>5 DEF Next

\* The variables of the portfolio service keep their types: a stored position holds
\* something, a goroutine that works on a portfolio has one, and while a fill is worked
\* on what is left of it is more than nothing exactly where it is still to be applied
\* (service.go: handleExecutionFilled, updatePortfolioWithExecution).
THEOREM TypeCorrect == Spec => []Typing
  BY InitTyping, NextTyping, PTL DEF Spec

-----------------------------------------------------------------------------
(* Positions.                                                               *)

\* What the process took from the topic is marked, but for the event it has in hand
\* and not looked at.
MarkInv ==
    /\ processed \subseteq Executions /\ IsFiniteSet(processed)
    /\ Taken = IF pc.consumer = "handle" THEN processed \cup {log[next]} ELSE processed

\* In the middle of a fill: a position that was closed counts for nothing before it is
\* removed, and what is left of the fill counts as if it were held.
Leaves(u, s) == pc.consumer = "remove" /\ Event.user = u /\ Event.symbol = s
Held(u, s) ==
    LET pos == portfolios[u].positions[s]
    IN IF Leaves(u, s) THEN 0 ELSE Signed(pos.side, pos.qty)
Pending(u, s) ==
    IF rest > 0 /\ Event.user = u /\ Event.symbol = s THEN Signed(Event.side, rest) ELSE 0

FilledQty(u, s) ==
    SumFunctionOnSet(SignedQty, {e \in Taken : EventOf[e].user = u /\ EventOf[e].symbol = s})

FillsOf(u, s) == {e \in processed : EventOf[e].user = u /\ EventOf[e].symbol = s}

QuantityInv ==
    \A u \in Users, s \in Symbols :
        Held(u, s) + Pending(u, s) = SumFunctionOnSet(SignedQty, FillsOf(u, s))

LEMMA SignedType ==
    ASSUME NEW side, NEW qty \in Nat
    PROVE  Signed(side, qty) \in Int
  BY DEF Signed

LEMMA SignedZero ==
    ASSUME NEW side
    PROVE  Signed(side, 0) = 0
<1>1. \A qty \in Int : qty <= 0 /\ qty >= 0 => Signed(side, qty) = qty
  BY DEF Signed
<1> QED
  BY <1>1

LEMMA SignedQtyType == SignedQty \in [Executions -> Int]
<1>1. \A e \in Executions : Signed(EventOf[e].side, EventOf[e].qty) \in Int
  BY EventAssumption, SignedType
<1> QED
  BY <1>1 DEF SignedQty

\* The fills counted for a position are finitely many, and their sum is an integer.
LEMMA FillsFacts ==
    ASSUME processed \subseteq Executions, IsFiniteSet(processed), NEW u, NEW s
    PROVE  /\ IsFiniteSet(FillsOf(u, s))
           /\ SumFunctionOnSet(SignedQty, FillsOf(u, s)) \in Int
<1>1. FillsOf(u, s) \subseteq processed
  BY DEF FillsOf
<1>2. IsFiniteSet(FillsOf(u, s))
  BY <1>1, FS_Subset
<1>3. \A e \in FillsOf(u, s) : SignedQty[e] \in Int
  BY <1>1, SignedQtyType
<1> QED
  BY <1>2, <1>3, SumRemove

\* What is held and what is pending are integers.
LEMMA HeldType ==
    ASSUME Typing, NEW u \in Users, NEW s \in Symbols
    PROVE  Held(u, s) \in Int /\ Pending(u, s) \in Int
<1>1. PortfolioOK(portfolios[u])
  BY DEF Typing, WorkInv, Accounts
<1>2. portfolios[u].positions[s].qty \in Nat /\ rest \in Nat
  BY <1>1, PortfolioParts, VariableTypes
<1> QED
  BY <1>2, SignedType DEF Held, Pending

\* Which messages were taken, step by step.
LEMMA TakenGrows ==
    ASSUME Typing, NEW e, log' = Append(log, e), UNCHANGED <<next, resumed>>
    PROVE  Taken' = Taken
<1>1. next \in 0..Len(log) /\ resumed \in Nat /\ log \in Seq(Executions)
  BY DEF Typing, TypeOK
<1>2. \A i \in (resumed + 1)..next : log'[i] = log[i]
  BY <1>1
<1> QED
  BY <1>2 DEF Taken

LEMMA TakenFetched ==
    ASSUME Typing, next' = next + 1, UNCHANGED <<log, resumed>>
    PROVE  Taken' = Taken \cup {log'[next']}
<1>1. next \in Nat /\ resumed \in 0..next
  BY DEF Typing, TypeOK
<1>2. (resumed + 1)..(next + 1) = ((resumed + 1)..next) \cup {next + 1}
  BY <1>1
<1> QED
  BY <1>2 DEF Taken

\* The marks follow what is taken.
LEMMA NextMarkInv == MatchingKeys /\ Typing /\ MarkInv /\ [Next]_vars => MarkInv'
<1> SUFFICES ASSUME MatchingKeys, Typing, MarkInv, [Next]_vars PROVE MarkInv'
  OBVIOUS
<1>1. ASSUME NEW e \in Executions, Deliver(e) PROVE MarkInv'
  <2>1. Taken' = Taken
    BY <1>1, TakenGrows DEF Deliver
  <2>2. pc.consumer = "handle" => next \in 1..Len(log)
    BY DEF Typing, TypeOK
  <2>3. pc.consumer = "handle" => log'[next] = log[next]
    BY <1>1, <2>2 DEF Deliver, Typing, TypeOK
  <2> QED
    BY <1>1, <2>1, <2>3 DEF Deliver, MarkInv
<1>2. CASE Fetch
  <2>1. Taken' = Taken \cup {log'[next']}
    BY <1>2, TakenFetched DEF Fetch
  <2>2. pc.consumer = "fetch" /\ pc'.consumer = "handle" /\ processed' = processed
    BY <1>2 DEF Fetch, Goes, Typing, TypeOK
  <2> QED
    BY <2>1, <2>2 DEF MarkInv
<1>3. ASSUME UNCHANGED <<kafkaVars, processed>>, pc.consumer # "handle", pc'.consumer # "handle"
      PROVE  MarkInv'
  BY <1>3 DEF MarkInv, Taken, kafkaVars
<1>4. CASE SkipProcessed
  <2>1. pc.consumer = "handle" /\ pc'.consumer = "commit" /\ next # 0
    BY <1>4 DEF SkipProcessed, Goes, Typing, TypeOK
  <2>2. log[next] \in processed
    BY <1>4, <2>1, EventFacts DEF SkipProcessed, Typing
  <2>3. UNCHANGED <<kafkaVars, processed>>
    BY <1>4 DEF SkipProcessed
  <2> QED
    BY <2>1, <2>2, <2>3 DEF MarkInv, Taken, kafkaVars
<1>5. CASE Accept
  <2>1. pc.consumer = "handle" /\ pc'.consumer # "handle" /\ next # 0
    BY <1>5 DEF Accept, Goes, Typing, TypeOK
  <2>2. processed' = processed \cup {log[next]} /\ log[next] \in Executions
    BY <1>5, <2>1, EventFacts DEF Accept, Typing
  <2>3. IsFiniteSet(processed')
    BY <2>2, FS_AddElement DEF MarkInv
  <2>4. Taken' = Taken
    BY <1>5 DEF Accept, Taken, kafkaVars
  <2> QED
    BY <2>1, <2>2, <2>3, <2>4 DEF MarkInv
<1>6. CASE \/ FetchFails \/ OpenPosition \/ AddToPosition \/ ReducePosition \/ ClosePosition
           \/ FlipPosition \/ RemovePosition \/ MarkPosition \/ PublishUpdated
  <2>1. UNCHANGED <<kafkaVars, processed>>
    BY <1>6 DEF FetchFails, OpenPosition, AddToPosition, ReducePosition, ClosePosition, FlipPosition,
                RemovePosition, MarkPosition, PublishUpdated
  <2>2. pc.consumer # "handle" /\ pc'.consumer # "handle"
    BY <1>6 DEF FetchFails, OpenPosition, AddToPosition, ReducePosition, ClosePosition, FlipPosition,
                RemovePosition, MarkPosition, PublishUpdated, Goes, Typing, TypeOK
  <2> QED
    BY <1>3, <2>1, <2>2
<1>7. CASE RecalculateTotals("consumer")
  <2>1. UNCHANGED <<kafkaVars, processed>>
    BY <1>7 DEF RecalculateTotals, SumPositions, StoreUnrealized, AddTotal, StoreTotal, Keeps
  <2>2. pc.consumer # "handle" /\ pc'.consumer # "handle"
    BY <1>7 DEF RecalculateTotals, SumPositions, StoreUnrealized, AddTotal, StoreTotal, Goes,
                Typing, TypeOK
  <2> QED
    BY <1>3, <2>1, <2>2
<1>8. CASE Commit
  <2>1. UNCHANGED <<log, next, resumed, processed>>
    BY <1>8 DEF Commit
  <2>2. pc.consumer # "handle" /\ pc'.consumer # "handle"
    BY <1>8 DEF Commit, Goes, Typing, TypeOK
  <2> QED
    BY <2>1, <2>2 DEF MarkInv, Taken
<1>9. CASE UpdatePortfolioPrices
  <2>1. UNCHANGED <<kafkaVars, processed>>
    BY <1>9 DEF UpdatePortfolioPrices, BeginUpdate, ReadPosition, StoreMark, PricesDone,
                RecalculateTotals, SumPositions, StoreUnrealized, AddTotal, StoreTotal, Keeps
  <2>2. pc'.consumer = pc.consumer
    BY <1>9 DEF UpdatePortfolioPrices, BeginUpdate, ReadPosition, StoreMark, PricesDone,
                RecalculateTotals, SumPositions, StoreUnrealized, AddTotal, StoreTotal, Goes,
                Typing, TypeOK
  <2> QED
    BY <2>1, <2>2 DEF MarkInv, Taken, kafkaVars
<1>10. CASE Restart
  <2>1. processed' = {} /\ pc'.consumer = "fetch" /\ next' = resumed' /\ resumed' \in Nat
    BY <1>10 DEF Restart, Typing, TypeOK
  <2>2. (resumed' + 1)..next' = {}
    <3>1. PICK n \in Nat : n = resumed' /\ n = next'
      BY <2>1
    <3>2. (n + 1)..n = {}
      OBVIOUS
    <3> QED
      BY <3>1, <3>2
  <2>3. Taken' = {}
    BY <2>2 DEF Taken
  <2> QED
    BY <2>1, <2>3, FS_EmptySet DEF MarkInv
<1>11. CASE UNCHANGED vars
  BY <1>11 DEF MarkInv, Taken, vars, kafkaVars
<1> QED
  BY <1>1, <1>2, <1>4, <1>5, <1>6, <1>7, <1>8, <1>9, <1>10, <1>11 DEF Next, Consumer

\* Nothing was filled, or every position and what is pending stayed the same.
LEMMA QuantityKept ==
    ASSUME QuantityInv, processed' = processed,
           \A u \in Users, s \in Symbols :
              Held(u, s)' + Pending(u, s)' = Held(u, s) + Pending(u, s)
    PROVE  QuantityInv'
<1> SUFFICES ASSUME NEW u \in Users, NEW s \in Symbols
             PROVE  Held(u, s)' + Pending(u, s)' = SumFunctionOnSet(SignedQty, FillsOf(u, s)')
  BY DEF QuantityInv, SignedQty
<1>1. FillsOf(u, s)' = FillsOf(u, s)
  BY DEF FillsOf
<1>2. Held(u, s) + Pending(u, s) = SumFunctionOnSet(SignedQty, FillsOf(u, s))
  BY DEF QuantityInv
<1> QED
  BY <1>1, <1>2

\* A step that leaves sides and quantities alone, and the fill in hand if it counts.
LEMMA QuantityQuiet ==
    ASSUME QuantityInv, UNCHANGED <<processed, rest>>,
           \A u \in Users, s \in Symbols :
              /\ portfolios'[u].positions[s].side = portfolios[u].positions[s].side
              /\ portfolios'[u].positions[s].qty = portfolios[u].positions[s].qty,
           pc'.consumer = "remove" <=> pc.consumer = "remove",
           rest > 0 \/ pc.consumer = "remove" => Event' = Event
    PROVE  QuantityInv'
<1>1. ASSUME NEW u \in Users, NEW s \in Symbols
      PROVE  Held(u, s)' = Held(u, s) /\ Pending(u, s)' = Pending(u, s)
  <2>1. Leaves(u, s)' = Leaves(u, s)
    BY DEF Leaves
  <2>2. Held(u, s)' = Held(u, s)
    BY <2>1 DEF Held
  <2>3. Pending(u, s)' = Pending(u, s)
    BY DEF Pending
  <2> QED
    BY <2>2, <2>3
<1> QED
  BY <1>1, QuantityKept

\* Where a position is put.
LEMMA PutPositions ==
    ASSUME Typing, pc.consumer \in Working, NEW pos \in PositionType,
           pos.side # "none" <=> pos.qty > 0, Puts(pos)
    PROVE  /\ \A u \in Accounts, s \in Symbols :
                 portfolios'[u].positions[s] =
                    IF u = Event.user /\ s = Event.symbol THEN pos ELSE portfolios[u].positions[s]
           /\ \A u \in Accounts : /\ portfolios'[u].realized = portfolios[u].realized
                                  /\ portfolios'[u].balance = portfolios[u].balance
                                  /\ portfolios'[u].exists = portfolios[u].exists
<1> DEFINE v == Event.user
           p == [portfolios[v] EXCEPT !.positions[Event.symbol] = pos]
<1>1. /\ v \in Accounts /\ Event.symbol \in Symbols /\ portfolios[v].exists
      /\ PortfolioOK(portfolios[v]) /\ next # 0
  BY WorkFacts
<1>2. portfolios'[v] = p /\ \A u \in Accounts \ {v} : portfolios'[u] = portfolios[u]
  BY <1>1, PutsOne
<1>3. portfolios[v] \in Portfolio
  BY <1>1 DEF PortfolioOK
<1>4. /\ p.positions = [portfolios[v].positions EXCEPT ![Event.symbol] = pos]
      /\ p.realized = portfolios[v].realized /\ p.balance = portfolios[v].balance
      /\ p.exists = portfolios[v].exists
  BY <1>3 DEF Portfolio
<1>5. portfolios[v].positions \in [Symbols -> PositionType]
  BY <1>3 DEF Portfolio
<1>6. \A s \in Symbols : p.positions[s] = IF s = Event.symbol THEN pos
                                          ELSE portfolios[v].positions[s]
  BY <1>1, <1>4, <1>5
<1> HIDE DEF p, v
<1>7. \A u \in Accounts, s \in Symbols :
         portfolios'[u].positions[s] =
            IF u = v /\ s = Event.symbol THEN pos ELSE portfolios[u].positions[s]
  BY <1>2, <1>6
<1>8. \A u \in Accounts : /\ portfolios'[u].realized = portfolios[u].realized
                          /\ portfolios'[u].balance = portfolios[u].balance
                          /\ portfolios'[u].exists = portfolios[u].exists
  BY <1>2, <1>4
<1> QED
  BY <1>7, <1>8 DEF v

\* A step of the consumer on the position of the fill in hand: what is held and what
\* is pending there stay the same together.
LEMMA QuantityMoves ==
    ASSUME Typing, QuantityInv, pc.consumer \in Working, UNCHANGED <<kafkaVars, processed>>,
           \A u \in Users, s \in Symbols :
              u # Event.user \/ s # Event.symbol
              => portfolios'[u].positions[s] = portfolios[u].positions[s],
           NEW u0, u0 = Event.user, NEW s0, s0 = Event.symbol,
           Held(u0, s0)' + Pending(u0, s0)' = Held(u0, s0) + Pending(u0, s0)
    PROVE  QuantityInv'
<1>1. Event' = Event
  BY DEF Event, kafkaVars
<1>2. ASSUME NEW u \in Users, NEW s \in Symbols
      PROVE  Held(u, s)' + Pending(u, s)' = Held(u, s) + Pending(u, s)
  <2>1. CASE u = u0 /\ s = s0
    BY <2>1
  <2>2. CASE u # u0 \/ s # s0
    <3>1. ~ Leaves(u, s) /\ ~ Leaves(u, s)'
      BY <1>1, <2>2 DEF Leaves
    <3>2. Held(u, s)' = Held(u, s)
      BY <2>2, <3>1 DEF Held
    <3>3. Pending(u, s)' = Pending(u, s)
      BY <1>1, <2>2 DEF Pending
    <3> QED
      BY <3>2, <3>3
  <2> QED
    BY <2>1, <2>2
<1> QED
  BY <1>2, QuantityKept

\* The same when the step puts a position there, before the fill is applied or after.
LEMMA QuantityPut ==
    ASSUME Typing, QuantityInv, pc.consumer \in Working, UNCHANGED <<kafkaVars, processed>>,
           NEW pos \in PositionType, pos.side # "none" <=> pos.qty > 0, Puts(pos),
           pc'.consumer # "remove", rest' \in Nat,
           Signed(pos.side, pos.qty) + Signed(Event.side, rest')
              = (IF pc.consumer = "remove" THEN 0 ELSE Signed(Position.side, Position.qty))
                + Signed(Event.side, rest)
    PROVE  QuantityInv'
<1>1. /\ Event.user \in Users /\ Event.user \in Accounts /\ Event.symbol \in Symbols
      /\ Event.side \in Sides /\ Position = portfolios[Event.user].positions[Event.symbol]
      /\ rest \in Nat
  BY WorkFacts, VariableTypes
<1>2. Event' = Event
  BY DEF Event, kafkaVars
<1>3. PICK u0 \in Users, s0 \in Symbols : u0 = Event.user /\ s0 = Event.symbol
  BY <1>1
<1>4. \A u \in Users, s \in Symbols :
         portfolios'[u].positions[s] =
            IF u = u0 /\ s = s0 THEN pos ELSE portfolios[u].positions[s]
  BY <1>3, PutPositions DEF Accounts
<1>5. Held(u0, s0)' = Signed(pos.side, pos.qty)
  BY <1>4 DEF Held, Leaves
<1>6. Held(u0, s0) = IF pc.consumer = "remove" THEN 0 ELSE Signed(Position.side, Position.qty)
  BY <1>1, <1>3 DEF Held, Leaves
<1>7. Pending(u0, s0)' = Signed(Event.side, rest') /\ Pending(u0, s0) = Signed(Event.side, rest)
  BY <1>1, <1>2, <1>3 DEF Pending, Signed, Sides
<1>8. Held(u0, s0)' + Pending(u0, s0)' = Held(u0, s0) + Pending(u0, s0)
  BY <1>5, <1>6, <1>7
<1>9. \A u \in Users, s \in Symbols :
         u # Event.user \/ s # Event.symbol
         => portfolios'[u].positions[s] = portfolios[u].positions[s]
  BY <1>3, <1>4
<1> QED
  BY <1>3, <1>8, <1>9, QuantityMoves

\* A fill is counted when it is marked, and what it fills is pending from then on.
LEMMA QuantityAccept ==
    ASSUME MatchingKeys, Typing, MarkInv, QuantityInv, Accept
    PROVE  QuantityInv'
<1>1. pc.consumer = "handle" /\ next # 0 /\ rest = 0 /\ pc'.consumer # "remove"
  BY VariableTypes DEF Accept, Goes, Typing, TypeOK, WorkInv, Recalculating
<1>2. PICK e \in Executions : e = log[next] /\ e = Event.id
  BY <1>1, EventFacts DEF Typing
<1>3. /\ Event.user \in Users /\ Event.user = EventOf[e].user
      /\ Event.symbol = EventOf[e].symbol /\ Event.side = EventOf[e].side
      /\ Event.qty = EventOf[e].qty /\ Event.qty \in Nat /\ Event.side \in Sides \cup {"other"}
  BY <1>1, <1>2, EventFacts DEF Typing
<1>4. /\ e \notin processed /\ processed' = processed \cup {e}
      /\ rest' = IF Event.side \in Sides THEN Event.qty ELSE 0
      /\ Event' = Event
      /\ portfolios' = [portfolios EXCEPT ![Event.user] = IF @.exists THEN @ ELSE NewPortfolio]
  BY <1>2 DEF Accept, Event, kafkaVars
<1>5. ASSUME NEW u \in Users, NEW s \in Symbols
      PROVE  portfolios'[u].positions[s] = portfolios[u].positions[s]
  <2>1. PortfolioOK(portfolios[u]) /\ PortfoliosTyped
    BY TypedPortfolios DEF Typing, WorkInv, Accounts
  <2>2. CASE u = Event.user /\ ~ portfolios[u].exists
    <3>1. portfolios[u] = NoPortfolio
      BY <2>1, <2>2 DEF PortfolioOK
    <3>2. portfolios'[u] = NewPortfolio
      BY <1>3, <1>4, <2>1, <2>2 DEF PortfoliosTyped, Accounts
    <3> QED
      BY <3>1, <3>2, EmptyPortfolio
  <2>3. CASE u # Event.user \/ portfolios[u].exists
    BY <1>3, <1>4, <2>1, <2>3 DEF PortfoliosTyped, Accounts
  <2> QED
    BY <2>2, <2>3
<1>6. ASSUME NEW u \in Users, NEW s \in Symbols
      PROVE  Held(u, s)' + Pending(u, s)' = SumFunctionOnSet(SignedQty, FillsOf(u, s)')
  <2>1. Held(u, s)' = Held(u, s)
    BY <1>1, <1>5 DEF Held, Leaves
  <2>2. Pending(u, s) = 0 /\ Held(u, s) \in Int
    BY <1>1, HeldType DEF Pending
  <2>3. Held(u, s) + Pending(u, s) = SumFunctionOnSet(SignedQty, FillsOf(u, s))
    BY DEF QuantityInv
  <2>4. CASE u = Event.user /\ s = Event.symbol
    <3>1. FillsOf(u, s)' = FillsOf(u, s) \cup {e} /\ e \notin FillsOf(u, s)
      BY <1>3, <1>4, <2>4 DEF FillsOf
    <3>2. FillsOf(u, s) \cup {e} \subseteq Executions /\ IsFiniteSet(FillsOf(u, s))
      BY FillsFacts DEF MarkInv, FillsOf
    <3>3. \A x \in FillsOf(u, s) \cup {e} : SignedQty[x] \in Int
      BY <3>2, SignedQtyType
    <3>4. SumFunctionOnSet(SignedQty, FillsOf(u, s) \cup {e})
            = SumFunctionOnSet(SignedQty, FillsOf(u, s)) + SignedQty[e]
      <4> DEFINE F == FillsOf(u, s)
      <4>1. IsFiniteSet(F) /\ e \notin F /\ \A x \in F \cup {e} : SignedQty[x] \in Int
        BY <3>1, <3>2, <3>3
      <4> HIDE DEF F
      <4>2. SumFunctionOnSet(SignedQty, F \cup {e}) = SumFunctionOnSet(SignedQty, F) + SignedQty[e]
        BY <4>1, SumAdd
      <4> QED
        BY <4>2 DEF F
    <3>5. SignedQty[e] = Signed(Event.side, Event.qty)
      BY <1>3 DEF SignedQty
    <3>6. Pending(u, s)' = Signed(Event.side, Event.qty)
      BY <1>3, <1>4, <2>4 DEF Pending, Signed, Sides
    <3> QED
      BY <2>1, <2>2, <2>3, <3>1, <3>4, <3>5, <3>6
  <2>5. CASE u # Event.user \/ s # Event.symbol
    <3>1. FillsOf(u, s)' = FillsOf(u, s)
      BY <1>3, <1>4, <2>5 DEF FillsOf
    <3>2. Pending(u, s)' = 0
      BY <1>4, <2>5 DEF Pending
    <3> QED
      BY <2>1, <2>2, <2>3, <3>1, <3>2
  <2> QED
    BY <2>4, <2>5
<1> QED
  BY <1>6 DEF QuantityInv, SignedQty

\* What a step may leave of the books as it was: sides, quantities and averages, and the
\* money realized.
BooksKept ==
    \A u \in Accounts :
        /\ portfolios'[u].realized = portfolios[u].realized
        /\ portfolios'[u].balance = portfolios[u].balance
        /\ portfolios'[u].exists = portfolios[u].exists
        /\ \A s \in Symbols :
              /\ portfolios'[u].positions[s].side = portfolios[u].positions[s].side
              /\ portfolios'[u].positions[s].qty = portfolios[u].positions[s].qty
              /\ portfolios'[u].positions[s].avg = portfolios[u].positions[s].avg

\* A price update does so: it stores a profit in a position, and totals.
LEMMA MarkKeepsBooks == ASSUME Typing, StoreMark PROVE BooksKept
<1> DEFINE u == updating.user
           s == updating.held
           pos == [portfolios[u].positions[s] EXCEPT !.upnl = local.http]
           p == [portfolios[u] EXCEPT !.positions[s] = pos]
<1>1. \/ portfolios' = portfolios
      \/ s # NoSymbol /\ portfolios' = [portfolios EXCEPT ![u] = p]
  BY DEF StoreMark
<1>2. u \in Accounts /\ PortfolioOK(portfolios[u]) /\ s \in Symbols \cup {NoSymbol}
  BY VariableTypes DEF Typing, WorkInv
<1>3. CASE portfolios' = portfolios
  BY <1>3 DEF BooksKept
<1>4. CASE s # NoSymbol /\ portfolios' = [portfolios EXCEPT ![u] = p]
  <2>1. s \in Symbols /\ portfolios[u] \in Portfolio
    BY <1>2, <1>4 DEF PortfolioOK
  <2>2. portfolios[u].positions \in [Symbols -> PositionType]
    BY <2>1 DEF Portfolio
  <2>3. /\ p.positions = [portfolios[u].positions EXCEPT ![s] = pos]
        /\ p.realized = portfolios[u].realized /\ p.balance = portfolios[u].balance
        /\ p.exists = portfolios[u].exists
    BY <2>1 DEF Portfolio
  <2>4. portfolios[u].positions[s] \in PositionType
    BY <2>1, <2>2
  <2>5. /\ pos.side = portfolios[u].positions[s].side
        /\ pos.qty = portfolios[u].positions[s].qty
        /\ pos.avg = portfolios[u].positions[s].avg
    BY <2>4 DEF PositionType
  <2> HIDE DEF pos
  <2>6. \A t \in Symbols : /\ p.positions[t].side = portfolios[u].positions[t].side
                           /\ p.positions[t].qty = portfolios[u].positions[t].qty
                           /\ p.positions[t].avg = portfolios[u].positions[t].avg
    BY <2>1, <2>2, <2>3, <2>5
  <2>7. portfolios \in [Accounts -> Portfolio]
    BY TypedPortfolios DEF PortfoliosTyped
  <2> HIDE DEF p, u, s
  <2>8. portfolios'[u] = p /\ \A v \in Accounts \ {u} : portfolios'[v] = portfolios[v]
    BY <1>2, <1>4, <2>7
  <2> QED
    BY <2>3, <2>6, <2>8 DEF BooksKept
<1> QED
  BY <1>1, <1>3, <1>4

\* Every step but a restart and those of the consumer on a fill keeps the books, what is
\* left of the fill in hand and, where it matters, the fill itself.
QuietStep ==
    \/ \E e \in Executions : Deliver(e)
    \/ Fetch \/ FetchFails \/ SkipProcessed \/ PublishUpdated \/ Commit
    \/ RecalculateTotals("consumer") \/ UpdatePortfolioPrices
    \/ UNCHANGED vars

LEMMA QuietSteps ==
    ASSUME Typing, QuietStep
    PROVE  /\ BooksKept /\ UNCHANGED <<processed, rest, trades, unbooked>>
           /\ pc'.consumer = "remove" <=> pc.consumer = "remove"
           /\ rest > 0 \/ pc.consumer = "remove" => Event' = Event
<1>1. ASSUME UNCHANGED portfolios PROVE BooksKept
  BY <1>1 DEF BooksKept
<1>2. ASSUME UNCHANGED kafkaVars PROVE Event' = Event
  BY <1>2 DEF Event, kafkaVars
<1>3. rest > 0 => pc.consumer \in {"apply", "remove"} \cup Recalculating
  BY DEF Typing, WorkInv
<1>4. ASSUME NEW e \in Executions, Deliver(e)
      PROVE  /\ UNCHANGED <<portfolios, processed, rest, trades, unbooked, pc>>
             /\ rest > 0 \/ pc.consumer = "remove" => Event' = Event
  <2>1. rest > 0 \/ pc.consumer = "remove" => next \in 1..Len(log)
    BY <1>3 DEF Typing, TypeOK, Recalculating
  <2>2. next \in 1..Len(log) => log'[next] = log[next]
    BY <1>4 DEF Deliver, Typing, TypeOK
  <2>3. next \in 1..Len(log) => Event' = Event
    BY <1>4, <2>2, SameEvent DEF Deliver
  <2> QED
    BY <1>4, <2>1, <2>3 DEF Deliver, moneyVars
<1>5. CASE Fetch \/ FetchFails
  <2>1. ~ (rest > 0) /\ pc.consumer = "fetch" /\ pc'.consumer # "remove"
    BY <1>3, <1>5 DEF Fetch, FetchFails, Goes, Typing, TypeOK, Recalculating
  <2>2. UNCHANGED <<portfolios, processed, rest, trades, unbooked>>
    BY <1>5 DEF Fetch, FetchFails, moneyVars
  <2> QED
    BY <1>1, <2>1, <2>2
<1>6. CASE SkipProcessed \/ PublishUpdated
  <2>1. pc.consumer # "remove" /\ pc'.consumer # "remove"
    BY <1>6 DEF SkipProcessed, PublishUpdated, Goes, Typing, TypeOK
  <2>2. UNCHANGED <<kafkaVars, portfolios, processed, rest, trades, unbooked>>
    BY <1>6 DEF SkipProcessed, PublishUpdated, moneyVars
  <2> QED
    BY <1>1, <1>2, <2>1, <2>2
<1>7. CASE Commit
  <2>1. pc.consumer # "remove" /\ pc'.consumer # "remove"
    BY <1>7 DEF Commit, Goes, Typing, TypeOK
  <2>2. UNCHANGED <<log, next, portfolios, processed, rest, trades, unbooked>>
    BY <1>7 DEF Commit, moneyVars
  <2>3. Event' = Event
    BY <2>2 DEF Event
  <2> QED
    BY <1>1, <2>1, <2>2, <2>3
<1>8. ASSUME NEW a \in Actors, RecalculateTotals(a)
      PROVE  /\ BooksKept /\ UNCHANGED <<kafkaVars, processed, rest, trades, unbooked>>
             /\ pc'.consumer = "remove" <=> pc.consumer = "remove"
  <2>1. UNCHANGED <<kafkaVars, processed, rest, trades, unbooked>>
    BY <1>8 DEF RecalculateTotals, SumPositions, StoreUnrealized, AddTotal, StoreTotal, Keeps
  <2>2. BooksKept
    BY <1>8, RecalculationStep DEF BooksKept, TotalsKept
  <2>3. CASE a = "consumer"
    BY <1>8, <2>1, <2>2, <2>3 DEF RecalculateTotals, SumPositions, StoreUnrealized, AddTotal,
                                  StoreTotal, Goes, Typing, TypeOK
  <2>4. CASE a = "http"
    BY <1>8, <2>1, <2>2, <2>4 DEF RecalculateTotals, SumPositions, StoreUnrealized, AddTotal,
                                  StoreTotal, Goes, Typing, TypeOK
  <2> QED
    BY <2>3, <2>4 DEF Actors
<1>9. CASE \/ \E u \in Users, symbols \in SUBSET Symbols \ {{}} : BeginUpdate(u, symbols)
           \/ \E s \in Symbols, price \in Prices : ReadPosition(s, price)
           \/ PricesDone
  <2>1. UNCHANGED <<kafkaVars, portfolios, processed, rest, trades, unbooked>>
    BY <1>9 DEF BeginUpdate, ReadPosition, PricesDone, moneyVars
  <2>2. pc'.consumer = pc.consumer
    BY <1>9 DEF BeginUpdate, ReadPosition, PricesDone, Goes, Typing, TypeOK
  <2> QED
    BY <1>1, <1>2, <2>1, <2>2
<1>10. CASE StoreMark
  <2>1. UNCHANGED <<kafkaVars, processed, rest, trades, unbooked>>
    BY <1>10 DEF StoreMark
  <2>2. pc'.consumer = pc.consumer
    BY <1>10 DEF StoreMark, Goes, Typing, TypeOK
  <2> QED
    BY <1>2, <1>10, <2>1, <2>2, MarkKeepsBooks
<1>11. CASE UNCHANGED vars
  <2>1. UNCHANGED <<kafkaVars, portfolios, processed, rest, trades, unbooked, pc>>
    BY <1>11 DEF vars, moneyVars
  <2> QED
    BY <1>1, <1>2, <2>1
<1> QED
  BY <1>1, <1>2, <1>4, <1>5, <1>6, <1>7, <1>8, <1>9, <1>10, <1>11
     DEF QuietStep, UpdatePortfolioPrices, Actors

\* Every step keeps the quantities.
LEMMA NextQuantityInv ==
    MatchingKeys /\ Typing /\ MarkInv /\ QuantityInv /\ [Next]_vars => QuantityInv'
<1> SUFFICES ASSUME MatchingKeys, Typing, MarkInv, QuantityInv, [Next]_vars PROVE QuantityInv'
  OBVIOUS
<1>1. CASE QuietStep
  BY <1>1, QuietSteps, QuantityQuiet DEF BooksKept, Accounts
<1>2. CASE Accept
  BY <1>2, QuantityAccept
<1>3. CASE OpenPosition
  <2>1. PICK pos \in PositionType :
           /\ Puts(pos) /\ (pos.side # "none" <=> pos.qty > 0)
           /\ pos.side = Event.side /\ pos.qty = rest
    BY <1>3, OpenPut
  <2>2. /\ pc.consumer = "apply" /\ pc.consumer \in Working /\ pc'.consumer # "remove"
        /\ rest' = 0 /\ UNCHANGED <<kafkaVars, processed>> /\ Position.side = "none"
    BY <1>3, OpenPut DEF OpenPosition, Goes, Typing, TypeOK
  <2>3. Signed(Event.side, 0) = 0 /\ Signed(Position.side, Position.qty) = 0
    <3>1. \A qty : Signed("none", qty) = 0
      BY DEF Signed
    <3>2. Signed(Event.side, 0) = 0
      BY SignedZero
    <3> QED
      BY <2>2, <3>1, <3>2
  <2>4. Signed(Event.side, rest) \in Int
    BY <1>3, OpenPut, SignedType
  <2> QED
    BY <2>1, <2>2, <2>3, <2>4, QuantityPut
<1>4. CASE AddToPosition
  <2>1. PICK pos \in PositionType :
           /\ Puts(pos) /\ (pos.side # "none" <=> pos.qty > 0)
           /\ pos.side = Position.side /\ pos.qty = Position.qty + rest
    BY <1>4, AddPut
  <2>2. /\ pc.consumer = "apply" /\ pc.consumer \in Working /\ pc'.consumer # "remove"
        /\ rest' = 0 /\ UNCHANGED <<kafkaVars, processed>> /\ Position.side = Event.side
        /\ rest \in Nat
    BY <1>4, AddPut DEF AddToPosition, Goes, Typing, TypeOK
  <2>3. Position.qty \in Nat
    BY <2>2, WorkFacts
  <2>4. Signed(pos.side, pos.qty) + Signed(Event.side, 0)
           = Signed(Position.side, Position.qty) + Signed(Event.side, rest)
    BY <2>1, <2>2, <2>3 DEF Signed
  <2> QED
    BY <2>1, <2>2, <2>4, QuantityPut
<1>5. CASE ReducePosition
  <2>1. PICK pos \in PositionType :
           /\ Puts(pos) /\ (pos.side # "none" <=> pos.qty > 0)
           /\ pos.side = Position.side /\ pos.qty = Position.qty - rest
    BY <1>5, ReducePut
  <2>2. /\ pc.consumer = "apply" /\ pc.consumer \in Working /\ pc'.consumer # "remove"
        /\ rest' = 0 /\ UNCHANGED <<kafkaVars, processed>> /\ rest \in Nat
        /\ Position.side \in Sides /\ Position.side # Event.side
    BY <1>5, ReducePut DEF ReducePosition, Goes, Typing, TypeOK
  <2>3. Position.qty \in Nat /\ Event.side \in Sides
    BY <2>2, WorkFacts
  <2>4. Signed(pos.side, pos.qty) + Signed(Event.side, 0)
           = Signed(Position.side, Position.qty) + Signed(Event.side, rest)
    BY <2>1, <2>2, <2>3 DEF Signed, Sides
  <2> QED
    BY <2>1, <2>2, <2>4, QuantityPut
<1>6. CASE ClosePosition \/ FlipPosition
  <2>1. /\ pc.consumer = "apply" /\ pc.consumer \in Working /\ pc'.consumer = "remove"
        /\ UNCHANGED <<kafkaVars, processed>> /\ rest \in Nat
        /\ Position.side \in Sides /\ Position.side # Event.side
        /\ rest >= Position.qty /\ rest' = rest - Position.qty
    <3>1. pc.consumer = "apply"
      BY <1>6 DEF ClosePosition, FlipPosition
    <3>2. Position.qty \in Nat /\ rest \in Nat
      BY <3>1, WorkFacts, VariableTypes DEF Working
    <3> QED
      BY <1>6, <3>1, <3>2 DEF ClosePosition, FlipPosition, Opposes, Goes, Working, Typing, TypeOK
  <2>2. \A u \in Accounts : portfolios'[u].positions = portfolios[u].positions
    <3>1. CASE ClosePosition
      <4>1. Profit(Position, rest, Event.price) \in Int /\ Event.fees \in Int
        BY <2>1, WorkFacts, ProfitType
      <4> QED
        BY <2>1, <3>1, <4>1, RealizeStep DEF ClosePosition
    <3>2. CASE FlipPosition
      <4>1. Profit(Position, Position.qty, Event.price) \in Int /\ 0 \in Int
        BY <2>1, WorkFacts, ProfitType
      <4> QED
        BY <2>1, <3>2, <4>1, RealizeStep DEF FlipPosition
    <3> QED
      BY <1>6, <3>1, <3>2
  <2>3. /\ Event.side \in Sides /\ Position.qty \in Nat /\ Event.user \in Users
        /\ Event.symbol \in Symbols
        /\ Position = portfolios[Event.user].positions[Event.symbol]
    BY <2>1, WorkFacts
  <2>4. PICK u0 \in Users, s0 \in Symbols : u0 = Event.user /\ s0 = Event.symbol
    BY <2>3
  <2>5. Event' = Event
    BY <2>1 DEF Event, kafkaVars
  <2>6. Held(u0, s0)' = 0 /\ Held(u0, s0) = Signed(Position.side, Position.qty)
    BY <2>1, <2>3, <2>4, <2>5 DEF Held, Leaves
  <2>7. Pending(u0, s0)' = Signed(Event.side, rest') /\ Pending(u0, s0) = Signed(Event.side, rest)
    BY <2>1, <2>3, <2>4, <2>5 DEF Pending, Signed, Sides
  <2>8. Signed(Event.side, rest') = Signed(Position.side, Position.qty) + Signed(Event.side, rest)
    BY <2>1, <2>3 DEF Signed, Sides
  <2>9. Signed(Event.side, rest') \in Int
    BY <2>1, <2>3, SignedType
  <2>10. Held(u0, s0)' + Pending(u0, s0)' = Held(u0, s0) + Pending(u0, s0)
    BY <2>6, <2>7, <2>8, <2>9
  <2>11. \A u \in Users, s \in Symbols : portfolios'[u].positions[s] = portfolios[u].positions[s]
    BY <2>2 DEF Accounts
  <2> QED
    BY <2>1, <2>4, <2>10, <2>11, QuantityMoves
<1>7. CASE RemovePosition
  <2>1. /\ pc.consumer = "remove" /\ pc.consumer \in Working /\ pc'.consumer # "remove"
        /\ rest' = rest /\ UNCHANGED <<kafkaVars, processed>> /\ Puts(NoPosition)
        /\ rest \in Nat
    BY <1>7, VariableTypes DEF RemovePosition, Goes, Working, Typing, TypeOK
  <2>2. Signed(NoPosition.side, NoPosition.qty) = 0
    BY EmptyPortfolio DEF Signed
  <2> QED
    BY <2>1, <2>2, EmptyPortfolio, QuantityPut
<1>8. CASE MarkPosition
  <2>1. PICK pos \in PositionType :
           /\ Puts(pos) /\ (pos.side # "none" <=> pos.qty > 0)
           /\ pos.side = Position.side /\ pos.qty = Position.qty
    BY <1>8, MarkPut
  <2>2. /\ pc.consumer = "mark" /\ pc.consumer \in Working /\ pc'.consumer # "remove"
        /\ rest' = rest /\ rest = 0 /\ UNCHANGED <<kafkaVars, processed>>
    BY <1>8, MarkPut DEF MarkPosition, Goes, Typing, TypeOK
  <2> QED
    BY <2>1, <2>2, QuantityPut
<1>9. CASE Restart
  <2>1. /\ processed' = {} /\ rest' = 0 /\ pc'.consumer = "fetch"
        /\ portfolios' = [u \in Users \cup {Blank} |-> NoPortfolio]
    BY <1>9 DEF Restart
  <2>2. ASSUME NEW u \in Users, NEW s \in Symbols
        PROVE  Held(u, s)' + Pending(u, s)' = 0
    BY <2>1, EmptyPortfolio DEF Held, Pending, Leaves, Signed
  <2>3. \A u \in Users, s \in Symbols : FillsOf(u, s)' = {}
    BY <2>1 DEF FillsOf
  <2> QED
    BY <2>2, <2>3, SumEmpty DEF QuantityInv, SignedQty
<1> QED
  BY <1>1, <1>2, <1>3, <1>4, <1>5, <1>6, <1>7, <1>8, <1>9 DEF Next, Consumer, QuietStep

LEMMA InitQuantityInv == Init => MarkInv /\ QuantityInv
<1> SUFFICES ASSUME Init PROVE MarkInv /\ QuantityInv
  OBVIOUS
<1>1. processed = {} /\ rest = 0 /\ pc.consumer = "fetch" /\ next = 0 /\ resumed = 0
      /\ portfolios = [u \in Users \cup {Blank} |-> NoPortfolio]
  BY DEF Init
<1>2. MarkInv
  <2>1. (resumed + 1)..next = {}
    BY <1>1
  <2> QED
    BY <1>1, <2>1, FS_EmptySet DEF MarkInv, Taken
<1>3. ASSUME NEW u \in Users, NEW s \in Symbols PROVE Held(u, s) + Pending(u, s) = 0
  BY <1>1, EmptyPortfolio DEF Held, Pending, Leaves, Signed
<1>4. \A u \in Users, s \in Symbols : FillsOf(u, s) = {}
  BY <1>1 DEF FillsOf
<1> QED
  BY <1>2, <1>3, <1>4, SumEmpty DEF QuantityInv

\* Between messages nothing is pending, and what is marked is what was taken.
LEMMA QuantitiesMatch == Typing /\ MarkInv /\ QuantityInv => PositionsMatchFills
<1> SUFFICES ASSUME Typing, MarkInv, QuantityInv, BetweenMessages, NEW u \in Users, NEW s \in Symbols
             PROVE  LET pos == portfolios[u].positions[s]
                    IN Signed(pos.side, pos.qty) = FilledQty(u, s)
  BY DEF PositionsMatchFills, FilledQty
<1>1. pc.consumer \in {"fetch", "stopped"}
  BY DEF BetweenMessages
<1>2. ~ (rest > 0)
  BY <1>1 DEF Typing, WorkInv, Recalculating
<1>3. Held(u, s) = Signed(portfolios[u].positions[s].side, portfolios[u].positions[s].qty)
      /\ Pending(u, s) = 0 /\ Held(u, s) \in Int
  BY <1>1, <1>2, HeldType DEF Held, Leaves, Pending
<1>4. FilledQty(u, s) = SumFunctionOnSet(SignedQty, FillsOf(u, s))
  BY <1>1 DEF FilledQty, FillsOf, MarkInv
<1>5. Held(u, s) + Pending(u, s) = SumFunctionOnSet(SignedQty, FillsOf(u, s))
  BY DEF QuantityInv
<1> QED
  BY <1>3, <1>4, <1>5

\* With matching keys the consumer decodes what was written.
LEMMA DecodedIsWritten ==
    ASSUME MatchingKeys
    PROVE  /\ DecodedQty = SignedQty
           /\ \A e : /\ Decode(e).user = EventOf[e].user
                     /\ Decode(e).symbol = EventOf[e].symbol
                     /\ Decode(e).price = EventOf[e].price
  BY DEF DecodedQty, SignedQty, Decode

LEMMA WrittenFillsMatch ==
    ASSUME MatchingKeys
    PROVE  Spec => [](PositionsMatchFills /\ PositionsMatchDecodedFills)
<1>1. Typing /\ MarkInv /\ QuantityInv /\ [Next]_vars => (Typing /\ MarkInv /\ QuantityInv)'
  BY NextTyping, NextMarkInv, NextQuantityInv
<1>2. Init => Typing /\ MarkInv /\ QuantityInv
  BY InitTyping, InitQuantityInv
<1>3. Typing /\ MarkInv /\ QuantityInv => PositionsMatchFills
  BY QuantitiesMatch
<1>4. \A u, s : {e \in Taken : Decode(e).user = u /\ Decode(e).symbol = s}
                  = {e \in Taken : EventOf[e].user = u /\ EventOf[e].symbol = s}
  BY DecodedIsWritten
<1>5. PositionsMatchFills => PositionsMatchDecodedFills
  BY <1>4, DecodedIsWritten DEF PositionsMatchFills, PositionsMatchDecodedFills
<1> QED
  BY <1>1, <1>2, <1>3, <1>5, PTL DEF Spec

-----------------------------------------------------------------------------
(* Keys that do not match, as those the execution service writes.  Every event is  *)
(* decoded as a fill of nothing for the account without a name: it opens that      *)
(* account, moves nothing and leaves a price update no position to mark.           *)

UnreadInv ==
    /\ \A u \in Accounts :
          /\ \A s \in Symbols : portfolios[u].positions[s].side = "none"
          /\ portfolios[u].realized = 0
          /\ portfolios[u].exists => portfolios[u].balance = InitialBalance
          /\ unbooked[u] = 0
    /\ trades = {}

LEMMA InitUnreadInv == Init => UnreadInv
  BY EmptyPortfolio DEF Init, UnreadInv, Accounts

LEMMA NextUnreadInv == ~ MatchingKeys /\ Typing /\ UnreadInv /\ [Next]_vars => UnreadInv'
<1> SUFFICES ASSUME ~ MatchingKeys, Typing, UnreadInv, [Next]_vars PROVE UnreadInv'
  OBVIOUS
<1>1. pc.consumer \notin Working
  BY DEF Typing, WorkInv
<1>2. CASE QuietStep
  <2>1. BooksKept /\ UNCHANGED <<trades, unbooked>>
    BY <1>2, QuietSteps
  <2> QED
    BY <2>1 DEF BooksKept, UnreadInv
<1>3. CASE Accept
  <2>1. /\ portfolios' = [portfolios EXCEPT ![Event.user] = IF @.exists THEN @ ELSE NewPortfolio]
        /\ UNCHANGED <<trades, unbooked>>
    BY <1>3 DEF Accept
  <2>2. \A u \in Accounts : portfolios'[u] \in {portfolios[u], NewPortfolio}
    BY <2>1 DEF Typing, TypeOK, Accounts
  <2>3. \A s \in Symbols : NewPortfolio.positions[s].side = "none"
    BY EmptyPortfolio
  <2> QED
    BY <2>1, <2>2, <2>3, EmptyPortfolio DEF UnreadInv
<1>4. CASE \/ OpenPosition \/ AddToPosition \/ ReducePosition \/ ClosePosition \/ FlipPosition
           \/ RemovePosition \/ MarkPosition
  BY <1>1, <1>4 DEF OpenPosition, AddToPosition, ReducePosition, ClosePosition, FlipPosition,
                    RemovePosition, MarkPosition, Working
<1>5. CASE Restart
  BY <1>5, EmptyPortfolio DEF Restart, UnreadInv, Accounts
<1> QED
  BY <1>2, <1>3, <1>4, <1>5 DEF Next, Consumer, QuietStep

LEMMA UnreadInvHolds ==
    ASSUME ~ MatchingKeys
    PROVE  Spec => [](Typing /\ UnreadInv)
<1>1. Typing /\ UnreadInv /\ [Next]_vars => (Typing /\ UnreadInv)'
  BY NextTyping, NextUnreadInv
<1>2. Init => Typing /\ UnreadInv
  BY InitTyping, InitUnreadInv
<1> QED
  BY <1>1, <1>2, PTL DEF Spec

\* What the deployed producer's keys come to: whatever is filled, repeated, restarted or
\* repriced, no user ever holds a position, realizes a profit or has a trade stored.
NothingBooked ==
    /\ trades = {}
    /\ \A u \in Users :
          /\ portfolios[u].realized = 0
          /\ portfolios[u].exists => portfolios[u].balance = InitialBalance
          /\ \A s \in Symbols : portfolios[u].positions[s].side = "none"

\* With keys that the consumer's struct does not match (domain/execution.go:86-98 writes
\* execution_id, user_id, executed_qty; portfolio/service.go:33-50 has no tags) no fill is
\* ever booked.
THEOREM UnreadFillsMoveNothing == Spec => [](~ MatchingKeys => NothingBooked)
<1>1. CASE MatchingKeys
  BY <1>1, PTL
<1>2. CASE ~ MatchingKeys
  <2>1. Typing /\ UnreadInv => NothingBooked
    BY DEF UnreadInv, NothingBooked, Accounts
  <2>2. Spec => [](Typing /\ UnreadInv)
    BY <1>2, UnreadInvHolds
  <2> QED
    BY <2>1, <2>2, PTL
<1> QED
  BY <1>1, <1>2

\* No event that is not decoded is one of a user's.
LEMMA NobodysFills ==
    ASSUME ~ MatchingKeys, NEW u \in Users
    PROVE  \A e : Decode(e).user # u
  BY BlankAssumption DEF Decode

\* Whatever keys the producer writes, the position of a symbol is between messages the sum
\* of the fills the consumer decoded, each execution once, for any fills, repeats, restarts
\* and price updates meanwhile (service.go: handleExecutionFilled).
THEOREM PositionsFollowFills == Spec => []PositionsMatchDecodedFills
<1>1. CASE MatchingKeys
  <2>1. Spec => [](PositionsMatchFills /\ PositionsMatchDecodedFills)
    BY <1>1, WrittenFillsMatch
  <2> QED
    BY <2>1, PTL
<1>2. CASE ~ MatchingKeys
  <2>1. ASSUME UnreadInv PROVE PositionsMatchDecodedFills
    <3> SUFFICES ASSUME NEW u \in Users, NEW s \in Symbols
                 PROVE  Signed(portfolios[u].positions[s].side, portfolios[u].positions[s].qty)
                          = SumFunctionOnSet(DecodedQty, {e \in Taken : Decode(e).user = u
                                                                          /\ Decode(e).symbol = s})
      BY DEF PositionsMatchDecodedFills
    <3>1. {e \in Taken : Decode(e).user = u /\ Decode(e).symbol = s} = {}
      BY <1>2, NobodysFills
    <3>2. portfolios[u].positions[s].side = "none"
      BY <2>1 DEF UnreadInv, Accounts
    <3>3. Signed(portfolios[u].positions[s].side, portfolios[u].positions[s].qty) = 0
      BY <3>2 DEF Signed
    <3> QED
      BY <3>1, <3>3, SumEmpty
  <2>2. Spec => [](Typing /\ UnreadInv)
    BY <1>2, UnreadInvHolds
  <2>3. Typing /\ UnreadInv => PositionsMatchDecodedFills
    BY <2>1
  <2> QED
    BY <2>2, <2>3, PTL
<1> QED
  BY <1>1, <1>2

-----------------------------------------------------------------------------
(* Money.                                                                   *)

\* A sum of zeros.
LEMMA SumOfZeros ==
    ASSUME NEW S, IsFiniteSet(S), NEW g, \A x \in S : g[x] = 0
    PROVE  SumFunctionOnSet(g, S) = 0
<1>1. PICK h : IsSum(h, g, S) /\ SumFunctionOnSet(g, S) = h[S]
  BY SumIsSum
<1> DEFINE k == [s \in SUBSET S |-> 0]
<1>2. IsSum(k, g, S)
  <2>1. \A s \in SUBSET S :
           0 = IF s = {} THEN 0 ELSE LET x == CHOOSE x \in s : TRUE IN g[x] + k[s \ {x}]
    <3> SUFFICES ASSUME NEW s \in SUBSET S, s # {}
                 PROVE  LET x == CHOOSE x \in s : TRUE IN 0 = g[x] + k[s \ {x}]
      OBVIOUS
    <3> DEFINE x == CHOOSE x \in s : TRUE
    <3>1. x \in s
      OBVIOUS
    <3>2. g[x] = 0 /\ k[s \ {x}] = 0
      BY <3>1
    <3> QED
      BY <3>2
  <2> QED
    BY <2>1 DEF IsSum
<1>3. S \in SUBSET (S \cap S) /\ S \in SUBSET S
  OBVIOUS
<1>4. k[S] = 0
  OBVIOUS
<1> HIDE DEF k
<1>5. h[S] = k[S]
  BY <1>1, <1>2, <1>3, SumsAgree
<1> QED
  BY <1>1, <1>4, <1>5

\* The average of every addition is a whole number of the unit prices are counted in:
\* what the model takes from float64, and what the instances are built to be.
AveragesAreExact ==
    pc.consumer = "apply" /\ Position.side = Event.side
    => (Position.avg * Position.qty + Event.price * rest) % (Position.qty + rest) = 0

\* What is stored as a trade was marked, and is not what is still being applied.
TradeInv ==
    /\ IsFiniteSet(trades)
    /\ \A t \in trades : t.execution \in processed /\ (rest > 0 => t.execution # Event.id)

\* In the middle of a fill the money of a position that was closed is realized already,
\* and what is left of the fill counts as held at its price.
Booked(u, s) == IF Leaves(u, s) THEN 0 ELSE Cost(portfolios[u].positions[s])
BookedOf(u) == [s \in Symbols |-> Booked(u, s)]
Unapplied(u) == IF rest > 0 /\ Event.user = u THEN Signed(Event.side, rest) * Event.price ELSE 0
FillsBy(u) == {e \in processed : EventOf[e].user = u}
Gains(u) == portfolios[u].realized + FeesCharged(u) + unbooked[u]

CashFlow == [e \in Executions |-> -SignedQty[e] * EventOf[e].price]
Cash(u) == SumFunctionOnSet(CashFlow, {e \in Taken : EventOf[e].user = u})

MoneyInv ==
    \A u \in Users :
        /\ Gains(u) = SumFunctionOnSet(CashFlow, FillsBy(u))
                        + SumFunctionOnSet(BookedOf(u), Symbols) + Unapplied(u)
        /\ portfolios[u].exists => portfolios[u].balance = InitialBalance + portfolios[u].realized

LEMMA CashFlowType == CashFlow \in [Executions -> Int]
<1>1. ASSUME NEW e \in Executions PROVE -SignedQty[e] * EventOf[e].price \in Int
  <2>1. SignedQty[e] \in Int /\ EventOf[e].price \in Int
    BY SignedQtyType, EventAssumption
  <2> QED
    BY <2>1
<1> QED
  BY <1>1 DEF CashFlow

LEMMA CostType ==
    ASSUME NEW pos, pos.qty \in Nat, pos.avg \in Nat
    PROVE  Cost(pos) \in Int
<1>1. Signed(pos.side, pos.qty) \in Int
  BY SignedType
<1> QED
  BY <1>1 DEF Cost

\* The sums are integers.
LEMMA CashType ==
    ASSUME MarkInv, NEW u
    PROVE  IsFiniteSet(FillsBy(u)) /\ SumFunctionOnSet(CashFlow, FillsBy(u)) \in Int
<1>1. FillsBy(u) \subseteq processed
  BY DEF FillsBy
<1>2. IsFiniteSet(FillsBy(u))
  BY <1>1, FS_Subset DEF MarkInv
<1>3. \A e \in FillsBy(u) : CashFlow[e] \in Int
  BY <1>1, CashFlowType DEF MarkInv
<1> QED
  BY <1>2, <1>3, SumRemove

LEMMA BookedType ==
    ASSUME Typing, NEW u \in Users
    PROVE  /\ \A s \in Symbols : Booked(u, s) \in Int /\ BookedOf(u)[s] = Booked(u, s)
           /\ SumFunctionOnSet(BookedOf(u), Symbols) \in Int
           /\ Unapplied(u) \in Int
<1>1. PortfolioOK(portfolios[u])
  BY DEF Typing, WorkInv, Accounts
<1>2. ASSUME NEW s \in Symbols PROVE Booked(u, s) \in Int /\ BookedOf(u)[s] = Booked(u, s)
  <2>1. Cost(portfolios[u].positions[s]) \in Int
    BY <1>1, PortfolioParts, CostType
  <2> QED
    BY <2>1 DEF Booked, BookedOf
<1>3. \A s \in Symbols : BookedOf(u)[s] \in Int
  BY <1>2
<1>4. SumFunctionOnSet(BookedOf(u), Symbols) \in Int
  BY <1>3, SumRemove
<1>5. Unapplied(u) \in Int
  <2>1. CASE rest > 0
    <3>1. next # 0 /\ rest \in Nat
      BY <2>1, VariableTypes DEF Typing, TypeOK, WorkInv, Recalculating
    <3>2. Event.price \in Int /\ Signed(Event.side, rest) \in Int
      BY <3>1, EventFacts, SignedType DEF Typing
    <3> QED
      BY <3>2 DEF Unapplied
  <2>2. CASE ~ (rest > 0)
    BY <2>2 DEF Unapplied
  <2> QED
    BY <2>1, <2>2
<1> QED
  BY <1>2, <1>4, <1>5

BookedTyped ==
    \A u \in Users : (\A s \in Symbols : Booked(u, s) \in Int) /\ Unapplied(u) \in Int

LEMMA BookedTypes == Typing => BookedTyped
  BY BookedType DEF BookedTyped

LEMMA BookedTypesNext == Typing' => BookedTyped'
  BY BookedTypes, PTL

TradesOf(u) == {t \in trades : EventOf[t.execution].user = u}

LEMMA FeesType ==
    ASSUME Typing, TradeInv, NEW u
    PROVE  /\ IsFiniteSet(TradesOf(u)) /\ FeesCharged(u) \in Int
           /\ FeesCharged(u) = SumFunctionOnSet([t \in trades |-> t.fees], TradesOf(u))
<1>1. IsFiniteSet(TradesOf(u))
  BY FS_Subset DEF TradesOf, TradeInv
<1>2. \A t \in TradesOf(u) : [x \in trades |-> x.fees][t] \in Int
  BY VariableTypes DEF TradesOf
<1>3. SumFunctionOnSet([t \in trades |-> t.fees], TradesOf(u)) \in Int
  BY <1>1, <1>2, SumRemove
<1>4. FeesCharged(u) = SumFunctionOnSet([t \in trades |-> t.fees], TradesOf(u))
  BY DEF FeesCharged, TradesOf
<1> QED
  BY <1>1, <1>3, <1>4

LEMMA GainsType ==
    ASSUME Typing, TradeInv, NEW u \in Users
    PROVE  /\ Gains(u) \in Int /\ portfolios[u].realized \in Int /\ unbooked[u] \in Int
           /\ FeesCharged(u) \in Int
<1>1. PortfolioOK(portfolios[u]) /\ u \in Accounts
  BY DEF Typing, WorkInv, Accounts
<1>2. portfolios[u].realized \in Int /\ unbooked[u] \in Int /\ FeesCharged(u) \in Int
  BY <1>1, PortfolioParts, VariableTypes, FeesType
<1> QED
  BY <1>2 DEF Gains

\* A trade that is new adds its fees to its user's, and to nobody else's.
LEMMA FeesAdded ==
    ASSUME Typing, Typing', TradeInv, NEW t, t \notin trades, trades' = trades \cup {t}
    PROVE  /\ FeesCharged(EventOf[t.execution].user)'
                = FeesCharged(EventOf[t.execution].user) + t.fees
           /\ \A u \in Users : u # EventOf[t.execution].user => FeesCharged(u)' = FeesCharged(u)
<1> DEFINE f == [x \in trades |-> x.fees]
           g == [x \in trades' |-> x.fees]
           v == EventOf[t.execution].user
<1>1. \A x \in trades : f[x] = x.fees /\ g[x] = f[x] /\ f[x] \in Int
  BY VariableTypes
<1>2. g[t] = t.fees /\ t.fees \in Int
  <2>1. t \in trades' /\ trades' \subseteq [execution : Executions, pnl : Int, fees : Nat]
    BY DEF Typing, TypeOK
  <2> QED
    BY <2>1
<1>3. \A u : FeesCharged(u)' = SumFunctionOnSet(g, TradesOf(u)')
  BY DEF FeesCharged, TradesOf
<1>4. \A u : IsFiniteSet(TradesOf(u)) /\ TradesOf(u) \subseteq trades
             /\ FeesCharged(u) = SumFunctionOnSet(f, TradesOf(u)) /\ FeesCharged(u) \in Int
  BY FeesType DEF TradesOf
<1> HIDE DEF f, g
<1>5. \A u : SumFunctionOnSet(g, TradesOf(u)) = SumFunctionOnSet(f, TradesOf(u))
  BY <1>1, <1>4, SumsEqual
<1>6. TradesOf(v)' = TradesOf(v) \cup {t}
  BY DEF TradesOf
<1>7. SumFunctionOnSet(g, TradesOf(v) \cup {t}) = SumFunctionOnSet(g, TradesOf(v)) + g[t]
  <2> DEFINE T == TradesOf(v)
  <2>1. IsFiniteSet(T) /\ t \notin T
    BY <1>4
  <2>2. \A x \in T \cup {t} : g[x] \in Int
    BY <1>1, <1>2, <1>4
  <2> HIDE DEF T
  <2>3. SumFunctionOnSet(g, T \cup {t}) = SumFunctionOnSet(g, T) + g[t]
    BY <2>1, <2>2, SumAdd
  <2> QED
    BY <2>3 DEF T
<1>8. ASSUME NEW u \in Users, u # v PROVE FeesCharged(u)' = FeesCharged(u)
  <2>1. TradesOf(u)' = TradesOf(u)
    BY <1>8 DEF TradesOf
  <2> QED
    BY <1>3, <1>4, <1>5, <2>1
<1> HIDE DEF v
<1>9. FeesCharged(v)' = FeesCharged(v) + t.fees
  BY <1>2, <1>3, <1>4, <1>5, <1>6, <1>7
<1> QED
  BY <1>8, <1>9 DEF v

\* What adding, closing and flipping do to the cost of a position.
LEMMA ExactQuotient ==
    ASSUME NEW a \in Nat, NEW b \in Nat, b > 0, a % b = 0
    PROVE  b * (a \div b) = a
  OBVIOUS

LEMMA CostOfAddition ==
    ASSUME NEW side \in Sides, NEW qty \in Nat, NEW avg \in Nat, NEW more \in Nat, NEW price \in Nat,
           NEW mean \in Nat, (qty + more) * mean = avg * qty + price * more
    PROVE  Signed(side, qty + more) * mean = Signed(side, qty) * avg + Signed(side, more) * price
<1>1. CASE side = "BUY"
  BY <1>1 DEF Signed
<1>2. CASE side = "SELL"
  <2>1. /\ Signed(side, qty + more) = -(qty + more) /\ Signed(side, qty) = -qty
        /\ Signed(side, more) = -more
    BY <1>2 DEF Signed
  <2>2. (-(qty + more)) * mean = -((qty + more) * mean)
    OBVIOUS
  <2>3. (-qty) * avg = -(avg * qty) /\ (-more) * price = -(price * more)
    OBVIOUS
  <2>4. -(avg * qty + price * more) = -(avg * qty) + -(price * more)
    OBVIOUS
  <2> QED
    BY <2>1, <2>2, <2>3, <2>4
<1> QED
  BY <1>1, <1>2 DEF Sides

\* Closing qty units of a position of held units by a fill of the opposite side.
LEMMA CostOfClosing ==
    ASSUME NEW pos \in PositionType, NEW side \in Sides, pos.side \in Sides, side # pos.side,
           NEW held \in Nat, NEW fill \in Nat, NEW qty \in Nat, qty <= held, qty <= fill,
           NEW price \in Nat
    PROVE  Signed(pos.side, held - qty) * pos.avg + Signed(side, fill - qty) * price
             = Signed(pos.side, held) * pos.avg + Signed(side, fill) * price
               + Profit(pos, qty, price)
<1>1. PICK a \in Nat : a = pos.avg
  BY DEF PositionType
<1>2. /\ (held - qty) * a = held * a - qty * a /\ (-(held - qty)) * a = (-held) * a + qty * a
      /\ (fill - qty) * price = fill * price - qty * price
      /\ (-(fill - qty)) * price = (-fill) * price + qty * price
      /\ (price - a) * qty = qty * price - qty * a
      /\ (a - price) * qty = qty * a - qty * price
  OBVIOUS
<1>3. PICK ha \in Int, qa \in Int, fp \in Int, qp \in Int, mha \in Int, mfp \in Int :
         /\ ha = held * a /\ qa = qty * a /\ fp = fill * price /\ qp = qty * price
         /\ mha = (-held) * a /\ mfp = (-fill) * price
  OBVIOUS
<1>4. CASE pos.side = "BUY" /\ side = "SELL"
  <2>1. /\ Signed(pos.side, held - qty) = held - qty /\ Signed(pos.side, held) = held
        /\ Signed(side, fill - qty) = -(fill - qty) /\ Signed(side, fill) = -fill
        /\ Profit(pos, qty, price) = (price - a) * qty
    BY <1>1, <1>4 DEF Signed, Profit
  <2> QED
    BY <1>1, <1>2, <1>3, <2>1
<1>5. CASE pos.side = "SELL" /\ side = "BUY"
  <2>1. /\ Signed(pos.side, held - qty) = -(held - qty) /\ Signed(pos.side, held) = -held
        /\ Signed(side, fill - qty) = fill - qty /\ Signed(side, fill) = fill
        /\ Profit(pos, qty, price) = (a - price) * qty
    BY <1>1, <1>5 DEF Signed, Profit
  <2> QED
    BY <1>1, <1>2, <1>3, <2>1
<1> QED
  BY <1>4, <1>5 DEF Sides

LEMMA CostOfNothing ==
    /\ \A pos : pos.side = "none" /\ pos.avg \in Nat => Cost(pos) = 0
    /\ Cost(NoPosition) = 0
<1>1. \A qty : Signed("none", qty) = 0
  BY DEF Signed
<1>2. \A avg \in Nat : 0 * avg = 0
  OBVIOUS
<1>3. \A pos : pos.side = "none" /\ pos.avg \in Nat => Cost(pos) = 0
  BY <1>1, <1>2 DEF Cost
<1>4. NoPosition.side = "none" /\ NoPosition.avg \in Nat
  BY DEF NoPosition
<1> QED
  BY <1>3, <1>4

\* Nothing was booked.
LEMMA MoneyKept ==
    ASSUME Typing, Typing', MarkInv, TradeInv, MoneyInv, UNCHANGED processed,
           \A u \in Users :
              /\ Gains(u)' = Gains(u)
              /\ portfolios'[u].exists =>
                    portfolios'[u].balance = InitialBalance + portfolios'[u].realized
              /\ Unapplied(u)' = Unapplied(u)
              /\ \A s \in Symbols : Booked(u, s)' = Booked(u, s)
    PROVE  MoneyInv'
<1> SUFFICES ASSUME NEW u \in Users
             PROVE  Gains(u)' = SumFunctionOnSet(CashFlow, FillsBy(u)')
                                  + SumFunctionOnSet(BookedOf(u)', Symbols) + Unapplied(u)'
  BY DEF MoneyInv, CashFlow, SignedQty
<1>1. FillsBy(u)' = FillsBy(u)
  BY DEF FillsBy
<1>2. BookedOf(u)' = BookedOf(u)
  BY DEF BookedOf
<1>3. Gains(u) = SumFunctionOnSet(CashFlow, FillsBy(u))
                   + SumFunctionOnSet(BookedOf(u), Symbols) + Unapplied(u)
  BY DEF MoneyInv
<1> QED
  BY <1>1, <1>2, <1>3

\* A step that leaves the books alone.
LEMMA MoneyQuiet ==
    ASSUME Typing, Typing', MarkInv, TradeInv, MoneyInv, BooksKept,
           UNCHANGED <<processed, rest, trades, unbooked>>,
           pc'.consumer = "remove" <=> pc.consumer = "remove",
           rest > 0 \/ pc.consumer = "remove" => Event' = Event
    PROVE  MoneyInv' /\ TradeInv'
<1>1. ASSUME NEW u \in Users
      PROVE  /\ Gains(u)' = Gains(u)
             /\ portfolios'[u].exists =>
                   portfolios'[u].balance = InitialBalance + portfolios'[u].realized
             /\ Unapplied(u)' = Unapplied(u)
             /\ \A s \in Symbols : Booked(u, s)' = Booked(u, s)
  <2>1. u \in Accounts
    BY DEF Accounts
  <2>2. FeesCharged(u)' = FeesCharged(u)
    BY DEF FeesCharged
  <2>3. Gains(u)' = Gains(u)
    BY <2>1, <2>2 DEF Gains, BooksKept
  <2>4. Unapplied(u)' = Unapplied(u)
    BY DEF Unapplied
  <2>5. \A s \in Symbols : Booked(u, s)' = Booked(u, s)
    BY <2>1 DEF Booked, Leaves, Cost, BooksKept
  <2>6. portfolios'[u].exists =>
           portfolios'[u].balance = InitialBalance + portfolios'[u].realized
    BY <2>1 DEF MoneyInv, BooksKept
  <2> QED
    BY <2>3, <2>4, <2>5, <2>6
<1>2. TradeInv'
  BY DEF TradeInv
<1> QED
  BY <1>1, <1>2, MoneyKept

\* A step of the consumer on the position of the fill in hand: what its user gains is
\* what the position and what is left of the fill have become worth more.
LEMMA MoneyMoves ==
    ASSUME Typing, Typing', MarkInv, TradeInv, TradeInv', MoneyInv, pc.consumer \in Working,
           UNCHANGED <<kafkaVars, processed>>,
           NEW u0 \in Users, NEW s0 \in Symbols, u0 = Event.user, s0 = Event.symbol,
           \A u \in Users, s \in Symbols :
              u # u0 \/ s # s0 => portfolios'[u].positions[s] = portfolios[u].positions[s],
           \A u \in Users : u # u0 => /\ portfolios'[u].realized = portfolios[u].realized
                                      /\ portfolios'[u].balance = portfolios[u].balance
                                      /\ portfolios'[u].exists = portfolios[u].exists
                                      /\ FeesCharged(u)' = FeesCharged(u)
                                      /\ unbooked'[u] = unbooked[u],
           portfolios'[u0].balance = InitialBalance + portfolios'[u0].realized,
           NEW change \in Int, Gains(u0)' = Gains(u0) + change,
           Booked(u0, s0)' + Unapplied(u0)' = Booked(u0, s0) + Unapplied(u0) + change
    PROVE  MoneyInv'
<1>1. Event' = Event
  BY DEF Event, kafkaVars
<1>2. \A u : FillsBy(u)' = FillsBy(u)
  BY DEF FillsBy
<1>3. ASSUME NEW u \in Users, NEW s \in Symbols, u # u0 \/ s # s0
      PROVE  Booked(u, s)' = Booked(u, s)
  <2>1. ~ Leaves(u, s) /\ ~ Leaves(u, s)'
    BY <1>1, <1>3 DEF Leaves
  <2> QED
    BY <1>3, <2>1 DEF Booked
<1>4. ASSUME NEW u \in Users
      PROVE  Gains(u)' = SumFunctionOnSet(CashFlow, FillsBy(u))
                           + SumFunctionOnSet(BookedOf(u)', Symbols) + Unapplied(u)'
  <2>1. Gains(u) = SumFunctionOnSet(CashFlow, FillsBy(u))
                     + SumFunctionOnSet(BookedOf(u), Symbols) + Unapplied(u)
    BY DEF MoneyInv
  <2>2. CASE u # u0
    <3>1. BookedOf(u)' = BookedOf(u)
      BY <1>3, <2>2 DEF BookedOf
    <3>2. Unapplied(u)' = 0 /\ Unapplied(u) = 0
      BY <1>1, <2>2 DEF Unapplied
    <3>3. Gains(u)' = Gains(u)
      BY <2>2 DEF Gains
    <3> QED
      BY <2>1, <3>1, <3>2, <3>3
  <2>3. CASE u = u0
    <3> DEFINE f == BookedOf(u)
               g == BookedOf(u)'
    <3>1. /\ \A s \in Symbols : f[s] = Booked(u, s) /\ f[s] \in Int
          /\ \A s \in Symbols : g[s] = Booked(u, s)' /\ g[s] \in Int
      <4>1. \A s \in Symbols : Booked(u, s) \in Int /\ BookedOf(u)[s] = Booked(u, s)
        BY BookedType
      <4>2. \A s \in Symbols : Booked(u, s)' \in Int
        BY BookedTypesNext DEF BookedTyped
      <4>3. \A s \in Symbols : g[s] = Booked(u, s)'
        BY DEF BookedOf
      <4> QED
        BY <4>1, <4>2, <4>3
    <3>2. \A s \in Symbols \ {s0} : f[s] = g[s]
      BY <1>3, <3>1
    <3> HIDE DEF f, g
    <3>0. \A s \in Symbols : f[s] \in Int /\ g[s] \in Int
      BY <3>1
    <3>3. SumFunctionOnSet(g, Symbols) = SumFunctionOnSet(f, Symbols) - f[s0] + g[s0]
      <4>1. PICK h, k : h = f /\ k = g
        OBVIOUS
      <4>2. (\A s \in Symbols : h[s] \in Int /\ k[s] \in Int)
            /\ (\A s \in Symbols \ {s0} : h[s] = k[s])
        BY <3>0, <3>2, <4>1
      <4>3. SumFunctionOnSet(k, Symbols) = SumFunctionOnSet(h, Symbols) - h[s0] + k[s0]
        BY ONLY <4>2, SumChange, SymbolsAssumption, s0 \in Symbols
      <4> QED
        BY <4>1, <4>3
    <3>4. /\ SumFunctionOnSet(f, Symbols) \in Int
          /\ SumFunctionOnSet(CashFlow, FillsBy(u)) \in Int /\ Unapplied(u) \in Int
      BY BookedType, CashType DEF f
    <3>5. Unapplied(u)' \in Int
      BY BookedTypesNext DEF BookedTyped
    <3>6. f[s0] \in Int /\ g[s0] \in Int /\ g[s0] + Unapplied(u)' = f[s0] + Unapplied(u) + change
      BY <2>3, <3>1
    <3>7. Gains(u)' = Gains(u) + change
      BY <2>3
    <3>8. Gains(u) = SumFunctionOnSet(CashFlow, FillsBy(u))
                       + SumFunctionOnSet(f, Symbols) + Unapplied(u)
      BY <2>1 DEF f
    <3>9. Gains(u)' = SumFunctionOnSet(CashFlow, FillsBy(u))
                        + SumFunctionOnSet(g, Symbols) + Unapplied(u)'
      BY <3>3, <3>4, <3>5, <3>6, <3>7, <3>8
    <3> QED
      BY <3>9 DEF g
  <2> QED
    BY <2>2, <2>3
<1>5. ASSUME NEW u \in Users
      PROVE  portfolios'[u].exists =>
                portfolios'[u].balance = InitialBalance + portfolios'[u].realized
  BY DEF MoneyInv
<1> QED
  BY <1>2, <1>4, <1>5 DEF MoneyInv, CashFlow, SignedQty

LEMMA NothingApplied ==
    ASSUME NEW side, NEW price \in Nat
    PROVE  Signed(side, 0) * price = 0
<1>1. \A p \in Nat : 0 * p = 0
  OBVIOUS
<1> QED
  BY <1>1, SignedZero

\* What is left of the fill in hand, in money.
LEMMA UnappliedFacts ==
    ASSUME Typing, pc.consumer \in Working
    PROVE  /\ Unapplied(Event.user) = Signed(Event.side, rest) * Event.price
           /\ Signed(Event.side, rest) * Event.price \in Int
<1>1. rest \in Nat /\ Event.price \in Nat
  BY WorkFacts, VariableTypes
<1>2. Signed(Event.side, rest) * Event.price \in Int
  <2>1. Signed(Event.side, rest) \in Int
    BY <1>1, SignedType
  <2> QED
    BY <1>1, <2>1
<1>3. CASE rest > 0
  BY <1>2, <1>3 DEF Unapplied
<1>4. CASE ~ (rest > 0)
  <2>1. rest = 0
    BY <1>1, <1>4
  <2> QED
    BY <1>1, <1>2, <1>4, <2>1, NothingApplied DEF Unapplied
<1> QED
  BY <1>2, <1>3, <1>4

LEMMA UnappliedNext ==
    ASSUME Event' = Event, rest' \in Nat, Event.price \in Nat
    PROVE  Unapplied(Event.user)' = Signed(Event.side, rest') * Event.price
<1>1. CASE rest' > 0
  BY <1>1 DEF Unapplied
<1>2. CASE ~ (rest' > 0)
  <2>1. rest' = 0
    BY <1>2
  <2> QED
    BY <1>2, <2>1, NothingApplied DEF Unapplied
<1> QED
  BY <1>1, <1>2

\* The step puts a position there; what a partial close takes out goes unbooked.
LEMMA MoneyPut ==
    ASSUME Typing, Typing', MarkInv, TradeInv, TradeInv', MoneyInv, pc.consumer \in Working,
           UNCHANGED <<kafkaVars, processed, trades>>,
           NEW pos \in PositionType, pos.side # "none" <=> pos.qty > 0, Puts(pos),
           pc'.consumer # "remove", rest' \in Nat,
           NEW change \in Int, unbooked'[Event.user] = unbooked[Event.user] + change,
           \A u \in Users : u # Event.user => unbooked'[u] = unbooked[u],
           Cost(pos) + Signed(Event.side, rest') * Event.price
              = (IF pc.consumer = "remove" THEN 0 ELSE Cost(Position))
                + Signed(Event.side, rest) * Event.price + change
    PROVE  MoneyInv'
<1>1. /\ Event.user \in Users /\ Event.symbol \in Symbols /\ Event.price \in Nat
      /\ Position = portfolios[Event.user].positions[Event.symbol]
      /\ portfolios[Event.user].exists
  BY WorkFacts
<1>2. Event' = Event
  BY DEF Event, kafkaVars
<1>3. PICK u0 \in Users, s0 \in Symbols : u0 = Event.user /\ s0 = Event.symbol
  BY <1>1
<1>4. /\ \A u \in Users, s \in Symbols :
            portfolios'[u].positions[s] =
               IF u = u0 /\ s = s0 THEN pos ELSE portfolios[u].positions[s]
      /\ \A u \in Users : /\ portfolios'[u].realized = portfolios[u].realized
                          /\ portfolios'[u].balance = portfolios[u].balance
                          /\ portfolios'[u].exists = portfolios[u].exists
  BY <1>3, PutPositions DEF Accounts
<1>5. \A u : FeesCharged(u)' = FeesCharged(u)
  BY DEF FeesCharged
<1>6. Booked(u0, s0)' = Cost(pos)
  BY <1>4 DEF Booked, Leaves, Cost
<1>7. Booked(u0, s0) = IF pc.consumer = "remove" THEN 0 ELSE Cost(Position)
  BY <1>1, <1>3 DEF Booked, Leaves
<1>8. Booked(u0, s0)' + Unapplied(u0)' = Booked(u0, s0) + Unapplied(u0) + change
  BY <1>1, <1>2, <1>3, <1>6, <1>7, UnappliedFacts, UnappliedNext
<1>9. Gains(u0)' = Gains(u0) + change
  <2>1. /\ portfolios'[u0].realized = portfolios[u0].realized
        /\ unbooked'[u0] = unbooked[u0] + change /\ FeesCharged(u0)' = FeesCharged(u0)
    BY <1>3, <1>4, <1>5
  <2>2. /\ portfolios[u0].realized \in Int /\ unbooked[u0] \in Int /\ FeesCharged(u0) \in Int
    BY GainsType
  <2> QED
    BY <2>1, <2>2 DEF Gains
<1>10. portfolios'[u0].balance = InitialBalance + portfolios'[u0].realized
  BY <1>1, <1>3, <1>4 DEF MoneyInv
<1>11. /\ \A u \in Users, s \in Symbols :
             u # u0 \/ s # s0 => portfolios'[u].positions[s] = portfolios[u].positions[s]
       /\ \A u \in Users : u # u0 => unbooked'[u] = unbooked[u]
  BY <1>3, <1>4
<1> QED
  BY <1>3, <1>4, <1>5, <1>8, <1>9, <1>10, <1>11, MoneyMoves

\* The step realizes the profit of the position, which counts for nothing from then on.
LEMMA MoneyRealized ==
    ASSUME Typing, Typing', MarkInv, TradeInv, TradeInv', MoneyInv,
           pc.consumer = "apply", pc'.consumer = "remove",
           UNCHANGED <<kafkaVars, processed, unbooked>>, rest' \in Nat,
           NEW pnl \in Int, NEW fees \in Int, NEW u0 \in Users, u0 = Event.user,
           portfolios' = [portfolios EXCEPT ![Event.user] = RealizePnL(@, pnl, fees)],
           FeesCharged(u0)' = FeesCharged(u0) + fees,
           \A u \in Users : u # u0 => FeesCharged(u)' = FeesCharged(u),
           Signed(Event.side, rest') * Event.price
              = Cost(Position) + Signed(Event.side, rest) * Event.price + pnl
    PROVE  MoneyInv'
<1>0. pc.consumer \in Working
  BY DEF Working
<1>1. /\ Event.user \in Users /\ Event.symbol \in Symbols /\ Event.price \in Nat
      /\ Position = portfolios[Event.user].positions[Event.symbol]
      /\ portfolios[Event.user].exists /\ PortfolioOK(portfolios[Event.user])
  BY <1>0, WorkFacts
<1>2. Event' = Event
  BY DEF Event, kafkaVars
<1>3. PICK s0 \in Symbols : s0 = Event.symbol
  BY <1>1
<1>4. /\ portfolios'[u0] = RealizePnL(portfolios[u0], pnl, fees)
      /\ \A u \in Users : u # u0 => portfolios'[u] = portfolios[u]
      /\ \A u \in Users : portfolios'[u].positions = portfolios[u].positions
  BY <1>0, RealizeStep DEF Accounts
<1>5. /\ portfolios'[u0].realized = portfolios[u0].realized + pnl - fees
      /\ portfolios'[u0].balance = portfolios[u0].balance + pnl - fees
  BY <1>1, <1>3, <1>4, RealizeTyping
<1>6. Booked(u0, s0)' = 0 /\ Booked(u0, s0) = Cost(Position)
  BY <1>1, <1>2, <1>3 DEF Booked, Leaves
<1>7. Cost(Position) \in Int
  BY <1>0, WorkFacts, CostType
<1>8. Booked(u0, s0)' + Unapplied(u0)' = Booked(u0, s0) + Unapplied(u0) + pnl
  <2>1. PICK r \in Int : r = Signed(Event.side, rest) * Event.price /\ r = Unapplied(u0)
    BY <1>0, <1>3, UnappliedFacts
  <2>2. Unapplied(u0)' = Cost(Position) + r + pnl
    BY <1>1, <1>2, <1>3, <2>1, UnappliedNext
  <2> QED
    BY <1>6, <1>7, <2>1, <2>2
<1>9. /\ portfolios[u0].realized \in Int /\ unbooked[u0] \in Int /\ FeesCharged(u0) \in Int
  BY GainsType
<1>10. Gains(u0)' = Gains(u0) + pnl
  <2>1. FeesCharged(u0)' = FeesCharged(u0) + fees /\ unbooked'[u0] = unbooked[u0]
    OBVIOUS
  <2> QED
    BY <1>5, <1>9, <2>1 DEF Gains
<1>11. portfolios'[u0].balance = InitialBalance + portfolios'[u0].realized
  <2>1. portfolios[u0].balance = InitialBalance + portfolios[u0].realized
    BY <1>1, <1>3 DEF MoneyInv
  <2>2. InitialBalance \in Int
    BY MoneyAssumption
  <2> QED
    BY <1>5, <1>9, <2>1, <2>2
<1>12. \A u \in Users, s \in Symbols :
          u # u0 \/ s # s0 => portfolios'[u].positions[s] = portfolios[u].positions[s]
  BY <1>4
<1>13. \A u \in Users : u # u0 => /\ portfolios'[u].realized = portfolios[u].realized
                                  /\ portfolios'[u].balance = portfolios[u].balance
                                  /\ portfolios'[u].exists = portfolios[u].exists
                                  /\ FeesCharged(u)' = FeesCharged(u)
                                  /\ unbooked'[u] = unbooked[u]
  BY <1>3, <1>4
<1> QED
  BY <1>0, <1>3, <1>8, <1>10, <1>11, <1>12, <1>13, MoneyMoves

\* A fill is booked when it is marked, at the value it has until it is applied.
LEMMA MoneyAccept ==
    ASSUME MatchingKeys, Typing, Typing', MarkInv, TradeInv, MoneyInv, Accept
    PROVE  MoneyInv' /\ TradeInv'
<1>1. /\ pc.consumer = "handle" /\ next # 0 /\ ~ (rest > 0) /\ pc'.consumer # "remove"
  BY VariableTypes DEF Accept, Goes, Typing, TypeOK, WorkInv, Recalculating
<1>2. PICK e \in Executions : e = log[next] /\ e = Event.id
  BY <1>1, EventFacts DEF Typing
<1>3. /\ Event.user \in Users /\ Event.user = EventOf[e].user
      /\ Event.side = EventOf[e].side /\ Event.price = EventOf[e].price
      /\ Event.qty = EventOf[e].qty /\ Event.qty \in Nat /\ Event.price \in Nat
      /\ Event.side \in Sides \cup {"other"}
  BY <1>1, <1>2, EventFacts DEF Typing
<1>4. /\ e \notin processed /\ processed' = processed \cup {e}
      /\ rest' = IF Event.side \in Sides THEN Event.qty ELSE 0
      /\ Event' = Event /\ UNCHANGED <<trades, unbooked>>
      /\ portfolios' = [portfolios EXCEPT ![Event.user] = IF @.exists THEN @ ELSE NewPortfolio]
  BY <1>2 DEF Accept, Event, kafkaVars
<1>5. ASSUME NEW u \in Users
      PROVE  /\ \A s \in Symbols : portfolios'[u].positions[s] = portfolios[u].positions[s]
             /\ portfolios'[u].realized = portfolios[u].realized
             /\ portfolios'[u].exists =>
                   portfolios'[u].balance = InitialBalance + portfolios'[u].realized
  <2>1. PortfolioOK(portfolios[u]) /\ PortfoliosTyped
    BY TypedPortfolios DEF Typing, WorkInv, Accounts
  <2>2. CASE u = Event.user /\ ~ portfolios[u].exists
    <3>1. portfolios[u] = NoPortfolio
      BY <2>1, <2>2 DEF PortfolioOK
    <3>2. portfolios'[u] = NewPortfolio
      BY <1>3, <1>4, <2>1, <2>2 DEF PortfoliosTyped, Accounts
    <3>3. InitialBalance \in Nat
      BY MoneyAssumption
    <3> QED
      BY <3>1, <3>2, <3>3, EmptyPortfolio
  <2>3. CASE u # Event.user \/ portfolios[u].exists
    <3>1. portfolios'[u] = portfolios[u]
      BY <1>3, <1>4, <2>1, <2>3 DEF PortfoliosTyped, Accounts
    <3> QED
      BY <3>1 DEF MoneyInv
  <2> QED
    BY <2>2, <2>3
<1>6. CashFlow[e] = -Unapplied(Event.user)' /\ Unapplied(Event.user)' \in Int
  <2>1. SignedQty[e] = Signed(Event.side, Event.qty) /\ SignedQty[e] = Signed(Event.side, rest')
    BY <1>3, <1>4 DEF SignedQty, Signed, Sides
  <2>2. rest' \in Nat
    BY <1>3, <1>4
  <2>3. Unapplied(Event.user)' = Signed(Event.side, rest') * Event.price
    BY <1>3, <1>4, <2>2, UnappliedNext
  <2>4. Signed(Event.side, rest') \in Int
    BY <2>2, SignedType
  <2>5. CashFlow[e] = -SignedQty[e] * Event.price
    BY <1>3 DEF CashFlow
  <2> QED
    BY <1>3, <2>1, <2>3, <2>4, <2>5
<1>7. ASSUME NEW u \in Users
      PROVE  Gains(u)' = SumFunctionOnSet(CashFlow, FillsBy(u)')
                           + SumFunctionOnSet(BookedOf(u)', Symbols) + Unapplied(u)'
  <2>1. Gains(u)' = Gains(u)
    BY <1>4, <1>5 DEF Gains, FeesCharged
  <2>2. BookedOf(u)' = BookedOf(u)
    BY <1>1, <1>5 DEF BookedOf, Booked, Leaves
  <2>3. Gains(u) = SumFunctionOnSet(CashFlow, FillsBy(u))
                     + SumFunctionOnSet(BookedOf(u), Symbols) + Unapplied(u)
    BY DEF MoneyInv
  <2>4. /\ SumFunctionOnSet(BookedOf(u), Symbols) \in Int
        /\ SumFunctionOnSet(CashFlow, FillsBy(u)) \in Int /\ Unapplied(u) = 0
    BY <1>1, BookedType, CashType DEF Unapplied
  <2>5. CASE u = Event.user
    <3> DEFINE F == FillsBy(u)
    <3>1. FillsBy(u)' = F \cup {e} /\ e \notin F /\ F \subseteq processed
      BY <1>3, <1>4, <2>5 DEF FillsBy
    <3>2. IsFiniteSet(F) /\ \A x \in F \cup {e} : CashFlow[x] \in Int
      BY <3>1, CashType, CashFlowType DEF MarkInv
    <3> HIDE DEF F
    <3>3. SumFunctionOnSet(CashFlow, F \cup {e}) = SumFunctionOnSet(CashFlow, F) + CashFlow[e]
      BY <3>1, <3>2, SumAdd
    <3>4. Unapplied(u)' = Unapplied(Event.user)'
      BY <1>4, <2>5
    <3> QED
      BY <1>6, <2>1, <2>2, <2>3, <2>4, <3>1, <3>3, <3>4 DEF F
  <2>6. CASE u # Event.user
    <3>1. FillsBy(u)' = FillsBy(u)
      BY <1>3, <1>4, <2>6 DEF FillsBy
    <3>2. Unapplied(u)' = 0
      BY <1>4, <2>6 DEF Unapplied
    <3> QED
      BY <2>1, <2>2, <2>3, <2>4, <3>1, <3>2
  <2> QED
    BY <2>5, <2>6
<1>8. MoneyInv'
  BY <1>5, <1>7 DEF MoneyInv, CashFlow, SignedQty
<1>9. TradeInv'
  BY <1>2, <1>4 DEF TradeInv
<1> QED
  BY <1>8, <1>9

\* The trades stay what they were.
LEMMA TradesKept ==
    ASSUME TradeInv, UNCHANGED <<trades, processed>>, rest' > 0 => rest > 0 /\ Event' = Event
    PROVE  TradeInv'
  BY DEF TradeInv

\* With nothing in the books there is nothing to balance.
LEMMA NoMoney ==
    ASSUME processed = {}, ~ (rest > 0), pc.consumer = "fetch", trades = {},
           portfolios = [u \in Users \cup {Blank} |-> NoPortfolio],
           unbooked = [u \in Users \cup {Blank} |-> 0]
    PROVE  MoneyInv /\ TradeInv
<1>1. TradeInv
  BY FS_EmptySet DEF TradeInv
<1>2. ASSUME NEW u \in Users
      PROVE  /\ Gains(u) = SumFunctionOnSet(CashFlow, FillsBy(u))
                             + SumFunctionOnSet(BookedOf(u), Symbols) + Unapplied(u)
             /\ ~ portfolios[u].exists
  <2>1. portfolios[u] = NoPortfolio /\ unbooked[u] = 0
    OBVIOUS
  <2>2. TradesOf(u) = {} /\ FillsBy(u) = {}
    BY DEF TradesOf, FillsBy
  <2>3. FeesCharged(u) = 0 /\ SumFunctionOnSet(CashFlow, FillsBy(u)) = 0
    BY <2>2, SumEmpty DEF FeesCharged, TradesOf
  <2>4. \A s \in Symbols : BookedOf(u)[s] = 0
    BY <2>1, CostOfNothing, EmptyPortfolio DEF BookedOf, Booked
  <2>5. SumFunctionOnSet(BookedOf(u), Symbols) = 0
    BY <2>4, SumOfZeros
  <2>6. Unapplied(u) = 0
    BY DEF Unapplied
  <2>7. Gains(u) = 0
    BY <2>1, <2>3, EmptyPortfolio DEF Gains
  <2> QED
    BY <2>1, <2>3, <2>5, <2>6, <2>7, EmptyPortfolio
<1> QED
  BY <1>1, <1>2 DEF MoneyInv

NoBooks ==
    /\ processed = {} /\ ~ (rest > 0) /\ pc.consumer = "fetch" /\ trades = {}
    /\ portfolios = [u \in Users \cup {Blank} |-> NoPortfolio]
    /\ unbooked = [u \in Users \cup {Blank} |-> 0]

LEMMA NoBooksBalance == NoBooks => MoneyInv /\ TradeInv
  BY NoMoney DEF NoBooks

LEMMA NoBooksNext == NoBooks' => MoneyInv' /\ TradeInv'
  BY NoBooksBalance, PTL

\* The fills of the consumer, step by step.
LEMMA MoneyOpen ==
    ASSUME Typing, Typing', MarkInv, TradeInv, MoneyInv, OpenPosition
    PROVE  MoneyInv' /\ TradeInv'
<1>1. PICK pos \in PositionType :
         /\ Puts(pos) /\ (pos.side # "none" <=> pos.qty > 0)
         /\ pos.side = Event.side /\ pos.qty = rest /\ pos.avg = Event.price
  BY OpenPut
<1>2. /\ pc.consumer = "apply" /\ pc.consumer \in Working /\ pc'.consumer # "remove"
      /\ rest' = 0 /\ UNCHANGED <<kafkaVars, processed, trades, unbooked>>
      /\ Position.side = "none"
  BY OpenPut DEF OpenPosition, Goes, Typing, TypeOK
<1>3. Position.avg \in Nat /\ Event.price \in Nat /\ Event.user \in Users
  BY <1>2, WorkFacts
<1>4. TradeInv'
  BY <1>2, TradesKept
<1>5. Cost(pos) + Signed(Event.side, 0) * Event.price
        = Cost(Position) + Signed(Event.side, rest) * Event.price + 0
  <2>1. Cost(Position) = 0 /\ Signed(Event.side, 0) * Event.price = 0
    BY <1>2, <1>3, CostOfNothing, NothingApplied
  <2>2. Cost(pos) = Signed(Event.side, rest) * Event.price
    BY <1>1 DEF Cost
  <2>3. Signed(Event.side, rest) * Event.price \in Int
    BY <1>2, UnappliedFacts
  <2> QED
    BY <2>1, <2>2, <2>3
<1>6. unbooked'[Event.user] = unbooked[Event.user] + 0
  BY <1>2, <1>3, GainsType
<1>7. \A u \in Users : u # Event.user => unbooked'[u] = unbooked[u]
  BY <1>2
<1>8. 0 \in Int /\ rest' \in Nat
  BY <1>2
<1> QED
  BY <1>1, <1>2, <1>4, <1>5, <1>6, <1>7, <1>8, MoneyPut

LEMMA MoneyAdd ==
    ASSUME AveragesAreExact, Typing, Typing', MarkInv, TradeInv, MoneyInv, AddToPosition
    PROVE  MoneyInv' /\ TradeInv'
<1>1. PICK pos \in PositionType :
         /\ Puts(pos) /\ (pos.side # "none" <=> pos.qty > 0)
         /\ pos.side = Position.side /\ pos.qty = Position.qty + rest
         /\ pos.avg = (Position.avg * Position.qty + Event.price * rest) \div (Position.qty + rest)
  BY AddPut
<1>2. /\ pc.consumer = "apply" /\ pc.consumer \in Working /\ pc'.consumer # "remove"
      /\ rest' = 0 /\ UNCHANGED <<kafkaVars, processed, trades, unbooked>>
      /\ Position.side = Event.side /\ rest \in Nat /\ rest > 0
  BY AddPut DEF AddToPosition, Goes, Typing, TypeOK
<1>3. /\ Position.avg \in Nat /\ Position.qty \in Nat /\ Event.price \in Nat
      /\ Event.user \in Users /\ Event.side \in Sides
  BY <1>2, WorkFacts
<1>4. TradeInv'
  BY <1>2, TradesKept
<1>5. PICK avg \in Nat, qty \in Nat, price \in Nat, more \in Nat :
         avg = Position.avg /\ qty = Position.qty /\ price = Event.price /\ more = rest
  BY <1>2, <1>3
<1>6. (qty + more) * pos.avg = avg * qty + price * more
  <2>1. (avg * qty + price * more) % (qty + more) = 0
    BY <1>2, <1>5 DEF AveragesAreExact
  <2>2. PICK a \in Nat : a = avg * qty + price * more
    OBVIOUS
  <2>3. PICK b \in Nat : b = qty + more /\ b > 0
    BY <1>2, <1>5
  <2>4. b * (a \div b) = a
    BY <2>1, <2>2, <2>3, ExactQuotient
  <2> QED
    BY <1>1, <1>5, <2>2, <2>3, <2>4
<1>7. Cost(pos) + Signed(Event.side, 0) * Event.price
        = Cost(Position) + Signed(Event.side, rest) * Event.price + 0
  <2>1. pos.avg \in Nat
    BY DEF PositionType
  <2>2. Signed(Event.side, qty + more) * pos.avg
          = Signed(Event.side, qty) * avg + Signed(Event.side, more) * price
    <3>1. PICK side \in Sides, mean \in Nat : side = Event.side /\ mean = pos.avg
      BY <1>3, <2>1
    <3>2. (qty + more) * mean = avg * qty + price * more
      BY <1>6, <3>1
    <3>3. Signed(side, qty + more) * mean = Signed(side, qty) * avg + Signed(side, more) * price
      BY ONLY <3>2, CostOfAddition, side \in Sides, mean \in Nat, qty \in Nat, avg \in Nat,
              more \in Nat, price \in Nat
    <3> QED
      BY <3>1, <3>3
  <2>3. Signed(Event.side, 0) * Event.price = 0
    BY <1>3, NothingApplied
  <2>4. /\ Cost(pos) = Signed(Event.side, qty + more) * pos.avg
        /\ Cost(Position) = Signed(Event.side, qty) * avg
    BY <1>1, <1>2, <1>5 DEF Cost
  <2>5. Cost(Position) \in Int /\ Signed(Event.side, rest) * Event.price \in Int
    BY <1>2, <1>3, CostType, UnappliedFacts
  <2>6. Cost(pos) = Cost(Position) + Signed(Event.side, rest) * Event.price
    BY <1>5, <2>2, <2>4
  <2> QED
    BY <2>3, <2>5, <2>6
<1>8. unbooked'[Event.user] = unbooked[Event.user] + 0
  BY <1>2, <1>3, GainsType
<1>9. \A u \in Users : u # Event.user => unbooked'[u] = unbooked[u]
  BY <1>2
<1>10. 0 \in Int /\ rest' \in Nat
  BY <1>2
<1> QED
  BY <1>1, <1>2, <1>4, <1>7, <1>8, <1>9, <1>10, MoneyPut

LEMMA MoneyReduce ==
    ASSUME Typing, Typing', MarkInv, TradeInv, MoneyInv, ReducePosition
    PROVE  MoneyInv' /\ TradeInv'
<1>1. PICK pos \in PositionType :
         /\ Puts(pos) /\ (pos.side # "none" <=> pos.qty > 0)
         /\ pos.side = Position.side /\ pos.qty = Position.qty - rest /\ pos.avg = Position.avg
  BY ReducePut
<1>2. PICK profit \in Int : profit = Profit(Position, rest, Event.price)
  BY ReducePut
<1>3. /\ pc.consumer = "apply" /\ pc.consumer \in Working /\ pc'.consumer # "remove"
      /\ rest' = 0 /\ UNCHANGED <<kafkaVars, processed, trades>>
      /\ unbooked' = [unbooked EXCEPT ![Event.user] = @ + profit]
      /\ Position.side \in Sides /\ Position.side # Event.side
      /\ rest \in Nat /\ rest < Position.qty
  BY <1>2, ReducePut DEF ReducePosition, Goes, Typing, TypeOK
<1>4. /\ Position \in PositionType /\ Position.qty \in Nat /\ Position.avg \in Nat
      /\ Event.price \in Nat /\ Event.user \in Users /\ Event.side \in Sides
  BY <1>3, WorkFacts
<1>5. TradeInv'
  BY <1>3, TradesKept
<1>6. Cost(pos) + Signed(Event.side, 0) * Event.price
        = Cost(Position) + Signed(Event.side, rest) * Event.price + profit
  <2>1. PICK held \in Nat, fill \in Nat, price \in Nat :
           held = Position.qty /\ fill = rest /\ price = Event.price /\ fill <= held /\ fill <= fill
    BY <1>3, <1>4
  <2>2. Signed(Position.side, held - fill) * Position.avg + Signed(Event.side, fill - fill) * price
          = Signed(Position.side, held) * Position.avg + Signed(Event.side, fill) * price
            + Profit(Position, fill, price)
    BY <1>3, <1>4, <2>1, CostOfClosing
  <2>3. fill - fill = 0
    OBVIOUS
  <2> QED
    BY <1>1, <1>2, <2>1, <2>2, <2>3 DEF Cost
<1>7. /\ unbooked'[Event.user] = unbooked[Event.user] + profit
      /\ \A u \in Users : u # Event.user => unbooked'[u] = unbooked[u]
  BY <1>3, <1>4, VariableTypes DEF Accounts
<1>8. rest' \in Nat
  BY <1>3
<1> QED
  BY <1>1, <1>3, <1>5, <1>6, <1>7, <1>8, MoneyPut

\* A fill that closes a position and no more is stored as a trade, for the first time.
LEMMA MoneyClose ==
    ASSUME Typing, Typing', MarkInv, TradeInv, MoneyInv, ClosePosition
    PROVE  MoneyInv' /\ TradeInv'
<1>1. pc.consumer = "apply" /\ pc.consumer \in Working /\ rest \in Nat /\ rest > 0
  BY VariableTypes DEF ClosePosition, Working, Typing, WorkInv
<1>2. /\ Position \in PositionType /\ Position.qty \in Nat /\ Position.avg \in Nat
      /\ Event.price \in Nat /\ Event.side \in Sides /\ Event.fees \in Nat
      /\ Event.id = log[next] /\ Event.id \in Executions /\ Event.user \in Users
      /\ Event.user = EventOf[Event.id].user
  BY <1>1, WorkFacts, EventFacts DEF Typing
<1>3. PICK pnl \in Int : pnl = Profit(Position, rest, Event.price)
  BY <1>1, <1>2, ProfitType
<1> DEFINE t == [execution |-> Event.id, pnl |-> pnl, fees |-> Event.fees]
<1>4. /\ portfolios' = [portfolios EXCEPT ![Event.user] = RealizePnL(@, pnl, Event.fees)]
      /\ trades' = trades \cup {t}
      /\ rest' = 0 /\ pc'.consumer = "remove"
      /\ UNCHANGED <<kafkaVars, processed, unbooked>>
      /\ Position.side \in Sides /\ Position.side # Event.side /\ rest = Position.qty
  BY <1>3 DEF ClosePosition, Opposes, Goes, Typing, TypeOK
<1>5. t.execution = Event.id /\ t.fees = Event.fees
  OBVIOUS
<1> HIDE DEF t
<1>6. Event.id \in processed
  <2>1. next \in (resumed + 1)..next /\ pc.consumer # "handle"
    BY <1>1 DEF Typing, TypeOK
  <2> QED
    BY <1>2, <2>1 DEF MarkInv, Taken
<1>7. t \notin trades
  BY <1>1, <1>5 DEF TradeInv
<1>8. TradeInv'
  <2>1. IsFiniteSet(trades')
    BY <1>4, FS_AddElement DEF TradeInv
  <2> QED
    BY <1>4, <1>5, <1>6, <2>1 DEF TradeInv
<1>9. PICK u0 \in Users : u0 = Event.user
  BY <1>2
<1>10. /\ FeesCharged(u0)' = FeesCharged(u0) + Event.fees
       /\ \A u \in Users : u # u0 => FeesCharged(u)' = FeesCharged(u)
  <2>1. EventOf[t.execution].user = u0
    BY <1>2, <1>5, <1>9
  <2>2. PICK x : x = t
    OBVIOUS
  <2>3. /\ FeesCharged(EventOf[x.execution].user)'
             = FeesCharged(EventOf[x.execution].user) + x.fees
        /\ \A u \in Users : u # EventOf[x.execution].user => FeesCharged(u)' = FeesCharged(u)
    BY <1>4, <1>7, <2>2, FeesAdded
  <2> QED
    BY <1>5, <2>1, <2>2, <2>3
<1>11. Signed(Event.side, 0) * Event.price
         = Cost(Position) + Signed(Event.side, rest) * Event.price + pnl
  <2>1. PICK held \in Nat, price \in Nat :
           held = Position.qty /\ held = rest /\ price = Event.price /\ held <= held
    BY <1>1, <1>2, <1>4
  <2>2. Signed(Position.side, held - held) * Position.avg + Signed(Event.side, held - held) * price
          = Signed(Position.side, held) * Position.avg + Signed(Event.side, held) * price
            + Profit(Position, held, price)
    BY <1>2, <1>4, <2>1, CostOfClosing
  <2>3. held - held = 0
    OBVIOUS
  <2>4. Signed(Position.side, 0) * Position.avg = 0 /\ Signed(Event.side, 0) * price = 0
    BY <1>2, NothingApplied
  <2> QED
    BY <1>3, <2>1, <2>2, <2>3, <2>4 DEF Cost
<1>12. rest' \in Nat /\ Event.fees \in Int
  BY <1>2, <1>4
<1> QED
  BY <1>1, <1>4, <1>8, <1>9, <1>10, <1>11, <1>12, MoneyRealized

LEMMA MoneyFlip ==
    ASSUME Typing, Typing', MarkInv, TradeInv, MoneyInv, FlipPosition
    PROVE  MoneyInv' /\ TradeInv'
<1>1. pc.consumer = "apply" /\ pc.consumer \in Working /\ rest \in Nat /\ rest > 0
  BY VariableTypes DEF FlipPosition, Working, Typing, WorkInv
<1>2. /\ Position \in PositionType /\ Position.qty \in Nat /\ Position.avg \in Nat
      /\ Event.price \in Nat /\ Event.side \in Sides /\ Event.user \in Users
  BY <1>1, WorkFacts
<1>3. PICK pnl \in Int : pnl = Profit(Position, Position.qty, Event.price)
  BY <1>2, ProfitType
<1>4. /\ portfolios' = [portfolios EXCEPT ![Event.user] = RealizePnL(@, pnl, 0)]
      /\ rest' = rest - Position.qty /\ pc'.consumer = "remove"
      /\ UNCHANGED <<kafkaVars, processed, unbooked, trades>>
      /\ Position.side \in Sides /\ Position.side # Event.side /\ rest > Position.qty
  BY <1>3 DEF FlipPosition, Opposes, Goes, Typing, TypeOK
<1>5. Event' = Event
  BY <1>4 DEF Event, kafkaVars
<1>6. TradeInv'
  BY <1>1, <1>4, <1>5, TradesKept
<1>7. PICK u0 \in Users : u0 = Event.user
  BY <1>2
<1>8. \A u \in Users : FeesCharged(u)' = FeesCharged(u)
  BY <1>4 DEF FeesCharged
<1>9. FeesCharged(u0)' = FeesCharged(u0) + 0
  BY <1>8, GainsType
<1>10. Signed(Event.side, rest') * Event.price
         = Cost(Position) + Signed(Event.side, rest) * Event.price + pnl
  <2>1. PICK held \in Nat, fill \in Nat, price \in Nat :
           /\ held = Position.qty /\ fill = rest /\ price = Event.price
           /\ held <= held /\ held <= fill
    BY <1>1, <1>2, <1>4
  <2>2. Signed(Position.side, held - held) * Position.avg + Signed(Event.side, fill - held) * price
          = Signed(Position.side, held) * Position.avg + Signed(Event.side, fill) * price
            + Profit(Position, held, price)
    BY <1>2, <1>4, <2>1, CostOfClosing
  <2>3. held - held = 0 /\ Signed(Position.side, 0) * Position.avg = 0
    BY <1>2, NothingApplied
  <2>4. Signed(Event.side, fill - held) * price \in Int
    <3>1. fill - held \in Nat
      BY <2>1
    <3>2. Signed(Event.side, fill - held) \in Int
      BY <3>1, SignedType
    <3> QED
      BY <3>2
  <2>5. fill - held = rest'
    BY <1>4, <2>1
  <2> QED
    BY <1>3, <2>1, <2>2, <2>3, <2>4, <2>5 DEF Cost
<1>11. rest' \in Nat /\ 0 \in Int
  BY <1>1, <1>2, <1>4
<1> QED
  BY <1>1, <1>4, <1>6, <1>7, <1>8, <1>9, <1>10, <1>11, MoneyRealized

\* Removing and marking a position move no money.
LEMMA MoneyRemove ==
    ASSUME Typing, Typing', MarkInv, TradeInv, MoneyInv, RemovePosition
    PROVE  MoneyInv' /\ TradeInv'
<1>1. /\ pc.consumer = "remove" /\ pc.consumer \in Working /\ pc'.consumer # "remove"
      /\ rest' = rest /\ UNCHANGED <<kafkaVars, processed, trades, unbooked>>
      /\ Puts(NoPosition) /\ rest \in Nat
  BY VariableTypes DEF RemovePosition, Goes, Working, Typing, TypeOK
<1>2. Event' = Event /\ Event.user \in Users
  BY <1>1, WorkFacts DEF Event, kafkaVars
<1>3. TradeInv'
  BY <1>1, <1>2, TradesKept
<1>4. PICK m \in Int : m = Signed(Event.side, rest) * Event.price
  BY <1>1, UnappliedFacts
<1>5. Cost(NoPosition) = 0
  BY CostOfNothing
<1>6. Cost(NoPosition) + Signed(Event.side, rest') * Event.price
        = (IF pc.consumer = "remove" THEN 0 ELSE Cost(Position))
          + Signed(Event.side, rest) * Event.price + 0
  BY <1>1, <1>4, <1>5
<1>7. unbooked'[Event.user] = unbooked[Event.user] + 0
  BY <1>1, <1>2, GainsType
<1>8. \A u \in Users : u # Event.user => unbooked'[u] = unbooked[u]
  BY <1>1
<1>9. NoPosition \in PositionType /\ (NoPosition.side # "none" <=> NoPosition.qty > 0)
  BY EmptyPortfolio
<1> QED
  BY <1>1, <1>3, <1>6, <1>7, <1>8, <1>9, MoneyPut

LEMMA MoneyMark ==
    ASSUME Typing, Typing', MarkInv, TradeInv, MoneyInv, MarkPosition
    PROVE  MoneyInv' /\ TradeInv'
<1>1. PICK pos \in PositionType :
         /\ Puts(pos) /\ (pos.side # "none" <=> pos.qty > 0)
         /\ pos.side = Position.side /\ pos.qty = Position.qty /\ pos.avg = Position.avg
  BY MarkPut
<1>2. /\ pc.consumer = "mark" /\ pc.consumer \in Working /\ pc'.consumer # "remove"
      /\ rest' = rest /\ UNCHANGED <<kafkaVars, processed, trades, unbooked>> /\ rest = 0
  BY MarkPut DEF MarkPosition, Goes, Typing, TypeOK
<1>3. Event.user \in Users /\ Position.qty \in Nat /\ Position.avg \in Nat
  BY <1>2, WorkFacts
<1>4. TradeInv'
  BY <1>2, TradesKept
<1>5. Cost(pos) = Cost(Position) /\ Cost(Position) \in Int
      /\ Signed(Event.side, rest) * Event.price \in Int
  BY <1>1, <1>2, <1>3, CostType, UnappliedFacts DEF Cost
<1>6. Cost(pos) + Signed(Event.side, rest') * Event.price
        = Cost(Position) + Signed(Event.side, rest) * Event.price + 0
  <2>1. PICK m \in Int, c \in Int :
           m = Signed(Event.side, rest) * Event.price /\ c = Cost(Position)
    BY <1>5
  <2> QED
    BY <1>2, <1>5, <2>1
<1>7. unbooked'[Event.user] = unbooked[Event.user] + 0
  BY <1>2, <1>3, GainsType
<1>8. \A u \in Users : u # Event.user => unbooked'[u] = unbooked[u]
  BY <1>2
<1> QED
  BY <1>1, <1>2, <1>4, <1>6, <1>7, <1>8, MoneyPut

\* Every step keeps the money.
LEMMA NextMoneyInv ==
    MatchingKeys /\ AveragesAreExact /\ Typing /\ Typing' /\ MarkInv /\ TradeInv /\ MoneyInv
      /\ [Next]_vars
    => MoneyInv' /\ TradeInv'
<1> SUFFICES ASSUME MatchingKeys, AveragesAreExact, Typing, Typing', MarkInv, TradeInv, MoneyInv,
                    [Next]_vars
             PROVE  MoneyInv' /\ TradeInv'
  OBVIOUS
<1>1. CASE QuietStep
  BY <1>1, QuietSteps, MoneyQuiet
<1>2. CASE Restart
  <2>1. NoBooks'
    BY <1>2 DEF Restart, NoBooks
  <2> QED
    BY <2>1, NoBooksNext
<1> QED
  BY <1>1, <1>2, MoneyAccept, MoneyOpen, MoneyAdd, MoneyReduce, MoneyClose, MoneyFlip,
     MoneyRemove, MoneyMark DEF Next, Consumer, QuietStep

LEMMA InitMoneyInv == Init => MoneyInv /\ TradeInv
<1> SUFFICES ASSUME Init PROVE NoBooks
  BY NoBooksBalance
<1> QED
  BY DEF Init, NoBooks

\* Between messages everything filled is booked.
LEMMA MoneyBalances ==
    ASSUME MatchingKeys
    PROVE  Typing /\ MarkInv /\ MoneyInv => MoneyIsConserved
<1>7. ASSUME NEW u PROVE DecodedCash(u) = Cash(u)
  <2>1. DecodedCashFlow = CashFlow
    BY DecodedIsWritten DEF DecodedCashFlow, CashFlow
  <2>2. {e \in Taken : Decode(e).user = u} = {e \in Taken : EventOf[e].user = u}
    BY DecodedIsWritten
  <2> QED
    BY <2>1, <2>2 DEF DecodedCash, Cash
<1> SUFFICES ASSUME Typing, MarkInv, MoneyInv, BetweenMessages, NEW u \in Users
             PROVE  portfolios[u].realized + FeesCharged(u) + unbooked[u]
                       = Cash(u) + CostOfPositions(u)
  BY <1>7 DEF MoneyIsConserved, MoneyInv
<1>1. pc.consumer \in {"fetch", "stopped"}
  BY DEF BetweenMessages
<1>2. Unapplied(u) = 0
  BY <1>1 DEF Unapplied, Typing, WorkInv, Recalculating
<1>3. Cash(u) = SumFunctionOnSet(CashFlow, FillsBy(u))
  BY <1>1 DEF Cash, FillsBy, MarkInv
<1>4. CostOfPositions(u) = SumFunctionOnSet(BookedOf(u), Symbols)
  <2>1. BookedOf(u) = [s \in Symbols |-> Cost(portfolios[u].positions[s])]
    BY <1>1 DEF BookedOf, Booked, Leaves
  <2>2. DOMAIN BookedOf(u) = Symbols
    BY DEF BookedOf
  <2>3. CostOfPositions(u) = SumFunction(BookedOf(u))
    BY <2>1 DEF CostOfPositions
  <2> QED
    BY <2>2, <2>3 DEF SumFunction
<1>5. Gains(u) = SumFunctionOnSet(CashFlow, FillsBy(u))
                   + SumFunctionOnSet(BookedOf(u), Symbols) + Unapplied(u)
  BY DEF MoneyInv
<1>6. /\ SumFunctionOnSet(CashFlow, FillsBy(u)) \in Int
      /\ SumFunctionOnSet(BookedOf(u), Symbols) \in Int
  BY CashType, BookedType
<1> QED
  BY <1>2, <1>3, <1>4, <1>5, <1>6 DEF Gains

\* Without matching keys there is nothing to balance.
LEMMA UnreadBalances ==
    ASSUME ~ MatchingKeys
    PROVE  Typing /\ UnreadInv => MoneyIsConserved
<1> SUFFICES ASSUME Typing, UnreadInv, NEW u \in Users
             PROVE  /\ portfolios[u].realized + FeesCharged(u) + unbooked[u]
                         = DecodedCash(u) + CostOfPositions(u)
                    /\ portfolios[u].exists =>
                          portfolios[u].balance = InitialBalance + portfolios[u].realized
  BY DEF MoneyIsConserved
<1>1. /\ portfolios[u].realized = 0 /\ unbooked[u] = 0 /\ trades = {}
      /\ portfolios[u].exists => portfolios[u].balance = InitialBalance
      /\ \A s \in Symbols : portfolios[u].positions[s].side = "none"
  BY DEF UnreadInv, Accounts
<1>2. {e \in Taken : Decode(e).user = u} = {}
  BY NobodysFills
<1>3. DecodedCash(u) = 0
  BY <1>2, SumEmpty DEF DecodedCash
<1>4. {t \in trades : EventOf[t.execution].user = u} = {}
  BY <1>1
<1>5. FeesCharged(u) = 0
  BY <1>4, SumEmpty DEF FeesCharged
<1> DEFINE costs == [s \in Symbols |-> Cost(portfolios[u].positions[s])]
<1>6. \A s \in Symbols : costs[s] = 0
  <2>1. PortfolioOK(portfolios[u])
    BY DEF Typing, WorkInv, Accounts
  <2>2. \A s \in Symbols : portfolios[u].positions[s].avg \in Nat
    BY <2>1, PortfolioParts
  <2> QED
    BY <1>1, <2>2, CostOfNothing
<1>7. CostOfPositions(u) = SumFunctionOnSet(costs, Symbols)
  BY DEF CostOfPositions, SumFunction
<1>8. CostOfPositions(u) = 0
  BY <1>6, <1>7, SumOfZeros, SymbolsAssumption
<1>9. InitialBalance \in Int
  BY MoneyAssumption
<1> QED
  BY <1>1, <1>3, <1>5, <1>8, <1>9

\* Whatever keys the producer writes, if averages are exact the books of every user balance
\* between messages over the fills the consumer decoded, for any fills, repeats, restarts
\* and price updates meanwhile (service.go: updatePortfolioWithExecution; calculator.go;
\* portfolio.go).
THEOREM BooksBalance == Spec /\ []AveragesAreExact => []MoneyIsConserved
<1>1. CASE MatchingKeys
  <2> DEFINE Inv == Typing /\ MarkInv /\ TradeInv /\ MoneyInv
  <2>1. Inv /\ AveragesAreExact /\ [Next]_vars => Inv'
    BY <1>1, NextTyping, NextMarkInv, NextMoneyInv
  <2>2. Init => Inv
    BY InitTyping, InitQuantityInv, InitMoneyInv
  <2>3. Inv => MoneyIsConserved
    BY <1>1, MoneyBalances
  <2> HIDE DEF Inv
  <2> QED
    BY <2>1, <2>2, <2>3, PTL DEF Spec
<1>2. CASE ~ MatchingKeys
  <2>1. Typing /\ UnreadInv => MoneyIsConserved
    BY <1>2, UnreadBalances
  <2>2. Spec => [](Typing /\ UnreadInv)
    BY <1>2, UnreadInvHolds
  <2> QED
    BY <2>1, <2>2, PTL
<1> QED
  BY <1>1, <1>2

=============================================================================
