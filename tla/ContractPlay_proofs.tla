------------------------- MODULE ContractPlay_proofs -------------------------
(***************************************************************************)
(* What holds of every play of the library's contracts, whatever they are  *)
(* parameterised by: the windows of contests, the pace of a vault, the     *)
(* works and pools that change hands, that every coin pays for what its    *)
(* contract asks of it, and that a tree of payments pays what was agreed.  *)
(***************************************************************************)
EXTENDS ContractPlayInvariants, FiniteSetTheorems, WellFoundedInduction, TLAPS

\* Every nonempty set of naturals has a least element.
LEMMA LeastNat ==
    ASSUME NEW T \in SUBSET Nat, T # {}
    PROVE  \E m \in T : \A k \in T : m <= k
<1>1. PICK m \in T : \A k \in T : ~ (<<k, m>> \in OpToRel(<, Nat))
  BY NatLessThanWellFounded, WFMin, Zenon
<1>2. \A k \in T : ~ (k < m)
  BY <1>1 DEF OpToRel
<1>3. QED
  BY <1>2

\* What holds of 0 and goes from each number to the next holds up to n.
LEMMA StepByStep ==
    ASSUME NEW n \in Nat, NEW S, 0 \in S, \A k \in 1..n : k - 1 \in S => k \in S
    PROVE  n \in S
<1> DEFINE Bad == {k \in Nat : k <= n /\ k \notin S}
<1>1. SUFFICES ASSUME Bad # {} PROVE FALSE
  <2>1. n \notin Bad /\ n <= n
    BY <1>1
  <2>2. QED
    BY <2>1
<1>2. PICK k \in Bad : \A j \in Bad : k <= j
  <2>1. Bad \in SUBSET Nat
    OBVIOUS
  <2> HIDE DEF Bad
  <2>2. QED
    BY <1>1, <2>1, LeastNat
<1>3. k \in Nat /\ k <= n /\ k \notin S /\ k # 0
  BY <1>2
<1>4. k \in 1..n /\ k - 1 \in Nat /\ k - 1 <= n /\ ~(k <= k - 1)
  BY <1>3
<1>5. k - 1 \in S
  <2>1. k - 1 \notin Bad
    <3> HIDE DEF Bad
    <3>1. QED
      BY <1>2, <1>4
  <2>2. QED
    BY <1>4, <2>1
<1>6. QED
  BY <1>3, <1>4, <1>5
-----------------------------------------------------------------------------
(* Sums over finite sets.  SumFunctionOnSet is a fold in an order nobody    *)
(* knows; these lemmas take it apart at any element.                        *)

\* s is the table of the sums of f over the subsets of S.
IsSumTable(s, f, S) ==
    /\ s \in [SUBSET S -> Int]
    /\ s[{}] = 0
    /\ \A t \in SUBSET S : \A x \in t : s[t] = f[x] + s[t \ {x}]

LEMMA SmallerByOne ==
    ASSUME NEW S, IsFiniteSet(S), NEW x \in S
    PROVE  Cardinality(S \ {x}) = Cardinality(S) - 1 /\ Cardinality(S) - 1 \in Nat
<1>1. Cardinality(S) \in Nat /\ Cardinality(S) # 0
  BY FS_CardinalityType, FS_EmptySet
<1>2. Cardinality(S \ {x}) = IF x \in S THEN Cardinality(S) - 1 ELSE Cardinality(S)
  BY FS_RemoveElement
<1>3. QED
  BY <1>1, <1>2

LEMMA SumTableExists ==
    ASSUME NEW S, IsFiniteSet(S), NEW f, \A x \in S : f[x] \in Int
    PROVE  \E s : IsSumTable(s, f, S)
<1> DEFINE Missing == {n \in Nat : \E U \in SUBSET S :
                         Cardinality(U) = n /\ ~ \E s : IsSumTable(s, f, U)}
<1>1. SUFFICES ASSUME Missing # {} PROVE FALSE
  BY FS_CardinalityType
<1>2. PICK n \in Missing : \A k \in Missing : n <= k
  <2> HIDE DEF Missing
  <2>1. Missing \in SUBSET Nat
    BY DEF Missing
  <2>2. QED
    BY <1>1, <2>1, LeastNat
<1>3. PICK U \in SUBSET S : Cardinality(U) = n /\ ~ \E s : IsSumTable(s, f, U)
  BY <1>2
<1>4. IsFiniteSet(U)
  BY FS_Subset
<1>5. U # {}
  <2>1. IsSumTable([t \in SUBSET {} |-> 0], f, {})
    BY DEF IsSumTable
  <2>2. QED
    BY <1>3, <2>1
<1>6. PICK a \in U : TRUE
  BY <1>5
<1> DEFINE V == U \ {a}
<1>7. Cardinality(V) = n - 1 /\ V \in SUBSET S /\ n - 1 \in Nat
  BY <1>3, <1>4, <1>6, SmallerByOne
<1>8. PICK s : IsSumTable(s, f, V)
  BY <1>2, <1>7
<1> DEFINE g == [t \in SUBSET U |-> IF a \in t THEN f[a] + s[t \ {a}] ELSE s[t]]
<1>9. \A t \in SUBSET U : t \ {a} \in SUBSET V /\ (a \notin t => t \in SUBSET V)
  OBVIOUS
<1>10. \A t \in SUBSET V : s[t] \in Int
  BY <1>8 DEF IsSumTable
<1>11. f[a] \in Int /\ \A x \in U : f[x] \in Int
  BY <1>3, <1>6
<1>12. g \in [SUBSET U -> Int] /\ g[{}] = 0
  <2>1. \A t \in SUBSET U : g[t] \in Int
    BY <1>9, <1>10, <1>11
  <2>2. g[{}] = s[{}]
    OBVIOUS
  <2>3. QED
    BY <2>1, <2>2, <1>8 DEF IsSumTable
<1>13. ASSUME NEW t \in SUBSET U, NEW x \in t PROVE g[t] = f[x] + g[t \ {x}]
  <2>1. CASE x = a
    <3>1. g[t] = f[a] + s[t \ {a}] /\ g[t \ {x}] = s[t \ {a}]
      BY <2>1
    <3>2. QED
      BY <2>1, <3>1
  <2>2. CASE x # a /\ a \in t
    <3>1. g[t] = f[a] + s[t \ {a}] /\ g[t \ {x}] = f[a] + s[(t \ {x}) \ {a}]
      BY <2>2
    <3>2. (t \ {x}) \ {a} = (t \ {a}) \ {x} /\ x \in t \ {a} /\ t \ {a} \in SUBSET V
      BY <2>2
    <3>3. s[t \ {a}] = f[x] + s[(t \ {a}) \ {x}]
      BY <3>2, <1>8 DEF IsSumTable
    <3>4. f[x] \in Int /\ s[(t \ {a}) \ {x}] \in Int
      BY <1>10, <1>11, <3>2
    <3>5. g[t \ {x}] = f[a] + s[(t \ {a}) \ {x}]
      BY <3>1, <3>2, Zenon
    <3> HIDE DEF g
    <3>6. QED
      BY <3>1, <3>3, <3>4, <3>5, <1>11
  <2>3. CASE a \notin t
    <3>1. g[t] = s[t] /\ g[t \ {x}] = s[t \ {x}] /\ t \in SUBSET V
      BY <2>3
    <3>2. \A u \in SUBSET V : \A y \in u : s[u] = f[y] + s[u \ {y}]
      BY <1>8 DEF IsSumTable
    <3>3. s[t] = f[x] + s[t \ {x}]
      BY <3>1, <3>2, Zenon
    <3>4. QED
      BY <3>1, <3>3
  <2>4. QED
    BY <2>1, <2>2, <2>3
<1>14. IsSumTable(g, f, U)
  <2> HIDE DEF g
  <2>1. QED
    BY <1>12, <1>13, Zenon DEF IsSumTable
<1>15. QED
  BY <1>3, <1>14

\* The fold computes the table's entry for the whole set.
LEMMA SumIsEntry ==
    ASSUME NEW S, IsFiniteSet(S), NEW f, NEW s, IsSumTable(s, f, S)
    PROVE  SumFunctionOnSet(f, S) = s[S]
<1> DEFINE Rec(g) == [t \in SUBSET S |-> IF t = {} THEN 0
                        ELSE f[CHOOSE x \in t : TRUE] + g[t \ {CHOOSE x \in t : TRUE}]]
           r == CHOOSE g : g = Rec(g)
<1>1. SumFunctionOnSet(f, S) = r[S]
  BY DEF SumFunctionOnSet, FoldFunctionOnSet, MapThenFoldSet
<1>2. s = Rec(s)
  <2>1. ASSUME NEW t \in SUBSET S PROVE s[t] = Rec(s)[t]
    <3>1. CASE t = {}
      BY <3>1 DEF IsSumTable
    <3>2. CASE t # {}
      <4>1. (CHOOSE x \in t : TRUE) \in t
        BY <3>2
      <4>2. QED
        BY <3>2, <4>1 DEF IsSumTable
    <3>3. QED
      BY <3>1, <3>2
  <2>2. s = [t \in SUBSET S |-> s[t]]
    BY DEF IsSumTable
  <2>3. QED
    BY <2>1, <2>2
<1>3. r = Rec(r)
  BY <1>2
<1> DEFINE Wrong == {n \in Nat : \E t \in SUBSET S : Cardinality(t) = n /\ r[t] # s[t]}
<1>4. Wrong = {}
  <2>1. SUFFICES ASSUME Wrong # {} PROVE FALSE
    OBVIOUS
  <2>2. PICK n \in Wrong : \A k \in Wrong : n <= k
    <3> HIDE DEF Wrong, r
    <3>1. Wrong \in SUBSET Nat
      BY DEF Wrong
    <3>2. QED
      BY <2>1, <3>1, LeastNat
  <2>3. PICK t \in SUBSET S : Cardinality(t) = n /\ r[t] # s[t]
    BY <2>2
  <2> HIDE DEF r
  <2>4. IsFiniteSet(t)
    BY FS_Subset
  <2>5. t # {}
    BY <2>3, <1>2, <1>3
  <2> DEFINE x == CHOOSE y \in t : TRUE
  <2>6. x \in t
    BY <2>5
  <2>7. Cardinality(t \ {x}) = n - 1 /\ n - 1 \in Nat
    BY <2>3, <2>4, <2>6, SmallerByOne
  <2>8. r[t \ {x}] = s[t \ {x}]
    BY <2>2, <2>7
  <2>9. r[t] = f[x] + r[t \ {x}]
    BY <1>3, <2>5
  <2>10. s[t] = f[x] + s[t \ {x}]
    BY <1>2, <2>5
  <2>11. QED
    BY <2>3, <2>8, <2>9, <2>10
<1>5. QED
  <2> HIDE DEF r
  <2>1. Cardinality(S) \in Nat /\ S \in SUBSET S
    BY FS_CardinalityType
  <2>2. QED
    BY <1>1, <1>4, <2>1

\* A sum is an integer, nothing for the empty set, and one element more adds
\* its number; it depends on the numbers only.
LEMMA SumEmpty == ASSUME NEW f PROVE SumFunctionOnSet(f, {}) = 0
<1>1. IsSumTable([t \in SUBSET {} |-> 0], f, {})
  BY DEF IsSumTable
<1>2. QED
  BY <1>1, SumIsEntry, FS_EmptySet

\* f is summed over one element more than g, and is as g on the others.
OneMore(f, g, S, x) ==
    /\ IsFiniteSet(S) /\ x \notin S
    /\ \A y \in S \cup {x} : f[y] \in Int
    /\ \A y \in S : g[y] = f[y]

LEMMA OneMoreAdds ==
    ASSUME NEW f, NEW g, NEW S, NEW x, OneMore(f, g, S, x)
    PROVE  /\ SumFunctionOnSet(f, S \cup {x}) = f[x] + SumFunctionOnSet(g, S)
           /\ SumFunctionOnSet(g, S) \in Int
<1>0. /\ IsFiniteSet(S) /\ x \notin S
      /\ \A y \in S \cup {x} : f[y] \in Int
      /\ \A y \in S : g[y] = f[y]
  BY DEF OneMore
<1> USE <1>0
<1> DEFINE T == S \cup {x}
<1>1. IsFiniteSet(T)
  BY FS_AddElement
<1>2. PICK s : IsSumTable(s, f, T)
  BY <1>1, SumTableExists
<1>3. SumFunctionOnSet(f, T) = s[T]
  BY <1>1, <1>2, SumIsEntry
<1> DEFINE r == [t \in SUBSET S |-> s[t]]
<1>4. IsSumTable(r, g, S)
  <2>1. \A t \in SUBSET S : t \in SUBSET T
    OBVIOUS
  <2>2. r \in [SUBSET S -> Int] /\ r[{}] = 0
    BY <1>2, <2>1 DEF IsSumTable
  <2>3. ASSUME NEW t \in SUBSET S, NEW y \in t PROVE r[t] = g[y] + r[t \ {y}]
    BY <1>2, <2>1 DEF IsSumTable
  <2>4. QED
    BY <2>2, <2>3, Zenon DEF IsSumTable
<1>5. SumFunctionOnSet(g, S) = s[S]
  BY <1>4, SumIsEntry
<1>6. s[T] = f[x] + s[T \ {x}] /\ T \ {x} = S /\ s[S] \in Int
  BY <1>2 DEF IsSumTable
<1>7. QED
  BY <1>3, <1>5, <1>6

LEMMA SumAdd ==
    ASSUME NEW S, IsFiniteSet(S), NEW x, x \notin S,
           NEW f, \A y \in S \cup {x} : f[y] \in Int,
           NEW g, \A y \in S : g[y] = f[y]
    PROVE  /\ SumFunctionOnSet(f, S \cup {x}) = f[x] + SumFunctionOnSet(g, S)
           /\ SumFunctionOnSet(g, S) \in Int
<1>1. OneMore(f, g, S, x)
  BY DEF OneMore
<1>2. QED
  BY <1>1, OneMoreAdds

LEMMA SumOneMore ==
    ASSUME NEW f, NEW S, IsFiniteSet(S), NEW x, x \notin S, \A y \in S \cup {x} : f[y] \in Int
    PROVE  SumFunctionOnSet(f, S \cup {x}) = f[x] + SumFunctionOnSet(f, S)
<1>1. OneMore(f, f, S, x)
  BY DEF OneMore
<1>2. QED
  BY <1>1, OneMoreAdds

LEMMA SumType ==
    ASSUME NEW S, IsFiniteSet(S), NEW f, \A y \in S : f[y] \in Int
    PROVE  SumFunctionOnSet(f, S) \in Int
<1>1. PICK s : IsSumTable(s, f, S)
  BY SumTableExists
<1>2. s[S] \in Int
  BY <1>1 DEF IsSumTable
<1>3. QED
  BY <1>1, <1>2, SumIsEntry
-----------------------------------------------------------------------------
(* The ledger.  Coins are numbered by the outputs that lead to them, so     *)
(* that no two ever have the same number and none is spent twice.           *)

LEMMA SpendLeaves ==
    ASSUME NEW coin \in coins, NEW way \in Ways(coin), Spend(coin, way)
    PROVE  \E s : Leaves(coin, way, s)
<1>1. PICK cond \in way.guard :
        /\ Satisfies(cond, way, coin, signing, now)
        /\ spent' = spent \cup {[coin |-> coin, way |-> way, at |-> now,
                                 keys |-> cond.keys]}
  BY DEF Spend
<1> DEFINE s == [coin |-> coin, way |-> way, at |-> now, keys |-> cond.keys]
<1>2. s.coin = coin /\ s.way = way /\ s.at = now /\ s.keys = cond.keys
  OBVIOUS
<1>3. LocksExpired(coin, way.tx, now)
  BY DEF Spend, CanSpend
<1>4. /\ coins' = (coins \ {coin}) \cup NewCoins(coin, way)
      /\ UNCHANGED <<play, signing, now>>
  BY DEF Spend
<1>5. spent' = spent \cup {s}
  BY <1>1
<1> HIDE DEF s
<1>6. Leaves(coin, way, s)
  BY <1>1, <1>2, <1>3, <1>4, <1>5, Zenon DEF Leaves
<1>7. QED
  BY <1>6

\* The coins of a spend's outputs.
LEMMA NewCoinsAre ==
    ASSUME NEW coin, NEW way, NEW c \in NewCoins(coin, way)
    PROVE  \E i \in 1..Len(way.tx.outs) :
             /\ i \in Int
             /\ way.tx.outs[i].to.is # "Address"
             /\ c.id = Append(coin.id, i) /\ c.contract = way.tx.outs[i].to
             /\ c.sats = way.tx.outs[i].sats /\ c.born = now
BY DEF NewCoins, Coin

LEMMA ChildOf ==
    ASSUME NEW id \in Seq(Int), NEW i \in Int
    PROVE  /\ Append(id, i) \in Seq(Int) /\ Append(id, i) # <<>>
           /\ Front(Append(id, i)) = id
           /\ Len(Append(id, i)) = Len(id) + 1
<1>1. Len(id) \in Nat /\ Len(Append(id, i)) = Len(id) + 1 /\ Append(id, i) \in Seq(Int)
  OBVIOUS
<1>2. Front(Append(id, i)) = id
  BY <1>1 DEF Front
<1>3. QED
  BY <1>1, <1>2

LEMMA EverAfter ==
    ASSUME NEW coin, NEW way, NEW s, Leaves(coin, way, s)
    PROVE  Ever' = Ever \cup NewCoins(coin, way)
<1>1. /\ coins' = (coins \ {coin}) \cup NewCoins(coin, way)
      /\ spent' = spent \cup {s} /\ s.coin = coin /\ coin \in coins
  BY DEF Leaves
<1>2. {t.coin : t \in spent \cup {s}} = {t.coin : t \in spent} \cup {coin}
  BY <1>1
<1>3. Ever' = coins' \cup {t.coin : t \in spent'}
  BY DEF Ever
<1> HIDE DEF Ever
<1>4. Ever' = ((coins \ {coin}) \cup NewCoins(coin, way)) \cup ({t.coin : t \in spent} \cup {coin})
  BY <1>1, <1>2, <1>3
<1>5. QED
  BY <1>1, <1>4 DEF Ever

\* A new coin is like no coin there ever was.
LEMMA NewIsNew ==
    ASSUME Ledger, NEW coin \in coins, NEW way, NEW c \in NewCoins(coin, way)
    PROVE  /\ c.id \in Seq(Int) /\ c.born = now
           /\ Front(c.id) = coin.id
           /\ \A d \in Ever : d.id # c.id
<1>1. coin \in Ever /\ coin.id \in Seq(Int)
  BY DEF Ledger, LedgerTypes, Ever
<1>2. PICK i \in Int : c.id = Append(coin.id, i) /\ c.born = now
  BY NewCoinsAre
<1>3. c.id \in Seq(Int) /\ c.id # <<>> /\ Front(c.id) = coin.id
  BY <1>1, <1>2, ChildOf
<1>4. ASSUME NEW d \in Ever, d.id = c.id PROVE FALSE
  <2>1. PICK s \in spent : s.coin.id = coin.id
    BY <1>3, <1>4 DEF Ledger, Descends
  <2>2. s.coin \in Ever
    BY DEF Ever
  <2>3. s.coin = coin
    BY <1>1, <2>1, <2>2 DEF Ledger, LedgerUnique
  <2>4. QED
    BY <2>3 DEF Ledger, LedgerUnique
<1>5. QED
  BY <1>2, <1>3, <1>4

\* The coins of one spend have numbers of their own.
LEMMA SiblingsDiffer ==
    ASSUME Ledger, NEW coin \in coins, NEW way,
           NEW c \in NewCoins(coin, way), NEW d \in NewCoins(coin, way), c.id = d.id
    PROVE  c = d
<1>1. coin.id \in Seq(Int)
  BY DEF Ledger, LedgerTypes, Ever
<1>2. PICK i \in 1..Len(way.tx.outs) :
        c = Coin(Append(coin.id, i), way.tx.outs[i].to, way.tx.outs[i].sats, now)
  BY DEF NewCoins
<1>3. PICK j \in 1..Len(way.tx.outs) :
        d = Coin(Append(coin.id, j), way.tx.outs[j].to, way.tx.outs[j].sats, now)
  BY DEF NewCoins
<1>4. i \in Int /\ j \in Int /\ Append(coin.id, i) = Append(coin.id, j)
  BY <1>2, <1>3 DEF Coin
<1>5. i = j
  <2>1. Append(coin.id, i)[Len(coin.id) + 1] = i /\ Append(coin.id, j)[Len(coin.id) + 1] = j
    BY <1>1, <1>4
  <2>2. QED
    BY <1>4, <2>1
<1>6. QED
  BY <1>2, <1>3, <1>5

LEMMA LedgerSpend ==
    ASSUME Ledger, NEW coin, NEW way, NEW s, Leaves(coin, way, s)
    PROVE  Ledger'
<1> DEFINE new == NewCoins(coin, way)
<1>1. /\ coin \in coins /\ coin \in Ever
      /\ spent' = spent \cup {s} /\ s.coin = coin
      /\ coins' = (coins \ {coin}) \cup new
      /\ UNCHANGED <<play, signing, now>>
  BY DEF Leaves, Ever
<1>2. Ever' = Ever \cup new
  BY EverAfter
<1>3. \A c \in new : /\ c.id \in Seq(Int) /\ c.born = now
                     /\ Front(c.id) = coin.id
                     /\ \A d \in Ever : d.id # c.id
  BY <1>1, NewIsNew
<1> HIDE DEF new
<1>4. now \in Times /\ NotAfter(now, now)
  BY DEF Ledger, LedgerTypes, Times, NotAfter
<1>5. LedgerTypes'
  <2>1. play' \in DOMAIN Plays /\ now' \in Times
    BY <1>1 DEF Ledger, LedgerTypes
  <2>2. IsFiniteSet(spent')
    BY <1>1, FS_AddElement DEF Ledger, LedgerTypes
  <2>3. ASSUME NEW c \in Ever' PROVE /\ c.id \in Seq(Int) /\ c.born \in Times
                                     /\ NotAfter(c.born, now)
    <3>1. CASE c \in Ever
      BY <3>1 DEF Ledger, LedgerTypes
    <3>2. CASE c \in new
      BY <3>2, <1>3, <1>4
    <3>3. QED
      BY <1>2, <3>1, <3>2
  <2>4. \A c \in Ever' : c.id \in Seq(Int) /\ c.born \in Times /\ NotAfter(c.born, now')
    BY <1>1, <2>3
  <2>5. QED
    BY <2>1, <2>2, <2>4 DEF LedgerTypes
<1>6. \A t \in spent' : Lawful(t)'
  <2>1. ASSUME NEW t \in spent PROVE Lawful(t)'
    <3>1. Lawful(t)
      BY DEF Ledger
    <3>2. QED
      BY <1>1, <3>1 DEF Lawful
  <2>2. Lawful(s)'
    <3>1. coin.id \in Seq(Int) /\ coin.born \in Times /\ NotAfter(coin.born, now)
      BY <1>1 DEF Ledger, LedgerTypes
    <3>2. /\ s.coin = coin /\ s.way = way /\ s.at = now /\ way \in Ways(coin)
          /\ LocksExpired(coin, way.tx, now)
          /\ \E cond \in way.guard :
               Satisfies(cond, way, coin, signing, now) /\ s.keys = cond.keys
      BY DEF Leaves
    <3>3. now' = now /\ signing' = signing
      BY <1>1
    <3>4. QED
      BY <1>4, <3>1, <3>2, <3>3 DEF Lawful
  <2>3. QED
    BY <1>1, <2>1, <2>2
<1>7. \A c \in Ever' : Descends(c)'
  <2>1. ASSUME NEW c \in Ever PROVE Descends(c)'
    BY <1>1 DEF Ledger, Descends
  <2>2. ASSUME NEW c \in new PROVE Descends(c)'
    BY <1>1, <1>3 DEF Descends
  <2>3. QED
    BY <1>2, <2>1, <2>2
<1>8. LedgerUnique'
  <2>1. ASSUME NEW c \in Ever', NEW d \in Ever', c.id = d.id PROVE c = d
    <3>1. CASE c \in Ever /\ d \in Ever
      BY <2>1, <3>1 DEF Ledger, LedgerUnique
    <3>2. CASE c \in new /\ d \in Ever
      BY <2>1, <3>2, <1>3
    <3>3. CASE c \in Ever /\ d \in new
      BY <2>1, <3>3, <1>3
    <3>4. CASE c \in new /\ d \in new
      BY <1>1, <2>1, <3>4, SiblingsDiffer DEF new
    <3>5. QED
      BY <1>2, <3>1, <3>2, <3>3, <3>4
  <2>2. ASSUME NEW t \in spent PROVE t.coin \notin coins' /\ t.coin # coin
    <3>1. t.coin \in Ever /\ t.coin \notin coins
      BY DEF Ledger, LedgerUnique, Ever
    <3>2. t.coin \notin new
      BY <3>1, <1>3
    <3>3. QED
      BY <1>1, <3>1, <3>2
  <2>3. s.coin \notin coins'
    BY <1>1, <1>3
  <2>4. ASSUME NEW t \in spent', NEW u \in spent', t.coin = u.coin PROVE t = u
    BY <1>1, <2>2, <2>4 DEF Ledger, LedgerUnique
  <2>5. QED
    BY <1>1, <2>1, <2>2, <2>3, <2>4 DEF LedgerUnique
<1>9. QED
  BY <1>5, <1>6, <1>7, <1>8 DEF Ledger

LEMMA LedgerTick ==
    ASSUME Ledger, NEW b \in Nat, NEW t \in Nat, Tick(b, t)
    PROVE  Ledger'
<1>1. /\ now' = [blocks |-> now.blocks + b, time |-> now.time + t]
      /\ UNCHANGED <<play, signing, coins, spent>>
  BY DEF Tick
<1>2. now' \in Times /\ NotAfter(now, now') /\ now \in Times
  BY <1>1 DEF Ledger, LedgerTypes, Times, NotAfter
<1>3. ASSUME NEW u \in Times, NotAfter(u, now) PROVE NotAfter(u, now')
  BY <1>2, <1>3 DEF Times, NotAfter
<1>4. Ever' = Ever
  BY <1>1 DEF Ever
<1>5. LedgerTypes'
  BY <1>1, <1>2, <1>3, <1>4 DEF Ledger, LedgerTypes
<1>6. ASSUME NEW s \in spent PROVE Lawful(s)'
  <2>1. Lawful(s)
    BY DEF Ledger
  <2>2. NotAfter(s.at, now')
    BY <1>3, <2>1 DEF Lawful
  <2>3. QED
    BY <1>1, <2>1, <2>2 DEF Lawful
<1>7. QED
  BY <1>1, <1>4, <1>5, <1>6 DEF Ledger, Descends, LedgerUnique

LEMMA LedgerInit == Init => Ledger
<1> SUFFICES ASSUME Init PROVE Ledger
  OBVIOUS
<1> DEFINE first == Coin(<<>>, Plays[play].contract, Plays[play].sats, now)
<1>1. coins = {first} /\ spent = {} /\ first.id = <<>> /\ first.born = now
  BY DEF Init, Coin
<1>2. now \in Times /\ NotAfter(now, now) /\ play \in DOMAIN Plays
  BY DEF Init, Times, NotAfter
<1> HIDE DEF first
<1>3. Ever = {first}
  BY <1>1 DEF Ever
<1>4. LedgerTypes
  <2>1. IsFiniteSet(spent)
    BY <1>1, FS_EmptySet
  <2>2. first.id \in Seq(Int) /\ first.born \in Times /\ NotAfter(first.born, now)
    BY <1>1, <1>2
  <2>3. QED
    BY <1>2, <1>3, <2>1, <2>2 DEF LedgerTypes
<1>5. QED
  BY <1>1, <1>3, <1>4 DEF Ledger, Descends, LedgerUnique

LEMMA LedgerNext == Ledger /\ [Next]_vars => Ledger'
<1> SUFFICES ASSUME Ledger, [Next]_vars PROVE Ledger'
  OBVIOUS
<1>1. CASE SomeSpend
  <2>1. PICK coin \in coins : \E way \in Ways(coin) : Spend(coin, way)
    BY <1>1 DEF SomeSpend
  <2> PICK way \in Ways(coin) : Spend(coin, way)
    BY <2>1
  <2>2. PICK s : Leaves(coin, way, s)
    BY <2>1, SpendLeaves
  <2>3. QED
    BY <2>2, LedgerSpend
<1>2. CASE SomeTick
  BY <1>2, LedgerTick DEF SomeTick
<1>3. CASE UNCHANGED vars
  BY <1>3 DEF vars, Ledger, LedgerTypes, Lawful, Descends, LedgerUnique, Ever
<1>4. QED
  BY <1>1, <1>2, <1>3 DEF Next

\* In every play coins are numbered apart, no coin is spent twice, and every
\* spend took a way of its coin whose locks had expired, with keys that signed.
THEOREM LedgerHolds == Spec => []Ledger
<1>1. Init => Ledger
  BY LedgerInit
<1>2. Ledger /\ [Next]_vars => Ledger'
  BY LedgerNext
<1>3. QED
  BY <1>1, <1>2, PTL DEF Spec
-----------------------------------------------------------------------------
(* Contest windows. *)

LEMMA ReadyAtOnce ==
    ASSUME NEW coin, coin.born \in Times, NEW way, Ready(way)
    PROVE  \A cond \in way.guard : CanSpend(way, coin, cond.keys, coin.born)
<1>1. LocksExpired(coin, way.tx, coin.born)
  BY DEF Times, Ready, LocksExpired
<1>2. ASSUME NEW cond \in way.guard PROVE Satisfies(cond, way, coin, cond.keys, coin.born)
  BY DEF Ready, Satisfies
<1>3. QED
  BY <1>1, <1>2 DEF CanSpend

LEMMA WaitedFor ==
    ASSUME NEW s, Lawful(s), NEW wait, Waits(s.way, wait)
    PROVE  s.at.blocks - s.coin.born.blocks >= wait
<1>1. CASE s.way.tx.seq = wait
  BY <1>1 DEF Lawful, LocksExpired
<1>2. CASE ~s.way.ctv /\ \A cond \in s.way.guard : wait \in cond.older
  <2>1. PICK cond \in s.way.guard : Satisfies(cond, s.way, s.coin, signing, s.at)
    BY DEF Lawful
  <2>2. wait <= s.at.blocks - s.coin.born.blocks
    BY <1>2, <2>1 DEF Satisfies
  <2>3. QED
    BY <2>2
<1>3. QED
  BY <1>1, <1>2 DEF Waits

\* The parts of a way.
LEMMA TemplateIs ==
    ASSUME NEW name, NEW guard, NEW tx
    PROVE  LET w == Template(name, guard, tx)
           IN  w.name = name /\ w.guard = guard /\ w.tx = tx /\ w.ctv /\ ~w.free
BY DEF Template

LEMMA FinishIs ==
    ASSUME NEW name, NEW guard
    PROVE  LET w == Finish(name, guard)
           IN  w.name = name /\ w.guard = guard /\ w.tx = Tx(<<>>) /\ ~w.ctv /\ w.free
BY DEF Finish, Template

LEMMA SuggestionIs ==
    ASSUME NEW name, NEW guard, NEW tx, NEW asked
    PROVE  LET w == Suggestion(name, guard, tx, asked)
           IN  /\ w.name = name /\ w.guard = guard /\ w.tx = tx
               /\ w.asked = asked /\ ~w.ctv /\ ~w.free
BY DEF Suggestion, Template

LEMMA ContinuationIs ==
    ASSUME NEW name, NEW guard, NEW txs, NEW w \in Continuation(name, guard, txs)
    PROVE  w.name = name /\ w.guard = guard /\ ~w.ctv
BY FinishIs, SuggestionIs DEF Continuation

LEMMA TxIs ==
    ASSUME NEW outs
    PROVE  LET tx == Tx(outs)
           IN  /\ tx.outs = outs /\ tx.seq = 0 /\ tx.seqTime = 0 /\ tx.lock = 0
               /\ tx.lockTime = 0 /\ tx.fees = 0
BY DEF Tx

LEMMA ThresholdReady ==
    ASSUME NEW n, NEW keys, NEW cond \in Threshold(n, keys)
    PROVE  cond.older = {} /\ cond.after = {}
BY DEF Threshold

\* It follows from a wait in every slow way and an answer that is ready.
LEMMA Answered ==
    ASSUME NEW s, Lawful(s), NEW contest,
           \A w \in Ways(s.coin) : w.name = contest.slow => Waits(w, contest.wait),
           NEW answer \in Ways(s.coin), answer.name = contest.answer, Ready(answer)
    PROVE  Contested(s, contest)
<1>1. s.way \in Ways(s.coin) /\ s.coin.born \in Times
  BY DEF Lawful
<1>2. s.way.name = contest.slow => s.at.blocks - s.coin.born.blocks >= contest.wait
  BY <1>1, WaitedFor
<1>3. \A cond \in answer.guard : CanSpend(answer, s.coin, cond.keys, s.coin.born)
  BY <1>1, ReadyAtOnce
<1>4. QED
  BY <1>2, <1>3 DEF Contested

LEMMA UndoSendContest ==
    ASSUME NEW s, Lawful(s), s.coin.contract.is = "UndoSend"
    PROVE  Contested(s, [slow |-> "complete", wait |-> s.coin.contract.timeout,
                         answer |-> "undo"])
<1> DEFINE c == s.coin.contract
           undo == Template("undo", Trivial, Tx(<<Out(c.from, c.sats)>>))
<1>1. Ways(s.coin) = UndoSendWays(c)
  BY Zenon DEF Ways
<1>2. undo \in Ways(s.coin) /\ undo.name = "undo" /\ Ready(undo)
  BY <1>1 DEF UndoSendWays, Template, Tx, Trivial, Ready
<1>3. ASSUME NEW w \in Ways(s.coin), w.name = "complete" PROVE Waits(w, c.timeout)
  BY <1>1, <1>3 DEF UndoSendWays, Template, Tx, Waits
<1> HIDE DEF c, undo
<1>4. QED
  BY <1>2, <1>3, Answered DEF c

LEMMA VaultContest ==
    ASSUME NEW s, Lawful(s), s.coin.contract.is = "Vault"
    PROVE  Contested(s, [slow |-> "step", wait |-> s.coin.contract.timeout,
                         answer |-> "to_cold"])
<1> DEFINE c == s.coin.contract
           cold == Template("to_cold", Trivial, VaultToCold(c))
<1>1. Ways(s.coin) = VaultWays(c)
  BY Zenon DEF Ways
<1>2. cold \in Ways(s.coin) /\ cold.name = "to_cold" /\ Ready(cold)
  BY <1>1 DEF VaultWays, VaultToCold, Template, Tx, Trivial, Ready
<1>3. ASSUME NEW w \in Ways(s.coin), w.name = "step" PROVE Waits(w, c.timeout)
  BY <1>1, <1>3 DEF VaultWays, VaultStep, Template, Tx, Waits
<1> HIDE DEF c, cold
<1>4. QED
  BY <1>2, <1>3, Answered DEF c

LEMMA JamesVaultContest ==
    ASSUME NEW s, Lawful(s), s.coin.contract.is = "JamesVault"
    PROVE  Contested(s, [slow |-> "spend_hot", wait |-> s.coin.contract.timeout,
                         answer |-> "backup"])
<1> DEFINE c == s.coin.contract
           sats == s.coin.sats
           backup == Template("backup", Trivial,
                              Swept(c, sats, c.backupAddr, 8 + BackupScript))
           hot == And(Key(c.hotKey), Older(c.timeout))
<1>1. Ways(s.coin) = JamesVaultWays(c, sats)
  BY Zenon DEF Ways
<1>2. backup \in Ways(s.coin) /\ backup.name = "backup" /\ Ready(backup)
  <2>1. backup \in JamesVaultWays(c, sats)
    BY DEF JamesVaultWays
  <2>2. /\ backup.tx.seq = 0 /\ backup.tx.seqTime = 0 /\ backup.tx.lock = 0
        /\ backup.tx.lockTime = 0
    BY DEF Template, Swept, Tx
  <2>3. backup.name = "backup" /\ backup.guard = Trivial
    BY TemplateIs
  <2>4. QED
    BY <1>1, <2>1, <2>2, <2>3 DEF Ready, Trivial
<1>3. ASSUME NEW w \in Ways(s.coin), w.name = "spend_hot" PROVE Waits(w, c.timeout)
  <2>1. w \in JamesVaultWays(c, sats)
    BY <1>1
  <2>2. ~ w \in Continuation("spend_cold", Key(c.backup), SpendCold(sats))
    BY <1>3, ContinuationIs
  <2>3. w # backup /\ \A tx : w # Template("begin_redeem", Trivial, tx)
    BY <1>3, TemplateIs
  <2>4. w \in Continuation("spend_hot", hot, SpendHot(c, sats))
    BY <2>1, <2>2, <2>3, Zenon DEF JamesVaultWays
  <2>5. w.guard = hot /\ ~w.ctv
    BY <2>4, ContinuationIs
  <2>6. \A cond \in hot : c.timeout \in cond.older
    BY DEF And, Key, Older
  <2>7. QED
    BY <2>5, <2>6 DEF Waits
<1> HIDE DEF c, sats, backup, hot
<1>4. QED
  BY <1>2, <1>3, Answered DEF c

LEMMA StakerContest ==
    ASSUME NEW s, Lawful(s), s.coin.contract.is = "Staker"
    PROVE  Contested(s, [slow |-> "finish_redeem_key",
                         wait |-> s.coin.contract.timeout, answer |-> "cheated"])
<1> DEFINE c == s.coin.contract
           sats == s.coin.sats
           cheated == Template("cheated", Key(c.signingKey), Tx(<<Out(OpReturn, sats)>>))
           redeem == And(Key(c.redeemingKey), Older(c.timeout))
<1>1. Ways(s.coin) = StakerWays(c, sats)
  BY Zenon DEF Ways
<1>2. cheated \in Ways(s.coin) /\ cheated.name = "cheated" /\ Ready(cheated)
  BY <1>1 DEF StakerWays, Template, Tx, Key, Ready
<1>3. ASSUME NEW w \in Ways(s.coin), w.name = "finish_redeem_key"
      PROVE  Waits(w, c.timeout)
  <2>1. w # cheated /\ \A guard, tx : w # Template("begin_redeem", guard, tx)
    BY <1>3, TemplateIs
  <2>2. w = Finish("finish_redeem_key", redeem)
    BY <1>1, <2>1, Zenon DEF StakerWays
  <2>3. w.guard = redeem /\ ~w.ctv
    BY <2>2, FinishIs
  <2>4. \A cond \in redeem : c.timeout \in cond.older
    BY DEF And, Key, Older
  <2>5. QED
    BY <2>3, <2>4 DEF Waits
<1> HIDE DEF c, sats, cheated, redeem
<1>4. QED
  BY <1>2, <1>3, Answered DEF c

LEMMA PegInContest ==
    ASSUME NEW s, Lawful(s), s.coin.contract.is = "FederatedPegIn"
    PROVE  Contested(s, [slow |-> "finish_recovery", wait |-> RecoveryDelay,
                         answer |-> "normal_signed"])
<1> DEFINE c == s.coin.contract
           recovering == Threshold(c.recovery, c.recoveryKeys)
           normal == Finish("normal_signed", Threshold(c.normal, c.keys))
           slow == And(Older(RecoveryDelay), recovering)
<1>1. Ways(s.coin) = FederatedPegInWays(c)
  BY Zenon DEF Ways
<1>2. normal \in Ways(s.coin) /\ normal.name = "normal_signed" /\ Ready(normal)
  <2>1. normal \in FederatedPegInWays(c)
    BY DEF FederatedPegInWays
  <2>2. /\ normal.name = "normal_signed" /\ normal.tx = Tx(<<>>)
        /\ normal.guard = Threshold(c.normal, c.keys)
    BY FinishIs
  <2>3. QED
    BY <1>1, <2>1, <2>2, TxIs, ThresholdReady DEF Ready
<1>3. ASSUME NEW w \in Ways(s.coin), w.name = "finish_recovery"
      PROVE  Waits(w, RecoveryDelay)
  <2>1. w # normal /\ \A guard, tx : w # Template("begin_recovery", guard, tx)
    BY <1>3, TemplateIs, FinishIs
  <2>2. w = Finish("finish_recovery", slow)
    BY <1>1, <2>1, Zenon DEF FederatedPegInWays
  <2>3. w.guard = slow /\ ~w.ctv
    BY <2>2, FinishIs
  <2>4. \A cond \in slow : RecoveryDelay \in cond.older
    BY DEF And, Older
  <2>5. QED
    BY <2>3, <2>4 DEF Waits
<1> HIDE DEF c, normal, slow, recovering
<1>4. QED
  BY <1>2, <1>3, Answered

\* A channel's finish_contest is only ever taken when there is no delay to wait
\* for: its template has no sequence.
LEMMA ChannelContest ==
    ASSUME NEW s, Lawful(s), s.coin.contract.is = "Channel"
    PROVE  Contested(s, [slow |-> "finish_contest", wait |-> ContestDelay,
                         answer |-> "update_state_b"])
<1> DEFINE c == s.coin.contract
           signed == AllOf({c.aliceKey, c.bobKey})
           update == Finish("update_state_b", signed)
<1>1. Ways(s.coin) = ChannelWays(c)
  BY Zenon DEF Ways
<1>2. update \in Ways(s.coin) /\ update.name = "update_state_b" /\ Ready(update)
  <2>1. update \in ChannelWays(c)
    BY DEF ChannelWays, Continuation
  <2>2. update.name = "update_state_b" /\ update.tx = Tx(<<>>) /\ update.guard = signed
    BY FinishIs
  <2>3. \A cond \in signed : cond.older = {} /\ cond.after = {}
    BY ThresholdReady DEF AllOf
  <2> HIDE DEF update, signed, c
  <2>4. Ready(update)
    BY <2>2, <2>3, TxIs DEF Ready
  <2>5. QED
    BY <1>1, <2>1, <2>2, <2>4
<1>3. ASSUME NEW w \in Ways(s.coin), w.name = "finish_contest", w = s.way
      PROVE  Waits(w, ContestDelay)
  <2>1. \A name, guard : w = Finish(name, guard) => name = "finish_contest"
    BY <1>3, FinishIs
  <2>2. \A name, guard, tx : w = Template(name, guard, tx) => name = "finish_contest"
    BY <1>3, TemplateIs
  <2>3. \A name, guard, txs : w \in Continuation(name, guard, txs) => name = "finish_contest"
    BY <1>3, ContinuationIs
  <2>4. w = Template("finish_contest", Older(ContestDelay), Tx(<<Out(c.resolution, c.sats)>>))
    BY <1>1, <2>1, <2>2, <2>3, Zenon DEF ChannelWays
  <2>5. w.guard = Older(ContestDelay) /\ w.ctv /\ w.tx.seq = 0
    BY <2>4, TemplateIs, TxIs
  <2>6. PICK cond \in w.guard : Satisfies(cond, w, s.coin, signing, s.at)
    BY <1>3 DEF Lawful
  <2>7. ContestDelay <= 0
    BY <2>5, <2>6 DEF Satisfies, Older
  <2>8. QED
    BY <2>5, <2>7, DelayAssumption DEF Waits
<1>4. s.way.name = "finish_contest" => s.at.blocks - s.coin.born.blocks >= ContestDelay
  BY <1>3, WaitedFor DEF Lawful
<1>5. \A cond \in update.guard : CanSpend(update, s.coin, cond.keys, s.coin.born)
  BY <1>2, ReadyAtOnce DEF Lawful
<1> HIDE DEF c, update, signed
<1>6. QED
  BY <1>2, <1>4, <1>5 DEF Contested

\* Every spend of a contract with a contest period respects it.
LEMMA ContestsKept == ASSUME NEW s, Lawful(s), Contests(s.coin.contract).slow # "none"
                      PROVE  Contested(s, Contests(s.coin.contract))
<1> DEFINE c == s.coin.contract
<1>1. CASE c.is = "UndoSend"
  <2>1. Contests(c) = [slow |-> "complete", wait |-> c.timeout, answer |-> "undo"]
    BY <1>1, Zenon DEF Contests
  <2>2. QED
    BY <1>1, <2>1, UndoSendContest
<1>2. CASE c.is = "Vault"
  <2>1. Contests(c) = [slow |-> "step", wait |-> c.timeout, answer |-> "to_cold"]
    BY <1>2, Zenon DEF Contests
  <2>2. QED
    BY <1>2, <2>1, VaultContest
<1>3. CASE c.is = "JamesVault"
  <2>1. Contests(c) = [slow |-> "spend_hot", wait |-> c.timeout, answer |-> "backup"]
    BY <1>3, Zenon DEF Contests
  <2>2. QED
    BY <1>3, <2>1, JamesVaultContest
<1>4. CASE c.is = "Staker"
  <2>1. Contests(c) = [slow |-> "finish_redeem_key", wait |-> c.timeout,
                       answer |-> "cheated"]
    BY <1>4, Zenon DEF Contests
  <2>2. QED
    BY <1>4, <2>1, StakerContest
<1>5. CASE c.is = "FederatedPegIn"
  <2>1. Contests(c) = [slow |-> "finish_recovery", wait |-> RecoveryDelay,
                       answer |-> "normal_signed"]
    BY <1>5, Zenon DEF Contests
  <2>2. QED
    BY <1>5, <2>1, PegInContest
<1>6. CASE c.is = "Channel"
  <2>1. Contests(c) = [slow |-> "finish_contest", wait |-> ContestDelay,
                       answer |-> "update_state_b"]
    BY <1>6, Zenon DEF Contests
  <2>2. QED
    BY <1>6, <2>1, ChannelContest
<1>7. CASE ~(c.is \in {"UndoSend", "Vault", "JamesVault", "Staker", "FederatedPegIn",
                       "Channel"})
  <2>1. Contests(c) = [slow |-> "none", wait |-> 0, answer |-> "none"]
    BY <1>7, Zenon DEF Contests
  <2>2. QED
    BY <2>1
<1>8. QED
  BY <1>1, <1>2, <1>3, <1>4, <1>5, <1>6, <1>7

\* Whoever may answer the slow way of a contract had the whole contest period to
\* do it in, whichever contracts are played (ContestWindows: undo_send.rs,
\* vault.rs, jamesob-vault, staked_signer.rs, federated_sidechain.rs, channel.rs).
THEOREM ContestWindowsHold == Spec => []ContestWindows
<1>1. Ledger => ContestWindows
  BY ContestsKept DEF Ledger, ContestWindows, Contested
<1>2. QED
  BY <1>1, LedgerHolds, PTL
-----------------------------------------------------------------------------
(* The annuity vault. *)

\* What one payment more adds to what somebody received.
LEMMA ReceivedMore ==
    ASSUME NEW who, NEW s, IsFiniteSet(spent), s \notin spent,
           spent' = spent \cup {s},
           \A t \in spent \cup {s} : PaidTo(who, t.way.tx.outs) \in Int
    PROVE  Received(who)' = Received(who) + PaidTo(who, s.way.tx.outs)
<1> DEFINE f == [t \in spent \cup {s} |-> PaidTo(who, t.way.tx.outs)]
           g == [t \in spent |-> PaidTo(who, t.way.tx.outs)]
<1>1. /\ \A y \in spent \cup {s} : f[y] \in Int
      /\ \A y \in spent : g[y] = f[y]
      /\ f[s] = PaidTo(who, s.way.tx.outs) /\ f[s] \in Int
  OBVIOUS
<1>2. DOMAIN f = spent \cup {s} /\ DOMAIN g = spent
  OBVIOUS
<1>3. Received(who) = SumFunctionOnSet(g, spent)
  BY DEF Received, SumFunction
<1>4. Received(who)' = SumFunctionOnSet(f, spent \cup {s})
  BY <1>2 DEF Received, SumFunction
<1> HIDE DEF f, g
<1>5. /\ SumFunctionOnSet(f, spent \cup {s}) = f[s] + SumFunctionOnSet(g, spent)
      /\ SumFunctionOnSet(g, spent) \in Int
  BY <1>1, SumAdd
<1>6. QED
  BY <1>1, <1>3, <1>4, <1>5

LEMMA PaidNothing ==
    ASSUME NEW who, NEW outs, \A i \in DOMAIN outs : outs[i].to # Address(who)
    PROVE  PaidTo(who, outs) = 0
<1>1. {i \in DOMAIN outs : outs[i].to = Address(who)} = {}
  OBVIOUS
<1>2. QED
  BY <1>1, SumEmpty DEF PaidTo

LEMMA PaidOnce ==
    ASSUME NEW who, NEW sats \in Int
    PROVE  PaidTo(who, <<Out(Address(who), sats)>>) = sats
<1> DEFINE outs == <<Out(Address(who), sats)>>
           f == [i \in DOMAIN outs |-> outs[i].sats]
<1>1. {i \in DOMAIN outs : outs[i].to = Address(who)} = {} \cup {1}
  BY DEF Out
<1>2. \A y \in {} \cup {1} : f[y] = sats
  BY DEF Out
<1>3. PaidTo(who, outs) = SumFunctionOnSet(f, {} \cup {1})
  BY <1>1 DEF PaidTo
<1> HIDE DEF f, outs
<1>4. /\ SumFunctionOnSet(f, {} \cup {1}) = f[1] + SumFunctionOnSet(f, {})
      /\ SumFunctionOnSet(f, {}) = 0
  BY <1>2, SumAdd, SumEmpty, FS_EmptySet
<1>5. QED
  BY <1>2, <1>3, <1>4 DEF outs

\* Where cold storage sends sats.
LEMMA ColdStorageIs ==
    ASSUME NEW v, VaultFields(v), NEW sats \in Nat
    PROVE  \/ v.cold.is = "Address" /\ ColdStorage(v.cold, sats) = Address(v.cold.who)
           \/ /\ v.cold.is = "SplitTree"
              /\ \E p \in Seq({PayTo(v.cold.who, v.cold.max)}) :
                    ColdStorage(v.cold, sats) = TreePay(p, v.cold.radix)
<1>1. CASE v.cold = Address(v.cold.who)
  BY <1>1 DEF ColdStorage, Address
<1>2. CASE /\ v.cold = SplitTree(v.cold.who, v.cold.max, v.cold.radix)
           /\ v.cold.max \in Nat \ {0}
  <2>1. v.cold.is = "SplitTree"
    BY <1>2 DEF SplitTree
  <2> DEFINE N == (sats + v.cold.max - 1) \div v.cold.max
             p == [i \in 1..N |-> PayTo(v.cold.who, v.cold.max)]
  <2>2. N \in Nat
    <3>1. \A a \in Nat, m \in Nat \ {0} : a \div m \in Nat
      OBVIOUS
    <3>2. sats + v.cold.max - 1 \in Nat
      BY <1>2
    <3>3. QED
      BY <1>2, <3>1, <3>2
  <2>3. ColdStorage(v.cold, sats) = TreePay(p, v.cold.radix)
    BY <2>1 DEF ColdStorage
  <2>4. p \in Seq({PayTo(v.cold.who, v.cold.max)})
    <3> HIDE DEF N
    <3>1. QED
      BY <2>2
  <2> HIDE DEF p, N
  <2>5. QED
    BY <2>1, <2>3, <2>4
<1>3. QED
  BY <1>1, <1>2 DEF VaultFields

LEMMA LeadsOn ==
    ASSUME NEW v, NEW coin, NEW way, LeadOn(v, coin, way.tx.outs), way.name # "complete"
    PROVE  SpendsOfVault(v, coin, way)
<1>1. PaidTo(v.hot.who, way.tx.outs) = 0
  BY PaidNothing DEF LeadOn
<1>2. ASSUME NEW c \in NewCoins(coin, way) PROVE OfVault(v, c)
  <2>1. PICK i \in 1..Len(way.tx.outs) :
             /\ way.tx.outs[i].to.is # "Address"
             /\ c.id = Append(coin.id, i) /\ c.contract = way.tx.outs[i].to /\ c.born = now
    BY NewCoinsAre
  <2>2. QED
    BY <2>1, Zenon DEF LeadOn
<1>3. QED
  BY <1>1, <1>2 DEF SpendsOfVault

\* One output to cold storage leads on.
LEMMA ToCold ==
    ASSUME NEW v, VaultFields(v), v.cold.who # v.hot.who, NEW coin,
           NEW n \in Nat, NEW sats
    PROVE  LeadOn(v, coin, <<Out(ColdStorage(v.cold, n), sats)>>)
<1> DEFINE outs == <<Out(ColdStorage(v.cold, n), sats)>>
<1>1. DOMAIN outs = {1} /\ 1..Len(outs) = {1} /\ outs[1].to = ColdStorage(v.cold, n)
  BY DEF Out
<1> HIDE DEF outs
<1>2. CASE v.cold.is = "Address" /\ ColdStorage(v.cold, n) = Address(v.cold.who)
  <2>1. outs[1].to # Address(v.hot.who) /\ outs[1].to.is = "Address"
    BY <1>1, <1>2 DEF Address
  <2>2. QED
    BY <1>1, <2>1 DEF LeadOn, outs
<1>3. ASSUME v.cold.is = "SplitTree",
             NEW p \in Seq({PayTo(v.cold.who, v.cold.max)}),
             ColdStorage(v.cold, n) = TreePay(p, v.cold.radix)
      PROVE  LeadOn(v, coin, outs)
  <2>1. outs[1].to # Address(v.hot.who)
    BY <1>1, <1>3 DEF Address, TreePay
  <2>2. ASSUME NEW c, c.contract = outs[1].to PROVE OfVault(v, c)
    BY <1>1, <1>3, <2>2 DEF OfVault, IsTree
  <2>3. QED
    BY <1>1, <2>1, <2>2 DEF LeadOn
<1>4. QED
  BY <1>2, <1>3, ColdStorageIs DEF outs

LEMMA SmallerIs ==
    ASSUME NEW a \in Int, NEW b \in Int
    PROVE  Smaller(a, b) \in Int /\ Smaller(a, b) <= a /\ Smaller(a, b) <= b
BY DEF Smaller

\* The branches of a tree are made of its payments.
LEMMA ChunksAre ==
    ASSUME NEW S, NEW p \in Seq(S), NEW size \in Nat, NEW i \in Nat \ {0}
    PROVE  SubSeq(p, (i - 1) * size + 1, Smaller(i * size, Len(p))) \in Seq(S)
<1> DEFINE a == (i - 1) * size + 1
           b == Smaller(i * size, Len(p))
<1>1. Len(p) \in Nat /\ \A k \in 1..Len(p) : p[k] \in S
  OBVIOUS
<1>2. a \in Nat \ {0}
  <2>1. i - 1 \in Nat
    OBVIOUS
  <2>2. \A m \in Nat, n \in Nat : m * n \in Nat
    OBVIOUS
  <2>3. (i - 1) * size \in Nat
    BY <2>1, <2>2
  <2>4. QED
    BY <2>3
<1>3. i * size \in Int /\ b \in Int /\ b <= Len(p)
  <2>1. \A m \in Nat, n \in Nat : m * n \in Int
    OBVIOUS
  <2>2. i * size \in Int
    BY <2>1
  <2> PICK m \in Int : m = i * size
    BY <2>2
  <2> PICK n \in Int : n = Len(p)
    BY <1>1
  <2>3. Smaller(m, n) \in Int /\ Smaller(m, n) <= n
    BY SmallerIs
  <2>4. QED
    BY <2>2, <2>3
<1> HIDE DEF a, b
<1>4. SubSeq(p, a, b) \in Seq(S)
  BY <1>1, <1>2, <1>3
<1>5. QED
  BY <1>4 DEF a, b

\* A tree pays its participants, or smaller trees.
LEMMA TreeOuts ==
    ASSUME NEW S, NEW p \in Seq(S), NEW r \in Nat \ {0},
           NEW coin, coin.contract = TreePay(p, r), NEW way \in Ways(coin)
    PROVE  /\ way.name = "expand" /\ way.asked = {} /\ ~way.free
           /\ \/ way.tx.outs = p
              \/ /\ DOMAIN way.tx.outs = 1..Len(way.tx.outs)
                 /\ \A i \in 1..Len(way.tx.outs) :
                      \E q \in Seq(S) : way.tx.outs[i].to = TreePay(q, r)
<1>1. /\ coin.contract.is = "TreePay" /\ coin.contract.participants = p
      /\ coin.contract.radix = r
  BY DEF TreePay
<1> DEFINE size == Len(p) \div r
           branches == Chunks(p, size)
           deeper == [i \in 1..Len(branches) |-> Out(TreePay(branches[i], r), OutSats(branches[i]))]
           outs == IF Len(p) > r THEN deeper ELSE p
<1>2. Ways(coin) = TreePayWays(coin.contract)
  BY <1>1, Zenon DEF Ways
<1>3. way = Template("expand", Trivial, Tx(outs))
  BY <1>1, <1>2 DEF TreePayWays
<1>4. way.name = "expand" /\ way.asked = {} /\ ~way.free /\ way.tx.outs = outs
  <2> HIDE DEF outs
  <2>1. QED
    BY <1>3 DEF Template, Tx
<1>5. CASE ~ Len(p) > r
  BY <1>4, <1>5
<1>6. CASE Len(p) > r
  <2>1. size \in Nat \ {0}
    <3>1. \A n \in Nat, m \in Nat \ {0} : n > m => n \div m \in Nat \ {0}
      OBVIOUS
    <3>2. Len(p) \in Nat
      OBVIOUS
    <3>3. QED
      BY <1>6, <3>1, <3>2
  <2> DEFINE count == (Len(p) + size - 1) \div size
  <2>2. count \in Nat
    <3> HIDE DEF size
    <3>1. \A n \in Nat, m \in Nat \ {0} : n \div m \in Nat
      OBVIOUS
    <3>2. Len(p) + size - 1 \in Nat
      BY <2>1
    <3>3. QED
      BY <2>1, <3>1, <3>2
  <2> HIDE DEF size, count
  <2>3. ASSUME NEW i \in 1..count PROVE branches[i] \in Seq(S)
    <3>1. branches[i] = SubSeq(p, (i - 1) * size + 1, Smaller(i * size, Len(p)))
      BY <2>3 DEF Chunks, count
    <3>2. i \in Nat \ {0}
      BY <2>2
    <3>3. QED
      BY <2>1, <3>1, <3>2, ChunksAre
  <2>4. Len(branches) = count
    BY <2>2 DEF Chunks, count
  <2>5. /\ outs = deeper /\ DOMAIN deeper = 1..count /\ 1..Len(deeper) = 1..count
        /\ \A i \in 1..count : deeper[i].to = TreePay(branches[i], r)
    BY <1>6, <2>2, <2>4 DEF Out
  <2> HIDE DEF branches, deeper, outs
  <2>6. \A i \in 1..count : \E q \in Seq(S) : deeper[i].to = TreePay(q, r)
    BY <2>3, <2>5
  <2>7. QED
    BY <1>4, <2>5, <2>6
<1>7. QED
  BY <1>5, <1>6

LEMMA TreeLeadsOn ==
    ASSUME NEW v, VaultFields(v), v.cold.who # v.hot.who, NEW coin, NEW way \in Ways(coin),
           v.cold.is = "SplitTree", IsTree(v, coin)
    PROVE  SpendsOfVault(v, coin, way)
<1> DEFINE pay == PayTo(v.cold.who, v.cold.max)
           r == v.cold.radix
           outs == way.tx.outs
<1>1. PICK p \in Seq({pay}) : coin.contract = TreePay(p, r)
  BY DEF IsTree
<1>2. r \in Nat \ {0}
  BY DEF VaultFields, Address
<1> HIDE DEF r
<1>3. /\ way.name = "expand"
      /\ \/ outs = p
         \/ /\ DOMAIN outs = 1..Len(outs)
            /\ \A i \in 1..Len(outs) : \E q \in Seq({pay}) : outs[i].to = TreePay(q, r)
  BY <1>1, <1>2, TreeOuts
<1> HIDE DEF outs
<1>4. CASE outs = p
  <2>1. \A i \in DOMAIN p : p[i].to = Address(v.cold.who)
    BY DEF PayTo, Out
  <2>2. \A i \in 1..Len(p) : i \in DOMAIN p
    OBVIOUS
  <2>3. /\ Address(v.cold.who) # Address(v.hot.who)
        /\ Address(v.cold.who).is = "Address"
    BY DEF Address
  <2>4. LeadOn(v, coin, outs)
    BY <1>4, <2>1, <2>2, <2>3, Zenon DEF LeadOn
  <2>5. QED
    BY <1>3, <2>4, LeadsOn DEF outs
<1>5. CASE /\ DOMAIN outs = 1..Len(outs)
           /\ \A i \in 1..Len(outs) : \E q \in Seq({pay}) : outs[i].to = TreePay(q, r)
  <2>1. ASSUME NEW i \in 1..Len(outs) PROVE outs[i].to # Address(v.hot.who)
    <3>1. PICK q : outs[i].to = TreePay(q, r)
      BY <1>5
    <3>2. TreePay(q, r).is = "TreePay" /\ Address(v.hot.who).is = "Address"
      BY DEF TreePay, Address
    <3>3. QED
      BY <3>1, <3>2
  <2>2. ASSUME NEW i \in 1..Len(outs), NEW c, c.contract = outs[i].to PROVE OfVault(v, c)
    <3>1. IsTree(v, c)
      BY <1>5, <2>2 DEF IsTree, r
    <3>2. QED
      BY <3>1 DEF OfVault
  <2>3. LeadOn(v, coin, outs)
    BY <1>5, <2>1, <2>2, Zenon DEF LeadOn
  <2>4. QED
    BY <1>3, <2>3, LeadsOn DEF outs
<1>6. QED
  BY <1>3, <1>4, <1>5

LEMMA SentLeadsOn ==
    ASSUME NEW v, VaultFields(v), v.cold.who # v.hot.who, NEW coin, NEW way \in Ways(coin),
           IsSent(v, coin)
    PROVE  SpendsOfVault(v, coin, way)
<1> DEFINE c == coin.contract
           undo == Template("undo", Trivial, Tx(<<Out(c.from, c.sats)>>))
           complete == Template("complete", Trivial,
                          [Tx(<<Out(c.to, c.sats)>>) EXCEPT !.seq = c.timeout])
<1>1. /\ c.is = "UndoSend" /\ c.from = ColdStorage(v.cold, v.step) /\ c.to = v.hot
      /\ c.sats = v.step
  BY DEF IsSent, UndoSend
<1>2. Ways(coin) = {undo, complete}
  BY <1>1, Zenon DEF Ways, UndoSendWays
<1>3. CASE way = undo
  <2>1. way.name = "undo" /\ way.tx.outs = <<Out(ColdStorage(v.cold, v.step), c.sats)>>
    BY <1>1, <1>3, TemplateIs, TxIs
  <2>2. LeadOn(v, coin, way.tx.outs)
    BY <2>1, ToCold DEF VaultFields
  <2>3. QED
    BY <2>1, <2>2, LeadsOn
<1>4. CASE way = complete
  <2>1. way.name = "complete" /\ way.tx.outs = <<Out(v.hot, v.step)>>
    BY <1>1, <1>4 DEF Template, Tx
  <2>2. v.hot = Address(v.hot.who) /\ v.hot.is = "Address" /\ v.step \in Int
    BY DEF VaultFields, Address
  <2>3. PaidTo(v.hot.who, way.tx.outs) = v.step
    BY <2>1, <2>2, PaidOnce
  <2>4. ~ \E new \in NewCoins(coin, way) : TRUE
    <3>1. ASSUME NEW new \in NewCoins(coin, way) PROVE FALSE
      <4>1. PICK i \in 1..Len(way.tx.outs) : way.tx.outs[i].to.is # "Address"
        BY NewCoinsAre
      <4>2. i = 1 /\ way.tx.outs[1].to = v.hot
        BY <2>1, <4>1 DEF Out
      <4>3. QED
        BY <2>2, <4>1, <4>2
    <3>2. QED
      BY <3>1
  <2>5. QED
    BY <2>1, <2>3, <2>4 DEF SpendsOfVault
<1>5. QED
  BY <1>2, <1>3, <1>4

LEMMA TwoOuts ==
    ASSUME NEW x, NEW y
    PROVE  /\ Len(<<x>> \o <<y>>) = 2
           /\ (<<x>> \o <<y>>)[1] = x /\ (<<x>> \o <<y>>)[2] = y
OBVIOUS

LEMMA OneLater ==
    ASSUME NEW n \in Nat, NEW t \in Nat, NEW b \in Nat, NEW at \in Nat,
           n * t <= b, at - b >= t
    PROVE  (n + 1) * t <= at
<1>1. (n + 1) * t = n * t + t /\ n * t \in Nat
  OBVIOUS
<1>2. QED
  BY <1>1

LEMMA LeftLeadsOn ==
    ASSUME NEW v, VaultFields(v), v.cold.who # v.hot.who, NEW coin, NEW way \in Ways(coin),
           now \in Times, coin.born \in Times, LocksExpired(coin, way.tx, now),
           IsLeft(v, coin)
    PROVE  SpendsOfVault(v, coin, way)
<1>1. PICK n \in Nat : coin.contract = Vault(v.cold, v.hot, n, v.step, v.timeout, v.mature)
  BY DEF IsLeft
<1> DEFINE c == coin.contract
<1>2. /\ c.is = "Vault" /\ c.cold = v.cold /\ c.hot = v.hot /\ c.steps = n
      /\ c.step = v.step /\ c.timeout = v.timeout /\ c.mature = v.mature
  BY <1>1 DEF Vault
<1>3. Ways(coin) = VaultWays(c)
  BY <1>2, Zenon DEF Ways
<1>4. v.step \in Nat /\ v.timeout \in Nat
  BY DEF VaultFields
<1>5. CASE way = Template("to_cold", Trivial, VaultToCold(c))
  <2> DEFINE sats == v.step * n
  <2>1. way.name = "to_cold" /\ way.tx.outs = <<Out(ColdStorage(v.cold, sats), sats)>>
    BY <1>2, <1>5, TemplateIs, TxIs DEF VaultToCold
  <2>2. sats \in Nat
    <3>1. \A k \in Nat, m \in Nat : k * m \in Nat
      OBVIOUS
    <3>2. QED
      BY <1>4, <3>1
  <2> HIDE DEF sats
  <2>3. LeadOn(v, coin, way.tx.outs)
    BY <2>1, <2>2, ToCold
  <2>4. QED
    BY <2>1, <2>3, LeadsOn
<1>6. CASE way = Template("step", Trivial, VaultStep(c))
  <2> DEFINE sent == UndoSend(ColdStorage(v.cold, v.step), v.hot, v.step, v.mature)
             rest == Vault(v.cold, v.hot, n - 1, v.step, v.timeout, v.mature)
             outs == <<Out(sent, v.step)>>
                      \o (IF n > 1 THEN <<Out(rest, v.step * (n - 1))>> ELSE <<>>)
  <2>1. [c EXCEPT !.steps = @ - 1] = rest
    BY <1>1, <1>2 DEF Vault
  <2>2. way.name = "step" /\ way.tx.outs = outs /\ way.tx.seq = v.timeout
    BY <1>2, <1>6, <2>1 DEF VaultStep, Template, Tx
  <2>3. now.blocks - coin.born.blocks >= v.timeout
    BY <2>2 DEF LocksExpired
  <2>4. /\ Len(coin.id) \in Nat /\ coin.id \in Seq({2})
        /\ Len(coin.id) * v.timeout <= coin.born.blocks
    BY DEF IsLeft
  <2>5. (Len(coin.id) + 1) * v.timeout <= now.blocks
    <3>1. coin.born.blocks \in Nat /\ now.blocks \in Nat
      BY DEF Times
    <3>2. QED
      BY <1>4, <2>3, <2>4, <3>1, OneLater
  <2>6. \A i \in 1..Len(outs) : \/ i = 1 /\ outs[i].to = sent
                                \/ i = 2 /\ n > 1 /\ outs[i].to = rest
    <3>1. CASE n > 1
      <4>1. outs = <<Out(sent, v.step)>> \o <<Out(rest, v.step * (n - 1))>>
        BY <3>1
      <4> HIDE DEF outs, sent, rest
      <4>2. Len(outs) = 2
        BY <4>1, TwoOuts
      <4>3. outs[1] = Out(sent, v.step) /\ outs[2] = Out(rest, v.step * (n - 1))
        BY <4>1, TwoOuts
      <4>4. outs[1].to = sent /\ outs[2].to = rest
        BY <4>3 DEF Out
      <4>5. QED
        BY <3>1, <4>2, <4>4
    <3>2. CASE ~ n > 1
      <4>1. outs = <<Out(sent, v.step)>>
        BY <3>2
      <4> HIDE DEF outs, sent, rest
      <4>2. QED
        BY <4>1 DEF Out
    <3>3. QED
      BY <3>1, <3>2
  <2>7. DOMAIN outs = 1..Len(outs)
    OBVIOUS
  <2>8. sent.is = "UndoSend" /\ rest.is = "Vault" /\ Address(v.hot.who).is = "Address"
    BY DEF UndoSend, Vault, Address
  <2> HIDE DEF outs, c
  <2>9. \A i \in DOMAIN outs : outs[i].to # Address(v.hot.who)
    BY <2>6, <2>7, <2>8
  <2>10. ASSUME NEW i \in 1..Len(outs), NEW d, d.id = Append(coin.id, i),
                d.contract = outs[i].to, d.born = now
         PROVE  OfVault(v, d)
    <3>1. Len(d.id) = Len(coin.id) + 1
      BY <2>4, <2>10
    <3>2. CASE i = 1 /\ outs[i].to = sent
      <4>1. IsSent(v, d)
        BY <2>4, <2>5, <2>10, <3>1, <3>2 DEF IsSent
      <4>2. QED
        BY <4>1 DEF OfVault
    <3>3. CASE i = 2 /\ n > 1 /\ outs[i].to = rest
      <4>1. d.id \in Seq({2})
        BY <2>4, <2>10, <3>3
      <4>2. n - 1 \in Nat
        BY <3>3
      <4>3. d.contract = Vault(v.cold, v.hot, n - 1, v.step, v.timeout, v.mature)
        BY <2>10, <3>3
      <4> HIDE DEF rest, sent
      <4>4. IsLeft(v, d)
        BY <2>5, <2>10, <3>1, <4>1, <4>2, <4>3 DEF IsLeft
      <4>5. QED
        BY <4>4 DEF OfVault
    <3>4. QED
      BY <2>6, <3>2, <3>3
  <2>11. LeadOn(v, coin, outs)
    BY <2>9, <2>10 DEF LeadOn
  <2>12. QED
    BY <2>2, <2>11, LeadsOn
<1>7. QED
  BY <1>3, <1>5, <1>6 DEF VaultWays

LEMMA VaultSpends ==
    ASSUME NEW v, VaultFields(v), v.cold.who # v.hot.who, NEW coin, NEW way \in Ways(coin),
           now \in Times, coin.born \in Times, LocksExpired(coin, way.tx, now),
           OfVault(v, coin)
    PROVE  SpendsOfVault(v, coin, way)
BY LeftLeadsOn, SentLeadsOn, TreeLeadsOn DEF OfVault

LEMMA VaultInvInit == ASSUME Init PROVE VaultInv
<1> SUFFICES ASSUME IsVaultPlay PROVE VaultCoins
  BY DEF VaultInv
<1> DEFINE first == Coin(<<>>, TheVault, Plays[play].sats, now)
<1>1. coins = {first} /\ spent = {} /\ now.blocks = 0
  BY DEF Init, TheVault
<1>2. VaultFields(TheVault)
  BY PlaysAssumption DEF Init, TheVault, IsVaultPlay
<1>3. first.id = <<>> /\ first.contract = TheVault /\ first.born = now
  BY DEF Coin
<1> HIDE DEF first
<1>4. IsLeft(TheVault, first)
  <2>1. first.id \in Seq({2}) /\ Len(first.id) = 0
    BY <1>3
  <2>2. \A n \in Nat : 0 * n <= 0
    OBVIOUS
  <2>3. Len(first.id) * TheVault.timeout <= first.born.blocks
    BY <1>1, <1>2, <1>3, <2>1, <2>2 DEF VaultFields
  <2>4. \E n \in Nat : first.contract =
          Vault(TheVault.cold, TheVault.hot, n, TheVault.step, TheVault.timeout, TheVault.mature)
    BY <1>2, <1>3 DEF VaultFields
  <2>5. QED
    BY <2>1, <2>3, <2>4 DEF IsLeft
<1>5. Ever = {first} /\ Completed = {}
  BY <1>1 DEF Ever, Completed
<1>6. Received(TheVault.hot.who) = 0
  <2>1. DOMAIN [s \in spent |-> PaidTo(TheVault.hot.who, s.way.tx.outs)] = {}
    BY <1>1
  <2>2. QED
    BY <2>1, SumEmpty DEF Received, SumFunction
<1>7. TheVault.step * Cardinality(Completed) = 0
  <2>1. Cardinality(Completed) = 0 /\ TheVault.step \in Nat
    BY <1>2, <1>5, FS_EmptySet DEF VaultFields
  <2>2. QED
    BY <2>1
<1>8. QED
  BY <1>1, <1>4, <1>5, <1>6, <1>7 DEF VaultCoins, OfVault, Completed

LEMMA OneMoreStep ==
    ASSUME NEW step \in Nat, NEW n \in Nat
    PROVE  step * (n + 1) = step * n + step
OBVIOUS

LEMMA VaultInvSpend ==
    ASSUME Ledger, VaultInv, NEW coin, NEW way, NEW s, Leaves(coin, way, s)
    PROVE  VaultInv'
<1>1. /\ coin \in coins /\ coin \in Ever /\ way \in Ways(coin) /\ s \notin spent
      /\ spent' = spent \cup {s} /\ s.coin = coin /\ s.way = way
      /\ play' = play /\ LocksExpired(coin, way.tx, now)
  BY DEF Leaves, Ever, Ledger, LedgerUnique
<1>2. TheVault' = TheVault /\ (IsVaultPlay)' = IsVaultPlay
  BY <1>1 DEF TheVault, IsVaultPlay
<1> SUFFICES ASSUME IsVaultPlay PROVE VaultCoins'
  BY <1>2 DEF VaultInv
<1>3. VaultFields(TheVault) /\ VaultCoins /\ TheVault.cold.who # TheVault.hot.who
  BY PlaysAssumption DEF Ledger, LedgerTypes, TheVault, IsVaultPlay, VaultInv
<1>4. SpendsOfVault(TheVault, coin, way)
  <2>1. now \in Times /\ coin.born \in Times
    BY <1>1 DEF Ledger, LedgerTypes
  <2>2. OfVault(TheVault, coin)
    BY <1>1, <1>3 DEF VaultCoins
  <2>3. QED
    BY <1>1, <1>3, <2>1, <2>2, VaultSpends
<1>5. \A c \in Ever' : OfVault(TheVault, c)
  BY <1>3, <1>4, EverAfter DEF VaultCoins, SpendsOfVault
<1>6. Completed' = IF way.name = "complete" THEN Completed \cup {s} ELSE Completed
  BY <1>1 DEF Completed
<1>7. \A t \in Completed' : IsSent(TheVault, t.coin)
  BY <1>1, <1>3, <1>4, <1>6 DEF VaultCoins, SpendsOfVault
<1>8. TheVault.step \in Nat
  BY <1>3 DEF VaultFields
<1>9. PaidTo(TheVault.hot.who, s.way.tx.outs) = IF way.name = "complete" THEN TheVault.step ELSE 0
  BY <1>1, <1>4 DEF SpendsOfVault
<1>10. \A t \in spent \cup {s} : PaidTo(TheVault.hot.who, t.way.tx.outs) \in Int
  BY <1>3, <1>8, <1>9 DEF VaultCoins
<1>11. IsFiniteSet(spent) /\ IsFiniteSet(Completed) /\ Completed \in SUBSET spent
  <2>1. Completed \in SUBSET spent
    BY DEF Completed
  <2>2. QED
    BY <2>1, FS_Subset DEF Ledger, LedgerTypes
<1>12. Received(TheVault.hot.who)' = Received(TheVault.hot.who) + PaidTo(TheVault.hot.who, s.way.tx.outs)
  <2> PICK who : who = TheVault.hot.who
    OBVIOUS
  <2>1. Received(who)' = Received(who) + PaidTo(who, s.way.tx.outs)
    BY <1>1, <1>10, <1>11, ReceivedMore
  <2>2. QED
    BY <1>2, <2>1
<1>13. Received(TheVault.hot.who)' = TheVault.step * Cardinality(Completed')
  <2>1. Received(TheVault.hot.who) = TheVault.step * Cardinality(Completed)
    BY <1>3 DEF VaultCoins
  <2>2. Cardinality(Completed) \in Nat
    BY <1>11, FS_CardinalityType
  <2>3. CASE way.name = "complete"
    <3>1. Cardinality(Completed') = Cardinality(Completed) + 1
      BY <1>1, <1>6, <1>11, <2>3, FS_AddElement
    <3>2. QED
      BY <1>8, <1>9, <1>12, <2>1, <2>2, <2>3, <3>1, OneMoreStep
  <2>4. CASE way.name # "complete"
    <3>1. Completed' = Completed
      BY <1>6, <2>4
    <3>2. TheVault.step * Cardinality(Completed) \in Int
      BY <1>8, <2>2
    <3>3. QED
      BY <1>9, <1>12, <2>1, <2>4, <3>1, <3>2
  <2>5. QED
    BY <2>3, <2>4
<1>14. QED
  BY <1>1, <1>2, <1>5, <1>7, <1>10, <1>13 DEF VaultCoins

LEMMA VaultInvNext == Ledger /\ VaultInv /\ [Next]_vars => VaultInv'
<1> SUFFICES ASSUME Ledger, VaultInv, [Next]_vars PROVE VaultInv'
  OBVIOUS
<1>1. CASE SomeSpend
  <2>1. PICK coin \in coins : \E way \in Ways(coin) : Spend(coin, way)
    BY <1>1 DEF SomeSpend
  <2> PICK way \in Ways(coin) : Spend(coin, way)
    BY <2>1
  <2>2. PICK s : Leaves(coin, way, s)
    BY <2>1, SpendLeaves
  <2>3. QED
    BY <2>2, VaultInvSpend
<1>2. CASE SomeTick \/ UNCHANGED vars
  <2>1. UNCHANGED <<play, coins, spent>>
    BY <1>2 DEF SomeTick, Tick, vars
  <2>2. QED
    BY <2>1 DEF VaultInv, VaultCoins, IsVaultPlay, TheVault, Completed, Ever, Received, OfVault,
                IsLeft, IsSent, IsTree
<1>3. QED
  BY <1>1, <1>2 DEF Next

\* n coins that steps sent have n depths, so that one of them is n steps deep.
LEMMA DeepOne ==
    ASSUME Ledger, VaultCoins, Completed # {}
    PROVE  \E s \in Completed : /\ Len(s.coin.id) >= Cardinality(Completed)
                                /\ Cardinality(Completed) \in Nat
<1> DEFINE n == Cardinality(Completed)
           depth == [s \in Completed |-> Len(s.coin.id)]
<1>1. IsFiniteSet(Completed) /\ n \in Nat
  <2>1. Completed \in SUBSET spent
    BY DEF Completed
  <2>2. QED
    BY <2>1, FS_Subset, FS_CardinalityType DEF Ledger, LedgerTypes
<1>2. n # 0
  BY <1>1, FS_EmptySet
<1>3. SUFFICES ASSUME \A s \in Completed : ~ (Len(s.coin.id) >= n) PROVE FALSE
  BY <1>1
<1>4. ASSUME NEW s \in Completed
      PROVE  \E id \in Seq({2}) : s.coin.id = Append(id, 1) /\ Len(s.coin.id) = Len(id) + 1
                                  /\ Len(id) \in Nat
  <2>1. PICK id \in Seq({2}) : s.coin.id = Append(id, 1)
    BY DEF VaultCoins, IsSent
  <2>2. QED
    BY <2>1
<1>5. depth \in Injection(Completed, 1..(n - 1))
  <2>1. \A s \in Completed : Len(s.coin.id) \in 1..(n - 1)
    BY <1>1, <1>3, <1>4
  <2>2. ASSUME NEW s \in Completed, NEW t \in Completed, Len(s.coin.id) = Len(t.coin.id)
        PROVE  s = t
    <3>1. PICK x \in Seq({2}) : s.coin.id = Append(x, 1) /\ Len(s.coin.id) = Len(x) + 1
                                  /\ Len(x) \in Nat
      BY <1>4
    <3>2. PICK y \in Seq({2}) : t.coin.id = Append(y, 1) /\ Len(t.coin.id) = Len(y) + 1
                                  /\ Len(y) \in Nat
      BY <1>4
    <3>3. x = y
      BY <2>2, <3>1, <3>2
    <3>4. s.coin = t.coin
      <4>1. s.coin \in Ever /\ t.coin \in Ever
        BY DEF Ever, Completed
      <4>2. s.coin.id = t.coin.id
        BY <3>1, <3>2, <3>3
      <4>3. QED
        BY <4>1, <4>2 DEF Ledger, LedgerUnique
    <3>5. QED
      BY <3>4 DEF Ledger, LedgerUnique, Completed
  <2>3. depth \in [Completed -> 1..(n - 1)]
    BY <2>1
  <2>4. \A s, t \in Completed : depth[s] = depth[t] => s = t
    BY <2>2
  <2> HIDE DEF depth
  <2>5. QED
    BY <2>3, <2>4 DEF Injection, IsInjective
<1>6. IsFiniteSet(1..(n - 1)) /\ Cardinality(1..(n - 1)) = n - 1
  <2> HIDE DEF n
  <2>1. PICK m \in Nat : m = n - 1
    BY <1>1, <1>2
  <2>2. IsFiniteSet(1..m) /\ Cardinality(1..m) = IF 1 > m THEN 0 ELSE m - 1 + 1
    BY FS_Interval
  <2>3. QED
    BY <2>1, <2>2
<1> HIDE DEF depth
<1>7. n <= n - 1
  BY <1>5, <1>6, FS_Injection
<1>8. QED
  BY <1>1, <1>7

LEMMA Paced ==
    ASSUME NEW n \in Nat, NEW len \in Nat, len >= n, NEW t \in Nat, NEW mature \in Nat,
           NEW step \in Nat, NEW born \in Nat, NEW at \in Nat, NEW height \in Nat,
           len * t <= born, at - born >= mature, at <= height
    PROVE  (step * n) * t <= step * Larger(height - mature, 0)
<1>1. n * t <= len * t /\ n * t \in Nat /\ len * t \in Nat
  <2>1. PICK d \in Nat : len = n + d
    <3>1. len - n \in Nat /\ len = n + (len - n)
      OBVIOUS
    <3>2. QED
      BY <3>1
  <2>2. (n + d) * t = n * t + d * t /\ d * t \in Nat /\ n * t \in Nat
    OBVIOUS
  <2>3. QED
    BY <2>1, <2>2
<1>2. n * t <= Larger(height - mature, 0) /\ Larger(height - mature, 0) \in Nat
  BY <1>1 DEF Larger
<1>3. \A a \in Nat, b \in Nat : a <= b => step * a <= step * b
  <2>1. ASSUME NEW a \in Nat, NEW b \in Nat, a <= b PROVE step * a <= step * b
    <3>1. PICK d \in Nat : b = a + d
      <4>1. b - a \in Nat /\ b = a + (b - a)
        BY <2>1
      <4>2. QED
        BY <4>1
    <3>2. step * (a + d) = step * a + step * d /\ step * a \in Nat /\ step * d \in Nat
      OBVIOUS
    <3>3. QED
      BY <3>1, <3>2
  <2>2. QED
    BY <2>1
<1>4. (step * n) * t = step * (n * t)
  OBVIOUS
<1>5. QED
  BY <1>1, <1>2, <1>3, <1>4

\* Whatever a vault holds and however slow it is, its hot address never got more
\* than a step for each timeout of the blocks that matured (VaultRate: vault.rs,
\* undo_send.rs, treepay.rs).
THEOREM VaultRateHolds == Spec => []VaultRate
<1>1. Init => VaultInv
  BY VaultInvInit
<1>2. Ledger /\ VaultInv /\ [Next]_vars => VaultInv'
  BY VaultInvNext
<1>3. Ledger /\ VaultInv => VaultRate
  <2> SUFFICES ASSUME Ledger, VaultInv, IsVaultPlay
               PROVE  Received(TheVault.hot.who) * TheVault.timeout
                        <= TheVault.step * Larger(now.blocks - TheVault.mature, 0)
    BY DEF VaultRate, IsVaultPlay, TheVault
  <2>1. VaultCoins /\ VaultFields(TheVault)
    BY PlaysAssumption DEF Ledger, LedgerTypes, TheVault, IsVaultPlay, VaultInv
  <2>2. Received(TheVault.hot.who) = TheVault.step * Cardinality(Completed)
    BY <2>1 DEF VaultCoins
  <2>3. /\ TheVault.step \in Nat /\ TheVault.timeout \in Nat /\ TheVault.mature \in Nat
        /\ now.blocks \in Nat
    BY <2>1 DEF VaultFields, Ledger, LedgerTypes, Times
  <2>4. CASE Completed = {}
    <3>1. Cardinality(Completed) = 0
      BY <2>4, FS_EmptySet
    <3>2. Received(TheVault.hot.who) * TheVault.timeout = 0
      BY <2>2, <2>3, <3>1
    <3>3. Larger(now.blocks - TheVault.mature, 0) \in Nat
      BY <2>3 DEF Larger
    <3>4. \A a \in Nat, b \in Nat : a * b \in Nat
      OBVIOUS
    <3>5. QED
      BY <2>3, <3>2, <3>3, <3>4
  <2>5. CASE Completed # {}
    <3>1. PICK s \in Completed : /\ Len(s.coin.id) >= Cardinality(Completed)
                                 /\ Cardinality(Completed) \in Nat
      BY <2>1, <2>5, DeepOne
    <3>2. IsSent(TheVault, s.coin) /\ Lawful(s) /\ s.way.name = "complete"
      BY <2>1 DEF VaultCoins, Ledger, Completed
    <3>3. s.at.blocks - s.coin.born.blocks >= TheVault.mature
      <4>1. /\ s.coin.contract.is = "UndoSend"
            /\ s.coin.contract.timeout = TheVault.mature
        BY <3>2 DEF IsSent, UndoSend
      <4>2. s.way \in UndoSendWays(s.coin.contract)
        <5>1. Ways(s.coin) = UndoSendWays(s.coin.contract)
          BY <4>1, Zenon DEF Ways
        <5>2. QED
          BY <3>2, <5>1 DEF Lawful
      <4>3. s.way.tx.seq = TheVault.mature
        BY <3>2, <4>1, <4>2 DEF UndoSendWays, Template, Tx
      <4>4. QED
        BY <3>2, <4>3 DEF Lawful, LocksExpired
    <3>4. /\ Len(s.coin.id) \in Nat
          /\ s.coin.born.blocks \in Nat /\ s.at.blocks \in Nat /\ s.at.blocks <= now.blocks
          /\ Len(s.coin.id) * TheVault.timeout <= s.coin.born.blocks
      BY <3>2 DEF IsSent, Lawful, Times, NotAfter
    <3>5. QED
      BY <2>2, <2>3, <3>1, <3>3, <3>4, Paced
  <2>6. QED
    BY <2>4, <2>5
<1>4. QED
  BY <1>1, <1>2, <1>3, LedgerHolds, PTL DEF Spec
-----------------------------------------------------------------------------
(* Works and their sales. *)

\* The arithmetic of a royalty: one rounding to a millionth, one to a sat.
LEMMA Quotient ==
    ASSUME NEW a \in Nat, NEW m \in Nat \ {0}
    PROVE  /\ a \div m \in Nat /\ (a \div m) * m <= a /\ a < (a \div m) * m + m
OBVIOUS

LEMMA TimesNat == ASSUME NEW a \in Nat, NEW b \in Nat PROVE a * b \in Nat
OBVIOUS

LEMMA TimesGrows ==
    ASSUME NEW a \in Int, NEW b \in Int, a <= b, NEW k \in Nat
    PROVE  a * k <= b * k
<1>1. PICK d \in Nat : b = a + d
  <2>1. b - a \in Nat /\ b = a + (b - a)
    OBVIOUS
  <2>2. QED
    BY <2>1
<1>2. (a + d) * k = a * k + d * k /\ d * k \in Nat /\ a * k \in Int
  OBVIOUS
<1>3. QED
  BY <1>1, <1>2

\* rate is the royalty r1/r2 in millionths (p), part what it makes of paid.
LEMMA RoyaltyRounds ==
    ASSUME NEW p \in Nat \ {0}, NEW r1 \in Nat, NEW r2 \in Nat \ {0}, NEW paid \in Nat
    PROVE  LET rate == (2 * p * r1 + r2) \div (2 * r2)
               part == (paid * rate) \div p
           IN  /\ part \in Nat
               /\ part * (2 * p * r2) <= paid * (2 * p) * r1 + paid * r2
               /\ paid * (2 * p) * r1 - paid * r2 < (part + 1) * (2 * p * r2)
<1> DEFINE a == 2 * p * r1 + r2
           m == 2 * r2
           rate == a \div m
           part == (paid * rate) \div p
<1>1. a \in Nat /\ m \in Nat \ {0}
  OBVIOUS
<1>2. rate \in Nat /\ rate * m <= a /\ a < rate * m + m
  <2> HIDE DEF a, m
  <2>1. QED
    BY <1>1, Quotient
<1> HIDE DEF rate
<1>3. paid * rate \in Nat
  BY <1>2, TimesNat
<1>4. part \in Nat /\ part * p <= paid * rate /\ paid * rate + 1 <= part * p + p
  <2>1. part \in Nat /\ part * p <= paid * rate /\ paid * rate < part * p + p
    <3> PICK x \in Nat : x = paid * rate
      BY <1>3
    <3>1. x \div p \in Nat /\ (x \div p) * p <= x /\ x < (x \div p) * p + p
      BY Quotient
    <3>2. QED
      BY <3>1
  <2> HIDE DEF part
  <2>2. part * p \in Nat
    BY <2>1, TimesNat
  <2>3. QED
    BY <2>1, <2>2, <1>3
<1> HIDE DEF part
<1>5. part * p \in Nat /\ rate * m \in Nat
  BY <1>1, <1>2, <1>4, TimesNat
<1>6. (part * p) * m <= (paid * rate) * m
  BY <1>1, <1>3, <1>4, <1>5, TimesGrows
<1>7. (rate * m) * paid <= a * paid
  BY <1>1, <1>2, <1>5, TimesGrows
<1>8. (paid * rate) * m = (rate * m) * paid
  BY <1>1, <1>2
<1>9. (part * p) * m = part * (2 * p * r2)
  BY <1>4
<1>10. a * paid = paid * (2 * p) * r1 + paid * r2
  OBVIOUS
<1>11. part * (2 * p * r2) <= paid * (2 * p) * r1 + paid * r2
  <2>1. /\ (part * p) * m \in Int /\ (paid * rate) * m \in Int /\ a * paid \in Int
    BY <1>1, <1>3, <1>5
  <2> HIDE DEF a, m
  <2>2. (part * p) * m <= a * paid
    BY <2>1, <1>6, <1>7, <1>8
  <2>3. QED
    BY <2>2, <1>9, <1>10
<1>12. paid * (2 * p) * r1 - paid * r2 < (part + 1) * (2 * p * r2)
  <2>1. (paid * rate + 1) * m <= (part * p + p) * m
    BY <1>1, <1>3, <1>4, <1>5, TimesGrows
  <2>2. (part * p + p) * m = (part + 1) * (2 * p * r2)
    BY <1>4
  <2>3. (paid * rate + 1) * m = (rate * m) * paid + m
    BY <1>1, <1>2
  <2>4. (a - m) * paid <= (rate * m) * paid
    <3>1. a - m <= rate * m /\ a - m \in Int
      BY <1>1, <1>2, <1>5
    <3>2. QED
      BY <1>5, <3>1, TimesGrows
  <2>5. (a - m) * paid = paid * (2 * p) * r1 - paid * r2
    OBVIOUS
  <2>6. /\ (rate * m) * paid \in Int /\ (a - m) * paid \in Int
        /\ (part * p + p) * m \in Int
    BY <1>1, <1>5
  <2> HIDE DEF a, m
  <2>7. (a - m) * paid < (part * p + p) * m
    BY <1>1, <2>1, <2>3, <2>4, <2>6
  <2>8. QED
    BY <2>2, <2>5, <2>7
<1>13. QED
  BY <1>4, <1>11, <1>12 DEF part, rate

LEMMA RoyaltyIs ==
    ASSUME NEW data, DataFields(data), NEW paid \in Nat
    PROVE  /\ RoyaltyForArtist(data, paid) \in Nat
           /\ IsRoyalty(RoyaltyForArtist(data, paid), data.royalty, paid)
<1> DEFINE r1 == data.royalty[1]
           r2 == data.royalty[2]
           part == RoyaltyForArtist(data, paid)
<1>1. r1 \in Nat /\ r2 \in Nat \ {0} /\ Precision \in Nat \ {0}
  BY DEF DataFields, Precision
<1>2. part = (paid * ((2 * Precision * r1 + r2) \div (2 * r2))) \div Precision
  BY DEF RoyaltyForArtist
<1> HIDE DEF r1, r2, part
<1>3. /\ part \in Nat
      /\ part * (2 * Precision * r2) <= paid * (2 * Precision) * r1 + paid * r2
      /\ paid * (2 * Precision) * r1 - paid * r2 < (part + 1) * (2 * Precision * r2)
  BY <1>1, <1>2, RoyaltyRounds
<1>4. IsRoyalty(part, data.royalty, paid)
  BY <1>3 DEF IsRoyalty, r1, r2
<1>5. QED
  BY <1>3, <1>4 DEF part

LEMMA FirstAndOne ==
    ASSUME NEW x, NEW y
    PROVE  LET s == <<x>> \o <<y>>
           IN  Head(s) = x /\ Tail(s) = <<y>> /\ \A i \in 1..Len(s) : s[i] \in {x, y}
<1> DEFINE s == <<x>> \o <<y>>
<1>1. Len(s) = 2 /\ s[1] = x /\ s[2] = y
  OBVIOUS
<1>2. s \in Seq({x, y})
  <2>1. <<x>> \in Seq({x, y}) /\ <<y>> \in Seq({x, y})
    OBVIOUS
  <2>2. QED
    BY <2>1
<1> HIDE DEF s
<1>3. s \in [1..2 -> {x, y}] /\ <<x, y>> \in [1..2 -> {x, y}]
  BY <1>1, <1>2
<1>4. s = <<x, y>>
  BY <1>1, <1>3
<1>5. Tail(<<x, y>>) = <<y>> /\ Head(<<x, y>>) = x
  OBVIOUS
<1>6. \A i \in 1..Len(s) : s[i] \in {x, y}
  BY <1>1
<1>7. QED
  BY <1>4, <1>5, <1>6 DEF s

LEMMA FirstAndTwo ==
    ASSUME NEW x, NEW y, NEW z
    PROVE  LET s == <<x>> \o <<y, z>>
           IN  Head(s) = x /\ Tail(s) = <<y, z>> /\ \A i \in 1..Len(s) : s[i] \in {x, y, z}
<1> DEFINE s == <<x>> \o <<y, z>>
           t == Tail(<<x, y, z>>)
<1>1. Len(s) = 3 /\ s[1] = x /\ s[2] = y /\ s[3] = z
  OBVIOUS
<1>2. s \in Seq({x, y, z})
  <2>1. <<x>> \in Seq({x, y, z}) /\ <<y, z>> \in Seq({x, y, z})
    OBVIOUS
  <2>2. QED
    BY <2>1
<1>3. t \in [1..2 -> {x, y, z}] /\ t[1] = y /\ t[2] = z /\ <<y, z>> \in [1..2 -> {x, y, z}]
  OBVIOUS
<1> HIDE DEF s, t
<1>4. s \in [1..3 -> {x, y, z}] /\ <<x, y, z>> \in [1..3 -> {x, y, z}]
  BY <1>1, <1>2
<1>5. s = <<x, y, z>> /\ t = <<y, z>>
  BY <1>1, <1>3, <1>4
<1>6. Head(<<x, y, z>>) = x
  OBVIOUS
<1>7. \A i \in 1..Len(s) : s[i] \in {x, y, z}
  BY <1>1
<1>8. QED
  BY <1>5, <1>6, <1>7 DEF s, t

LEMMA TransferParts ==
    ASSUME NEW data, NEW to, NEW price, NEW time
    PROVE  LET tx == Transfer(data, to, WorkSats, price, time)
           IN  /\ PartsOf(data, to, price, tx.outs)
               /\ tx.lock = time
<1> DEFINE tx == Transfer(data, to, WorkSats, price, time)
           work == Out(SimpleNFT([data EXCEPT !.owner = to]), WorkSats)
           one == PayTo(data.owner, price)
           rest == PayTo(data.owner, price - RoyaltyForArtist(data, price))
           part == PayTo(data.artist, RoyaltyForArtist(data, price))
<1>1. tx.outs = SaleOuts(data, to, WorkSats, price) /\ tx.lock = time
  BY DEF Transfer, Tx
<1>2. /\ one.to.is = "Address" /\ rest.to.is = "Address" /\ part.to.is = "Address"
  BY DEF PayTo, Out, Address
<1>3. CASE data.artist = "none"
  <2>1. tx.outs = <<work>> \o <<one>>
    BY <1>1, <1>3 DEF SaleOuts
  <2> HIDE DEF tx, work, one
  <2>2. Head(tx.outs) = work /\ Tail(tx.outs) = <<one>> /\ \A i \in 1..Len(tx.outs) : tx.outs[i] \in {work, one}
    BY <2>1, FirstAndOne
  <2>3. \A i \in 1..Len(tx.outs) : tx.outs[i].to.is # "Address" => tx.outs[i] = work
    BY <1>2, <2>2
  <2>4. QED
    BY <1>1, <1>3, <2>2, <2>3 DEF PartsOf, work, one, tx
<1>4. CASE data.artist # "none"
  <2>1. tx.outs = <<work>> \o <<rest, part>>
    BY <1>1, <1>4 DEF SaleOuts
  <2> HIDE DEF tx, work, rest, part
  <2>2. Head(tx.outs) = work /\ Tail(tx.outs) = <<rest, part>> /\ \A i \in 1..Len(tx.outs) : tx.outs[i] \in {work, rest, part}
    BY <2>1, FirstAndTwo
  <2>3. \A i \in 1..Len(tx.outs) : tx.outs[i].to.is # "Address" => tx.outs[i] = work
    BY <1>2, <2>2
  <2>4. QED
    BY <1>1, <1>4, <2>2, <2>3 DEF PartsOf, work, rest, part, tx
<1>5. QED
  BY <1>3, <1>4

\* The sums of one and of two outputs.
LEMMA SumOne ==
    ASSUME NEW x, x.sats \in Int
    PROVE  OutSats(<<x>>) = x.sats
<1>1. PICK f : f = [i \in DOMAIN <<x>> |-> <<x>>[i].sats]
  OBVIOUS
<1>2. DOMAIN f = {} \cup {1} /\ f[1] = x.sats
  BY <1>1
<1>3. OutSats(<<x>>) = SumFunctionOnSet(f, {} \cup {1})
  BY <1>1, <1>2, Zenon DEF OutSats, SumFunction
<1>4. IsFiniteSet({}) /\ 1 \notin {} /\ \A y \in {} \cup {1} : f[y] \in Int
  BY <1>2, FS_EmptySet
<1>5. SumFunctionOnSet(f, {} \cup {1}) = f[1] + SumFunctionOnSet(f, {})
  BY <1>4, SumOneMore
<1>6. SumFunctionOnSet(f, {}) = 0
  BY SumEmpty
<1>7. OutSats(<<x>>) = x.sats + 0
  BY <1>2, <1>3, <1>5, <1>6, Zenon
<1>8. QED
  BY <1>7

LEMMA SumTwo ==
    ASSUME NEW x, NEW y, x.sats \in Int, y.sats \in Int
    PROVE  OutSats(<<x, y>>) = x.sats + y.sats
<1>1. PICK f : f = [i \in DOMAIN <<x, y>> |-> <<x, y>>[i].sats]
  OBVIOUS
<1>2. PICK S : S = {1}
  OBVIOUS
<1>3. DOMAIN f = S \cup {2} /\ f[1] = x.sats /\ f[2] = y.sats
  BY <1>1, <1>2
<1>4. OutSats(<<x, y>>) = SumFunctionOnSet(f, S \cup {2})
  BY <1>1, <1>3, Zenon DEF OutSats, SumFunction
<1>5. S = {} \cup {1}
  BY <1>2
<1>6. IsFiniteSet({}) /\ 1 \notin {} /\ \A i \in {} \cup {1} : f[i] \in Int
  BY <1>3, FS_EmptySet
<1>7. SumFunctionOnSet(f, {} \cup {1}) = f[1] + SumFunctionOnSet(f, {})
  BY <1>6, SumOneMore
<1>8. IsFiniteSet(S)
  BY <1>5, <1>6, FS_AddElement
<1>9. 2 \notin S /\ \A i \in S \cup {2} : f[i] \in Int
  BY <1>2, <1>3
<1>10. SumFunctionOnSet(f, S \cup {2}) = f[2] + SumFunctionOnSet(f, S)
  BY <1>8, <1>9, SumOneMore
<1>11. SumFunctionOnSet(f, {}) = 0
  BY SumEmpty
<1>12. OutSats(<<x, y>>) = y.sats + (x.sats + 0)
  BY <1>3, <1>4, <1>5, <1>7, <1>10, <1>11, Zenon
<1>13. QED
  BY <1>12

LEMMA PaidParts ==
    ASSUME NEW data, DataFields(data), NEW to, NEW price \in Nat, NEW outs,
           PartsOf(data, to, price, outs)
    PROVE  PaidFor(data, price, Tail(outs))
<1> DEFINE rest == Tail(outs)
           part == RoyaltyForArtist(data, price)
<1>1. part \in Nat /\ IsRoyalty(part, data.royalty, price)
  BY RoyaltyIs
<1> HIDE DEF part
<1>2. CASE data.artist = "none"
  <2> PICK x : x = PayTo(data.owner, price)
    OBVIOUS
  <2>1. rest = <<x>>
    BY <1>2 DEF PartsOf
  <2>2. x.sats = price
    BY DEF PayTo, Out
  <2> HIDE DEF rest
  <2>3. OutSats(rest) = price
    BY <2>1, <2>2, SumOne
  <2>4. QED
    BY <1>2, <2>1, <2>3 DEF rest, PaidFor
<1>3. CASE data.artist # "none"
  <2> DEFINE x == PayTo(data.owner, price - part)
             y == PayTo(data.artist, part)
  <2>1. rest = <<x, y>>
    BY <1>3 DEF PartsOf, part
  <2>2. x.sats = price - part /\ y.sats = part
    BY DEF PayTo, Out
  <2>3. price - part \in Int /\ part \in Int /\ (price - part) + part = price
    BY <1>1
  <2> HIDE DEF x, y, rest
  <2>4. OutSats(rest) = price
    BY <2>1, <2>2, <2>3, SumTwo
  <2>5. rest[2].sats = part
    BY <2>1, <2>2
  <2>6. QED
    BY <1>1, <1>3, <2>1, <2>4, <2>5 DEF x, y, rest, PaidFor
<1>4. QED
  BY <1>2, <1>3

\* The entries of an auction's schedule lie on its line.
LEMMA ScheduleLine ==
    ASSUME NEW extra, AuctionFields(extra), NEW time \in Nat,
           NEW entry \in Range(CreateSchedule(extra, time))
    PROVE  /\ entry.price \in Nat /\ entry.height \in Nat /\ time <= entry.height
           /\ extra.min <= extra.start
           /\ (extra.start - entry.price) * extra.updates * extra.period
                <= (extra.start - extra.min) * (entry.height - time)
<1> DEFINE schedule == CreateSchedule(extra, time)
           fall == extra.start - extra.min
           u == extra.updates
           inc == fall \div u
<1>1. PICK n \in DOMAIN schedule : entry = schedule[n]
  BY DEF Range
<1>2. ~ (extra.start < extra.min \/ u = 0)
  BY <1>1 DEF CreateSchedule
<1>3. /\ n \in 1..u
      /\ entry = [height |-> time + (n - 1) * extra.period, price |-> extra.start - (n - 1) * inc]
  BY <1>1, <1>2 DEF CreateSchedule
<1>4. u \in Nat \ {0} /\ fall \in Nat /\ extra.period \in Nat /\ extra.start \in Nat /\ extra.min \in Nat
  BY <1>2 DEF AuctionFields
<1> HIDE DEF fall, u
<1>5. inc \in Nat /\ inc * u <= fall
  BY <1>4, Quotient
<1> HIDE DEF inc, schedule
<1>6. PICK k \in Nat : k = n - 1 /\ k <= u
  BY <1>3, <1>4
<1>7. entry.price = extra.start - k * inc /\ entry.height = time + k * extra.period
  BY <1>3, <1>6
<1>8. k * inc \in Nat /\ k * extra.period \in Nat /\ inc * u \in Nat
  BY <1>4, <1>5, TimesNat
<1>9. k * inc <= fall
  <2>1. k * inc <= u * inc
    BY <1>4, <1>5, <1>6, TimesGrows
  <2>2. u * inc = inc * u
    BY <1>4, <1>5
  <2>3. QED
    BY <1>4, <1>5, <1>8, <2>1, <2>2
<1>10. entry.price \in Nat /\ entry.height \in Nat /\ time <= entry.height
  BY <1>4, <1>7, <1>8, <1>9 DEF fall
<1>11. (extra.start - entry.price) * u * extra.period <= fall * (entry.height - time)
  <2>1. extra.start - entry.price = k * inc /\ entry.height - time = k * extra.period
    BY <1>4, <1>7, <1>8
  <2>2. (k * inc) * u * extra.period = (inc * u) * (k * extra.period)
    BY <1>4, <1>5
  <2>3. (inc * u) * (k * extra.period) <= fall * (k * extra.period)
    BY <1>4, <1>5, <1>8, TimesGrows
  <2>4. QED
    BY <2>1, <2>2, <2>3
<1>12. QED
  BY <1>2, <1>4, <1>10, <1>11 DEF fall, u, AuctionFields

LEMMA WorkWays ==
    ASSUME NEW coin, WorkCoin(coin), NEW way \in Ways(coin)
    PROVE  Selling(coin, way) \/ Transferring(coin, way)
<1> DEFINE c == coin.contract
           data == c.data
           owner == Key(<<data.owner>>)
<1>1. CASE c.is = "SimpleNFT"
  <2>1. Ways(coin) = SimpleNFTWays(c, coin.sats) /\ coin.sats = WorkSats
    BY <1>1, Zenon DEF Ways, WorkCoin
  <2> DEFINE txs == {Sell(data, sale, WorkSats) : sale \in Sales}
  <2>2. way \in Continuation("sell", owner, txs)
    BY <2>1 DEF SimpleNFTWays
  <2>3. way.name = "sell" /\ way.guard = owner
    <3> HIDE DEF txs, owner
    <3>1. QED
      BY <2>2, ContinuationIs
  <2>4. CASE way = Finish("sell", owner)
    <3>1. way.tx.outs = <<>>
      BY <2>4, FinishIs, TxIs
    <3>2. QED
      BY <1>1, <2>3, <3>1 DEF Selling
  <2>5. ASSUME NEW sale \in Sales, way = Suggestion("sell", owner, Sell(data, sale, WorkSats), {})
        PROVE  Selling(coin, way)
    <3>1. way.tx = Sell(data, sale, WorkSats)
      BY <2>5, SuggestionIs
    <3>2. way.tx.outs = <<Out(SaleContract(data, sale, WorkSats), SaleMax(sale, WorkSats))>>
      BY <3>1 DEF Sell, Tx
    <3>3. QED
      BY <1>1, <2>3, <3>2 DEF Selling
  <2>6. QED
    BY <2>2, <2>4, <2>5 DEF Continuation
<1>2. CASE c.is = "SimpleNFTSale"
  <2>1. Ways(coin) = SimpleNFTSaleWays(c)
    BY <1>2, Zenon DEF Ways
  <2>2. c.sats = WorkSats /\ c.price \in Nat
    BY <1>2 DEF WorkCoin, WorkFields
  <2>3. way = Template("transfer", Trivial, Transfer(data, c.to, WorkSats, c.price, 0))
    BY <2>1, <2>2 DEF SimpleNFTSaleWays
  <2>4. way.name = "transfer" /\ way.tx = Transfer(data, c.to, WorkSats, c.price, 0)
    BY <2>3, TemplateIs
  <2>5. PartsOf(data, c.to, c.price, way.tx.outs) /\ way.tx.lock = 0
    BY <2>4, TransferParts
  <2>6. Priced(c, c.price, way.tx.lock)
    BY <1>2, <2>2, <2>5 DEF Priced
  <2>7. QED
    BY <1>2, <2>4, <2>5, <2>6 DEF Transferring
<1>3. CASE c.is = "NFTDutchAuction"
  <2>1. Ways(coin) = NFTDutchAuctionWays(c)
    BY <1>3, Zenon DEF Ways
  <2>2. c.sats = WorkSats /\ c.time \in Nat /\ AuctionFields(c.extra)
    BY <1>3 DEF WorkCoin, WorkFields
  <2> DEFINE entries == Range(CreateSchedule(c.extra, c.time))
             txs == {Transfer(data, c.to, WorkSats, e.price, e.height) : e \in entries}
  <2>3. way \in Continuation("transfer", owner, txs)
    BY <2>1, <2>2 DEF NFTDutchAuctionWays
  <2>4. way.name = "transfer"
    <3> HIDE DEF txs, owner
    <3>1. QED
      BY <2>3, ContinuationIs
  <2>5. CASE way = Finish("transfer", owner)
    <3>1. way.tx.outs = <<>> /\ way.free
      BY <2>5, FinishIs, TxIs
    <3>2. QED
      BY <1>3, <2>4, <3>1 DEF Transferring
  <2>6. ASSUME NEW e \in entries,
               way = Suggestion("transfer", owner, Transfer(data, c.to, WorkSats, e.price, e.height), {})
        PROVE  Transferring(coin, way)
    <3>1. way.tx = Transfer(data, c.to, WorkSats, e.price, e.height)
      BY <2>6, SuggestionIs
    <3>2. PartsOf(data, c.to, e.price, way.tx.outs) /\ way.tx.lock = e.height
      BY <3>1, TransferParts
    <3>3. /\ e.price \in Nat /\ e.height \in Nat /\ c.time <= e.height
          /\ c.extra.min <= c.extra.start
          /\ (c.extra.start - e.price) * c.extra.updates * c.extra.period
               <= (c.extra.start - c.extra.min) * (e.height - c.time)
      BY <2>2, ScheduleLine
    <3>4. Priced(c, e.price, way.tx.lock)
      BY <1>3, <3>2, <3>3 DEF Priced
    <3>5. QED
      BY <1>3, <2>4, <3>2, <3>4 DEF Transferring
  <2>7. QED
    BY <2>3, <2>5, <2>6 DEF Continuation
<1>4. QED
  BY <1>1, <1>2, <1>3 DEF WorkCoin, IsWork

LEMMA WorkInvInit == ASSUME Init PROVE WorkInv
<1> DEFINE first == Coin(<<>>, Plays[play].contract, Plays[play].sats, now)
<1> SUFFICES ASSUME IsWork(Plays[play].contract) PROVE \A c \in Ever : WorkCoin(c)
  BY DEF WorkInv
<1>1. coins = {first} /\ spent = {} /\ play \in DOMAIN Plays
  BY DEF Init
<1>2. first.id = <<>> /\ first.contract = Plays[play].contract /\ first.sats = Plays[play].sats
  BY DEF Coin
<1> HIDE DEF first
<1>3. Ever = {first}
  BY <1>1 DEF Ever
<1>4. WorkFields(first.contract)
  BY <1>1, <1>2, PlaysAssumption
<1>5. WorkCoin(first)
  BY <1>2, <1>4 DEF WorkCoin, WorkSats, OfferedCoin
<1>6. QED
  BY <1>3, <1>5

\* The contract a sale makes, and who it says may have offered it.
LEMMA SaleContractIs ==
    ASSUME NEW data, DataFields(data), NEW sale \in Sales, NEW sats
    PROVE  LET c == SaleContract(data, sale, sats)
           IN  IsWork(c) /\ c.is # "SimpleNFT" /\ WorkFields(c) /\ c.sats = sats /\ c.data = data
<1> DEFINE c == SaleContract(data, sale, sats)
<1>1. sale.price \in Nat /\ sale.time \in Nat /\ (sale.extra # <<>> => AuctionFields(sale.extra[1]))
  BY SalesAssumption
<1>2. CASE sale.which = "sale"
  <2>1. c = SimpleNFTSale(data, sale.to, sale.price, sale.time, sats)
    BY <1>2 DEF SaleContract
  <2> HIDE DEF c
  <2>2. /\ c.is = "SimpleNFTSale" /\ c.data = data /\ c.to = sale.to /\ c.price = sale.price
        /\ c.time = sale.time /\ c.sats = sats
    BY <2>1 DEF SimpleNFTSale
  <2>3. QED
    BY <1>1, <2>1, <2>2 DEF WorkFields, IsWork, c
<1>3. CASE sale.which # "sale"
  <2> DEFINE extra == IF sale.extra = <<>> THEN DeriveDefault(sale.price) ELSE sale.extra[1]
  <2>1. c = NFTDutchAuction(extra, data, sale.to, sale.time, sats)
    BY <1>3 DEF SaleContract
  <2>2. AuctionFields(extra)
    <3>1. AuctionFields(DeriveDefault(sale.price))
      <4>1. DeriveDefault(sale.price) =
              [period |-> 6, start |-> sale.price * 10, min |-> sale.price,
               updates |-> (144 * 30) \div 6]
        BY DEF DeriveDefault, DutchAuctionData
      <4>2. sale.price * 10 \in Nat /\ (144 * 30) \div 6 \in Nat
        BY <1>1
      <4>3. QED
        BY <1>1, <4>1, <4>2 DEF AuctionFields
    <3>2. QED
      BY <1>1, <3>1
  <2> HIDE DEF c, extra
  <2>3. /\ c.is = "NFTDutchAuction" /\ c.data = data /\ c.to = sale.to /\ c.time = sale.time
        /\ c.extra = extra /\ c.sats = sats
    BY <2>1 DEF NFTDutchAuction
  <2>4. QED
    BY <1>1, <2>1, <2>2, <2>3 DEF WorkFields, IsWork, c
<1>4. QED
  BY <1>2, <1>3

LEMMA WorkInvSpend ==
    ASSUME Ledger, WorkInv, NEW coin, NEW way, NEW s, Leaves(coin, way, s)
    PROVE  WorkInv'
<1>1. /\ coin \in coins /\ coin \in Ever /\ way \in Ways(coin)
      /\ spent' = spent \cup {s} /\ s.coin = coin /\ s.way = way /\ play' = play
  BY DEF Leaves, Ever
<1> SUFFICES ASSUME IsWork(Plays[play].contract) PROVE \A c \in Ever' : WorkCoin(c)'
  BY <1>1 DEF WorkInv
<1>2. \A c \in Ever : WorkCoin(c)
  BY DEF WorkInv
<1>3. WorkCoin(coin) /\ WorkSats' = WorkSats
  BY <1>1, <1>2 DEF WorkSats
<1>4. ASSUME NEW c \in Ever PROVE WorkCoin(c)'
  <2>1. OfferedCoin(c) => OfferedCoin(c)'
    BY <1>1 DEF OfferedCoin
  <2>2. WorkCoin(c)
    BY <1>2
  <2>3. QED
    BY <1>3, <2>1, <2>2 DEF WorkCoin
<1> DEFINE data == coin.contract.data
<1>5. DataFields(data)
  BY <1>3 DEF WorkCoin, WorkFields
<1>6. ASSUME NEW c \in NewCoins(coin, way) PROVE WorkCoin(c)'
  <2>1. PICK i \in 1..Len(way.tx.outs) :
             /\ way.tx.outs[i].to.is # "Address" /\ i \in Int
             /\ c.id = Append(coin.id, i) /\ c.contract = way.tx.outs[i].to
             /\ c.sats = way.tx.outs[i].sats
    BY NewCoinsAre
  <2>2. Front(c.id) = coin.id
    BY <1>1, <2>1, ChildOf DEF Ledger, LedgerTypes
  <2>3. ~ (way.tx.outs = <<>>)
    BY <2>1
  <2>4. CASE Selling(coin, way)
    <3>1. PICK sale \in Sales : way.tx.outs =
            <<Out(SaleContract(data, sale, WorkSats), SaleMax(sale, WorkSats))>>
      BY <2>3, <2>4 DEF Selling
    <3>2. c.contract = SaleContract(data, sale, WorkSats)
      <4>1. i = 1
        BY <2>1, <3>1
      <4>2. QED
        BY <2>1, <3>1, <4>1 DEF Out
    <3>3. /\ IsWork(c.contract) /\ c.contract.is # "SimpleNFT" /\ WorkFields(c.contract)
          /\ c.contract.sats = WorkSats /\ c.contract.data = data
      BY <1>5, <3>2, SaleContractIs
    <3>4. <<data.owner>> \in s.keys /\ s.way.name = "sell"
      <4>1. way.name = "sell" /\ way.guard = Key(<<data.owner>>)
        BY <2>4 DEF Selling
      <4>2. \E cond \in way.guard : s.keys = cond.keys
        BY DEF Leaves
      <4>3. QED
        BY <1>1, <4>1, <4>2 DEF Key
    <3>5. OfferedCoin(c)'
      BY <1>1, <2>2, <3>3, <3>4 DEF OfferedCoin
    <3>6. QED
      BY <1>3, <3>3, <3>5 DEF WorkCoin
  <2>5. CASE Transferring(coin, way)
    <3>1. PICK price : PartsOf(data, coin.contract.to, price, way.tx.outs)
      BY <2>3, <2>5 DEF Transferring
    <3> DEFINE sold == [data EXCEPT !.owner = coin.contract.to]
    <3>2. way.tx.outs[i] = Out(SimpleNFT(sold), WorkSats)
      BY <2>1, <3>1 DEF PartsOf
    <3>3. sold = NftData(coin.contract.to, data.artist, data.royalty)
      BY <1>5 DEF DataFields, NftData
    <3> HIDE DEF sold
    <3>4. DataFields(sold)
      BY <1>5, <3>3 DEF DataFields, NftData
    <3>5. c.contract = SimpleNFT(sold) /\ c.sats = WorkSats
      BY <2>1, <3>2 DEF Out
    <3>6. c.contract.is = "SimpleNFT" /\ c.contract.data = sold
      BY <3>5 DEF SimpleNFT
    <3>7. QED
      BY <1>3, <3>4, <3>5, <3>6 DEF WorkCoin, WorkFields, IsWork
  <2>6. QED
    BY <1>1, <1>3, <2>4, <2>5, WorkWays
<1>7. QED
  BY <1>4, <1>6, EverAfter

LEMMA WorkInvNext == Ledger /\ WorkInv /\ [Next]_vars => WorkInv'
<1> SUFFICES ASSUME Ledger, WorkInv, [Next]_vars PROVE WorkInv'
  OBVIOUS
<1>1. CASE SomeSpend
  <2>1. PICK coin \in coins : \E way \in Ways(coin) : Spend(coin, way)
    BY <1>1 DEF SomeSpend
  <2> PICK way \in Ways(coin) : Spend(coin, way)
    BY <2>1
  <2>2. PICK s : Leaves(coin, way, s)
    BY <2>1, SpendLeaves
  <2>3. QED
    BY <2>2, WorkInvSpend
<1>2. CASE SomeTick \/ UNCHANGED vars
  <2>1. UNCHANGED <<play, coins, spent>>
    BY <1>2 DEF SomeTick, Tick, vars
  <2>2. QED
    BY <2>1 DEF WorkInv, WorkCoin, OfferedCoin, WorkSats, Ever
<1>3. QED
  BY <1>1, <1>2 DEF Next

LEMMA LineKept ==
    ASSUME NEW fall \in Nat, NEW lhs, NEW time \in Int, NEW lock \in Int, NEW at \in Int,
           lhs <= fall * (lock - time), lock <= at, lhs \in Int
    PROVE  lhs <= fall * (at - time)
<1>1. (lock - time) * fall <= (at - time) * fall
  BY TimesGrows
<1>2. /\ fall * (lock - time) = (lock - time) * fall
      /\ fall * (at - time) = (at - time) * fall
      /\ (lock - time) * fall \in Int /\ (at - time) * fall \in Int
  OBVIOUS
<1>3. QED
  BY <1>1, <1>2

\* A work is only ever sold by its owner, for the price asked, and stays whole
\* (SoldAtPrice: plugin-example/nft, nft-sale, nft-auction).
THEOREM SoldAtPriceHolds == Spec => []SoldAtPrice
<1>1. Init => WorkInv
  BY WorkInvInit
<1>2. Ledger /\ WorkInv /\ [Next]_vars => WorkInv'
  BY WorkInvNext
<1>3. Ledger /\ WorkInv => SoldAtPrice
  <2> SUFFICES ASSUME Ledger, WorkInv, IsWork(Plays[play].contract),
                      NEW s \in spent, s.way.name = "transfer", ~s.way.free
               PROVE  LET c == s.coin.contract
                          data == c.data
                          outs == Tail(s.way.tx.outs)
                          paid == OutSats(outs)
                      IN  /\ Offered(s)
                          /\ Head(s.way.tx.outs) =
                               Out(SimpleNFT([data EXCEPT !.owner = c.to]), WorkSats)
                          /\ IF data.artist = "none" THEN outs = <<PayTo(data.owner, paid)>>
                             ELSE \E part \in {outs[2].sats} :
                                    /\ outs = <<PayTo(data.owner, paid - part),
                                                PayTo(data.artist, part)>>
                                    /\ IsRoyalty(part, data.royalty, paid)
                          /\ c.is = "SimpleNFTSale" => paid = c.price
                          /\ c.is = "NFTDutchAuction" /\ ExactAuction(c.extra) =>
                               /\ c.time <= s.at.blocks
                               /\ (c.extra.start - paid) * c.extra.updates * c.extra.period
                                    <= (c.extra.start - c.extra.min) * (s.at.blocks - c.time)
    BY Zenon DEF SoldAtPrice
  <2> DEFINE c == s.coin.contract
             data == c.data
             outs == Tail(s.way.tx.outs)
             paid == OutSats(outs)
  <2>1. Lawful(s) /\ WorkCoin(s.coin)
    BY DEF Ledger, WorkInv, Ever
  <2>2. Transferring(s.coin, s.way)
    <3>1. ~ Selling(s.coin, s.way)
      BY DEF Selling
    <3>2. QED
      BY <2>1, <3>1, WorkWays DEF Lawful
  <2>3. PICK price : /\ PartsOf(data, c.to, price, s.way.tx.outs)
                     /\ Priced(c, price, s.way.tx.lock)
    BY <2>2 DEF Transferring
  <2>4. DataFields(data) /\ price \in Nat
    BY <2>1, <2>3 DEF WorkCoin, WorkFields, Priced
  <2>5. /\ paid = price
        /\ data.artist = "none" => outs = <<PayTo(data.owner, price)>>
        /\ data.artist # "none" =>
             \E part \in {outs[2].sats} :
                /\ outs = <<PayTo(data.owner, price - part), PayTo(data.artist, part)>>
                /\ IsRoyalty(part, data.royalty, price)
    <3>1. PaidFor(data, price, outs)
      BY <2>3, <2>4, PaidParts
    <3>2. QED
      BY <3>1 DEF PaidFor
  <2>6. Offered(s) /\ c.is # "SimpleNFT"
    BY <2>1, <2>2 DEF WorkCoin, OfferedCoin, Offered, Transferring
  <2>7. Head(s.way.tx.outs) = Out(SimpleNFT([data EXCEPT !.owner = c.to]), WorkSats)
    BY <2>3 DEF PartsOf
  <2>8. c.is = "SimpleNFTSale" => price = c.price
    BY <2>3 DEF Priced
  <2>9. c.is = "NFTDutchAuction" =>
          /\ c.time <= s.at.blocks
          /\ (c.extra.start - price) * c.extra.updates * c.extra.period
               <= (c.extra.start - c.extra.min) * (s.at.blocks - c.time)
    <3> SUFFICES ASSUME c.is = "NFTDutchAuction"
                 PROVE  /\ c.time <= s.at.blocks
                        /\ (c.extra.start - price) * c.extra.updates * c.extra.period
                             <= (c.extra.start - c.extra.min) * (s.at.blocks - c.time)
      OBVIOUS
    <3>1. AuctionFields(c.extra) /\ c.time \in Nat
      BY <2>1 DEF WorkCoin, WorkFields
    <3>2. s.at.blocks \in Nat /\ s.way.tx.lock <= s.at.blocks
      BY <2>1 DEF Lawful, LocksExpired, Times
    <3>3. /\ s.way.tx.lock \in Nat /\ c.extra.min <= c.extra.start /\ c.time <= s.way.tx.lock
          /\ (c.extra.start - price) * c.extra.updates * c.extra.period
               <= (c.extra.start - c.extra.min) * (s.way.tx.lock - c.time)
      BY <2>3 DEF Priced
    <3>3a. c.time <= s.at.blocks
      BY <3>1, <3>2, <3>3
    <3> DEFINE lhs == (c.extra.start - price) * c.extra.updates * c.extra.period
               fall == c.extra.start - c.extra.min
    <3>4. lhs \in Int /\ fall \in Nat
      BY <2>4, <3>1, <3>3 DEF AuctionFields
    <3> HIDE DEF lhs, fall, c
    <3>5. lhs <= fall * (s.at.blocks - c.time)
      BY <3>1, <3>2, <3>3, <3>4, LineKept DEF lhs, fall
    <3>6. QED
      BY <3>3a, <3>5 DEF lhs, fall
  <2> HIDE DEF c, data, outs, paid
  <2>10. QED
    BY <2>5, <2>6, <2>7, <2>8, <2>9, Zenon DEF c, data, outs, paid
<1>4. QED
  BY <1>1, <1>2, <1>3, LedgerHolds, PTL DEF Spec
-----------------------------------------------------------------------------
(* Payment pools. *)

\* Primitive recursion over 0..last has a table.
IsRecTable(f, last, V, v0, step) ==
    /\ f \in [0..last -> V] /\ f[0] = v0
    /\ \A n \in 1..last : f[n] = step[n][f[n - 1]]

LEMMA RecTableExists ==
    ASSUME NEW V, NEW v0 \in V, NEW last \in Nat, NEW step \in [1..last -> [V -> V]]
    PROVE  \E f : IsRecTable(f, last, V, v0, step)
<1> DEFINE Missing == {n \in Nat : n <= last /\ ~ \E f : IsRecTable(f, n, V, v0, step)}
<1>1. SUFFICES ASSUME Missing # {} PROVE FALSE
  <2>1. last \notin Missing
    BY <1>1
  <2>2. last <= last
    OBVIOUS
  <2>3. QED
    BY <2>1, <2>2
<1>2. PICK n \in Missing : \A k \in Missing : n <= k
  <2> HIDE DEF Missing
  <2>1. Missing \in SUBSET Nat
    BY DEF Missing
  <2>2. QED
    BY <1>1, <2>1, LeastNat
<1>3. n \in Nat /\ n <= last /\ ~ \E f : IsRecTable(f, n, V, v0, step)
  BY <1>2
<1>4. n # 0
  <2>1. IsRecTable([i \in 0..0 |-> v0], 0, V, v0, step)
    BY DEF IsRecTable
  <2>2. QED
    BY <1>3, <2>1
<1>5. PICK f : IsRecTable(f, n - 1, V, v0, step)
  <2>1. n - 1 \in Nat /\ n - 1 <= last /\ ~ n <= n - 1
    BY <1>3, <1>4
  <2>2. n - 1 \notin Missing
    BY <1>2, <2>1
  <2>3. QED
    BY <2>1, <2>2
<1> DEFINE g == [i \in 0..n |-> IF i = n THEN step[n][f[n - 1]] ELSE f[i]]
<1>6. n \in 1..last /\ n - 1 \in 0..(n - 1) /\ f \in [0..(n - 1) -> V]
  BY <1>3, <1>4, <1>5 DEF IsRecTable
<1>7. step[n][f[n - 1]] \in V
  BY <1>6
<1>8. g \in [0..n -> V]
  <2>1. \A i \in 0..n : i # n => i \in 0..(n - 1)
    BY <1>3
  <2>2. QED
    BY <1>6, <1>7, <2>1
<1>9. g[0] = v0 /\ \A i \in 1..n : g[i] = step[i][g[i - 1]]
  <2>1. 0 \in 0..n /\ g[0] = f[0]
    BY <1>3, <1>4
  <2>2. ASSUME NEW i \in 1..n PROVE g[i] = step[i][g[i - 1]]
    <3>1. i \in 0..n /\ i - 1 \in 0..n /\ i - 1 # n
      BY <1>3
    <3>2. g[i - 1] = f[i - 1]
      BY <3>1
    <3>3. CASE i = n
      BY <3>1, <3>2, <3>3
    <3>4. CASE i # n
      <4>1. i \in 1..(n - 1) /\ g[i] = f[i]
        BY <1>3, <3>1, <3>4
      <4>2. QED
        BY <1>5, <3>2, <4>1 DEF IsRecTable
    <3>5. QED
      BY <3>3, <3>4
  <2>3. QED
    BY <2>1, <2>2, <1>5 DEF IsRecTable
<1>10. IsRecTable(g, n, V, v0, step)
  <2> HIDE DEF g
  <2>1. QED
    BY <1>8, <1>9 DEF IsRecTable
<1>11. QED
  BY <1>3, <1>10

LEMMA OutSatsInt ==
    ASSUME NEW S, NEW outs \in Seq(S), \A i \in 1..Len(outs) : outs[i].sats \in Int
    PROVE  OutSats(outs) \in Int
<1> DEFINE f == [i \in 1..Len(outs) |-> outs[i].sats]
<1>1. DOMAIN outs = 1..Len(outs) /\ Len(outs) \in Int
  OBVIOUS
<1>2. OutSats(outs) = SumFunctionOnSet(f, 1..Len(outs))
  BY <1>1 DEF OutSats, SumFunction
<1>3. \A i \in 1..Len(outs) : f[i] \in Int
  OBVIOUS
<1>4. IsFiniteSet(1..Len(outs))
  BY <1>1, FS_Interval
<1> HIDE DEF f
<1>5. QED
  BY <1>2, <1>3, <1>4, SumType

LEMMA CostInt == \A r \in PaymentRequests : Cost(r) \in Int
<1> SUFFICES ASSUME NEW r \in PaymentRequests PROVE Cost(r) \in Int
  OBVIOUS
<1>1. /\ r.fee \in Nat /\ r.payments \in Seq(Range(r.payments)) /\ ToAddresses(r.payments)
  BY PaymentsAssumption
<1>2. \A i \in 1..Len(r.payments) : r.payments[i].sats \in Int
  BY <1>1 DEF ToAddresses
<1>3. OutSats(r.payments) \in Int
  BY <1>1, <1>2, OutSatsInt
<1>4. QED
  BY <1>1, <1>3 DEF Cost

LEMMA CostsMore ==
    ASSUME NEW S, S \in SUBSET PaymentRequests, NEW x \in PaymentRequests, x \notin S
    PROVE  Costs(S \cup {x}) = Cost(x) + Costs(S)
<1>1. PICK g : g = [r \in S |-> Cost(r)]
  OBVIOUS
<1>2. PICK f : f = [r \in S \cup {x} |-> Cost(r)]
  OBVIOUS
<1>3. IsFiniteSet(S)
  BY FS_Subset, PaymentsAssumption
<1>4. f[x] = Cost(x)
  BY <1>2
<1>5. \A r \in S \cup {x} : f[r] \in Int
  BY <1>2, CostInt
<1>6. \A r \in S : g[r] = f[r]
  BY <1>1, <1>2
<1>7. SumFunctionOnSet(f, S \cup {x}) = f[x] + SumFunctionOnSet(g, S)
  BY <1>3, <1>5, <1>6, SumAdd
<1>8. QED
  BY <1>1, <1>2, <1>4, <1>7 DEF Costs

LEMMA CostsInt == ASSUME NEW S, S \in SUBSET PaymentRequests PROVE Costs(S) \in Int
<1>1. PICK g : g = [r \in S |-> Cost(r)]
  OBVIOUS
<1>2. IsFiniteSet(S)
  BY FS_Subset, PaymentsAssumption
<1>3. \A r \in S : g[r] \in Int
  BY <1>1, CostInt
<1>4. QED
  BY <1>1, <1>2, <1>3, SumType DEF Costs

LEMMA SpendsAre ==
    ASSUME NEW requests, NEW who
    PROVE  Spends(requests, who) = Costs(Own(requests, who))
<1> DEFINE own == {r \in requests : r.from = who}
<1>1. Own(requests, who) = own
  BY DEF Own
<1>2. Spends(requests, who) = SumFunction([r \in own |-> r.fee + OutSats(r.payments)])
  BY DEF Spends
<1>3. DOMAIN [r \in own |-> r.fee + OutSats(r.payments)] = own
  OBVIOUS
<1>4. QED
  BY <1>1, <1>2, <1>3 DEF SumFunction, Cost, Costs

LEMMA SpendsNothing ==
    ASSUME NEW requests, NEW who, Own(requests, who) = {}
    PROVE  Spends(requests, who) = 0
BY SpendsAre, SumEmpty DEF Costs

\* What a set of requests adds to those carried out before.
LEMMA SpendsWith ==
    ASSUME NEW Q \in SUBSET PaymentRequests, NEW R \in SUBSET PaymentRequests, Q \cap R = {},
           \A r, s \in R : r.from = s.from => r = s, NEW who
    PROVE  /\ Spends(Q \cup R, who) = Spends(Q, who) + Spends(R, who)
           /\ Spends(Q, who) \in Int /\ Spends(R, who) \in Int
<1>1. /\ Own(Q, who) \in SUBSET PaymentRequests /\ Own(R, who) \in SUBSET PaymentRequests
      /\ Own(Q \cup R, who) = Own(Q, who) \cup Own(R, who)
  BY DEF Own
<1>2. Costs(Own(Q, who)) \in Int /\ Costs(Own(R, who)) \in Int
  BY <1>1, CostsInt
<1>3. Costs(Own(Q, who) \cup Own(R, who)) = Costs(Own(Q, who)) + Costs(Own(R, who))
  <2>1. CASE Own(R, who) = {}
    <3>1. Costs({}) = 0
      BY SumEmpty DEF Costs
    <3>2. QED
      BY <1>2, <2>1, <3>1
  <2>2. CASE Own(R, who) # {}
    <3>1. PICK x \in Own(R, who) : TRUE
      BY <2>2
    <3>2. Own(R, who) = {x} /\ x \notin Own(Q, who) /\ x \in PaymentRequests
      BY <3>1 DEF Own
    <3>3. Costs(Own(Q, who) \cup {x}) = Cost(x) + Costs(Own(Q, who))
      BY <1>1, <3>2, CostsMore
    <3>4. Costs({x}) = Cost(x)
      <4>1. {} \in SUBSET PaymentRequests /\ x \notin {} /\ {} \cup {x} = {x}
        OBVIOUS
      <4>2. Costs({} \cup {x}) = Cost(x) + Costs({})
        BY <3>2, <4>1, CostsMore, Zenon
      <4>3. Costs({}) = 0 /\ Cost(x) \in Int
        BY <3>2, SumEmpty, CostInt DEF Costs
      <4>4. QED
        BY <4>1, <4>2, <4>3
    <3>5. QED
      BY <1>2, <3>2, <3>3, <3>4
  <2>3. QED
    BY <2>1, <2>2
<1>4. QED
  BY <1>1, <1>2, <1>3, SpendsAre

\* NewMembers takes the members one by one.
LEMMA NewMembersOneByOne ==
    ASSUME NEW c, NEW R, NEW M, Len(c.members) \in Nat,
           \A i \in 1..Len(c.members) : Entry(c, R, i) \in M
    PROVE  \E g : /\ NewMembers(c, R) = g[Len(c.members)]
                  /\ g[0] = <<>>
                  /\ \A n \in 1..Len(c.members) :
                       g[n] = IF Goes(c, R, n) THEN g[n - 1]
                              ELSE Append(g[n - 1], Entry(c, R, n))
<1> DEFINE last == Len(c.members)
           V == Seq(M)
           step == [n \in 1..last |-> [v \in V |-> IF Goes(c, R, n) THEN v
                                                   ELSE Append(v, Entry(c, R, n))]]
           Rec(g) == [n \in 0..last |->
                        IF n = 0 THEN <<>>
                        ELSE LET m == c.members[n]
                                 rest == m.sats - Spends(R, m.who)
                             IN  IF Asks(R, m.who) /\ rest = 0 THEN g[n - 1]
                                 ELSE Append(g[n - 1], [who |-> m.who, sats |-> rest])]
           Goal(g) == /\ g[0] = <<>>
                      /\ \A n \in 1..last :
                           g[n] = IF Goes(c, R, n) THEN g[n - 1]
                                  ELSE Append(g[n - 1], Entry(c, R, n))
           k == CHOOSE g : g = Rec(g)
<1>1. <<>> \in V /\ step \in [1..last -> [V -> V]]
  <2>1. <<>> \in V
    OBVIOUS
  <2>2. ASSUME NEW n \in 1..last, NEW v \in V
        PROVE  (IF Goes(c, R, n) THEN v ELSE Append(v, Entry(c, R, n))) \in V
    OBVIOUS
  <2> HIDE DEF V
  <2>3. QED
    BY <2>1, <2>2
<1>2. PICK f : IsRecTable(f, last, V, <<>>, step)
  <2> HIDE DEF V, step
  <2>1. QED
    BY <1>1, RecTableExists
<1>3. \A n \in 1..last : f[n] = IF Goes(c, R, n) THEN f[n - 1]
                                ELSE Append(f[n - 1], Entry(c, R, n))
  <2>1. ASSUME NEW n \in 1..last PROVE f[n] = step[n][f[n - 1]] /\ f[n - 1] \in V
    <3> HIDE DEF V, step
    <3>1. n - 1 \in 0..last
      OBVIOUS
    <3>2. QED
      BY <1>2, <3>1 DEF IsRecTable
  <2>2. QED
    BY <2>1
<1>4. DOMAIN f = 0..last /\ f[0] = <<>> /\ f = [n \in 0..last |-> f[n]]
  <2> HIDE DEF V, step
  <2>1. QED
    BY <1>2 DEF IsRecTable
<1>5. f = Rec(f)
  <2>1. ASSUME NEW n \in 0..last PROVE f[n] = Rec(f)[n]
    <3>1. CASE n = 0
      BY <1>4, <3>1
    <3>2. CASE n # 0
      <4>1. n \in 1..last
        BY <3>2
      <4>2. QED
        BY <1>3, <4>1 DEF Goes, Entry, Rest
    <3>3. QED
      BY <3>1, <3>2
  <2>2. Rec(f) = [n \in 0..last |-> Rec(f)[n]]
    OBVIOUS
  <2> HIDE DEF Rec
  <2>3. QED
    BY <1>4, <2>1, <2>2
<1>6. k = Rec(k)
  <2> HIDE DEF Rec
  <2>1. QED
    BY <1>5
<1>7. NewMembers(c, R) = k[last]
  BY DEF NewMembers
<1> HIDE DEF k
<1>8. ASSUME NEW n \in 0..last PROVE k[n] = Rec(k)[n]
  <2> HIDE DEF Rec
  <2>1. QED
    BY <1>6
<1>9. k[0] = <<>>
  <2>1. 0 \in 0..last
    OBVIOUS
  <2>2. QED
    BY <1>8, <2>1
<1>10. ASSUME NEW n \in 1..last
      PROVE  k[n] = IF Goes(c, R, n) THEN k[n - 1] ELSE Append(k[n - 1], Entry(c, R, n))
  <2>1. n \in 0..last /\ n # 0
    OBVIOUS
  <2>2. QED
    BY <1>8, <2>1 DEF Goes, Entry, Rest
<1>11. QED
  BY <1>7, <1>9, <1>10

LEMMA KeptMore ==
    ASSUME NEW c, NEW R, NEW M, NEW n \in Nat \ {0}, NEW v \in Seq(M),
           Kept(c, R, n - 1, v), ~Goes(c, R, n), Entry(c, R, n) \in M,
           \A i \in 1..(n - 1) : c.members[i].who # c.members[n].who
    PROVE  Kept(c, R, n, Append(v, Entry(c, R, n)))
<1>1. PICK e : e = Entry(c, R, n)
  OBVIOUS
<1>2. PICK w : w = Append(v, e)
  OBVIOUS
<1>3. /\ Len(v) \in Nat /\ Len(w) = Len(v) + 1 /\ w[Len(w)] = e
      /\ \A j \in 1..Len(v) : w[j] = v[j]
  BY <1>1, <1>2
<1>4. \A j \in 1..Len(w) : j \in 1..Len(v) \/ j = Len(w)
  BY <1>3
<1>5. /\ n \in 1..n /\ \A i \in 1..(n - 1) : i \in 1..n
      /\ \A i \in 1..n : i \in 1..(n - 1) \/ i = n
      /\ \A j \in 1..Len(v) : j \in 1..Len(w)
      /\ Len(w) \in 1..Len(w)
  BY <1>3
<1>6. ASSUME NEW j \in 1..Len(w) PROVE \E i \in 1..n : ~Goes(c, R, i) /\ w[j] = Entry(c, R, i)
  <2>1. CASE j \in 1..Len(v)
    <3>1. PICK i \in 1..(n - 1) : ~Goes(c, R, i) /\ v[j] = Entry(c, R, i)
      BY <2>1, Zenon DEF Kept
    <3>2. i \in 1..n /\ w[j] = v[j]
      BY <1>3, <1>5, <2>1
    <3>3. QED
      BY <3>1, <3>2
  <2>2. CASE j = Len(w)
    BY <1>1, <1>3, <1>5, <2>2
  <2>3. QED
    BY <1>4, <2>1, <2>2
<1>7. ASSUME NEW i \in 1..n PROVE Goes(c, R, i) \/ \E j \in 1..Len(w) : w[j] = Entry(c, R, i)
  <2>1. CASE i \in 1..(n - 1)
    BY <1>3, <1>5, <2>1 DEF Kept
  <2>2. CASE i = n
    BY <1>1, <1>3, <1>5, <2>2
  <2>3. QED
    BY <1>5, <2>1, <2>2
<1>8. ASSUME NEW j \in 1..Len(v) PROVE v[j].who # e.who
  <2>1. PICK i \in 1..(n - 1) : v[j] = Entry(c, R, i)
    BY DEF Kept
  <2>2. v[j].who = c.members[i].who /\ e.who = c.members[n].who
    BY <1>1, <2>1 DEF Entry
  <2>3. QED
    BY <2>2
<1>9. ASSUME NEW j \in 1..Len(w), NEW k \in 1..Len(w), w[j].who = w[k].who PROVE j = k
  <2>1. CASE j \in 1..Len(v) /\ k \in 1..Len(v)
    BY <1>3, <1>9, <2>1 DEF Kept
  <2>2. CASE j = Len(w) /\ k \in 1..Len(v)
    BY <1>3, <1>8, <1>9, <2>2
  <2>3. CASE k = Len(w) /\ j \in 1..Len(v)
    BY <1>3, <1>8, <1>9, <2>3
  <2>4. QED
    BY <1>4, <2>1, <2>2, <2>3
<1>10. QED
  BY <1>1, <1>2, <1>6, <1>7, <1>9, Zenon DEF Kept

LEMMA NewMembersKept ==
    ASSUME NEW c, NEW R, NEW M, Len(c.members) \in Nat,
           \A i \in 1..Len(c.members) : Entry(c, R, i) \in M,
           \A i, j \in 1..Len(c.members) : c.members[i].who = c.members[j].who => i = j
    PROVE  /\ NewMembers(c, R) \in Seq(M)
           /\ Kept(c, R, Len(c.members), NewMembers(c, R))
<1>1. PICK last : last = Len(c.members)
  OBVIOUS
<1>2. PICK g : /\ NewMembers(c, R) = g[last]
               /\ g[0] = <<>>
               /\ \A n \in 1..last : g[n] = IF Goes(c, R, n) THEN g[n - 1]
                                            ELSE Append(g[n - 1], Entry(c, R, n))
  <2>1. \E g : /\ NewMembers(c, R) = g[Len(c.members)]
               /\ g[0] = <<>>
               /\ \A n \in 1..Len(c.members) :
                    g[n] = IF Goes(c, R, n) THEN g[n - 1]
                           ELSE Append(g[n - 1], Entry(c, R, n))
    BY NewMembersOneByOne
  <2>2. QED
    BY <1>1, <2>1, Zenon
<1> DEFINE Good(n) == g[n] \in Seq(M) /\ Kept(c, R, n, g[n])
           Bad == {n \in Nat : n <= last /\ ~Good(n)}
<1>3. Bad = {}
  <2>1. SUFFICES ASSUME Bad # {} PROVE FALSE
    OBVIOUS
  <2>2. Bad \in SUBSET Nat
    OBVIOUS
  <2>3. PICK n \in Bad : \A m \in Bad : n <= m
    <3> HIDE DEF Bad
    <3>1. QED
      BY <2>1, <2>2, LeastNat
  <2>4. n \in Nat /\ n <= last /\ ~Good(n)
    BY <2>3
  <2>5. n # 0
    <3>1. <<>> \in Seq(M) /\ Len(<<>>) = 0 /\ 1..0 = {}
      OBVIOUS
    <3>2. Kept(c, R, 0, <<>>)
      BY <3>1 DEF Kept
    <3>3. QED
      BY <1>2, <2>4, <3>1, <3>2
  <2>6. n - 1 \in Nat /\ n - 1 <= last /\ ~ (n <= n - 1) /\ n \in 1..last
    BY <1>1, <2>4, <2>5
  <2>7. Good(n - 1)
    <3> HIDE DEF Good
    <3>1. n - 1 \notin Bad
      BY <2>3, <2>6
    <3>2. QED
      BY <2>6, <3>1
  <2>8. CASE Goes(c, R, n)
    <3>1. g[n] = g[n - 1]
      BY <1>2, <2>6, <2>8
    <3>2. \A i \in 1..(n - 1) : i \in 1..n
      BY <2>6
    <3>3. \A i \in 1..n : i \in 1..(n - 1) \/ i = n
      BY <2>6
    <3>4. Kept(c, R, n, g[n])
      <4>1. PICK v : v = g[n] /\ Kept(c, R, n - 1, v)
        BY <2>7, <3>1, Zenon
      <4>2. \A j \in 1..Len(v) : \E i \in 1..n : ~Goes(c, R, i) /\ v[j] = Entry(c, R, i)
        BY <4>1, <3>2, Zenon DEF Kept
      <4>3. \A i \in 1..n : Goes(c, R, i) \/ \E j \in 1..Len(v) : v[j] = Entry(c, R, i)
        BY <4>1, <2>8, <3>3, Zenon DEF Kept
      <4>4. \A j, k \in 1..Len(v) : v[j].who = v[k].who => j = k
        BY <4>1, Zenon DEF Kept
      <4>5. QED
        BY <4>1, <4>2, <4>3, <4>4, Zenon DEF Kept
    <3>5. g[n] \in Seq(M)
      BY <2>7, <3>1, Zenon
    <3>6. QED
      BY <2>4, <3>4, <3>5, Zenon
  <2>9. CASE ~Goes(c, R, n)
    <3>1. g[n] = Append(g[n - 1], Entry(c, R, n)) /\ Entry(c, R, n) \in M
      BY <1>1, <1>2, <2>6, <2>9
    <3>2. \A i \in 1..(n - 1) : c.members[i].who # c.members[n].who
      BY <1>1, <2>6
    <3>3. Kept(c, R, n, g[n])
      BY <2>4, <2>5, <2>7, <2>9, <3>1, <3>2, KeptMore
    <3>4. g[n] \in Seq(M)
      BY <2>7, <3>1
    <3>5. QED
      BY <2>4, <3>3, <3>4
  <2>10. QED
    BY <2>8, <2>9
<1>4. last \in Nat /\ last <= last
  BY <1>1
<1>5. Good(last)
  <2> HIDE DEF Good
  <2>1. QED
    BY <1>3, <1>4
<1>6. QED
  BY <1>1, <1>2, <1>5

LEMMA PaymentsToAddresses ==
    /\ \A o \in AddressOuts : o.to.is = "Address"
    /\ \A r \in PaymentRequests : r.payments \in Seq(AddressOuts)
<1>1. ASSUME NEW o \in AddressOuts PROVE o.to.is = "Address"
  <2>1. PICK r \in PaymentRequests : o \in Range(r.payments)
    BY DEF AddressOuts
  <2>2. PICK i \in DOMAIN r.payments : o = r.payments[i]
    BY <2>1 DEF Range
  <2>3. QED
    BY <2>2, PaymentsAssumption DEF ToAddresses
<1>2. ASSUME NEW r \in PaymentRequests PROVE r.payments \in Seq(AddressOuts)
  <2>1. r.payments \in Seq(Range(r.payments))
    BY PaymentsAssumption
  <2>2. Range(r.payments) \subseteq AddressOuts
    BY DEF AddressOuts
  <2>3. \A S, T, p : p \in Seq(S) /\ S \subseteq T => p \in Seq(T)
    OBVIOUS
  <2>4. QED
    BY <2>1, <2>2, <2>3
<1>3. QED
  BY <1>1, <1>2

\* AllPayments takes the members one by one.
LEMMA AllPaymentsOneByOne ==
    ASSUME NEW c, NEW R \in SUBSET PaymentRequests, Len(c.members) \in Nat
    PROVE  \E k : /\ AllPayments(c, R) = k[Len(c.members)]
                  /\ k[0] = <<>>
                  /\ \A n \in 1..Len(c.members) :
                       k[n] = IF Asks(R, c.members[n].who) THEN k[n - 1] \o PaysOf(c, R, n)
                              ELSE k[n - 1]
<1> DEFINE last == Len(c.members)
           V == Seq(AddressOuts)
           step == [n \in 1..last |-> [v \in V |-> IF Asks(R, c.members[n].who)
                                                   THEN v \o PaysOf(c, R, n) ELSE v]]
           Rec(g) == [n \in 0..last |->
                        IF n = 0 THEN <<>>
                        ELSE IF Asks(R, c.members[n].who) THEN g[n - 1] \o PaysOf(c, R, n)
                        ELSE g[n - 1]]
           k == CHOOSE g : g = Rec(g)
<1>1. <<>> \in V /\ step \in [1..last -> [V -> V]]
  <2>1. <<>> \in V
    OBVIOUS
  <2>2. ASSUME NEW n \in 1..last, NEW v \in V
        PROVE  (IF Asks(R, c.members[n].who) THEN v \o PaysOf(c, R, n) ELSE v) \in V
    <3>1. CASE Asks(R, c.members[n].who)
      <4>1. (CHOOSE r \in R : r.from = c.members[n].who) \in R
        BY <3>1 DEF Asks
      <4>2. PaysOf(c, R, n) \in V
        BY <4>1, PaymentsToAddresses DEF PaysOf
      <4>3. QED
        BY <3>1, <4>2
    <3>2. CASE ~Asks(R, c.members[n].who)
      BY <3>2
    <3>3. QED
      BY <3>1, <3>2
  <2> HIDE DEF V
  <2>3. QED
    BY <2>1, <2>2
<1>2. PICK f : IsRecTable(f, last, V, <<>>, step)
  <2> HIDE DEF V, step
  <2>1. QED
    BY <1>1, RecTableExists
<1>3. \A n \in 1..last : f[n] = IF Asks(R, c.members[n].who) THEN f[n - 1] \o PaysOf(c, R, n)
                                ELSE f[n - 1]
  <2>1. ASSUME NEW n \in 1..last PROVE f[n] = step[n][f[n - 1]] /\ f[n - 1] \in V
    <3> HIDE DEF V, step
    <3>1. n - 1 \in 0..last
      OBVIOUS
    <3>2. QED
      BY <1>2, <3>1 DEF IsRecTable
  <2>2. QED
    BY <2>1
<1>4. DOMAIN f = 0..last /\ f[0] = <<>> /\ f = [n \in 0..last |-> f[n]]
  <2> HIDE DEF V, step
  <2>1. QED
    BY <1>2 DEF IsRecTable
<1>5. f = Rec(f)
  <2>1. ASSUME NEW n \in 0..last PROVE f[n] = Rec(f)[n]
    <3>1. CASE n = 0
      BY <1>4, <3>1
    <3>2. CASE n # 0
      <4>1. n \in 1..last
        BY <3>2
      <4>2. QED
        BY <1>3, <4>1
    <3>3. QED
      BY <3>1, <3>2
  <2>2. Rec(f) = [n \in 0..last |-> Rec(f)[n]]
    OBVIOUS
  <2> HIDE DEF Rec
  <2>3. QED
    BY <1>4, <2>1, <2>2
<1>6. k = Rec(k)
  <2> HIDE DEF Rec
  <2>1. QED
    BY <1>5
<1>7. AllPayments(c, R) = k[last]
  BY DEF AllPayments, PaysOf
<1> HIDE DEF k
<1>8. ASSUME NEW n \in 0..last PROVE k[n] = Rec(k)[n]
  <2> HIDE DEF Rec
  <2>1. QED
    BY <1>6
<1>9. k[0] = <<>>
  <2>1. 0 \in 0..last
    OBVIOUS
  <2>2. QED
    BY <1>8, <2>1
<1>10. ASSUME NEW n \in 1..last
       PROVE  k[n] = IF Asks(R, c.members[n].who) THEN k[n - 1] \o PaysOf(c, R, n)
                     ELSE k[n - 1]
  <2>1. n \in 0..last /\ n # 0
    OBVIOUS
  <2>2. QED
    BY <1>8, <2>1
<1>11. QED
  BY <1>7, <1>9, <1>10

LEMMA AllPaymentsOfThem ==
    ASSUME NEW c, NEW R \in SUBSET PaymentRequests, Len(c.members) \in Nat
    PROVE  AllPayments(c, R) \in Seq(AddressOuts)
<1>1. PICK last \in Nat : last = Len(c.members)
  OBVIOUS
<1>2. PICK k : /\ AllPayments(c, R) = k[last] /\ k[0] = <<>>
               /\ \A n \in 1..last :
                    k[n] = IF Asks(R, c.members[n].who) THEN k[n - 1] \o PaysOf(c, R, n)
                           ELSE k[n - 1]
  <2>1. \E k : /\ AllPayments(c, R) = k[Len(c.members)] /\ k[0] = <<>>
               /\ \A n \in 1..Len(c.members) :
                    k[n] = IF Asks(R, c.members[n].who) THEN k[n - 1] \o PaysOf(c, R, n)
                           ELSE k[n - 1]
    BY AllPaymentsOneByOne
  <2>2. QED
    BY <1>1, <2>1, Zenon
<1> DEFINE V == Seq(AddressOuts)
           Bad == {n \in Nat : n <= last /\ k[n] \notin V}
<1>3. Bad = {}
  <2>1. SUFFICES ASSUME Bad # {} PROVE FALSE
    OBVIOUS
  <2>2. Bad \in SUBSET Nat
    OBVIOUS
  <2>3. PICK n \in Bad : \A m \in Bad : n <= m
    <3> HIDE DEF Bad
    <3>1. QED
      BY <2>1, <2>2, LeastNat
  <2>4. n \in Nat /\ n <= last /\ k[n] \notin V
    BY <2>3
  <2>5. n # 0
    <3>1. <<>> \in V
      OBVIOUS
    <3>2. QED
      BY <1>2, <2>4, <3>1
  <2>6. n - 1 \in Nat /\ n - 1 <= last /\ ~ (n <= n - 1) /\ n \in 1..last
    BY <2>4, <2>5
  <2>7. k[n - 1] \in V
    <3> HIDE DEF V
    <3>1. n - 1 \notin Bad
      BY <2>3, <2>6
    <3>2. QED
      BY <2>6, <3>1
  <2>8. CASE Asks(R, c.members[n].who)
    <3>1. (CHOOSE r \in R : r.from = c.members[n].who) \in R
      BY <2>8 DEF Asks
    <3>2. PaysOf(c, R, n) \in V
      BY <3>1, PaymentsToAddresses DEF PaysOf
    <3>3. k[n] = k[n - 1] \o PaysOf(c, R, n)
      BY <1>2, <2>6, <2>8
    <3>4. QED
      BY <2>4, <2>7, <3>2, <3>3
  <2>9. CASE ~Asks(R, c.members[n].who)
    BY <1>2, <2>4, <2>6, <2>7, <2>9
  <2>10. QED
    BY <2>8, <2>9
<1>4. last \in Nat /\ last <= last
  OBVIOUS
<1>5. k[last] \in V
  <2> HIDE DEF V
  <2>1. QED
    BY <1>3, <1>4
<1>6. QED
  BY <1>2, <1>5

\* A balance pays for the requests do_tx takes.
LEMMA BalanceLeft ==
    ASSUME NEW W, NEW c, PoolIn([who : W, sats : Nat], c), NEW R \in GoodRequests(c)
    PROVE  /\ AskedOf(c, R)
           /\ \A i \in 1..Len(c.members) : Entry(c, R, i) \in [who : W, sats : Nat]
<1>1. /\ R \in SUBSET PaymentRequests /\ \A r, s \in R : r.from = s.from => r = s
      /\ \A r \in R : /\ r.sequence = c.sequence
                      /\ \E m \in Range(c.members) :
                           m.who = r.from /\ Spends(R, m.who) <= m.sats
  BY DEF GoodRequests
<1>2. /\ Len(c.members) \in Nat /\ DOMAIN c.members = 1..Len(c.members)
      /\ \A i \in 1..Len(c.members) : /\ c.members[i] \in [who : W, sats : Nat]
                                      /\ c.members[i].who \in W /\ c.members[i].sats \in Nat
  <2>1. PICK M : M = [who : W, sats : Nat]
    OBVIOUS
  <2>2. PICK members : members = c.members
    OBVIOUS
  <2>3. members \in Seq(M)
    BY <2>1, <2>2 DEF PoolIn
  <2>4. /\ Len(members) \in Nat /\ DOMAIN members = 1..Len(members)
        /\ \A i \in 1..Len(members) : members[i] \in M
    BY <2>3
  <2>5. \A m \in M : m.who \in W /\ m.sats \in Nat
    BY <2>1
  <2>6. QED
    BY <2>1, <2>2, <2>4, <2>5
<1>3. ASSUME NEW r \in R
      PROVE  \E i \in 1..Len(c.members) : /\ c.members[i].who = r.from
                                          /\ Spends(R, r.from) <= c.members[i].sats
  <2>1. PICK m \in Range(c.members) : m.who = r.from /\ Spends(R, m.who) <= m.sats
    BY <1>1
  <2>2. PICK i \in 1..Len(c.members) : m = c.members[i]
    BY <1>2 DEF Range
  <2>3. QED
    BY <2>1, <2>2
<1>4. ASSUME NEW i \in 1..Len(c.members) PROVE Rest(c, R, i) \in Nat
  <2>1. CASE Asks(R, c.members[i].who)
    <3>1. PICK r \in R : r.from = c.members[i].who
      BY <2>1 DEF Asks
    <3>2. PICK k \in 1..Len(c.members) : /\ c.members[k].who = r.from
                                         /\ Spends(R, r.from) <= c.members[k].sats
      BY <1>3
    <3>3. k = i
      BY <3>1, <3>2 DEF PoolIn
    <3>4. Spends(R, c.members[i].who) \in Int
      <4>1. Own(R, c.members[i].who) \in SUBSET PaymentRequests
        BY <1>1 DEF Own
      <4>2. QED
        BY <4>1, SpendsAre, CostsInt
    <3>5. QED
      BY <1>2, <3>1, <3>2, <3>3, <3>4 DEF Rest
  <2>2. CASE ~Asks(R, c.members[i].who)
    <3>1. Spends(R, c.members[i].who) = 0
      BY <2>2, SpendsNothing DEF Asks, Own
    <3>2. QED
      BY <1>2, <3>1 DEF Rest
  <2>3. QED
    BY <2>1, <2>2
<1>5. \A i \in 1..Len(c.members) : Entry(c, R, i) \in [who : W, sats : Nat]
  BY <1>2, <1>4 DEF Entry
<1>6. AskedOf(c, R)
  BY <1>1, <1>3 DEF AskedOf
<1>7. QED
  BY <1>5, <1>6

LEMMA Prepended ==
    ASSUME NEW S, NEW s \in Seq(S), NEW x
    PROVE  /\ Len(<<x>> \o s) = Len(s) + 1 /\ (<<x>> \o s)[1] = x
           /\ \A i \in 2..(Len(s) + 1) : i - 1 \in 1..Len(s) /\ (<<x>> \o s)[i] = s[i - 1]
OBVIOUS

\* An update: the new pool first, then the payments.
LEMMA UpdateHandsOn ==
    ASSUME NEW W, NEW c, PoolIn([who : W, sats : Nat], c), NEW R \in GoodRequests(c), NEW guard
    PROVE  HandsOn([who : W, sats : Nat], c, Suggestion("do_tx", guard, DoTx(c, R), R))
<1>1. PICK M : M = [who : W, sats : Nat]
  OBVIOUS
<1>2. PICK way : way = Suggestion("do_tx", guard, DoTx(c, R), R)
  OBVIOUS
<1>3. AskedOf(c, R) /\ \A i \in 1..Len(c.members) : Entry(c, R, i) \in M
  BY <1>1, BalanceLeft
<1>4. /\ Len(c.members) \in Nat
      /\ \A i, j \in 1..Len(c.members) : c.members[i].who = c.members[j].who => i = j
  BY DEF PoolIn
<1>5. PICK members : members = NewMembers(c, R)
  OBVIOUS
<1>6. members \in Seq(M) /\ Kept(c, R, Len(c.members), members)
  BY <1>3, <1>4, <1>5, NewMembersKept
<1>7. PICK all : all = AllPayments(c, R) /\ all \in Seq(AddressOuts)
  BY <1>3, <1>4, AllPaymentsOfThem DEF AskedOf
<1>8. PICK change : change = PaymentPool(members, c.sequence + 1)
  OBVIOUS
<1>9. change.members = members /\ change.sequence = c.sequence + 1 /\ change.is = "PaymentPool"
  BY <1>8 DEF PaymentPool
<1>10. PICK spends : spends = IF Len(all) > 4 THEN <<Out(TreePay(all, 4), OutSats(all))>> ELSE all
  OBVIOUS
<1>11. PICK S : spends \in Seq(S) /\ \A o \in S : o.to.is = "Address" \/ PayoutTree(o.to)
  <2>1. CASE Len(all) > 4
    <3>1. PICK o : o = Out(TreePay(all, 4), OutSats(all))
      OBVIOUS
    <3>2. PayoutTree(o.to)
      BY <1>7, <3>1 DEF PayoutTree, Out
    <3>3. spends \in Seq({o})
      BY <1>10, <2>1, <3>1
    <3>4. QED
      BY <3>2, <3>3
  <2>2. CASE ~(Len(all) > 4)
    BY <1>7, <1>10, <2>2, PaymentsToAddresses
  <2>3. QED
    BY <2>1, <2>2
<1>12. PICK first : first = Out(change, OutSats(change.members))
  OBVIOUS
<1>13. PICK outs : outs = <<first>> \o spends
  OBVIOUS
<1>14. way.tx = DoTx(c, R) /\ way.asked = R /\ ~way.free
  BY <1>2, SuggestionIs
<1>15. DoTx(c, R) = [Tx(outs) EXCEPT !.fees = SumFunction([r \in R |-> r.fee])]
  BY <1>5, <1>7, <1>8, <1>10, <1>12, <1>13 DEF DoTx
<1>16. way.tx.outs = outs
  BY <1>14, <1>15 DEF Tx
<1>17. /\ Len(spends) \in Nat /\ Len(outs) = Len(spends) + 1 /\ outs[1] = first
       /\ \A i \in 2..(Len(spends) + 1) : i - 1 \in 1..Len(spends) /\ outs[i] = spends[i - 1]
  BY <1>11, <1>13, Prepended
<1>18. first.to = change
  BY <1>12 DEF Out
<1>19. PoolIn(M, change)
  <2>1. c.sequence + 1 \in Nat
    BY DEF PoolIn
  <2>2. QED
    <3>1. change = PaymentPool(change.members, change.sequence)
      BY <1>8, <1>9
    <3>2. change.members \in Seq(M) /\ change.sequence \in Nat
      BY <1>6, <1>9, <2>1
    <3>3. \A i, j \in 1..Len(members) : members[i].who = members[j].who => i = j
      BY <1>6, Zenon DEF Kept
    <3>4. QED
      BY <1>9, <3>1, <3>2, <3>3, Zenon DEF PoolIn
<1>20. NextPool(M, c, R, change)
  BY <1>6, <1>9, <1>19 DEF NextPool, Kept
<1>21. ASSUME NEW i \in 1..Len(outs), i # 1
       PROVE  /\ outs[i].to.is = "Address" \/ PayoutTree(outs[i].to)
              /\ outs[i].to.is # "PaymentPool"
  <2>1. i - 1 \in 1..Len(spends) /\ outs[i] = spends[i - 1]
    BY <1>17, <1>21
  <2>2. outs[i] \in S
    BY <1>11, <2>1
  <2>3. outs[i].to.is = "Address" \/ PayoutTree(outs[i].to)
    BY <1>11, <2>2
  <2>4. PayoutTree(outs[i].to) => outs[i].to.is = "TreePay"
    BY DEF PayoutTree, TreePay
  <2>5. QED
    BY <2>3, <2>4
<1>22. ASSUME NEW i \in 1..Len(outs) PROVE NextOut(M, c, R, outs[i])
  BY <1>17, <1>18, <1>20, <1>21 DEF NextOut
<1>23. ApartIn(outs)
  BY <1>21 DEF ApartIn
<1>24. AllIn(c, R, outs)
  <2>1. ASSUME NEW i \in 1..Len(c.members), ~Goes(c, R, i)
        PROVE  \E j \in 1..Len(outs[1].to.members) : outs[1].to.members[j] = Entry(c, R, i)
    BY <1>6, <1>9, <1>17, <1>18, <2>1 DEF Kept
  <2>2. 1 \in 1..Len(outs) /\ outs[1].to.is = "PaymentPool"
    BY <1>9, <1>17, <1>18
  <2>3. QED
    BY <2>1, <2>2 DEF AllIn
<1>25. QED
  BY <1>1, <1>2, <1>3, <1>14, <1>16, <1>22, <1>23, <1>24 DEF HandsOn

LEMMA PartIs ==
    ASSUME NEW M, NEW p \in Seq(M), NEW a \in Nat \ {0}, NEW b \in Nat, b <= Len(p), a <= b + 1
    PROVE  /\ SubSeq(p, a, b) \in Seq(M) /\ Len(SubSeq(p, a, b)) = b - a + 1
           /\ \A j \in 1..(b - a + 1) : /\ a + j - 1 \in 1..Len(p)
                                        /\ SubSeq(p, a, b)[j] = p[a + j - 1]
<1>1. Len(p) \in Nat /\ \A k \in 1..Len(p) : p[k] \in M
  OBVIOUS
<1>2. \A k \in a..b : k \in 1..Len(p)
  BY <1>1
<1>3. \A k \in a..b : p[k] \in M
  BY <1>1, <1>2
<1>4. b - a + 1 \in Nat
  OBVIOUS
<1>5. \A j \in 1..(b - a + 1) : a + j - 1 \in 1..Len(p)
  BY <1>1
<1>6. QED
  BY <1>1, <1>3, <1>4, <1>5

\* Without requests everybody stays with what they have.
LEMMA NothingAsked ==
    ASSUME NEW W, NEW c, PoolIn([who : W, sats : Nat], c), NEW i \in 1..Len(c.members)
    PROVE  ~Goes(c, {}, i) /\ Entry(c, {}, i) = c.members[i]
<1>1. PICK M : M = [who : W, sats : Nat]
  OBVIOUS
<1>2. c.members \in Seq(M)
  BY <1>1 DEF PoolIn
<1>3. c.members[i] \in M
  BY <1>2
<1>4. PICK m : m = c.members[i] /\ m \in [who : W, sats : Nat]
  BY <1>1, <1>3
<1>5. Spends({}, m.who) = 0
  BY SpendsNothing DEF Own
<1>6. [who |-> m.who, sats |-> m.sats - 0] = m
  BY <1>4
<1>7. QED
  BY <1>4, <1>5, <1>6 DEF Goes, Asks, Entry, Rest

LEMMA HalfIs ==
    ASSUME NEW W, NEW c, PoolIn([who : W, sats : Nat], c),
           NEW a \in Nat \ {0}, NEW b \in Nat, b <= Len(c.members), a <= b + 1, NEW x,
           x = PaymentPool(SubSeq(c.members, a, b), c.sequence + 1)
    PROVE  HalfOf([who : W, sats : Nat], c, a, b, x)
<1>1. PICK M : M = [who : W, sats : Nat]
  OBVIOUS
<1>2. PICK p : p = c.members /\ p \in Seq(M)
  BY <1>1 DEF PoolIn
<1>3. PICK half : half = SubSeq(p, a, b)
  OBVIOUS
<1>4. /\ half \in Seq(M) /\ Len(half) = b - a + 1
      /\ \A j \in 1..(b - a + 1) : a + j - 1 \in 1..Len(p) /\ half[j] = p[a + j - 1]
  BY <1>2, <1>3, PartIs
<1>5. /\ x = PaymentPool(half, c.sequence + 1)
      /\ x.is = "PaymentPool" /\ x.members = half /\ x.sequence = c.sequence + 1
  BY <1>2, <1>3 DEF PaymentPool
<1>6. x.sequence \in Nat
  BY <1>5 DEF PoolIn
<1>7. \A i, j \in 1..Len(half) : half[i].who = half[j].who => i = j
  <2>1. ASSUME NEW i \in 1..Len(half), NEW j \in 1..Len(half), half[i].who = half[j].who
        PROVE  i = j
    <3>1. /\ a + i - 1 \in 1..Len(p) /\ a + j - 1 \in 1..Len(p)
          /\ p[a + i - 1].who = p[a + j - 1].who
      BY <1>4, <2>1
    <3>2. a + i - 1 = a + j - 1
      BY <1>2, <3>1 DEF PoolIn
    <3>3. QED
      BY <1>4, <3>2
  <2>2. QED
    BY <2>1
<1>8. PoolIn(M, x)
  BY <1>4, <1>5, <1>6, <1>7 DEF PoolIn
<1>9. ASSUME NEW j \in 1..Len(half)
      PROVE  \E i \in 1..Len(c.members) : ~Goes(c, {}, i) /\ half[j] = Entry(c, {}, i)
  <2>1. a + j - 1 \in 1..Len(c.members) /\ half[j] = c.members[a + j - 1]
    BY <1>2, <1>4
  <2>2. QED
    BY <2>1, NothingAsked
<1>10. NextPool(M, c, {}, x)
  BY <1>5, <1>8, <1>9 DEF NextPool
<1>11. HalfOf(M, c, a, b, x)
  BY <1>2, <1>4, <1>5, <1>10 DEF HalfOf
<1>12. QED
  BY <1>1, <1>11

LEMMA Middle ==
    \A n \in Nat : n > 1 =>
      (n + 1) \div 2 \in Nat /\ 1 <= (n + 1) \div 2 /\ (n + 1) \div 2 < n
OBVIOUS

\* An ejection: two halves, without requests.
LEMMA EjectionHandsOn ==
    ASSUME NEW W, NEW c, PoolIn([who : W, sats : Nat], c), Len(c.members) > 1
    PROVE  HandsOn([who : W, sats : Nat], c, Template("ejection", Trivial, Tx(Ejection(c))))
<1>1. PICK M : M = [who : W, sats : Nat]
  OBVIOUS
<1>2. PICK way : way = Template("ejection", Trivial, Tx(Ejection(c)))
  OBVIOUS
<1>3. PICK last \in Nat : last = Len(c.members) /\ last > 1
  BY DEF PoolIn
<1>half. PICK mid : mid = (last + 1) \div 2
  OBVIOUS
<1>4. mid \in Nat /\ 1 <= mid /\ mid < last
  BY <1>3, <1>half, Middle
<1>5. PICK x : x = PaymentPool(SubSeq(c.members, 1, mid), c.sequence + 1)
  OBVIOUS
<1>6. PICK y : y = PaymentPool(SubSeq(c.members, mid + 1, last), c.sequence + 1)
  OBVIOUS
<1>7. /\ NextPool(M, c, {}, x) /\ x.is = "PaymentPool" /\ Len(x.members) = mid
      /\ \A j \in 1..mid : x.members[j] = c.members[j]
  <2>1. 1 \in Nat \ {0} /\ mid \in Nat /\ mid <= Len(c.members) /\ 1 <= mid + 1
    BY <1>3, <1>4
  <2>2. HalfOf([who : W, sats : Nat], c, 1, mid, x)
    BY <1>5, <2>1, HalfIs
  <2>3. mid - 1 + 1 = mid /\ \A j \in 1..mid : 1 + j - 1 = j
    BY <1>4
  <2>4. QED
    BY <1>1, <2>2, <2>3 DEF HalfOf
<1>8. /\ NextPool(M, c, {}, y) /\ y.is = "PaymentPool" /\ Len(y.members) = last - mid
      /\ \A j \in 1..(last - mid) : y.members[j] = c.members[mid + j]
  <2>1. mid + 1 \in Nat \ {0} /\ last <= Len(c.members) /\ mid + 1 <= last + 1
    BY <1>3, <1>4
  <2>2. HalfOf([who : W, sats : Nat], c, mid + 1, last, y)
    BY <1>6, <2>1, HalfIs
  <2>3. last - (mid + 1) + 1 = last - mid /\ \A j \in 1..(last - mid) : mid + 1 + j - 1 = mid + j
    BY <1>4
  <2>4. QED
    BY <1>1, <2>2, <2>3 DEF HalfOf
<1>9. PICK outs : /\ outs = Ejection(c) /\ Len(outs) = 2
                  /\ outs[1].to = x /\ outs[2].to = y
  <2>1. PICK m, n : /\ m = OutSats(SubSeq(c.members, 1, mid))
                    /\ n = OutSats(SubSeq(c.members, mid + 1, last))
    OBVIOUS
  <2>2. mid = (Len(c.members) + 1) \div 2 /\ last = Len(c.members)
    BY <1>3, <1>half, Zenon
  <2>3. Ejection(c) = <<Out(x, m), Out(y, n)>>
    BY <1>5, <1>6, <2>1, <2>2, Zenon DEF Ejection
  <2>4. QED
    BY <2>3 DEF Out
<1>10. way.tx.outs = outs /\ way.asked = {} /\ ~way.free
  BY <1>2, <1>9 DEF Template, Tx
<1>11. AskedOf(c, {})
  BY DEF AskedOf
<1>12. \A i \in 1..Len(outs) : i = 1 \/ i = 2
  BY <1>9
<1>13. ASSUME NEW i \in 1..Len(outs) PROVE NextOut(M, c, {}, outs[i])
  BY <1>7, <1>8, <1>9, <1>12 DEF NextOut
<1>14. \A j \in 1..mid, k \in 1..(last - mid) : c.members[j].who # c.members[mid + k].who
  <2>1. ASSUME NEW j \in 1..mid, NEW k \in 1..(last - mid), c.members[j].who = c.members[mid + k].who
        PROVE  FALSE
    <3>1. j \in 1..last /\ mid + k \in 1..last /\ j # mid + k
      BY <1>4
    <3>2. QED
      BY <1>3, <2>1, <3>1 DEF PoolIn
  <2>2. QED
    BY <2>1
<1>15. ApartIn(outs)
  <2>1. ASSUME NEW i \in 1..Len(outs), NEW h \in 1..Len(outs),
               NEW j \in 1..Len(outs[i].to.members), NEW k \in 1..Len(outs[h].to.members),
               outs[i].to.members[j].who = outs[h].to.members[k].who
        PROVE  i = h
    <3>1. CASE i = 1 /\ h = 2
      <4>1. j \in 1..mid /\ k \in 1..(last - mid) /\ x.members[j].who = y.members[k].who
        BY <1>7, <1>8, <1>9, <2>1, <3>1, Zenon
      <4>2. x.members[j] = c.members[j] /\ y.members[k] = c.members[mid + k]
        BY <1>7, <1>8, <4>1
      <4>3. QED
        BY <1>14, <4>1, <4>2, Zenon
    <3>2. CASE i = 2 /\ h = 1
      <4>1. k \in 1..mid /\ j \in 1..(last - mid) /\ x.members[k].who = y.members[j].who
        BY <1>7, <1>8, <1>9, <2>1, <3>2, Zenon
      <4>2. x.members[k] = c.members[k] /\ y.members[j] = c.members[mid + j]
        BY <1>7, <1>8, <4>1
      <4>3. QED
        BY <1>14, <4>1, <4>2, Zenon
    <3>3. QED
      BY <1>12, <3>1, <3>2
  <2>2. QED
    BY <2>1 DEF ApartIn
<1>16. AllIn(c, {}, outs)
  <2>1. ASSUME NEW i \in 1..last
        PROVE  \E h \in 1..2 : \E j \in 1..Len(outs[h].to.members) :
                 outs[h].to.members[j] = c.members[i]
    <3>1. CASE i <= mid
      <4>1. i \in 1..mid
        BY <1>4, <3>1
      <4>2. x.members[i] = c.members[i] /\ i \in 1..Len(x.members)
        BY <1>7, <4>1
      <4>3. QED
        BY <1>9, <4>2
    <3>2. CASE i > mid
      <4>1. i - mid \in 1..(last - mid) /\ mid + (i - mid) = i
        BY <1>3, <1>4, <3>2
      <4>2. y.members[i - mid] = c.members[i]
        BY <1>8, <4>1
      <4>3. QED
        BY <1>8, <1>9, <4>1, <4>2
    <3>3. QED
      BY <1>4, <3>1, <3>2
  <2>2. \A h \in 1..2 : outs[h].to.is = "PaymentPool"
    BY <1>7, <1>8, <1>9
  <2>3. \A i \in 1..last : Entry(c, {}, i) = c.members[i]
    BY <1>3, NothingAsked
  <2>4. Len(outs) = 2 /\ Len(c.members) = last
    BY <1>3, <1>9
  <2>5. ASSUME NEW i \in 1..Len(c.members)
        PROVE  \E h \in 1..Len(outs) :
                 /\ outs[h].to.is = "PaymentPool"
                 /\ \E j \in 1..Len(outs[h].to.members) : outs[h].to.members[j] = Entry(c, {}, i)
    <3>1. PICK h \in 1..2 : \E j \in 1..Len(outs[h].to.members) :
                              outs[h].to.members[j] = c.members[i]
      BY <2>1, <2>4
    <3>2. h \in 1..Len(outs) /\ outs[h].to.is = "PaymentPool" /\ Entry(c, {}, i) = c.members[i]
      BY <2>2, <2>3, <2>4
    <3>3. QED
      BY <3>1, <3>2
  <2>6. QED
    BY <2>5 DEF AllIn
<1>17. QED
  BY <1>1, <1>2, <1>10, <1>11, <1>13, <1>15, <1>16 DEF HandsOn

\* All ways of a pool, and of a tree that pays out, which asks for nothing.
LEMMA PoolHandsOn ==
    ASSUME NEW W, NEW coin, PoolIn([who : W, sats : Nat], coin.contract), NEW way \in Ways(coin)
    PROVE  HandsOn([who : W, sats : Nat], coin.contract, way)
<1>1. PICK M : M = [who : W, sats : Nat]
  OBVIOUS
<1>2. PICK c : c = coin.contract
  OBVIOUS
<1>3. c.is = "PaymentPool"
  BY <1>2 DEF PoolIn, PaymentPool
<1>4. Ways(coin) = PaymentPoolWays(c)
  BY <1>2, <1>3, Zenon DEF Ways
<1>5. PICK all : all = AllOf({<<m.who>> : m \in Range(c.members)})
  OBVIOUS
<1>6. \/ \E R \in GoodRequests(c) : way = Suggestion("do_tx", all, DoTx(c, R), R)
      \/ way = Finish("do_tx", all)
      \/ Len(c.members) > 1 /\ way = Template("ejection", Trivial, Tx(Ejection(c)))
  BY <1>4, <1>5 DEF PaymentPoolWays
<1>7. ASSUME way = Finish("do_tx", all) PROVE HandsOn(M, c, way)
  <2>1. way.asked = {} /\ way.free /\ way.tx.outs = <<>>
    BY <1>7 DEF Finish, Template, Tx
  <2>2. Len(<<>>) = 0 /\ 1..0 = {}
    OBVIOUS
  <2>3. QED
    BY <2>1, <2>2 DEF HandsOn, AskedOf, ApartIn
<1>8. PoolIn(M, c)
  BY <1>1, <1>2
<1>9. ASSUME NEW R \in GoodRequests(c), way = Suggestion("do_tx", all, DoTx(c, R), R)
      PROVE  HandsOn(M, c, way)
  BY <1>1, <1>8, <1>9, UpdateHandsOn
<1>10. ASSUME Len(c.members) > 1, way = Template("ejection", Trivial, Tx(Ejection(c)))
       PROVE  HandsOn(M, c, way)
  BY <1>1, <1>8, <1>10, EjectionHandsOn
<1>11. QED
  BY <1>1, <1>2, <1>6, <1>7, <1>9, <1>10

LEMMA TreeHandsOn ==
    ASSUME NEW coin, PayoutTree(coin.contract), NEW way \in Ways(coin)
    PROVE  /\ way.asked = {} /\ ~way.free
           /\ \A i \in 1..Len(way.tx.outs) :
                way.tx.outs[i].to.is = "Address" \/ PayoutTree(way.tx.outs[i].to)
<1>1. PICK p \in Seq(AddressOuts) : coin.contract = TreePay(p, 4)
  BY DEF PayoutTree
<1>2. 4 \in Nat \ {0}
  OBVIOUS
<1>3. /\ way.asked = {} /\ ~way.free
      /\ \/ way.tx.outs = p
         \/ \A i \in 1..Len(way.tx.outs) :
              \E q \in Seq(AddressOuts) : way.tx.outs[i].to = TreePay(q, 4)
  BY <1>1, <1>2, TreeOuts
<1>4. \A i \in 1..Len(p) : p[i].to.is = "Address"
  <2>1. \A i \in 1..Len(p) : p[i] \in AddressOuts
    OBVIOUS
  <2>2. QED
    BY <2>1, PaymentsToAddresses
<1>5. QED
  BY <1>3, <1>4 DEF PayoutTree

LEMMA PoolOrTree ==
    ASSUME NEW M, NEW c, PoolCoin(M, c), c.contract.is = "PaymentPool"
    PROVE  PoolIn(M, c.contract)
<1>1. ASSUME NEW x, PayoutTree(x) PROVE x.is = "TreePay"
  BY <1>1 DEF PayoutTree, TreePay
<1>2. QED
  BY <1>1 DEF PoolCoin

LEMMA TreeSteps ==
    ASSUME NEW M, NEW coin, PayoutTree(coin.contract), NEW way \in Ways(coin)
    PROVE  PoolStep(M, coin, way, NewCoins(coin, way))
<1>1. /\ way.asked = {} /\ ~way.free
      /\ \A i \in 1..Len(way.tx.outs) :
           way.tx.outs[i].to.is = "Address" \/ PayoutTree(way.tx.outs[i].to)
  BY TreeHandsOn
<1>2. ASSUME NEW x, PayoutTree(x) PROVE x.is = "TreePay"
  BY <1>2 DEF PayoutTree, TreePay
<1>3. ASSUME NEW d \in NewCoins(coin, way) PROVE PayoutTree(d.contract)
  <2>1. PICK i \in 1..Len(way.tx.outs) : /\ way.tx.outs[i].to.is # "Address"
                                         /\ d.contract = way.tx.outs[i].to
    BY NewCoinsAre
  <2>2. QED
    BY <1>1, <2>1
<1>4. \A d \in NewCoins(coin, way) : \A who : ~In(d, who)
  BY <1>2, <1>3 DEF In
<1>5. \A who, sats : ~Has(coin, who, sats)
  BY <1>2 DEF Has, In
<1>6. QED
  BY <1>1, <1>3, <1>4, <1>5 DEF PoolStep, PoolCoin

LEMMA PoolSteps ==
    ASSUME NEW W, NEW coin, PoolIn([who : W, sats : Nat], coin.contract), NEW way \in Ways(coin)
    PROVE  PoolStep([who : W, sats : Nat], coin, way, NewCoins(coin, way))
<1>1. PICK M : M = [who : W, sats : Nat]
  OBVIOUS
<1>2. PICK c : c = coin.contract
  OBVIOUS
<1>3. PICK R : R = way.asked
  OBVIOUS
<1>4. PICK outs : outs = way.tx.outs
  OBVIOUS
<1>5. PICK new : new = NewCoins(coin, way)
  OBVIOUS
<1>6. PoolIn(M, c) /\ HandsOn(M, c, way)
  BY <1>1, <1>2, PoolHandsOn
<1>7. c.is = "PaymentPool" /\ c.sequence \in Nat
  BY <1>6 DEF PoolIn, PaymentPool
<1>8. /\ AskedOf(c, R) /\ ApartIn(outs) /\ (way.free \/ AllIn(c, R, outs))
      /\ \A i \in 1..Len(outs) : NextOut(M, c, R, outs[i])
  BY <1>3, <1>4, <1>6 DEF HandsOn
<1>9. ASSUME NEW x, PayoutTree(x) PROVE x.is = "TreePay"
  BY <1>9 DEF PayoutTree, TreePay
<1>10. ASSUME NEW d \in new
       PROVE  \E i \in 1..Len(outs) :
                /\ d = Coin(Append(coin.id, i), outs[i].to, outs[i].sats, now)
                /\ d.contract = outs[i].to
                /\ PayoutTree(d.contract) \/ NextPool(M, c, R, d.contract)
  <2>1. PICK i \in 1..Len(outs) :
          /\ d = Coin(Append(coin.id, i), outs[i].to, outs[i].sats, now)
          /\ outs[i].to.is # "Address"
    BY <1>4, <1>5 DEF NewCoins
  <2>2. d.contract = outs[i].to
    BY <2>1 DEF Coin
  <2>3. QED
    BY <1>8, <2>1, <2>2 DEF NextOut
<1>11. \A d \in new : PoolCoin(M, d)
  BY <1>10 DEF PoolCoin, NextPool
<1>12. /\ R \in SUBSET PaymentRequests
       /\ \A r, s \in R : r.from = s.from => r = s
       /\ \A r \in R : In(coin, r.from) /\ r.sequence = c.sequence
  BY <1>2, <1>7, <1>8 DEF AskedOf, In
<1>13. ASSUME NEW d \in new, NEW who, In(d, who)
       PROVE  /\ NextPool(M, c, R, d.contract)
              /\ \E k \in 1..Len(c.members) : c.members[k].who = who /\ ~Goes(c, R, k)
  <2>1. NextPool(M, c, R, d.contract)
    BY <1>9, <1>10, <1>13 DEF In
  <2>2. PICK j \in 1..Len(d.contract.members) : d.contract.members[j].who = who
    BY <1>13 DEF In
  <2>3. PICK k \in 1..Len(c.members) : ~Goes(c, R, k) /\ d.contract.members[j] = Entry(c, R, k)
    BY <2>1 DEF NextPool
  <2>4. c.members[k].who = who
    BY <2>2, <2>3 DEF Entry
  <2>5. QED
    BY <2>1, <2>3, <2>4
<1>14. ASSUME NEW d \in new, NEW who, In(d, who)
       PROVE  In(coin, who) /\ d.contract.sequence = c.sequence + 1
  <2>1. NextPool(M, c, R, d.contract)
    BY <1>13, <1>14
  <2>2. PICK k \in 1..Len(c.members) : c.members[k].who = who
    BY <1>13, <1>14
  <2>3. QED
    BY <1>2, <1>7, <2>1, <2>2 DEF In, NextPool
<1>15. ASSUME NEW d \in new, NEW e \in new, NEW who, In(d, who), In(e, who) PROVE d = e
  <2>1. PICK i \in 1..Len(outs) :
          d = Coin(Append(coin.id, i), outs[i].to, outs[i].sats, now) /\ d.contract = outs[i].to
    BY <1>10
  <2>2. PICK h \in 1..Len(outs) :
          e = Coin(Append(coin.id, h), outs[h].to, outs[h].sats, now) /\ e.contract = outs[h].to
    BY <1>10
  <2>3. /\ outs[i].to.is = "PaymentPool" /\ outs[h].to.is = "PaymentPool"
        /\ \E j \in 1..Len(outs[i].to.members) : outs[i].to.members[j].who = who
        /\ \E k \in 1..Len(outs[h].to.members) : outs[h].to.members[k].who = who
    <3>1. In(d, who) /\ In(e, who)
      BY <1>15
    <3>2. QED
      BY <2>1, <2>2, <3>1 DEF In
  <2>3a. PICK j \in 1..Len(outs[i].to.members), k \in 1..Len(outs[h].to.members) :
           outs[i].to.members[j].who = outs[h].to.members[k].who
    BY <2>3
  <2>3b. i = h
    BY <1>8, <2>3, <2>3a, Zenon DEF ApartIn
  <2>4. QED
    BY <2>1, <2>2, <2>3b
<1>16. ASSUME NEW who, NEW sats, Has(coin, who, sats), ~way.free
       PROVE  \/ sats - Spends(R, who) = 0 /\ \A d \in new : ~In(d, who)
              \/ \E d \in new : Has(d, who, sats - Spends(R, who))
  <2>1. PICK k \in 1..Len(c.members) : c.members[k].who = who /\ c.members[k].sats = sats
    BY <1>2, <1>16 DEF Has, In
  <2>2. Entry(c, R, k) = [who |-> who, sats |-> sats - Spends(R, who)]
    BY <2>1 DEF Entry, Rest
  <2>3. CASE Goes(c, R, k)
    <3>1. sats - Spends(R, who) = 0
      BY <2>1, <2>3 DEF Goes, Rest
    <3>2. ASSUME NEW d \in new, In(d, who) PROVE FALSE
      <4>1. PICK i \in 1..Len(c.members) : c.members[i].who = who /\ ~Goes(c, R, i)
        BY <1>13, <3>2
      <4>2. i = k
        BY <1>6, <2>1, <4>1 DEF PoolIn
      <4>3. QED
        BY <2>3, <4>1, <4>2
    <3>3. QED
      BY <3>1, <3>2
  <2>4. CASE ~Goes(c, R, k)
    <3>1. PICK h \in 1..Len(outs) :
            /\ outs[h].to.is = "PaymentPool"
            /\ \E j \in 1..Len(outs[h].to.members) : outs[h].to.members[j] = Entry(c, R, k)
      BY <1>8, <1>16, <2>4 DEF AllIn
    <3>2. PICK d : d = Coin(Append(coin.id, h), outs[h].to, outs[h].sats, now)
      OBVIOUS
    <3>3. d \in new /\ d.contract = outs[h].to
      BY <1>4, <1>5, <3>1, <3>2 DEF NewCoins, Coin
    <3>4. PICK j \in 1..Len(d.contract.members) : d.contract.members[j] = Entry(c, R, k)
      BY <3>1, <3>3
    <3>5. /\ d.contract.is = "PaymentPool"
          /\ d.contract.members[j].who = who /\ d.contract.members[j].sats = sats - Spends(R, who)
      BY <2>2, <3>1, <3>3, <3>4
    <3>6. In(d, who)
      BY <3>5 DEF In
    <3>7. \A i \in 1..Len(d.contract.members) : d.contract.members[i].who = who => i = j
      <4>1. PoolIn(M, d.contract)
        BY <1>13, <3>3, <3>6 DEF NextPool
      <4>2. QED
        BY <3>5, <4>1 DEF PoolIn
    <3>8. Has(d, who, sats - Spends(R, who))
      BY <3>5, <3>6, <3>7 DEF Has
    <3>9. QED
      BY <3>3, <3>8
  <2>5. QED
    BY <2>3, <2>4
<1>17. PoolStep(M, coin, way, new)
  BY <1>2, <1>3, <1>7, <1>11, <1>12, <1>14, <1>15, <1>16, Zenon DEF PoolStep
<1>18. QED
  BY <1>1, <1>5, <1>17

LEMMA PoolInvInit == ASSUME Init PROVE PoolInv
<1> DEFINE first == Coin(<<>>, Plays[play].contract, Plays[play].sats, now)
<1>1. PICK pool : pool = Plays[play].contract
  OBVIOUS
<1> SUFFICES ASSUME pool.is = "PaymentPool" PROVE PoolInv
  BY <1>1 DEF PoolInv
<1>2. coins = {first} /\ spent = {} /\ play \in DOMAIN Plays
  BY DEF Init
<1>3. first.contract = pool
  BY <1>1 DEF Coin
<1> HIDE DEF first
<1>4. PICK M : M = Members(pool)
  OBVIOUS
<1>5. PoolIn(M, pool)
  BY <1>1, <1>2, <1>4, PlaysAssumption DEF PoolFields, PoolIn
<1>6. Executed = {}
  BY <1>2 DEF Executed
<1>7. ASSUME NEW m \in Range(pool.members) PROVE KeptBy(m.who, m.sats - Spends(Executed, m.who))
  <2>1. pool.members \in Seq(M)
    BY <1>5 DEF PoolIn
  <2>2. DOMAIN pool.members = 1..Len(pool.members) /\ \A i \in 1..Len(pool.members) : pool.members[i] \in M
    BY <2>1
  <2>3. PICK i \in 1..Len(pool.members) : m = pool.members[i] /\ m \in M
    BY <2>2 DEF Range
  <2>4. m.sats \in Nat
    BY <1>4, <2>3 DEF Members
  <2>5. Spends({}, m.who) = 0
    BY SpendsNothing DEF Own
  <2>6. m.sats - Spends(Executed, m.who) = m.sats
    BY <1>6, <2>4, <2>5
  <2>7. In(first, m.who)
    BY <1>3, <2>3 DEF In
  <2>8. Has(first, m.who, m.sats)
    BY <1>3, <1>5, <2>3, <2>7 DEF Has, PoolIn
  <2>9. QED
    BY <1>2, <2>6, <2>8 DEF KeptBy
<1>8. PoolCoin(M, first)
  BY <1>3, <1>5 DEF PoolCoin
<1>9. QED
  BY <1>1, <1>2, <1>4, <1>7, <1>8 DEF PoolInv

LEMMA ExecutedMore ==
    ASSUME NEW coin, NEW way, NEW s, Leaves(coin, way, s)
    PROVE  Executed' = Executed \cup way.asked
<1>1. spent' = spent \cup {s} /\ s.way = way
  BY DEF Leaves
<1>2. Executed' = UNION {t.way.asked : t \in spent \cup {s}}
  BY <1>1 DEF Executed
<1>3. {t.way.asked : t \in spent \cup {s}} = {t.way.asked : t \in spent} \cup {way.asked}
  BY <1>1
<1>4. \A S, T : UNION (S \cup {T}) = (UNION S) \cup T
  OBVIOUS
<1>5. QED
  BY <1>2, <1>3, <1>4 DEF Executed

LEMMA PoolInvSpend ==
    ASSUME Ledger, PoolInv, NEW coin, NEW way, NEW s, Leaves(coin, way, s)
    PROVE  PoolInv'
<1>1. PICK pool : pool = Plays[play].contract
  OBVIOUS
<1>2. /\ coin \in coins /\ way \in Ways(coin) /\ s.way = way
      /\ spent' = spent \cup {s} /\ play' = play
  BY DEF Leaves
<1> SUFFICES ASSUME pool.is = "PaymentPool" PROVE PoolInv'
  BY <1>1, <1>2 DEF PoolInv
<1>3. PICK M : M = Members(pool)
  OBVIOUS
<1>4. PICK new : new = NewCoins(coin, way)
  OBVIOUS
<1>5. coins' = (coins \ {coin}) \cup new
  BY <1>4 DEF Leaves
<1>6. \A c \in coins : PoolCoin(M, c)
  BY <1>1, <1>3 DEF PoolInv
<1>7. \A c, d \in coins : \A who : In(c, who) /\ In(d, who) => c = d
  BY <1>1 DEF PoolInv
<1>8. \A t \in spent : t.way.asked \in SUBSET PaymentRequests
  BY <1>1 DEF PoolInv
<1>9. \A t \in spent : \A r \in t.way.asked : \A c \in coins :
        In(c, r.from) => r.sequence < c.contract.sequence
  BY <1>1 DEF PoolInv
<1>10. \A t, u \in spent : t = u \/ t.way.asked \cap u.way.asked = {}
  BY <1>1 DEF PoolInv
<1>11. \/ \E t \in spent : t.way.free
       \/ \A m \in Range(pool.members) : KeptBy(m.who, m.sats - Spends(Executed, m.who))
  BY <1>1 DEF PoolInv
<1>12. PoolStep(M, coin, way, new)
  <2>1. CASE PoolIn(M, coin.contract)
    <3>1. PICK W : M = [who : W, sats : Nat]
      BY <1>3 DEF Members
    <3>2. QED
      BY <1>2, <1>4, <2>1, <3>1, PoolSteps
  <2>2. CASE PayoutTree(coin.contract)
    BY <1>2, <1>4, <2>2, TreeSteps
  <2>3. QED
    BY <1>2, <1>6, <2>1, <2>2 DEF PoolCoin
<1>13. PICK R : R = way.asked
  OBVIOUS
<1>14. /\ \A d \in new : PoolCoin(M, d)
       /\ R \in SUBSET PaymentRequests
       /\ \A r, t \in R : r.from = t.from => r = t
  BY <1>12, <1>13 DEF PoolStep
<1>15. \A r \in R : /\ In(coin, r.from) /\ r.sequence = coin.contract.sequence
                    /\ coin.contract.sequence \in Nat
  BY <1>12, <1>13 DEF PoolStep
<1>16. \A d \in new : \A who : In(d, who) =>
         In(coin, who) /\ d.contract.sequence = coin.contract.sequence + 1
  BY <1>12 DEF PoolStep
<1>17. \A d, e \in new : \A who : In(d, who) /\ In(e, who) => d = e
  BY <1>12 DEF PoolStep
<1>18. \A who, sats : Has(coin, who, sats) /\ ~way.free =>
         \/ sats - Spends(R, who) = 0 /\ \A d \in new : ~In(d, who)
         \/ \E d \in new : Has(d, who, sats - Spends(R, who))
  BY <1>12, <1>13 DEF PoolStep
<1>19. \A c \in coins' : PoolCoin(M, c)
  BY <1>5, <1>6, <1>14
\* Who was in the coin is in none of the others.
<1>20. ASSUME NEW c \in coins', NEW who, In(c, who), In(coin, who) PROVE c \in new
  BY <1>2, <1>5, <1>7, <1>20
<1>21. ASSUME NEW c \in coins', NEW d \in coins', NEW who, In(c, who), In(d, who) PROVE c = d
  <2>1. CASE In(coin, who)
    BY <1>17, <1>20, <1>21, <2>1
  <2>2. CASE ~In(coin, who)
    <3>1. c \in coins /\ d \in coins
      BY <1>5, <1>16, <1>21, <2>2
    <3>2. QED
      BY <1>7, <1>21, <3>1
  <2>3. QED
    BY <2>1, <2>2
<1>22. \A t \in spent' : t.way.asked \in SUBSET PaymentRequests
  BY <1>2, <1>8, <1>13, <1>14
<1>23. ASSUME NEW t \in spent', NEW r \in t.way.asked, NEW c \in coins', In(c, r.from)
       PROVE  r.sequence < c.contract.sequence
  <2>0. r.sequence \in Nat
    BY <1>22, PaymentsAssumption
  <2>1. CASE t \in spent /\ c \in coins
    BY <1>9, <1>23, <2>1
  <2>2. CASE t \in spent /\ c \in new
    <3>1. In(coin, r.from) /\ c.contract.sequence = coin.contract.sequence + 1
      BY <1>16, <1>23, <2>2
    <3>2. r.sequence < coin.contract.sequence
      BY <1>2, <1>9, <2>2, <3>1
    <3>3. coin.contract.sequence \in Nat
      <4>1. PoolIn(M, coin.contract)
        BY <1>2, <1>6, <3>1, PoolOrTree DEF In
      <4>2. QED
        BY <4>1 DEF PoolIn
    <3>4. QED
      BY <2>0, <3>1, <3>2, <3>3
  <2>3. CASE t = s
    <3>1. r \in R
      BY <1>2, <1>13, <2>3
    <3>2. In(coin, r.from) /\ r.sequence = coin.contract.sequence /\ coin.contract.sequence \in Nat
      BY <1>15, <3>1
    <3>3. c \in new
      BY <1>20, <1>23, <3>2
    <3>4. c.contract.sequence = coin.contract.sequence + 1
      BY <1>16, <1>23, <3>3
    <3>5. QED
      BY <3>2, <3>4
  <2>4. QED
    BY <1>2, <1>5, <2>1, <2>2, <2>3
<1>24. ASSUME NEW t \in spent, NEW r \in t.way.asked, r \in R PROVE FALSE
  <2>1. In(coin, r.from) /\ r.sequence = coin.contract.sequence /\ coin.contract.sequence \in Nat
    BY <1>15, <1>24
  <2>2. r.sequence < coin.contract.sequence
    BY <1>2, <1>9, <2>1
  <2>3. QED
    BY <2>1, <2>2
<1>25. ASSUME NEW t \in spent', NEW u \in spent' PROVE t = u \/ t.way.asked \cap u.way.asked = {}
  <2>1. CASE t \in spent /\ u \in spent
    BY <1>10, <2>1
  <2>2. CASE t \in spent /\ u = s
    BY <1>2, <1>13, <1>24, <2>2
  <2>3. CASE t = s /\ u \in spent
    BY <1>2, <1>13, <1>24, <2>3
  <2>4. QED
    BY <1>2, <2>1, <2>2, <2>3
<1>26. CASE (\E t \in spent : t.way.free) \/ way.free
  <2>1. \E t \in spent' : t.way.free
    BY <1>2, <1>26
  <2>2. QED
    BY <1>1, <1>2, <1>3, <1>19, <1>21, <1>22, <1>23, <1>25, <2>1 DEF PoolInv
<1>27. CASE ~way.free /\ \A m \in Range(pool.members) : KeptBy(m.who, m.sats - Spends(Executed, m.who))
  <2>1. ASSUME NEW m \in Range(pool.members)
        PROVE  KeptBy(m.who, m.sats - Spends(Executed, m.who))'
    <3>1. PICK who, left : who = m.who /\ left = m.sats - Spends(Executed, m.who)
      OBVIOUS
    <3>2. PICK rest : rest = left - Spends(R, who)
      OBVIOUS
    <3>3. m.sats - Spends(Executed', who) = rest
      <4>1. Executed' = Executed \cup R
        BY <1>13, ExecutedMore
      <4>2. Executed \in SUBSET PaymentRequests /\ Executed \cap R = {}
        BY <1>8, <1>24 DEF Executed
      <4>3. /\ Spends(Executed \cup R, who) = Spends(Executed, who) + Spends(R, who)
            /\ Spends(Executed, who) \in Int /\ Spends(R, who) \in Int
        BY <1>14, <4>2, SpendsWith
      <4>4. m.sats \in Nat
        <5>1. play \in DOMAIN Plays
          BY DEF Ledger, LedgerTypes
        <5>2. pool.members \in Seq(M)
          BY <1>1, <1>3, <5>1, PlaysAssumption DEF PoolFields
        <5>3. m \in M
          BY <5>2 DEF Range
        <5>4. QED
          BY <1>3, <5>3 DEF Members
      <4>5. QED
        BY <3>1, <3>2, <4>1, <4>3, <4>4
    <3>4. KeptBy(who, left)
      BY <1>27, <3>1
    <3>5. CASE In(coin, who)
      <4>1. Has(coin, who, left)
        BY <1>2, <3>4, <3>5 DEF KeptBy
      <4>2. CASE rest = 0 /\ \A d \in new : ~In(d, who)
        <5>1. \A c \in coins' : ~In(c, who)
          BY <1>20, <3>5, <4>2
        <5>2. QED
          BY <3>1, <3>3, <4>2, <5>1 DEF KeptBy
      <4>3. CASE \E d \in new : Has(d, who, rest)
        <5>1. PICK d \in new : Has(d, who, rest)
          BY <4>3
        <5>2. d \in coins' /\ In(d, who)
          BY <1>5, <5>1 DEF Has
        <5>3. \A c \in coins' : In(c, who) => c = d
          BY <1>21, <5>2
        <5>4. QED
          BY <3>1, <3>3, <5>1, <5>2, <5>3 DEF KeptBy
      <4>4. QED
        BY <1>18, <1>27, <3>2, <4>1, <4>2, <4>3
    <3>6. CASE ~In(coin, who)
      <4>1. \A d \in new : ~In(d, who)
        BY <1>16, <3>6
      <4>2. Own(R, who) = {}
        BY <1>15, <3>6 DEF Own
      <4>3. Spends(R, who) = 0
        BY <4>2, SpendsNothing
      <4>4. left \in Int
        <5>1. Executed \in SUBSET PaymentRequests
          BY <1>8 DEF Executed
        <5>2. Spends(Executed, who) \in Int
          <6>1. Own(Executed, who) \in SUBSET PaymentRequests
            BY <5>1 DEF Own
          <6>2. QED
            BY <6>1, SpendsAre, CostsInt
        <5>3. play \in DOMAIN Plays
          BY DEF Ledger, LedgerTypes
        <5>4. pool.members \in Seq(M)
          BY <1>1, <1>3, <5>3, PlaysAssumption DEF PoolFields
        <5>5. m \in M
          BY <5>4 DEF Range
        <5>6. m.sats \in Nat
          BY <1>3, <5>5 DEF Members
        <5>7. QED
          BY <3>1, <5>2, <5>6
      <4>5. rest = left
        BY <3>2, <4>3, <4>4
      <4>6. CASE left = 0 /\ \A c \in coins : ~In(c, who)
        <5>1. \A c \in coins' : ~In(c, who)
          BY <1>5, <4>1, <4>6
        <5>2. QED
          BY <3>1, <3>3, <4>5, <4>6, <5>1 DEF KeptBy
      <4>7. CASE \E c \in coins : Has(c, who, left) /\ \A d \in coins : In(d, who) => d = c
        <5>1. PICK c \in coins : Has(c, who, left) /\ \A d \in coins : In(d, who) => d = c
          BY <4>7
        <5>2. c \in coins'
          BY <1>5, <3>6, <5>1 DEF Has
        <5>3. \A d \in coins' : In(d, who) => d = c
          BY <1>5, <4>1, <5>1
        <5>4. QED
          BY <3>1, <3>3, <4>5, <5>1, <5>2, <5>3 DEF KeptBy
      <4>8. QED
        BY <3>4, <4>6, <4>7 DEF KeptBy
    <3>7. QED
      BY <3>5, <3>6
  <2>2. QED
    BY <1>1, <1>2, <1>3, <1>19, <1>21, <1>22, <1>23, <1>25, <2>1 DEF PoolInv
<1>28. QED
  BY <1>11, <1>26, <1>27

LEMMA PoolInvNext == Ledger /\ PoolInv /\ [Next]_vars => PoolInv'
<1> SUFFICES ASSUME Ledger, PoolInv, [Next]_vars PROVE PoolInv'
  OBVIOUS
<1>1. CASE SomeSpend
  <2>1. PICK coin \in coins : \E way \in Ways(coin) : Spend(coin, way)
    BY <1>1, Zenon DEF SomeSpend
  <2>2. PICK way \in Ways(coin) : Spend(coin, way)
    BY <2>1
  <2>3. PICK s : Leaves(coin, way, s)
    BY <2>2, SpendLeaves
  <2>4. QED
    BY <2>3, PoolInvSpend
<1>2. CASE UNCHANGED <<play, coins, spent>>
  <2>1. Executed' = Executed
    BY <1>2 DEF Executed
  <2>2. ASSUME NEW who, NEW left, KeptBy(who, left) PROVE KeptBy(who, left)'
    BY <1>2, <2>2 DEF KeptBy
  <2>3. QED
    BY <1>2, <2>1, <2>2, Zenon DEF PoolInv
<1>3. QED
  BY <1>1, <1>2 DEF Next, SomeTick, Tick, vars

\* Once a request was carried out no pool has a sequence it is good for, and a
\* balance is in one pool (RequestsOnce: payment_pool.rs).
THEOREM RequestsOnceHolds == Spec => []RequestsOnce
<1>1. Init => PoolInv
  BY PoolInvInit
<1>2. Ledger /\ PoolInv /\ [Next]_vars => PoolInv'
  BY PoolInvNext
<1>3. PoolInv => RequestsOnce
  <2> SUFFICES ASSUME PoolInv, Plays[play].contract.is = "PaymentPool" PROVE RequestsOnce
    BY DEF RequestsOnce
  <2>1. PICK pool : pool = Plays[play].contract
    OBVIOUS
  <2>2. \A s, t \in spent : s = t \/ s.way.asked \cap t.way.asked = {}
    BY <2>1 DEF PoolInv
  <2>3. \/ \E s \in spent : s.way.free
        \/ \A m \in Range(pool.members) : KeptBy(m.who, m.sats - Spends(Executed, m.who))
    BY <2>1 DEF PoolInv
  <2>4. \A c \in coins : PoolCoin(Members(pool), c)
    BY <2>1 DEF PoolInv
  <2>5. ASSUME NEW c \in coins, c.contract.is = "PaymentPool"
        PROVE  DOMAIN c.contract.members = 1..Len(c.contract.members)
    <3>1. PoolIn(Members(pool), c.contract)
      BY <2>4, <2>5, PoolOrTree
    <3>2. c.contract.members \in Seq(Members(pool))
      BY <3>1 DEF PoolIn
    <3>3. QED
      BY <3>2
  <2>6. ASSUME NEW who, NEW c \in coins PROVE c \in PoolsOf(who) <=> In(c, who)
    BY <2>5 DEF PoolsOf, In, Range
  <2>7. ASSUME NEW who PROVE PoolsOf(who) \subseteq coins
    BY DEF PoolsOf
  <2>8. ASSUME NEW m \in Range(pool.members), KeptBy(m.who, m.sats - Spends(Executed, m.who))
        PROVE  Keeps(m)
    <3>1. PICK who, left : who = m.who /\ left = m.sats - Spends(Executed, m.who)
      OBVIOUS
    <3>2. CASE left = 0 /\ \A c \in coins : ~In(c, who)
      <4>1. PoolsOf(who) = {}
        BY <2>6, <2>7, <3>2
      <4>2. QED
        BY <3>1, <3>2, <4>1 DEF Keeps
    <3>3. CASE \E c \in coins : Has(c, who, left) /\ \A d \in coins : In(d, who) => d = c
      <4>1. PICK c \in coins : Has(c, who, left) /\ \A d \in coins : In(d, who) => d = c
        BY <3>3
      <4>2. c \in PoolsOf(who) /\ PoolsOf(who) = {c} /\ c.contract.is = "PaymentPool"
        BY <2>6, <2>7, <4>1 DEF Has, In
      <4>3. \A n \in Range(c.contract.members) : n.who = who => n.sats = left
        BY <2>5, <4>1, <4>2 DEF Has, Range
      <4>4. QED
        BY <3>1, <4>2, <4>3 DEF Keeps
    <3>4. QED
      BY <2>8, <3>1, <3>2, <3>3 DEF KeptBy
  <2>9. QED
    BY <2>1, <2>2, <2>3, <2>8 DEF RequestsOnce
<1>4. QED
  BY <1>1, <1>2, <1>3, LedgerHolds, PTL DEF Spec
-----------------------------------------------------------------------------
(* Amounts in a row: what the outputs of a transaction add up to, however   *)
(* they are put together.                                                   *)

LEMMA TotalMore ==
    ASSUME NEW f, NEW n \in Nat, \A i \in 1..(n + 1) : f[i] \in Int
    PROVE  Total(f, n) \in Int /\ Total(f, n + 1) = Total(f, n) + f[n + 1]
<1>1. IsFiniteSet(1..n)
  BY FS_Interval
<1>2. /\ n + 1 \notin 1..n /\ (1..n) \cup {n + 1} = 1..(n + 1)
      /\ n + 1 \in 1..(n + 1) /\ \A i \in 1..n : i \in 1..(n + 1)
  OBVIOUS
<1>3. PICK S : S = 1..n
  OBVIOUS
<1>4. PICK x : x = n + 1
  OBVIOUS
<1>5. \A y \in S \cup {x} : f[y] \in Int
  BY <1>2, <1>3, <1>4
<1>6. SumFunctionOnSet(f, S \cup {x}) = f[x] + SumFunctionOnSet(f, S)
  BY <1>1, <1>2, <1>3, <1>4, <1>5, SumOneMore
<1>7. SumFunctionOnSet(f, S) \in Int
  BY <1>1, <1>3, <1>5, SumType
<1>8. f[x] \in Int
  BY <1>5
<1>9. SumFunctionOnSet(f, S \cup {x}) = SumFunctionOnSet(f, S) + f[x]
  BY <1>6, <1>7, <1>8
<1>10. QED
  BY <1>2, <1>3, <1>4, <1>7, <1>9, Zenon DEF Total

LEMMA TotalNone == ASSUME NEW f PROVE Total(f, 0) = 0
<1>1. 1..0 = {}
  OBVIOUS
<1>2. QED
  BY <1>1, SumEmpty DEF Total

\* A total may be cut anywhere: g goes on where f is after a numbers.
GoesOn(f, g, a, m) ==
    /\ \A i \in 1..(a + m) : f[i] \in Int
    /\ \A i \in 1..m : g[i] = f[a + i]
LEMMA TotalShift ==
    ASSUME NEW f, NEW g, NEW a \in Nat, NEW m \in Nat, GoesOn(f, g, a, m)
    PROVE  /\ Total(f, a) \in Int /\ Total(g, m) \in Int
           /\ Total(f, a + m) = Total(f, a) + Total(g, m)
<1> DEFINE Holds(k) == /\ Total(f, a) \in Int /\ Total(g, k) \in Int
                       /\ Total(f, a + k) = Total(f, a) + Total(g, k)
           Bad == {k \in Nat : k <= m /\ ~Holds(k)}
<1>0. (\A i \in 1..(a + m) : f[i] \in Int) /\ \A i \in 1..m : g[i] = f[a + i]
  BY DEF GoesOn
<1> USE <1>0
<1>1. Holds(0)
  <2>1. Total(f, a) \in Int
    <3>1. \A i \in 1..a : i \in 1..(a + m)
      OBVIOUS
    <3>2. IsFiniteSet(1..a) /\ \A i \in 1..a : f[i] \in Int
      BY <3>1, FS_Interval
    <3>3. QED
      BY <3>2, SumType DEF Total
  <2>2. Total(g, 0) = 0 /\ a + 0 = a
    BY TotalNone
  <2>3. QED
    BY <2>1, <2>2
<1>2. ASSUME NEW k \in Nat, k + 1 <= m, Holds(k) PROVE Holds(k + 1)
  <2>1. \A i \in 1..((a + k) + 1) : i \in 1..(a + m)
    BY <1>2
  <2>2. \A i \in 1..((a + k) + 1) : f[i] \in Int
    BY <2>1
  <2>3. Total(f, (a + k) + 1) = Total(f, a + k) + f[(a + k) + 1]
    <3>1. a + k \in Nat
      OBVIOUS
    <3>2. QED
      BY <2>2, <3>1, TotalMore
  <2>4. \A i \in 1..(k + 1) : i \in 1..m /\ a + i \in 1..(a + m)
    BY <1>2
  <2>5. \A i \in 1..(k + 1) : g[i] \in Int
    BY <2>4
  <2>6. Total(g, k + 1) = Total(g, k) + g[k + 1]
    BY <2>5, TotalMore
  <2>7. g[k + 1] = f[(a + k) + 1] /\ g[k + 1] \in Int /\ (a + k) + 1 = a + (k + 1)
    <3>1. k + 1 \in 1..(k + 1) /\ (a + k) + 1 = a + (k + 1)
      OBVIOUS
    <3>2. QED
      BY <2>4, <2>5, <3>1
  <2> HIDE DEF Holds
  <2>8. /\ Total(f, a) \in Int /\ Total(g, k) \in Int
        /\ Total(f, a + k) = Total(f, a) + Total(g, k)
    BY <1>2 DEF Holds
  <2>9. QED
    BY <2>3, <2>6, <2>7, <2>8 DEF Holds
<1>3. SUFFICES ASSUME Bad # {} PROVE FALSE
  <2>1. m \notin Bad
    BY <1>3
  <2> HIDE DEF Holds
  <2>2. Holds(m)
    BY <2>1
  <2>3. QED
    BY <2>2 DEF Holds
<1> HIDE DEF Holds
<1>4. PICK k \in Bad : \A j \in Bad : k <= j
  <2>1. Bad \in SUBSET Nat
    OBVIOUS
  <2> HIDE DEF Bad
  <2>2. QED
    BY <1>3, <2>1, LeastNat
<1>5. k \in Nat /\ k <= m /\ ~Holds(k) /\ k # 0
  BY <1>1, <1>4
<1>6. k - 1 \in Nat /\ (k - 1) + 1 = k /\ ~(k <= k - 1) /\ k - 1 <= m
  BY <1>5
<1>7. k - 1 \notin Bad
  <2> HIDE DEF Bad
  <2>1. QED
    BY <1>4, <1>6
<1>8. Holds(k - 1)
  BY <1>6, <1>7
<1>9. QED
  BY <1>2, <1>5, <1>6, <1>8

\* Two sequences in a row.
LEMMA Joined ==
    ASSUME NEW S, NEW s \in Seq(S), NEW t \in Seq(S)
    PROVE  /\ Len(s \o t) = Len(s) + Len(t) /\ Len(s) \in Nat /\ Len(t) \in Nat
           /\ \A i \in 1..Len(s) : (s \o t)[i] = s[i]
           /\ \A i \in 1..Len(t) : (s \o t)[Len(s) + i] = t[i] /\ Len(s) + i \in 1..(Len(s) + Len(t))
<1>1. Len(s \o t) = Len(s) + Len(t) /\ Len(s) \in Nat /\ Len(t) \in Nat
  OBVIOUS
<1>2. \A i \in 1..Len(s) : (s \o t)[i] = s[i]
  OBVIOUS
<1>3. \A i \in 1..Len(t) : Len(s) + i \in 1..(Len(s) + Len(t)) /\ ~(Len(s) + i <= Len(s))
  BY <1>1
<1>4. \A i \in 1..Len(t) : (s \o t)[Len(s) + i] = t[i]
  BY <1>1, <1>3
<1>5. QED
  BY <1>1, <1>2, <1>3, <1>4

\* Totals of equal numbers are equal.
LEMMA TotalSame ==
    ASSUME NEW f, NEW g, NEW m \in Nat, \A i \in 1..m : f[i] \in Int /\ g[i] = f[i]
    PROVE  Total(f, m) \in Int /\ Total(g, m) = Total(f, m)
<1>1. 0 + m = m /\ \A i \in 1..m : 0 + i = i
  OBVIOUS
<1>2. /\ Total(f, 0) \in Int /\ Total(g, m) \in Int
      /\ Total(f, 0 + m) = Total(f, 0) + Total(g, m)
  <2>1. 0 \in Nat /\ GoesOn(f, g, 0, m)
    BY <1>1 DEF GoesOn
  <2>2. QED
    BY <2>1, TotalShift
<1>3. Total(f, 0) = 0
  BY TotalNone
<1>4. QED
  BY <1>1, <1>2, <1>3

\* What pieces of a sequence add up to, when each is the difference of two
\* entries of a table.
LEMMA TotalTelescope ==
    ASSUME NEW F, NEW h, NEW m \in Nat, \A i \in 0..m : F[i] \in Int,
           \A i \in 1..m : h[i] = F[i] - F[i - 1]
    PROVE  Total(h, m) = F[m] - F[0]
<1> DEFINE Bad == {k \in Nat : k <= m /\ ~(Total(h, k) = F[k] - F[0])}
<1>1. SUFFICES ASSUME Bad # {} PROVE FALSE
  <2>1. m \notin Bad
    BY <1>1
  <2>2. QED
    BY <2>1
<1>2. PICK k \in Bad : \A j \in Bad : k <= j
  <2>1. Bad \in SUBSET Nat
    OBVIOUS
  <2> HIDE DEF Bad
  <2>2. QED
    BY <1>1, <2>1, LeastNat
<1>3. k \in Nat /\ k <= m /\ ~(Total(h, k) = F[k] - F[0])
  BY <1>2
<1>4. k # 0
  <2>1. Total(h, 0) = 0 /\ F[0] \in Int
    BY TotalNone
  <2>2. QED
    BY <1>3, <2>1
<1>5. k - 1 \in Nat /\ (k - 1) + 1 = k /\ ~(k <= k - 1) /\ k - 1 <= m
  BY <1>3, <1>4
<1>6. Total(h, k - 1) = F[k - 1] - F[0]
  <2>1. k - 1 \notin Bad
    <3> HIDE DEF Bad
    <3>1. QED
      BY <1>2, <1>5
  <2>2. QED
    BY <1>5, <2>1
<1>7. \A i \in 1..k : h[i] = F[i] - F[i - 1] /\ F[i] \in Int /\ F[i - 1] \in Int
  <2>1. \A i \in 1..k : i \in 1..m /\ i \in 0..m /\ i - 1 \in 0..m
    BY <1>3
  <2>2. QED
    BY <2>1
<1>8. \A i \in 1..k : h[i] \in Int
  BY <1>7
<1>9. Total(h, k) = Total(h, k - 1) + h[k]
  <2>1. \A i \in 1..((k - 1) + 1) : h[i] \in Int
    BY <1>5, <1>8
  <2>2. Total(h, (k - 1) + 1) = Total(h, k - 1) + h[(k - 1) + 1]
    BY <1>5, <2>1, TotalMore
  <2>3. QED
    BY <1>5, <2>2
<1>10. h[k] = F[k] - F[k - 1] /\ F[k] \in Int /\ F[k - 1] \in Int /\ F[0] \in Int
  <2>1. k \in 1..k /\ 0 \in 0..m
    BY <1>3, <1>4
  <2>2. QED
    BY <1>7, <2>1
<1>11. QED
  BY <1>3, <1>6, <1>9, <1>10

LEMMA OutSatsTotal ==
    ASSUME NEW S, \A x \in S : x.sats \in Int, NEW s \in Seq(S)
    PROVE  /\ Len(s) \in Nat /\ OutSats(s) = Total(SatsOf(s), Len(s)) /\ OutSats(s) \in Int
           /\ \A i \in 1..Len(s) : SatsOf(s)[i] = s[i].sats /\ s[i].sats \in Int
<1>1. DOMAIN s = 1..Len(s) /\ Len(s) \in Nat /\ \A i \in 1..Len(s) : s[i] \in S
  OBVIOUS
<1>2. OutSats(s) = SumFunctionOnSet(SatsOf(s), 1..Len(s))
  BY <1>1 DEF OutSats, SumFunction, SatsOf
<1>3. \A i \in 1..Len(s) : SatsOf(s)[i] = s[i].sats /\ s[i].sats \in Int
  BY <1>1 DEF SatsOf
<1>4. OutSats(s) \in Int
  BY <1>3, OutSatsInt
<1>5. QED
  BY <1>1, <1>2, <1>3, <1>4 DEF Total

LEMMA OutSatsNone == OutSats(<<>>) = 0
<1>1. <<>> \in Seq({}) /\ Len(<<>>) = 0
  OBVIOUS
<1>2. OutSats(<<>>) = Total(SatsOf(<<>>), 0)
  BY <1>1, OutSatsTotal
<1>3. QED
  BY <1>2, TotalNone

LEMMA OutSatsJoin ==
    ASSUME NEW S, \A x \in S : x.sats \in Int, NEW s \in Seq(S), NEW t \in Seq(S)
    PROVE  s \o t \in Seq(S) /\ OutSats(s \o t) = OutSats(s) + OutSats(t)
<1>1. PICK u : u = s \o t /\ u \in Seq(S)
  <2>1. s \o t \in Seq(S)
    OBVIOUS
  <2>2. QED
    BY <2>1
<1>2. /\ Len(s) \in Nat /\ Len(t) \in Nat /\ Len(u) = Len(s) + Len(t)
      /\ \A i \in 1..Len(s) : u[i] = s[i]
      /\ \A i \in 1..Len(t) : u[Len(s) + i] = t[i] /\ Len(s) + i \in 1..Len(u)
  BY <1>1, Joined
<1>3. /\ OutSats(u) = Total(SatsOf(u), Len(u))
      /\ \A i \in 1..Len(u) : SatsOf(u)[i] = u[i].sats /\ u[i].sats \in Int
  BY <1>1, OutSatsTotal
<1>4. /\ OutSats(s) = Total(SatsOf(s), Len(s)) /\ OutSats(s) \in Int
      /\ \A i \in 1..Len(s) : SatsOf(s)[i] = s[i].sats /\ s[i].sats \in Int
  BY OutSatsTotal
<1>5. /\ OutSats(t) = Total(SatsOf(t), Len(t)) /\ OutSats(t) \in Int
      /\ \A i \in 1..Len(t) : SatsOf(t)[i] = t[i].sats /\ t[i].sats \in Int
  BY OutSatsTotal
<1>6. \A i \in 1..(Len(s) + Len(t)) : SatsOf(u)[i] \in Int
  BY <1>2, <1>3
<1>7. \A i \in 1..Len(t) : SatsOf(t)[i] = SatsOf(u)[Len(s) + i]
  BY <1>2, <1>3, <1>5
<1>8. /\ Total(SatsOf(u), Len(s)) \in Int /\ Total(SatsOf(t), Len(t)) \in Int
      /\ Total(SatsOf(u), Len(s) + Len(t)) = Total(SatsOf(u), Len(s)) + Total(SatsOf(t), Len(t))
  <2>1. GoesOn(SatsOf(u), SatsOf(t), Len(s), Len(t))
    BY <1>6, <1>7 DEF GoesOn
  <2>2. QED
    BY <1>2, <2>1, TotalShift
<1>9. Total(SatsOf(u), Len(s)) = Total(SatsOf(s), Len(s))
  <2>1. \A i \in 1..Len(s) : i \in 1..Len(u)
    BY <1>2
  <2>2. \A i \in 1..Len(s) : SatsOf(s)[i] \in Int /\ SatsOf(u)[i] = SatsOf(s)[i]
    BY <1>2, <1>3, <1>4, <2>1
  <2>3. QED
    BY <1>2, <2>2, TotalSame
<1>10. QED
  BY <1>1, <1>2, <1>3, <1>4, <1>5, <1>8, <1>9

\* A part of a sequence, as a difference of totals.
LEMMA OutSatsPart ==
    ASSUME NEW S, \A x \in S : x.sats \in Int, NEW p \in Seq(S),
           NEW a \in Nat, NEW b \in Nat, a <= b, b <= Len(p)
    PROVE  /\ SubSeq(p, a + 1, b) \in Seq(S)
           /\ Total(SatsOf(p), a) \in Int /\ Total(SatsOf(p), b) \in Int
           /\ OutSats(SubSeq(p, a + 1, b)) = Total(SatsOf(p), b) - Total(SatsOf(p), a)
<1>1. PICK q : q = SubSeq(p, a + 1, b)
  OBVIOUS
<1>2. PICK m \in Nat : m = b - a /\ b = a + m /\ b - (a + 1) + 1 = m
  OBVIOUS
<1>3. /\ q \in Seq(S) /\ Len(q) = m
      /\ \A j \in 1..m : (a + 1) + j - 1 \in 1..Len(p) /\ q[j] = p[(a + 1) + j - 1]
  <2>1. a + 1 \in Nat \ {0} /\ a + 1 <= b + 1
    OBVIOUS
  <2>2. QED
    BY <1>1, <1>2, <2>1, PartIs
<1>4. \A j \in 1..m : (a + 1) + j - 1 = a + j
  OBVIOUS
<1>5. \A i \in 1..Len(p) : SatsOf(p)[i] = p[i].sats /\ p[i].sats \in Int
  BY OutSatsTotal
<1>6. /\ OutSats(q) = Total(SatsOf(q), m)
      /\ \A i \in 1..m : SatsOf(q)[i] = q[i].sats /\ q[i].sats \in Int
  BY <1>3, OutSatsTotal
<1>7. Len(p) \in Nat /\ \A i \in 1..(a + m) : i \in 1..Len(p)
  BY <1>2
<1>8. \A i \in 1..(a + m) : SatsOf(p)[i] \in Int
  BY <1>5, <1>7
<1>9. \A i \in 1..m : SatsOf(q)[i] = SatsOf(p)[a + i]
  BY <1>3, <1>4, <1>5, <1>6
<1>10. /\ Total(SatsOf(p), a) \in Int /\ Total(SatsOf(q), m) \in Int
       /\ Total(SatsOf(p), a + m) = Total(SatsOf(p), a) + Total(SatsOf(q), m)
  <2>1. GoesOn(SatsOf(p), SatsOf(q), a, m)
    BY <1>8, <1>9 DEF GoesOn
  <2>2. QED
    BY <2>1, TotalShift
<1>11. QED
  BY <1>1, <1>2, <1>3, <1>6, <1>10

\* The two parts of a sequence.
LEMMA OutSatsHalves ==
    ASSUME NEW S, \A x \in S : x.sats \in Int, NEW p \in Seq(S), NEW a \in Nat, a <= Len(p)
    PROVE  /\ SubSeq(p, 1, a) \in Seq(S) /\ SubSeq(p, a + 1, Len(p)) \in Seq(S)
           /\ OutSats(SubSeq(p, 1, a)) \in Int /\ OutSats(SubSeq(p, a + 1, Len(p))) \in Int
           /\ OutSats(SubSeq(p, 1, a)) + OutSats(SubSeq(p, a + 1, Len(p))) = OutSats(p)
<1>1. Len(p) \in Nat /\ OutSats(p) = Total(SatsOf(p), Len(p)) /\ OutSats(p) \in Int
  BY OutSatsTotal
<1>2. 0 \in Nat /\ 0 <= a /\ 0 + 1 = 1
  OBVIOUS
<1>3. /\ SubSeq(p, 0 + 1, a) \in Seq(S) /\ Total(SatsOf(p), a) \in Int
      /\ OutSats(SubSeq(p, 0 + 1, a)) = Total(SatsOf(p), a) - Total(SatsOf(p), 0)
  BY <1>2, OutSatsPart
<1>4. /\ SubSeq(p, a + 1, Len(p)) \in Seq(S)
      /\ OutSats(SubSeq(p, a + 1, Len(p))) = Total(SatsOf(p), Len(p)) - Total(SatsOf(p), a)
  BY <1>1, OutSatsPart
<1>5. Total(SatsOf(p), 0) = 0
  BY TotalNone
<1>6. QED
  BY <1>1, <1>2, <1>3, <1>4, <1>5

-----------------------------------------------------------------------------
(* What contracts hand on is what the contracts they hand it to need.       *)

LEMMA HoldingIs ==
    ASSUME NEW x, NEW sats
    PROVE  Holding(x, sats).contract = x /\ Holding(x, sats).sats = sats
BY DEF Holding

LEMMA WaysOfHolding ==
    ASSUME NEW coin
    PROVE  Ways(coin) = Ways(Holding(coin.contract, coin.sats))
<1>1. /\ Holding(coin.contract, coin.sats).contract = coin.contract
      /\ Holding(coin.contract, coin.sats).sats = coin.sats
  BY DEF Holding
<1>2. QED
  BY <1>1, Zenon DEF Ways

LEMMA FundedIs ==
    ASSUME NEW coin, NEW dust
    PROVE  FundedCoin(coin, dust) <=> \A way \in Ways(coin) : Funds(way, coin.sats, dust)
BY DEF FundedCoin, Funds

LEMMA FinishFunds ==
    ASSUME NEW name, NEW guard, NEW sats, NEW dust
    PROVE  Funds(Finish(name, guard), sats, dust)
BY FinishIs DEF Funds

LEMMA ExactFunds ==
    ASSUME NEW way, NEW sats \in Int, NEW dust \in Nat,
           OutSats(way.tx.outs) + way.tx.fees = sats
    PROVE  Funds(way, sats, dust)
<1>1. sats <= sats /\ sats - sats <= dust
  OBVIOUS
<1>2. QED
  BY <1>1 DEF Funds

LEMMA NoOuts == ASSUME NEW dust PROVE SoundOuts(<<>>, dust)
<1>1. 1..Len(<<>>) = {}
  OBVIOUS
<1>2. QED
  BY <1>1 DEF SoundOuts

LEMMA FinishLeads ==
    ASSUME NEW name, NEW guard, NEW dust
    PROVE  SoundOuts(Finish(name, guard).tx.outs, dust)
BY FinishIs, TxIs, NoOuts

LEMMA AddressOutsLead ==
    ASSUME NEW outs, \A i \in 1..Len(outs) : IsAddress(outs[i].to), NEW dust
    PROVE  SoundOuts(outs, dust)
BY DEF SoundOuts

LEMMA OneOutLeads ==
    ASSUME NEW to, NEW sats, NEW dust, IsAddress(to) \/ Sound(to, sats, dust)
    PROVE  SoundOuts(<<Out(to, sats)>>, dust)
<1>1. Len(<<Out(to, sats)>>) = 1 /\ <<Out(to, sats)>>[1] = Out(to, sats)
  OBVIOUS
<1>2. Out(to, sats).to = to /\ Out(to, sats).sats = sats
  BY DEF Out
<1>3. \A i \in 1..1 : i = 1
  OBVIOUS
<1>4. QED
  BY <1>1, <1>2, <1>3, Zenon DEF SoundOuts

LEMMA TwoOutsLead ==
    ASSUME NEW x, NEW y, NEW dust,
           IsAddress(x.to) \/ Sound(x.to, x.sats, dust),
           IsAddress(y.to) \/ Sound(y.to, y.sats, dust)
    PROVE  SoundOuts(<<x, y>>, dust)
<1>1. Len(<<x, y>>) = 2 /\ <<x, y>>[1] = x /\ <<x, y>>[2] = y
  OBVIOUS
<1>2. \A i \in 1..2 : i = 1 \/ i = 2
  OBVIOUS
<1>3. QED
  BY <1>1, <1>2, Zenon DEF SoundOuts

\* The payees of outputs.
LEMMA PayeesAre ==
    ASSUME NEW p, Payees(p)
    PROVE  /\ Len(p) \in Nat /\ DOMAIN p = 1..Len(p) /\ p \in Seq(Range(p))
           /\ \A o \in Range(p) : IsAddress(o.to) /\ o.sats \in Nat /\ o.sats \in Int
           /\ \A i \in 1..Len(p) : IsAddress(p[i].to) /\ p[i].sats \in Nat
           /\ OutSats(p) \in Int
<1>1. p \in Seq(Range(p)) /\ \A i \in DOMAIN p : p[i].to.is = "Address" /\ p[i].sats \in Nat
  BY DEF Payees, ToAddresses
<1>2. Len(p) \in Nat /\ DOMAIN p = 1..Len(p)
  BY <1>1
<1>3. \A o \in Range(p) : IsAddress(o.to) /\ o.sats \in Nat /\ o.sats \in Int
  BY <1>1 DEF Range, IsAddress
<1>4. OutSats(p) \in Int
  BY <1>1, <1>3, OutSatsTotal
<1>5. QED
  BY <1>1, <1>2, <1>3, <1>4 DEF IsAddress

LEMMA ArePayees ==
    ASSUME NEW S, \A o \in S : IsAddress(o.to) /\ o.sats \in Nat, NEW q \in Seq(S)
    PROVE  Payees(q)
<1>1. DOMAIN q = 1..Len(q) /\ \A i \in 1..Len(q) : q[i] \in S
  OBVIOUS
<1>2. q \in Seq(Range(q))
  <2>1. q = [i \in 1..Len(q) |-> q[i]] /\ Len(q) \in Nat
    OBVIOUS
  <2>2. \A i \in 1..Len(q) : q[i] \in Range(q)
    BY <1>1 DEF Range
  <2>3. QED
    BY <2>1, <2>2
<1>3. QED
  BY <1>1, <1>2 DEF Payees, ToAddresses, IsAddress

-----------------------------------------------------------------------------
(* Trees of payments. *)

\* Where chunks end.
LEMMA ChunkEnds ==
    ASSUME NEW l \in Nat, NEW size \in Nat \ {0}, NEW count, count = (l + size - 1) \div size
    PROVE  /\ count \in Nat /\ l <= count * size
           /\ \A i \in 1..count : /\ (i - 1) * size \in Nat /\ (i - 1) * size <= l
                                  /\ i * size \in Nat /\ (i - 1) * size <= i * size
<1>1. l + size - 1 \in Nat
  OBVIOUS
<1>2. PICK n \in Nat : n = l + size - 1 /\ n + 1 = l + size
  BY <1>1
<1>3. count \in Nat /\ count * size <= n /\ n < count * size + size
  BY <1>2, Quotient
<1>4. PICK t \in Nat : t = count * size
  BY <1>3, TimesNat
<1>5. l <= t /\ t <= l + size - 1
  BY <1>2, <1>3, <1>4
<1>6. ASSUME NEW i \in 1..count
      PROVE  /\ (i - 1) * size \in Nat /\ (i - 1) * size <= l
             /\ i * size \in Nat /\ (i - 1) * size <= i * size
  <2>1. i - 1 \in Nat /\ i \in Nat /\ i <= count
    BY <1>3
  <2>2. (i - 1) * size \in Nat /\ i * size \in Nat
    BY <2>1, TimesNat
  <2>3. i * size <= count * size
    BY <1>3, <2>1, TimesGrows
  <2>4. i * size = (i - 1) * size + size
    OBVIOUS
  <2>5. PICK a \in Nat : a = (i - 1) * size
    BY <2>2
  <2>6. PICK b \in Nat : b = i * size
    BY <2>2
  <2>7. b = a + size /\ b <= t
    BY <1>4, <2>3, <2>4, <2>5, <2>6
  <2>8. a <= l /\ a <= b
    BY <1>5, <2>7
  <2>9. QED
    BY <2>5, <2>6, <2>8
<1>7. QED
  BY <1>3, <1>4, <1>5, <1>6

LEMMA SmallerOf ==
    ASSUME NEW a \in Nat, NEW b \in Nat
    PROVE  /\ Smaller(a, b) \in Nat /\ Smaller(a, b) <= b
           /\ a <= b => Smaller(a, b) = a
           /\ b <= a => Smaller(a, b) = b
           /\ \A c \in Nat : c <= a /\ c <= b => c <= Smaller(a, b)
BY DEF Smaller

\* The chunks of a sequence add up to it.
LEMMA ChunksAddUp ==
    ASSUME NEW S, \A x \in S : x.sats \in Int, NEW p \in Seq(S), NEW size \in Nat \ {0}
    PROVE  LET branches == Chunks(p, size)
           IN  /\ Len(branches) \in Nat /\ DOMAIN branches = 1..Len(branches)
               /\ \A i \in 1..Len(branches) :
                    branches[i] \in Seq(S) /\ OutSats(branches[i]) \in Int
               /\ Total([i \in 1..Len(branches) |-> OutSats(branches[i])], Len(branches)) = OutSats(p)
<1>1. PICK l \in Nat : l = Len(p)
  OBVIOUS
<1>2. PICK count : count = (l + size - 1) \div size
  OBVIOUS
<1>3. /\ count \in Nat /\ l <= count * size
      /\ \A i \in 1..count : /\ (i - 1) * size \in Nat /\ (i - 1) * size <= l
                             /\ i * size \in Nat /\ (i - 1) * size <= i * size
  BY <1>2, ChunkEnds
<1> DEFINE branches == Chunks(p, size)
           End(i) == Smaller(i * size, l)
           F == [i \in 0..count |-> Total(SatsOf(p), End(i))]
           h == [i \in 1..Len(branches) |-> OutSats(branches[i])]
<1>4. branches = [i \in 1..count |-> SubSeq(p, (i - 1) * size + 1, End(i))]
  BY <1>1, <1>2 DEF Chunks
<1>5. Len(branches) = count /\ DOMAIN branches = 1..count
  <2> HIDE DEF End
  <2>1. QED
    BY <1>3, <1>4
<1>6. /\ OutSats(p) = Total(SatsOf(p), l) /\ OutSats(p) \in Int
      /\ \A i \in 1..l : SatsOf(p)[i] = p[i].sats /\ p[i].sats \in Int
  BY <1>1, OutSatsTotal
<1>7. ASSUME NEW i \in 1..count
      PROVE  /\ End(i) \in Nat /\ End(i) <= l
             /\ End(i - 1) = (i - 1) * size /\ End(i - 1) \in Nat /\ End(i - 1) <= End(i)
  <2>1. PICK a \in Nat : a = (i - 1) * size
    BY <1>3
  <2>2. PICK b \in Nat : b = i * size
    BY <1>3
  <2>3. a <= l /\ a <= b
    BY <1>3, <2>1, <2>2
  <2>4. Smaller(a, l) = a /\ Smaller(b, l) \in Nat /\ Smaller(b, l) <= l /\ a <= Smaller(b, l)
    BY <2>3, SmallerOf
  <2>5. QED
    BY <2>1, <2>2, <2>4
<1> HIDE DEF End
<1>8. ASSUME NEW i \in 1..count
      PROVE  /\ branches[i] \in Seq(S) /\ OutSats(branches[i]) \in Int
             /\ Total(SatsOf(p), End(i)) \in Int /\ Total(SatsOf(p), End(i - 1)) \in Int
             /\ OutSats(branches[i]) = Total(SatsOf(p), End(i)) - Total(SatsOf(p), End(i - 1))
  <2>1. branches[i] = SubSeq(p, End(i - 1) + 1, End(i))
    BY <1>4, <1>7, Zenon
  <2>2. PICK a \in Nat : a = End(i - 1)
    BY <1>7
  <2>3. PICK b \in Nat : b = End(i)
    BY <1>7
  <2>4. a <= b /\ b <= Len(p)
    BY <1>1, <1>7, <2>2, <2>3
  <2>5. /\ SubSeq(p, a + 1, b) \in Seq(S)
        /\ Total(SatsOf(p), a) \in Int /\ Total(SatsOf(p), b) \in Int
        /\ OutSats(SubSeq(p, a + 1, b)) = Total(SatsOf(p), b) - Total(SatsOf(p), a)
    BY <2>4, OutSatsPart
  <2> HIDE DEF branches
  <2>6. PICK v : v = branches[i]
    OBVIOUS
  <2>7. v = SubSeq(p, a + 1, b)
    BY <2>1, <2>2, <2>3, <2>6, Zenon
  <2>8. /\ v \in Seq(S)
        /\ OutSats(v) = Total(SatsOf(p), b) - Total(SatsOf(p), a)
    BY <2>5, <2>7, Zenon
  <2>9. OutSats(v) \in Int
    BY <2>5, <2>8
  <2>10. QED
    BY <2>2, <2>3, <2>5, <2>6, <2>8, <2>9, Zenon
<1>9. End(0) = 0 /\ End(count) = l
  <2>1. PICK t \in Nat : t = count * size
    BY <1>3, TimesNat
  <2>2. Smaller(0, l) = 0
    <3>1. 0 \in Nat /\ 0 <= l
      OBVIOUS
    <3>2. QED
      BY <3>1, SmallerOf
  <2>2a. Smaller(t, l) = l
    BY <1>3, <2>1, SmallerOf
  <2>3. 0 * size = 0
    OBVIOUS
  <2>4. QED
    BY <2>1, <2>2, <2>2a, <2>3 DEF End
<1>10. Total(SatsOf(p), 0) = 0
  BY TotalNone
<1>11. \A i \in 0..count : F[i] \in Int
  <2>1. ASSUME NEW i \in 0..count PROVE Total(SatsOf(p), End(i)) \in Int
    <3>1. CASE i = 0
      BY <1>9, <1>10, <3>1
    <3>2. CASE i # 0
      <4>1. i \in 1..count
        BY <3>2
      <4>2. QED
        BY <1>8, <4>1
    <3>3. QED
      BY <3>1, <3>2
  <2>2. QED
    BY <2>1
<1>12. ASSUME NEW i \in 1..count PROVE h[i] = F[i] - F[i - 1]
  <2>1. i \in 0..count /\ i - 1 \in 0..count
    BY <1>3
  <2>2. F[i] = Total(SatsOf(p), End(i)) /\ F[i - 1] = Total(SatsOf(p), End(i - 1))
    BY <2>1
  <2>3. h[i] = OutSats(branches[i])
    BY <1>5
  <2> HIDE DEF F, h, branches
  <2>4. QED
    BY <1>8, <2>2, <2>3
<1>13. F[count] = Total(SatsOf(p), l) /\ F[0] = 0
  <2>1. count \in 0..count /\ 0 \in 0..count
    BY <1>3
  <2>2. QED
    BY <1>9, <1>10, <2>1
<1>14. Total(h, count) = OutSats(p)
  <2> HIDE DEF F, h, branches
  <2>1. Total(h, count) = F[count] - F[0]
    BY <1>3, <1>11, <1>12, TotalTelescope
  <2>2. QED
    BY <1>6, <1>13, <2>1
<1>15. \A i \in 1..count : branches[i] \in Seq(S) /\ OutSats(branches[i]) \in Int
  BY <1>8
<1>16. h = [i \in 1..Len(branches) |-> OutSats(branches[i])]
  OBVIOUS
<1> HIDE DEF branches, h
<1>17. Total([i \in 1..Len(branches) |-> OutSats(branches[i])], Len(branches)) = OutSats(p)
  BY <1>5, <1>14, <1>16, Zenon
<1>18. /\ Len(branches) \in Nat /\ DOMAIN branches = 1..Len(branches)
       /\ \A i \in 1..Len(branches) :
            branches[i] \in Seq(S) /\ OutSats(branches[i]) \in Int
  BY <1>3, <1>5, <1>15, Zenon
<1>19. QED
  BY <1>17, <1>18, Zenon DEF branches

LEMMA OutIs == ASSUME NEW to, NEW sats PROVE Out(to, sats).to = to /\ Out(to, sats).sats = sats
BY DEF Out

\* A tree pays its payments, or the trees of chunks of them.
Branches(branches, r) ==
    [i \in 1..Len(branches) |-> Out(TreePay(branches[i], r), OutSats(branches[i]))]
LEMMA TreeCut ==
    ASSUME NEW p, NEW r \in Nat \ {0}, Payees(p), NEW sats,
           NEW way \in Ways(Holding(TreePay(p, r), sats))
    PROVE  \E outs :
             /\ way = Template("expand", Trivial, Tx(outs))
             /\ outs = p \/ \E size \in Nat \ {0} : outs = Branches(Chunks(p, size), r)
<1>1. PICK coin : coin = Holding(TreePay(p, r), sats)
  OBVIOUS
<1>2. /\ coin.contract.is = "TreePay" /\ coin.contract.participants = p
      /\ coin.contract.radix = r
  BY <1>1 DEF TreePay, Holding
<1>3. PICK size, outs : /\ size = Len(p) \div r
                        /\ outs = IF Len(p) > r THEN Branches(Chunks(p, size), r) ELSE p
  OBVIOUS
<1>4. Ways(coin) = TreePayWays(coin.contract)
  BY <1>2, Zenon DEF Ways
<1>5. way = Template("expand", Trivial, Tx(outs))
  BY <1>1, <1>2, <1>3, <1>4 DEF TreePayWays, Branches
<1>6. Len(p) > r => size \in Nat \ {0}
  <2>1. \A n \in Nat, m \in Nat \ {0} : n > m => n \div m \in Nat \ {0}
    OBVIOUS
  <2>2. QED
    BY <1>3, <2>1, PayeesAre
<1>7. QED
  BY <1>3, <1>5, <1>6

LEMMA BranchesAre ==
    ASSUME NEW p, NEW r, Payees(p), NEW size \in Nat \ {0},
           NEW branches, branches = Chunks(p, size), NEW outs, outs = Branches(branches, r)
    PROVE  /\ Len(branches) \in Nat /\ Len(outs) = Len(branches) /\ outs \in Seq(Range(outs))
           /\ \A i \in 1..Len(branches) :
                /\ Payees(branches[i]) /\ OutSats(branches[i]) \in Int
                /\ outs[i] = Out(TreePay(branches[i], r), OutSats(branches[i]))
<1>1. PICK S : S = Range(p)
  OBVIOUS
<1>2. p \in Seq(S) /\ \A o \in S : IsAddress(o.to) /\ o.sats \in Nat /\ o.sats \in Int
  BY <1>1, PayeesAre
<1>3. /\ Len(branches) \in Nat
      /\ \A i \in 1..Len(branches) : branches[i] \in Seq(S) /\ OutSats(branches[i]) \in Int
  BY <1>2, ChunksAddUp
<1>4. PICK count \in Nat : count = Len(branches)
  BY <1>3
<1>5. Len(outs) = count /\ DOMAIN outs = 1..count /\ outs = [i \in 1..count |-> outs[i]]
  BY <1>4 DEF Branches
<1>6. \A i \in 1..count : outs[i] = Out(TreePay(branches[i], r), OutSats(branches[i]))
  BY <1>4 DEF Branches
<1>7. \A i \in 1..count : Payees(branches[i])
  BY <1>2, <1>3, <1>4, ArePayees
<1>8. outs \in Seq(Range(outs))
  <2>1. \A i \in 1..count : outs[i] \in Range(outs)
    BY <1>5 DEF Range
  <2>2. QED
    BY <1>5, <2>1
<1>9. QED
  BY <1>3, <1>4, <1>5, <1>6, <1>7, <1>8

\* A tree hands on what its payments add up to.
LEMMA TreeWay ==
    ASSUME NEW p, NEW r \in Nat \ {0}, Payees(p), NEW sats,
           NEW way \in Ways(Holding(TreePay(p, r), sats))
    PROVE  \E outs :
             /\ way = Template("expand", Trivial, Tx(outs))
             /\ OutSats(outs) = OutSats(p) /\ OutSats(p) \in Int
             /\ \/ \A i \in 1..Len(outs) : IsAddress(outs[i].to)
                \/ \A i \in 1..Len(outs) : \E q :
                     Payees(q) /\ outs[i] = Out(TreePay(q, r), OutSats(q))
<1>1. PICK outs : /\ way = Template("expand", Trivial, Tx(outs))
                  /\ outs = p \/ \E size \in Nat \ {0} : outs = Branches(Chunks(p, size), r)
  BY TreeCut
<1>2. CASE outs = p
  BY <1>1, <1>2, PayeesAre
<1>3. ASSUME NEW size \in Nat \ {0}, outs = Branches(Chunks(p, size), r)
      PROVE  /\ OutSats(outs) = OutSats(p)
             /\ \A i \in 1..Len(outs) : \E q :
                  Payees(q) /\ outs[i] = Out(TreePay(q, r), OutSats(q))
  <2>1. PICK branches : branches = Chunks(p, size) /\ outs = Branches(branches, r)
    BY <1>3
  <2>2. /\ Len(branches) \in Nat /\ Len(outs) = Len(branches) /\ outs \in Seq(Range(outs))
        /\ \A i \in 1..Len(branches) :
             /\ Payees(branches[i]) /\ OutSats(branches[i]) \in Int
             /\ outs[i] = Out(TreePay(branches[i], r), OutSats(branches[i]))
    BY <2>1, BranchesAre
  <2>3. PICK count \in Nat : count = Len(branches) /\ count = Len(outs)
    BY <2>2
  <2>4. PICK h : h = [i \in 1..Len(branches) |-> OutSats(branches[i])]
    OBVIOUS
  <2>5. Total(h, count) = OutSats(p)
    <3>1. p \in Seq(Range(p)) /\ \A o \in Range(p) : o.sats \in Int
      BY PayeesAre
    <3>2. Total([i \in 1..Len(branches) |-> OutSats(branches[i])], Len(branches)) = OutSats(p)
      BY <2>1, <3>1, ChunksAddUp
    <3>3. QED
      BY <2>3, <2>4, <3>2, Zenon
  <2>6. ASSUME NEW i \in 1..count PROVE outs[i].sats = h[i] /\ h[i] \in Int
    <3>1. outs[i].sats = OutSats(branches[i])
      BY <2>2, <2>3, OutIs
    <3>2. QED
      BY <2>2, <2>3, <2>4, <3>1
  <2>7. \A x \in Range(outs) : x.sats \in Int
    BY <2>2, <2>3, <2>6 DEF Range
  <2>8. /\ OutSats(outs) = Total(SatsOf(outs), count)
        /\ \A i \in 1..count : SatsOf(outs)[i] = outs[i].sats
    BY <2>2, <2>3, <2>7, OutSatsTotal
  <2>9. \A i \in 1..count : h[i] \in Int /\ SatsOf(outs)[i] = h[i]
    BY <2>6, <2>8
  <2>10. QED
    BY <2>2, <2>3, <2>5, <2>8, <2>9, TotalSame
<1>4. QED
  BY <1>1, <1>2, <1>3, PayeesAre

LEMMA TreeSound ==
    ASSUME NEW x, NEW sats, TreeOf(x, sats), NEW dust \in Nat
    PROVE  Sound(x, sats, dust)
<1>1. PICK p, r : p = x.participants /\ r = x.radix
  OBVIOUS
<1>2. x = TreePay(p, r) /\ r \in Nat \ {0} /\ Payees(p) /\ OutSats(p) = sats
  BY <1>1 DEF TreeOf
<1>3. sats \in Int
  BY <1>2, PayeesAre
<1>4. x.is = "TreePay" /\ TreeOf(x, OutSats(x.participants))
  BY <1>1, <1>2 DEF TreePay, TreeOf
<1>5. Fit(x, dust)
  BY <1>4, Zenon DEF Fit, Formed, Library, IsWork
<1>6. ASSUME NEW way \in Ways(Holding(x, sats)) PROVE Funds(way, sats, dust)
  <2>1. PICK outs : /\ way = Template("expand", Trivial, Tx(outs))
                    /\ OutSats(outs) = OutSats(p)
    BY <1>2, TreeWay
  <2>2. way.tx.outs = outs /\ way.tx.fees = 0
    BY <2>1, TemplateIs, TxIs
  <2>3. sats + 0 = sats
    BY <1>3
  <2>4. QED
    BY <1>2, <1>3, <2>1, <2>2, <2>3, ExactFunds
<1>7. FundedCoin(Holding(x, sats), dust)
  BY <1>6, FundedIs DEF Holding
<1>8. QED
  BY <1>3, <1>5, <1>7 DEF Sound

LEMMA TreeLeads ==
    ASSUME NEW x, x.is = "TreePay", NEW sats, NEW dust \in Nat, Fit(x, dust)
    PROVE  Leads(x, sats, dust)
<1>1. TreeOf(x, OutSats(x.participants))
  BY DEF Fit, Formed
<1>2. PICK p, r : p = x.participants /\ r = x.radix
  OBVIOUS
<1>3. x = TreePay(p, r) /\ r \in Nat \ {0} /\ Payees(p)
  BY <1>1, <1>2 DEF TreeOf
<1>4. ASSUME NEW way \in Ways(Holding(x, sats)) PROVE SoundOuts(way.tx.outs, dust)
  <2>1. PICK outs :
          /\ way = Template("expand", Trivial, Tx(outs))
          /\ \/ \A i \in 1..Len(outs) : IsAddress(outs[i].to)
             \/ \A i \in 1..Len(outs) : \E q :
                  Payees(q) /\ outs[i] = Out(TreePay(q, r), OutSats(q))
    BY <1>3, TreeWay
  <2>2. way.tx.outs = outs
    BY <2>1, TemplateIs, TxIs
  <2>3. ASSUME NEW i \in 1..Len(outs), NEW q, Payees(q), outs[i] = Out(TreePay(q, r), OutSats(q))
        PROVE  Sound(outs[i].to, outs[i].sats, dust)
    <3>1. outs[i].to = TreePay(q, r) /\ outs[i].sats = OutSats(q)
      BY <2>3 DEF Out
    <3>2. TreeOf(TreePay(q, r), OutSats(q))
      BY <1>3, <2>3 DEF TreeOf, TreePay
    <3>3. QED
      BY <3>1, <3>2, TreeSound
  <2>4. SoundOuts(outs, dust)
    BY <2>1, <2>3, Zenon DEF SoundOuts
  <2>5. QED
    BY <2>2, <2>4
<1>5. QED
  BY <1>4 DEF Leads

-----------------------------------------------------------------------------
(* Trees built from a queue. *)

LEMMA SeqGrows == \A S, T, p : p \in Seq(S) /\ S \subseteq T => p \in Seq(T)
OBVIOUS

\* A closed set may have one more bundle.
LEMMA ClosedMore ==
    ASSUME NEW S, Closed(S), NEW o, BundleIn(S, o), o.sats \in Int
    PROVE  Closed(S \cup {o})
<1>1. PICK T : T = S \cup {o}
  OBVIOUS
<1>2. ASSUME NEW x, BundleIn(S, x) PROVE BundleIn(T, x)
  <2>1. x.to.contracts \in Seq(T)
    BY <1>1, <1>2, SeqGrows DEF BundleIn
  <2>2. QED
    BY <1>2, <2>1 DEF BundleIn
<1>3. ASSUME NEW x \in T PROVE x.sats \in Int /\ (IsAddress(x.to) \/ BundleIn(T, x))
  BY <1>1, <1>2, <1>3 DEF Closed
<1>4. QED
  BY <1>1, <1>3 DEF Closed

LEMMA SatsInClosed == ASSUME NEW S, Closed(S) PROVE \A o \in S : o.sats \in Int
BY DEF Closed

LEMMA NextQueueClosed ==
    ASSUME NEW c, c.radix \in Nat \ {0, 1}, c.fees \in Nat,
           NEW S, Closed(S), NEW queue \in Seq(S)
    PROVE  \E T : Closed(T) /\ NextQueue(c, queue) \in Seq(T)
<1>1. CASE Len(queue) <= c.radix
  BY <1>1 DEF NextQueue
<1>2. CASE ~(Len(queue) <= c.radix)
  <2>1. PICK r \in Nat : r = c.radix /\ r >= 2
    OBVIOUS
  <2>2. PICK l \in Nat : l = Len(queue) /\ r < l
    <3>1. Len(queue) \in Nat
      OBVIOUS
    <3>2. QED
      BY <1>2, <2>1, <3>1
  <2>3. PICK first : first = SubSeq(queue, 1, r)
    OBVIOUS
  <2>4. PICK rest : rest = SubSeq(queue, r + 1, l)
    OBVIOUS
  <2>5. first \in Seq(S)
    <3>1. 1 \in Nat \ {0} /\ r <= Len(queue) /\ 1 <= r + 1
      BY <2>1, <2>2
    <3>2. QED
      BY <2>3, <3>1, PartIs
  <2>6. rest \in Seq(S)
    <3>1. r + 1 \in Nat \ {0} /\ l <= Len(queue) /\ r + 1 <= l + 1
      BY <2>1, <2>2
    <3>2. QED
      BY <2>4, <3>1, PartIs
  <2>7. PICK o : o = Bundle(c, first)
    OBVIOUS
  <2>8. /\ o.to.is \in {"PayThese", "PayoutBundle"} /\ o.to.contracts = first
        /\ o.to.fees = c.fees /\ o.sats = OutSats(first) + c.fees
    BY <2>7 DEF Bundle, PayThese, PayoutBundle, Out
  <2>9. OutSats(first) \in Int
    BY <2>5, SatsInClosed, OutSatsTotal
  <2>10. BundleIn(S, o) /\ o.sats \in Int
    BY <2>5, <2>8, <2>9 DEF BundleIn
  <2>11. PICK T : T = S \cup {o}
    OBVIOUS
  <2>12. Closed(T)
    BY <2>10, <2>11, ClosedMore
  <2>13. rest \in Seq(T) /\ o \in T
    BY <2>6, <2>11, SeqGrows
  <2>14. Append(rest, o) \in Seq(T)
    BY <2>13
  <2>15. NextQueue(c, queue) = Append(rest, o)
    BY <1>2, <2>1, <2>2, <2>3, <2>4, <2>7 DEF NextQueue
  <2>16. QED
    BY <2>12, <2>14, <2>15
<1>3. QED
  BY <1>1, <1>2

LEMMA QueueExists ==
    ASSUME NEW c, NEW last \in Nat
    PROVE  \E f : IsQueue(f, c, last)
<1> DEFINE Missing == {n \in Nat : n <= last /\ ~ \E f : IsQueue(f, c, n)}
<1>1. SUFFICES ASSUME Missing # {} PROVE FALSE
  <2>1. last \notin Missing
    BY <1>1
  <2>2. last <= last
    OBVIOUS
  <2>3. QED
    BY <2>1, <2>2
<1>2. PICK n \in Missing : \A k \in Missing : n <= k
  <2> HIDE DEF Missing
  <2>1. Missing \in SUBSET Nat
    BY DEF Missing
  <2>2. QED
    BY <1>1, <2>1, LeastNat
<1>3. n \in Nat /\ n <= last /\ ~ \E f : IsQueue(f, c, n)
  BY <1>2
<1>4. n # 0
  <2>1. IsQueue([i \in 0..0 |-> c.participants], c, 0)
    BY DEF IsQueue
  <2>2. QED
    BY <1>3, <2>1
<1>5. PICK f : IsQueue(f, c, n - 1)
  <2>1. n - 1 \in Nat /\ n - 1 <= last /\ ~ n <= n - 1
    BY <1>3, <1>4
  <2>2. n - 1 \notin Missing
    BY <1>2, <2>1
  <2>3. QED
    BY <2>1, <2>2
<1>6. PICK next : next = NextQueue(c, f[n - 1])
  OBVIOUS
<1>7. PICK g : g = [i \in 0..n |-> IF i = n THEN next ELSE f[i]]
  OBVIOUS
<1>8. g = [i \in 0..n |-> g[i]]
  BY <1>7
<1>9. g[0] = c.participants
  <2>1. 0 \in 0..n /\ g[0] = f[0]
    BY <1>3, <1>4, <1>7
  <2>2. QED
    BY <1>5, <2>1 DEF IsQueue
<1>10. ASSUME NEW i \in 1..n PROVE g[i] = NextQueue(c, g[i - 1])
  <2>1. i \in 0..n /\ i - 1 \in 0..n /\ i - 1 # n
    BY <1>3
  <2>2. g[i - 1] = f[i - 1]
    BY <1>7, <2>1
  <2>3. CASE i = n
    BY <1>6, <1>7, <2>1, <2>2, <2>3
  <2>4. CASE i # n
    <3>1. i \in 1..(n - 1) /\ g[i] = f[i]
      BY <1>3, <1>7, <2>1, <2>4
    <3>2. QED
      BY <1>5, <2>2, <3>1 DEF IsQueue
  <2>5. QED
    BY <2>3, <2>4
<1>11. IsQueue(g, c, n)
  BY <1>8, <1>9, <1>10, Zenon DEF IsQueue
<1>12. QED
  BY <1>3, <1>11

LEMMA BundledIs ==
    ASSUME NEW c, Len(c.participants) \in Nat
    PROVE  \E f : IsQueue(f, c, Len(c.participants)) /\ Bundled(c) = f[Len(c.participants)]
<1> DEFINE last == Len(c.participants)
           Rec(g) == [n \in 0..last |-> IF n = 0 THEN c.participants ELSE NextQueue(c, g[n - 1])]
           k == CHOOSE g : g = Rec(g)
<1>1. PICK f : IsQueue(f, c, last)
  BY QueueExists
<1>2. f = Rec(f)
  <2>1. ASSUME NEW n \in 0..last PROVE f[n] = Rec(f)[n]
    <3>1. CASE n = 0
      BY <1>1, <3>1 DEF IsQueue
    <3>2. CASE n # 0
      <4>1. n \in 1..last
        BY <3>2
      <4>2. QED
        BY <1>1, <3>2, <4>1 DEF IsQueue
    <3>3. QED
      BY <3>1, <3>2
  <2>2. Rec(f) = [n \in 0..last |-> Rec(f)[n]]
    OBVIOUS
  <2>3. f = [n \in 0..last |-> f[n]]
    BY <1>1, Zenon DEF IsQueue
  <2> HIDE DEF Rec, last
  <2>4. QED
    BY <2>1, <2>2, <2>3
<1>3. k = Rec(k)
  <2> HIDE DEF Rec
  <2>1. QED
    BY <1>2
<1>4. Bundled(c) = k[last]
  BY DEF Bundled
<1> HIDE DEF k
<1>5. ASSUME NEW n \in 0..last PROVE k[n] = Rec(k)[n]
  <2> HIDE DEF Rec
  <2>1. QED
    BY <1>3
<1>6. IsQueue(k, c, last)
  <2>1. k[0] = c.participants
    <3>1. 0 \in 0..last
      OBVIOUS
    <3>2. QED
      BY <1>5, <3>1
  <2>2. ASSUME NEW n \in 1..last PROVE k[n] = NextQueue(c, k[n - 1])
    <3>1. n \in 0..last /\ n # 0
      OBVIOUS
    <3>2. QED
      BY <1>5, <3>1
  <2>3. k = [n \in 0..last |-> k[n]]
    <3>1. Rec(k) = [n \in 0..last |-> Rec(k)[n]]
      OBVIOUS
    <3> HIDE DEF Rec, last
    <3>2. QED
      BY <1>3, <3>1
  <2>4. QED
    BY <2>1, <2>2, <2>3, Zenon DEF IsQueue
<1>7. QED
  BY <1>4, <1>6

\* What is left of the queue: payments and bundles that hold what they need.
LEMMA BundledClosed ==
    ASSUME NEW c, Payees(c.participants), c.radix \in Nat \ {0, 1}, c.fees \in Nat
    PROVE  \E S : Closed(S) /\ Bundled(c) \in Seq(S)
<1>1. PICK last \in Nat : last = Len(c.participants)
  BY PayeesAre
<1>2. PICK f : IsQueue(f, c, last) /\ Bundled(c) = f[last]
  BY <1>1, BundledIs
<1> DEFINE Good(n) == \E S : Closed(S) /\ f[n] \in Seq(S)
<1>3. Good(0)
  <2>1. PICK S : S = Range(c.participants)
    OBVIOUS
  <2>2. c.participants \in Seq(S) /\ \A o \in S : IsAddress(o.to) /\ o.sats \in Int
    BY <2>1, PayeesAre
  <2>3. Closed(S) /\ f[0] = c.participants
    BY <1>2, <2>2 DEF Closed, IsQueue
  <2>4. QED
    BY <2>2, <2>3
<1>4. ASSUME NEW n \in 1..last, Good(n - 1) PROVE Good(n)
  <2>1. PICK S : Closed(S) /\ f[n - 1] \in Seq(S)
    BY <1>4
  <2>2. f[n] = NextQueue(c, f[n - 1])
    BY <1>2 DEF IsQueue
  <2>3. PICK queue : queue = f[n - 1] /\ queue \in Seq(S)
    BY <2>1
  <2>4. \E T : Closed(T) /\ NextQueue(c, queue) \in Seq(T)
    BY <2>1, <2>3, NextQueueClosed
  <2>5. QED
    BY <2>2, <2>3, <2>4
<1> HIDE DEF Good
<1>5. Good(last)
  <2>1. PICK T : T = {n \in 0..last : Good(n)}
    OBVIOUS
  <2>2. 0 \in T /\ \A n \in 1..last : n - 1 \in T => n \in T
    BY <1>3, <1>4, <2>1
  <2>3. QED
    BY <2>1, <2>2, StepByStep
<1>6. QED
  BY <1>2, <1>5 DEF Good

\* Templates without and with fees, and with a delay.
LEMMA PlainWay ==
    ASSUME NEW way, NEW name, NEW guard, NEW outs, way = Template(name, guard, Tx(outs))
    PROVE  /\ way.tx.outs = outs /\ way.tx.fees = 0 /\ way.tx.inputs = 0
           /\ way.ctv /\ ~way.free
BY DEF Template, Tx

LEMMA TemplateOf ==
    ASSUME NEW way, NEW name, NEW guard, NEW tx, way = Template(name, guard, tx)
    PROVE  way.tx = tx /\ way.ctv /\ ~way.free
BY DEF Template

LEMMA FeesWay ==
    ASSUME NEW way, NEW name, NEW guard, NEW outs, NEW fees,
           way = Template(name, guard, WithFees(outs, fees))
    PROVE  way.tx.outs = outs /\ way.tx.fees = fees /\ way.ctv /\ ~way.free
<1>1. PICK tx : tx = WithFees(outs, fees)
  OBVIOUS
<1>2. tx.outs = outs /\ tx.fees = fees
  BY <1>1 DEF WithFees, Tx
<1>3. QED
  BY <1>1, <1>2, TemplateOf

LEMMA DelayedWay ==
    ASSUME NEW way, NEW name, NEW guard, NEW outs, NEW seq, NEW fees,
           way = Template(name, guard, Delayed(outs, seq, fees))
    PROVE  way.tx.outs = outs /\ way.tx.fees = fees /\ way.ctv /\ ~way.free
<1>1. PICK tx : tx = Delayed(outs, seq, fees)
  OBVIOUS
<1>2. PICK first : first = [Tx(outs) EXCEPT !.seq = seq]
  OBVIOUS
<1>3. first = [outs |-> outs, seq |-> seq, seqTime |-> 0, lock |-> 0, lockTime |-> 0,
               fees |-> 0, brings |-> 0, inputs |-> 0]
  BY <1>2 DEF Tx
<1>4. tx = [first EXCEPT !.fees = fees]
  BY <1>1, <1>2 DEF Delayed
<1>5. tx.outs = outs /\ tx.fees = fees
  BY <1>3, <1>4
<1>6. QED
  BY <1>1, <1>5, TemplateOf

\* A bundle can pay for its transaction, which leads to addresses and bundles.
LEMMA BundleWays ==
    ASSUME NEW x, x.is \in {"PayThese", "PayoutBundle"}, NEW sats,
           NEW way \in Ways(Holding(x, sats))
    PROVE  \/ \E name, guard : way = Finish(name, guard)
           \/ way.tx.outs = x.contracts /\ way.tx.fees = x.fees
<1>1. PICK coin : coin = Holding(x, sats) /\ coin.contract = x
  BY HoldingIs
<1>2. CASE x.is = "PayThese"
  <2>1. Ways(coin) = PayTheseWays(x)
    BY <1>1, <1>2, Zenon DEF Ways
  <2>2. QED
    <3>1. way = Template("expand", Trivial, Delayed(x.contracts, x.delay, x.fees))
      BY <1>1, <2>1, Zenon DEF PayTheseWays, Delayed
    <3>2. QED
      BY <3>1, DelayedWay
<1>3. CASE x.is = "PayoutBundle"
  <2>1. Ways(coin) = PayoutBundleWays(x)
    BY <1>1, <1>3, Zenon DEF Ways
  <2>2. CASE way = Finish("cooperate", AllOf(x.keys))
    BY <2>2
  <2>3. CASE way = Template("expand", Trivial, WithFees(x.contracts, x.fees))
    BY <2>3, FeesWay
  <2>4. QED
    BY <1>1, <2>1, <2>2, <2>3, Zenon DEF PayoutBundleWays, WithFees
<1>4. QED
  BY <1>2, <1>3

LEMMA BundleSound ==
    ASSUME NEW S, Closed(S), NEW o \in S, BundleIn(S, o), NEW dust \in Nat
    PROVE  Sound(o.to, o.sats, dust)
<1>1. IsBundle(o.to, o.sats)
  BY DEF IsBundle
<1>2. PICK x, sats : x = o.to /\ sats = o.sats
  OBVIOUS
<1>3. /\ x.is \in {"PayThese", "PayoutBundle"} /\ x.contracts \in Seq(S)
      /\ sats = OutSats(x.contracts) + x.fees
  BY <1>2 DEF BundleIn
<1>4. sats \in Int
  BY <1>2 DEF Closed
<1>5. ASSUME NEW way \in Ways(Holding(x, sats)) PROVE Funds(way, sats, dust)
  <2>1. CASE \E name, guard : way = Finish(name, guard)
    BY <2>1, FinishFunds
  <2>2. CASE way.tx.outs = x.contracts /\ way.tx.fees = x.fees
    BY <1>3, <1>4, <2>2, ExactFunds
  <2>3. QED
    BY <1>3, <2>1, <2>2, BundleWays
<1>6. FundedCoin(Holding(x, sats), dust)
  BY <1>5, FundedIs DEF Holding
<1>7. QED
  BY <1>1, <1>2, <1>4, <1>6 DEF Sound

LEMMA ClosedOutsLead ==
    ASSUME NEW S, Closed(S), NEW outs \in Seq(S), NEW dust \in Nat
    PROVE  SoundOuts(outs, dust)
<1>1. ASSUME NEW i \in 1..Len(outs)
      PROVE  IsAddress(outs[i].to) \/ Sound(outs[i].to, outs[i].sats, dust)
  <2>1. PICK o \in S : o = outs[i]
    OBVIOUS
  <2>2. IsAddress(o.to) \/ BundleIn(S, o)
    BY DEF Closed
  <2>3. QED
    BY <2>1, <2>2, BundleSound
<1>2. QED
  BY <1>1 DEF SoundOuts

LEMMA BundleLeads ==
    ASSUME NEW x, NEW sats, IsBundle(x, sats), NEW dust \in Nat
    PROVE  Leads(x, sats, dust)
<1>1. PICK S : Closed(S) /\ \E o \in S : BundleIn(S, o) /\ o.to = x /\ o.sats = sats
  BY DEF IsBundle
<1>2. x.is \in {"PayThese", "PayoutBundle"} /\ x.contracts \in Seq(S)
  BY <1>1 DEF BundleIn
<1>3. ASSUME NEW way \in Ways(Holding(x, sats)) PROVE SoundOuts(way.tx.outs, dust)
  <2>1. CASE \E name, guard : way = Finish(name, guard)
    BY <2>1, FinishLeads
  <2>2. CASE way.tx.outs = x.contracts /\ way.tx.fees = x.fees
    BY <1>1, <1>2, <2>2, ClosedOutsLead
  <2>3. QED
    BY <1>2, <2>1, <2>2, BundleWays
<1>4. QED
  BY <1>3 DEF Leads

LEMMA FeeTreeLeads ==
    ASSUME NEW x, x.is \in {"FeeTreePay", "MiningPayout"}, NEW sats, NEW dust \in Nat,
           Fit(x, dust)
    PROVE  Leads(x, sats, dust)
<1>1. Payees(x.participants) /\ x.radix \in Nat \ {0, 1} /\ x.fees \in Nat
  BY Zenon DEF Fit, Formed
<1>2. PICK S : Closed(S) /\ Bundled(x) \in Seq(S)
  BY <1>1, BundledClosed
<1>3. SoundOuts(Bundled(x), dust)
  BY <1>2, ClosedOutsLead
<1>4. PICK coin : coin = Holding(x, sats) /\ coin.contract = x
  BY HoldingIs
<1>5. ASSUME NEW way \in Ways(coin) PROVE SoundOuts(way.tx.outs, dust)
  <2>1. CASE x.is = "FeeTreePay"
    <3>1. Ways(coin) = FeeTreePayWays(x)
      BY <1>4, <2>1, Zenon DEF Ways
    <3>2. way = Template("expand", Trivial, Delayed(Bundled(x), x.delay, x.fees))
      BY <3>1, Zenon DEF FeeTreePayWays, Delayed
    <3>2a. way.tx.outs = Bundled(x)
      BY <3>2, DelayedWay
    <3>3. QED
      BY <1>3, <3>2a
  <2>2. CASE x.is = "MiningPayout"
    <3>1. Ways(coin) = MiningPayoutWays(x)
      BY <1>4, <2>2, Zenon DEF Ways
    <3>2. CASE way = Finish("cooperate", AllOf(GetKeys(x.participants)))
      BY <3>2, FinishLeads
    <3>3. CASE way = Template("expand", Trivial, WithFees(Bundled(x), x.fees))
      <4>1. way.tx.outs = Bundled(x)
        BY <3>3, FeesWay
      <4>2. QED
        BY <1>3, <4>1
    <3>4. QED
      BY <3>1, <3>2, <3>3, Zenon DEF MiningPayoutWays, WithFees
  <2>3. QED
    BY <2>1, <2>2
<1>6. QED
  BY <1>4, <1>5 DEF Leads

\* What a batch asks for is what its tree hands on.
LEMMA TrampolineLeads ==
    ASSUME NEW x, x.is = "TrampolinePay", NEW sats, NEW dust \in Nat, Fit(x, dust)
    PROVE  Leads(x, sats, dust)
<1>1. Payees(x.payments) /\ x.feerate \in Nat
  BY Zenon DEF Fit, Formed
<1>2. PICK fees \in Nat : fees = x.feerate * (4 * 41 + 41 + 10)
  BY <1>1
<1>3. PICK batch : batch = FromBatching(x.payments, x.feerate)
  OBVIOUS
<1>4. batch = FeeTreePay(x.payments, 4, fees, 0)
  BY <1>2, <1>3 DEF FromBatching
<1>5. /\ batch.is = "FeeTreePay" /\ batch.participants = x.payments /\ batch.radix = 4
      /\ batch.fees = fees /\ batch.delay = 0
  BY <1>4 DEF FeeTreePay
<1>6. Payees(batch.participants) /\ batch.radix \in Nat \ {0, 1} /\ batch.fees \in Nat
  BY <1>1, <1>5
<1>7. PICK S : Closed(S) /\ Bundled(batch) \in Seq(S)
  BY <1>6, BundledClosed
<1>8. OutSats(Bundled(batch)) \in Int
  BY <1>7, SatsInClosed, OutSatsTotal
<1>9. PICK max : max = TreePayMax(batch)
  OBVIOUS
<1>10. ASSUME NEW w \in FeeTreePayWays(batch)
      PROVE  w.tx.outs = Bundled(batch) /\ w.tx.fees = batch.fees
  <2>1. w = Template("expand", Trivial, Delayed(Bundled(batch), batch.delay, batch.fees))
    BY Zenon DEF FeeTreePayWays, Delayed
  <2>2. QED
    BY <2>1, DelayedWay
<1>11. FeeTreePayWays(batch) # {}
  BY DEF FeeTreePayWays
<1>12. max = OutSats(Bundled(batch)) + batch.fees
  BY <1>9, <1>10, <1>11 DEF TreePayMax
<1>13. max \in Int
  BY <1>5, <1>8, <1>12
<1>14. Fit(batch, dust)
  BY <1>5, <1>6, Zenon DEF Fit, Formed, Library, IsWork
<1>15. FundedCoin(Holding(batch, max), dust)
  <2>1. PICK coin : coin = Holding(batch, max) /\ coin.contract = batch /\ coin.sats = max
    BY HoldingIs
  <2>2. Ways(coin) = FeeTreePayWays(batch)
    BY <1>5, <2>1, Zenon DEF Ways
  <2>3. \A way \in Ways(coin) : Funds(way, max, dust)
    BY <1>10, <1>12, <1>13, <2>2, ExactFunds
  <2>4. QED
    BY <2>1, <2>3, FundedIs
<1>16. Sound(batch, max, dust)
  BY <1>13, <1>14, <1>15 DEF Sound
<1>17. SoundOuts(<<Out(batch, max)>>, dust)
  BY <1>16, OneOutLeads
<1>18. PICK coin : coin = Holding(x, sats) /\ coin.contract = x
  BY HoldingIs
<1>19. Ways(coin) = TrampolinePayWays(x)
  BY <1>18, Zenon DEF Ways
<1>20. \A way \in Ways(coin) : way.tx.outs = <<Out(batch, max)>>
  BY <1>3, <1>9, <1>19 DEF TrampolinePayWays, Template, Tx
<1>21. QED
  BY <1>17, <1>18, <1>20 DEF Leads

-----------------------------------------------------------------------------
(* Contracts that pay addresses, and those with two states. *)

LEMMA PlainLeads ==
    ASSUME NEW way, NEW name, NEW guard, NEW outs, way = Template(name, guard, Tx(outs)),
           NEW dust, SoundOuts(outs, dust)
    PROVE  SoundOuts(way.tx.outs, dust)
BY PlainWay

LEMMA ContinuationWays ==
    ASSUME NEW name, NEW guard, NEW txs, NEW way \in Continuation(name, guard, txs)
    PROVE  \/ way = Finish(name, guard)
           \/ \E tx \in txs : way.tx = tx /\ ~way.ctv
BY SuggestionIs DEF Continuation

LEMMA SeqWay ==
    ASSUME NEW way, NEW name, NEW guard, NEW outs, NEW seq,
           way = Template(name, guard, SeqTx(outs, seq))
    PROVE  way.tx.outs = outs /\ way.tx.fees = 0 /\ way.ctv /\ ~way.free
<1>1. PICK tx : tx = SeqTx(outs, seq)
  OBVIOUS
<1>2. tx.outs = outs /\ tx.fees = 0
  BY <1>1 DEF SeqTx, Tx
<1>3. QED
  BY <1>1, <1>2, TemplateOf

LEMMA LockWay ==
    ASSUME NEW way, NEW name, NEW guard, NEW outs, NEW lock,
           way = Template(name, guard, LockTx(outs, lock))
    PROVE  way.tx.outs = outs /\ way.tx.fees = 0 /\ way.ctv /\ ~way.free
<1>1. PICK tx : tx = LockTx(outs, lock)
  OBVIOUS
<1>2. tx.outs = outs /\ tx.fees = 0
  BY <1>1 DEF LockTx, Tx
<1>3. QED
  BY <1>1, <1>2, TemplateOf

LEMMA OneExact ==
    ASSUME NEW way, NEW to, NEW sats \in Int, NEW dust \in Nat,
           way.tx.outs = <<Out(to, sats)>>, way.tx.fees = 0
    PROVE  Funds(way, sats, dust)
<1>1. Out(to, sats).sats = sats
  BY DEF Out
<1>2. OutSats(<<Out(to, sats)>>) = sats
  BY <1>1, SumOne
<1>3. QED
  BY <1>2, ExactFunds

LEMMA ChickenLeads ==
    ASSUME NEW x, x.is = "HodlChicken", NEW sats, NEW dust \in Nat, Fit(x, dust)
    PROVE  Leads(x, sats, dust)
<1>1. \A party \in {x.alice, x.bob} : IsAddress(party.winner) /\ IsAddress(party.loser)
  BY Zenon DEF Fit, Formed
<1>2. PICK coin : coin = Holding(x, sats) /\ coin.contract = x
  BY HoldingIs
<1>3. Ways(coin) = HodlChickenWays(x)
  BY <1>2, Zenon DEF Ways
<1>4. ASSUME NEW way \in Ways(coin) PROVE SoundOuts(way.tx.outs, dust)
  <2>1. \E p, q \in {x.alice, x.bob} : \E name, guard :
          way = Template(name, guard,
                  Tx(<<Out(p.winner, x.winnerGets), Out(q.loser, x.chickenGets)>>))
    BY <1>3 DEF HodlChickenWays
  <2>2a. PICK p, q \in {x.alice, x.bob} : \E name, guard :
          way = Template(name, guard,
                  Tx(<<Out(p.winner, x.winnerGets), Out(q.loser, x.chickenGets)>>))
    BY <2>1
  <2>2. PICK name, guard :
          way = Template(name, guard,
                  Tx(<<Out(p.winner, x.winnerGets), Out(q.loser, x.chickenGets)>>))
    BY <2>2a
  <2>3. IsAddress(Out(p.winner, x.winnerGets).to) /\ IsAddress(Out(q.loser, x.chickenGets).to)
    BY <1>1 DEF Out
  <2>4. SoundOuts(<<Out(p.winner, x.winnerGets), Out(q.loser, x.chickenGets)>>, dust)
    BY <2>3, TwoOutsLead
  <2>5. QED
    BY <2>2, <2>4, PlainLeads
<1>5. QED
  BY <1>2, <1>4 DEF Leads

LEMMA StakerWay ==
    ASSUME NEW x, x.is = "Staker", NEW sats, NEW way \in Ways(Holding(x, sats))
    PROVE  \/ \E name, guard : way = Finish(name, guard)
           \/ \E name, guard : way = Template(name, guard, Tx(<<Out(OpReturn, sats)>>))
           \/ /\ x.state = "Operational"
              /\ \E name, guard : way = Template(name, guard,
                                          Tx(<<Out([x EXCEPT !.state = "Closing"], sats)>>))
<1>1. PICK coin : coin = Holding(x, sats) /\ coin.contract = x /\ coin.sats = sats
  BY HoldingIs
<1>2. Ways(coin) = StakerWays(x, sats)
  BY <1>1, Zenon DEF Ways
<1>3. QED
  BY <1>1, <1>2, Zenon DEF StakerWays

LEMMA StakerLeads ==
    ASSUME NEW x, x.is = "Staker", NEW sats \in Int, NEW dust \in Nat, Fit(x, dust)
    PROVE  Leads(x, sats, dust)
<1>1. x = Staker(x.state, x.timeout, x.signingKey, x.redeemingKey)
  BY Zenon DEF Fit, Formed
<1>2. IsAddress(OpReturn)
  BY DEF IsAddress, OpReturn, Address
<1>3. PICK y : y = [x EXCEPT !.state = "Closing"]
  OBVIOUS
<1>4. y = Staker("Closing", x.timeout, x.signingKey, x.redeemingKey)
  BY <1>1, <1>3 DEF Staker
<1>5. /\ y.is = "Staker" /\ y.state = "Closing"
      /\ y = Staker(y.state, y.timeout, y.signingKey, y.redeemingKey)
  BY <1>4 DEF Staker
<1>6. Fit(y, dust)
  BY <1>5, Zenon DEF Fit, Formed, Library, IsWork
<1>7. ASSUME NEW way \in Ways(Holding(y, sats)) PROVE Funds(way, sats, dust)
  <2>1. CASE \E name, guard : way = Finish(name, guard)
    BY <2>1, FinishFunds
  <2>2. ASSUME NEW name, NEW guard, way = Template(name, guard, Tx(<<Out(OpReturn, sats)>>))
        PROVE  Funds(way, sats, dust)
    <3>1. way.tx.outs = <<Out(OpReturn, sats)>> /\ way.tx.fees = 0
      BY <2>2, PlainWay
    <3>2. QED
      BY <3>1, OneExact
  <2>3. y.state # "Operational"
    BY <1>5
  <2>4. QED
    BY <1>5, <2>1, <2>2, <2>3, StakerWay
<1>8. FundedCoin(Holding(y, sats), dust)
  BY <1>7, FundedIs, HoldingIs
<1>9. Sound(y, sats, dust)
  BY <1>6, <1>8 DEF Sound
<1>10. ASSUME NEW way \in Ways(Holding(x, sats)) PROVE SoundOuts(way.tx.outs, dust)
  <2>1. CASE \E name, guard : way = Finish(name, guard)
    BY <2>1, FinishLeads
  <2>2. SoundOuts(<<Out(OpReturn, sats)>>, dust) /\ SoundOuts(<<Out(y, sats)>>, dust)
    BY <1>2, <1>9, OneOutLeads
  <2>3. QED
    BY <1>3, <2>1, <2>2, StakerWay, PlainLeads
<1>11. QED
  BY <1>10 DEF Leads

LEMMA NoTxs ==
    ASSUME NEW name, NEW guard, NEW way \in Continuation(name, guard, {})
    PROVE  way = Finish(name, guard)
BY DEF Continuation

LEMMA ChannelWay ==
    ASSUME NEW x, x.is = "Channel", NEW sats, NEW way \in Ways(Holding(x, sats))
    PROVE  \/ \E name, guard : way = Finish(name, guard)
           \/ /\ x.state = "Start"
              /\ \E name, guard : way = Template(name, guard,
                                          Tx(<<Out([x EXCEPT !.state = "Stop"], x.sats)>>))
           \/ \E name, guard : way = Template(name, guard, Tx(<<Out(x.resolution, x.sats)>>))
<1>1. PICK coin : coin = Holding(x, sats) /\ coin.contract = x
  BY HoldingIs
<1>2. Ways(coin) = ChannelWays(x)
  BY <1>1, Zenon DEF Ways
<1>3. PICK signed : signed = AllOf({x.aliceKey, x.bobKey})
  OBVIOUS
<1>4. \/ way = Finish("signed", signed)
      \/ way \in Continuation("update_state_a", signed, {})
      \/ way \in Continuation("update_state_b", signed, {})
      \/ /\ x.state = "Start"
         /\ way = Template("begin_contest", Trivial,
                    Tx(<<Out([x EXCEPT !.state = "Stop"], x.sats)>>))
      \/ way = Template("finish_contest", Older(ContestDelay), Tx(<<Out(x.resolution, x.sats)>>))
  BY <1>1, <1>2, <1>3, Zenon DEF ChannelWays
<1>5. QED
  BY <1>4, NoTxs, Zenon

LEMMA ChannelLeads ==
    ASSUME NEW x, x.is = "Channel", NEW sats, NEW dust \in Nat, Fit(x, dust)
    PROVE  Leads(x, sats, dust)
<1>1. /\ x = Channel(x.state, x.aliceKey, x.bobKey, x.sats, x.resolution)
      /\ IsAddress(x.resolution) /\ x.sats \in Nat
  BY Zenon DEF Fit, Formed
<1>2. PICK y : y = [x EXCEPT !.state = "Stop"]
  OBVIOUS
<1>3. y = Channel("Stop", x.aliceKey, x.bobKey, x.sats, x.resolution)
  BY <1>1, <1>2 DEF Channel
<1>4. /\ y.is = "Channel" /\ y.state = "Stop" /\ y.sats = x.sats /\ y.resolution = x.resolution
      /\ y = Channel(y.state, y.aliceKey, y.bobKey, y.sats, y.resolution)
  BY <1>3 DEF Channel
<1>5. IsAddress(y.resolution) /\ y.sats \in Nat
  BY <1>1, <1>4
<1>6. Fit(y, dust)
  BY <1>4, <1>5, Zenon DEF Fit, Formed, Library, IsWork
<1>7. ASSUME NEW way \in Ways(Holding(y, x.sats)) PROVE Funds(way, x.sats, dust)
  <2>1. CASE \E name, guard : way = Finish(name, guard)
    BY <2>1, FinishFunds
  <2>2. ASSUME NEW name, NEW guard, way = Template(name, guard, Tx(<<Out(y.resolution, y.sats)>>))
        PROVE  Funds(way, x.sats, dust)
    <3>1. way.tx.outs = <<Out(y.resolution, x.sats)>> /\ way.tx.fees = 0
      BY <1>4, <2>2, PlainWay
    <3>2. x.sats \in Int
      BY <1>1
    <3>3. QED
      BY <3>1, <3>2, OneExact
  <2>3. y.state # "Start" /\ y.is = "Channel"
    BY <1>4
  <2>4. \/ \E name, guard : way = Finish(name, guard)
        \/ \E name, guard : way = Template(name, guard, Tx(<<Out(y.resolution, y.sats)>>))
    BY <2>3, ChannelWay
  <2>5. QED
    BY <2>1, <2>2, <2>4
<1>8. FundedCoin(Holding(y, x.sats), dust)
  BY <1>7, FundedIs, HoldingIs
<1>9. Sound(y, x.sats, dust)
  BY <1>1, <1>6, <1>8 DEF Sound
<1>10. ASSUME NEW way \in Ways(Holding(x, sats)) PROVE SoundOuts(way.tx.outs, dust)
  <2>1. CASE \E name, guard : way = Finish(name, guard)
    BY <2>1, FinishLeads
  <2>2. SoundOuts(<<Out(x.resolution, x.sats)>>, dust) /\ SoundOuts(<<Out(y, x.sats)>>, dust)
    BY <1>1, <1>9, OneOutLeads
  <2>3. QED
    BY <1>2, <2>1, <2>2, ChannelWay, PlainLeads
<1>11. QED
  BY <1>10 DEF Leads

\* Contracts whose coins somebody may spend as they like pay for nothing.
LEMMA FinishesSound ==
    ASSUME NEW y, NEW sats \in Int, NEW dust \in Nat, Fit(y, dust),
           \A way \in Ways(Holding(y, sats)) : \E name, guard : way = Finish(name, guard)
    PROVE  Sound(y, sats, dust)
<1>1. FundedCoin(Holding(y, sats), dust)
  BY FinishFunds, FundedIs, HoldingIs
<1>2. QED
  BY <1>1 DEF Sound

LEMMA PegInWay ==
    ASSUME NEW x, x.is = "FederatedPegIn", NEW sats, NEW way \in Ways(Holding(x, sats))
    PROVE  \/ \E name, guard : way = Finish(name, guard)
           \/ /\ x.state = "CanBeginRecovery"
              /\ \E name, guard :
                   way = Template(name, guard,
                           Tx(<<Out([x EXCEPT !.state = "CanFinishRecovery"], x.sats)>>))
<1>1. PICK coin : coin = Holding(x, sats) /\ coin.contract = x
  BY HoldingIs
<1>2. Ways(coin) = FederatedPegInWays(x)
  BY <1>1, Zenon DEF Ways
<1>3. QED
  BY <1>1, <1>2, Zenon DEF FederatedPegInWays

LEMMA PegInLeads ==
    ASSUME NEW x, x.is = "FederatedPegIn", NEW sats, NEW dust \in Nat, Fit(x, dust)
    PROVE  Leads(x, sats, dust)
<1>1. /\ x = FederatedPegIn(x.state, x.keys, x.normal, x.recoveryKeys, x.recovery, x.sats)
      /\ x.sats \in Nat
  BY Zenon DEF Fit, Formed
<1>2. PICK y : y = [x EXCEPT !.state = "CanFinishRecovery"]
  OBVIOUS
<1>3. y = FederatedPegIn("CanFinishRecovery", x.keys, x.normal, x.recoveryKeys, x.recovery, x.sats)
  BY <1>1, <1>2 DEF FederatedPegIn
<1>4. /\ y.is = "FederatedPegIn" /\ y.state = "CanFinishRecovery" /\ y.sats = x.sats
      /\ y = FederatedPegIn(y.state, y.keys, y.normal, y.recoveryKeys, y.recovery, y.sats)
  BY <1>3 DEF FederatedPegIn
<1>5. Fit(y, dust)
  <2>1. y.sats \in Nat
    BY <1>1, <1>4
  <2>2. QED
    BY <1>4, <2>1, Zenon DEF Fit, Formed, Library, IsWork
<1>6. Sound(y, x.sats, dust)
  <2>1. y.state # "CanBeginRecovery" /\ x.sats \in Int
    BY <1>1, <1>4
  <2>2. QED
    BY <1>4, <1>5, <2>1, PegInWay, FinishesSound
<1>7. ASSUME NEW way \in Ways(Holding(x, sats)) PROVE SoundOuts(way.tx.outs, dust)
  <2>1. SoundOuts(<<Out(y, x.sats)>>, dust)
    BY <1>6, OneOutLeads
  <2>2. QED
    BY <1>2, <2>1, PegInWay, PlainLeads, FinishLeads
<1>8. QED
  BY <1>7 DEF Leads

LEMMA ExampleBWay ==
    ASSUME NEW x, x.is = "ExampleB", NEW sats, NEW way \in Ways(Holding(x, sats))
    PROVE  \/ \E name, guard : way = Finish(name, guard)
           \/ /\ x.state = "Start"
              /\ \E name, guard : way = Template(name, guard,
                                          Tx(<<Out([x EXCEPT !.state = "Finish"], x.sats)>>))
<1>1. PICK coin : coin = Holding(x, sats) /\ coin.contract = x
  BY HoldingIs
<1>2. Ways(coin) = ExampleBWays(x)
  BY <1>1, Zenon DEF Ways
<1>3. QED
  BY <1>1, <1>2, Zenon DEF ExampleBWays

LEMMA ExampleBLeads ==
    ASSUME NEW x, x.is = "ExampleB", NEW sats, NEW dust \in Nat, Fit(x, dust)
    PROVE  Leads(x, sats, dust)
<1>1. x = ExampleB(x.state, x.keys, x.threshold, x.sats) /\ x.sats \in Nat
  BY Zenon DEF Fit, Formed
<1>2. PICK y : y = [x EXCEPT !.state = "Finish"]
  OBVIOUS
<1>3. y = ExampleB("Finish", x.keys, x.threshold, x.sats)
  BY <1>1, <1>2 DEF ExampleB
<1>4. /\ y.is = "ExampleB" /\ y.state = "Finish" /\ y.sats = x.sats
      /\ y = ExampleB(y.state, y.keys, y.threshold, y.sats)
  BY <1>3 DEF ExampleB
<1>5. Fit(y, dust)
  <2>1. y.sats \in Nat
    BY <1>1, <1>4
  <2>2. QED
    BY <1>4, <2>1, Zenon DEF Fit, Formed, Library, IsWork
<1>6. Sound(y, x.sats, dust)
  <2>1. y.state # "Start" /\ x.sats \in Int
    BY <1>1, <1>4
  <2>2. QED
    BY <1>4, <1>5, <2>1, ExampleBWay, FinishesSound
<1>7. ASSUME NEW way \in Ways(Holding(x, sats)) PROVE SoundOuts(way.tx.outs, dust)
  <2>1. SoundOuts(<<Out(y, x.sats)>>, dust)
    BY <1>6, OneOutLeads
  <2>2. QED
    BY <1>2, <2>1, ExampleBWay, PlainLeads, FinishLeads
<1>8. QED
  BY <1>7 DEF Leads

\* A chain goes on as it is.
LEMMA ChainLeads ==
    ASSUME NEW x, x.is = "ChainReturn", NEW sats, NEW dust \in Nat, Sound(x, sats, dust)
    PROVE  Leads(x, sats, dust)
<1>1. PICK coin : coin = Holding(x, sats) /\ coin.contract = x /\ coin.sats = sats
  BY HoldingIs
<1>2. Ways(coin) = ChainReturnWays(x, sats)
  BY <1>1, Zenon DEF Ways
<1>3. ASSUME NEW u PROVE SoundOuts(NextChain(x, sats, u).outs, dust)
  <2>1. IsAddress(OpReturn) /\ IsAddress(Address(x.who))
    BY DEF IsAddress, OpReturn, Address
  <2>2. CASE ~u.adds
    <3>1. NextChain(x, sats, u).outs = <<Out(Address(x.who), sats)>>
      BY <2>2 DEF NextChain, Tx, PayTo
    <3>2. QED
      BY <2>1, <3>1, OneOutLeads
  <2>3. CASE u.adds /\ sats = 0
    <3>1. NextChain(x, sats, u).outs = <<Out(OpReturn, 0)>>
      <4>1. <<Out(OpReturn, 0)>> \o <<>> = <<Out(OpReturn, 0)>>
        OBVIOUS
      <4>2. QED
        BY <2>3, <4>1 DEF NextChain, Tx
    <3>2. QED
      BY <2>1, <3>1, OneOutLeads
  <2>4. CASE u.adds /\ sats # 0
    <3>1. PICK p, q : p = Out(OpReturn, 0) /\ q = Out(x, sats)
      OBVIOUS
    <3>2. PICK outs : outs = <<p>> \o <<q>>
      OBVIOUS
    <3>3. Len(outs) = 2 /\ outs[1] = p /\ outs[2] = q
      BY <3>2, TwoOuts
    <3>4. p.to = OpReturn /\ q.to = x /\ q.sats = sats
      BY <3>1 DEF Out
    <3>5. \A i \in 1..2 : i = 1 \/ i = 2
      OBVIOUS
    <3>6. SoundOuts(outs, dust)
      BY <2>1, <3>3, <3>4, <3>5, Zenon DEF SoundOuts
    <3>7. NextChain(x, sats, u).outs = outs
      BY <2>4, <3>1, <3>2 DEF NextChain, Tx
    <3>8. QED
      BY <3>6, <3>7
  <2>5. QED
    BY <2>2, <2>3, <2>4
<1>4. ASSUME NEW way \in Ways(coin) PROVE SoundOuts(way.tx.outs, dust)
  <2>1. PICK guard, txs : /\ way \in Continuation("next_chain", guard, txs)
                          /\ \A tx \in txs : \E u : tx = NextChain(x, sats, u)
    BY <1>2 DEF ChainReturnWays
  <2>2. QED
    BY <1>3, <2>1, ContinuationWays, FinishLeads
<1>5. QED
  BY <1>1, <1>4 DEF Leads

LEMMA FinishesLead ==
    ASSUME NEW x, x.is \in {"BasicEscrow", "BasicEscrow2", "ExampleA", "PayToPublicKey"},
           NEW sats, NEW dust
    PROVE  Leads(x, sats, dust)
<1>1. PICK coin : coin = Holding(x, sats) /\ coin.contract = x
  BY HoldingIs
<1>2. ASSUME NEW way \in Ways(coin) PROVE \E name, guard : way = Finish(name, guard)
  <2>1. CASE x.is = "BasicEscrow"
    <3>1. Ways(coin) = BasicEscrowWays(x)
      BY <1>1, <2>1, Zenon DEF Ways
    <3>2. QED
      BY <3>1, Zenon DEF BasicEscrowWays
  <2>2. CASE x.is = "BasicEscrow2"
    <3>1. Ways(coin) = BasicEscrow2Ways(x)
      BY <1>1, <2>2, Zenon DEF Ways
    <3>2. QED
      BY <3>1, Zenon DEF BasicEscrow2Ways
  <2>3. CASE x.is = "ExampleA"
    <3>1. Ways(coin) = ExampleAWays(x)
      BY <1>1, <2>3, Zenon DEF Ways
    <3>2. QED
      BY <3>1, Zenon DEF ExampleAWays
  <2>4. CASE x.is = "PayToPublicKey"
    <3>1. Ways(coin) = PayToPublicKeyWays(x)
      BY <1>1, <2>4, Zenon DEF Ways
    <3>2. QED
      BY <3>1, Zenon DEF PayToPublicKeyWays
  <2>5. QED
    BY <2>1, <2>2, <2>3, <2>4
<1>3. QED
  BY <1>1, <1>2, FinishLeads DEF Leads

LEMMA EscrowWay ==
    ASSUME NEW x, x.is \in {"TrustlessEscrow", "ExampleCompileIf"}, NEW sats,
           NEW way \in Ways(Holding(x, sats))
    PROVE  \/ \E name, guard : way = Finish(name, guard)
           \/ way = Template("use_escrow", Trivial,
                      SeqTx(<<x.aliceEscrow, x.bobEscrow>>, EscrowDelay))
<1>1. PICK coin : coin = Holding(x, sats) /\ coin.contract = x
  BY HoldingIs
<1>2. CASE x.is = "TrustlessEscrow"
  <2>1. Ways(coin) = TrustlessEscrowWays(x)
    BY <1>1, <1>2, Zenon DEF Ways
  <2>2. QED
    BY <1>1, <2>1, Zenon DEF TrustlessEscrowWays, UseEscrow, SeqTx
<1>3. CASE x.is = "ExampleCompileIf"
  <2>1. Ways(coin) = ExampleCompileIfWays(x)
    BY <1>1, <1>3, Zenon DEF Ways
  <2>2. QED
    BY <1>1, <2>1, Zenon DEF ExampleCompileIfWays, UseEscrow, SeqTx
<1>4. QED
  BY <1>2, <1>3

LEMMA PayeesLead ==
    ASSUME NEW outs, Payees(outs), NEW dust
    PROVE  SoundOuts(outs, dust)
BY PayeesAre, AddressOutsLead

LEMMA EscrowLeads ==
    ASSUME NEW x, x.is \in {"TrustlessEscrow", "ExampleCompileIf"}, NEW sats,
           NEW dust \in Nat, Fit(x, dust)
    PROVE  Leads(x, sats, dust)
<1>1. Payees(<<x.aliceEscrow, x.bobEscrow>>)
  BY Zenon DEF Fit, Formed
<1>2. PICK outs : outs = <<x.aliceEscrow, x.bobEscrow>>
  OBVIOUS
<1>3. SoundOuts(outs, dust)
  BY <1>1, <1>2, PayeesLead
<1>4. ASSUME NEW way \in Ways(Holding(x, sats)) PROVE SoundOuts(way.tx.outs, dust)
  <2>1. \/ \E name, guard : way = Finish(name, guard)
        \/ way = Template("use_escrow", Trivial, SeqTx(outs, EscrowDelay))
    BY <1>2, EscrowWay
  <2>2. QED
    BY <1>3, <2>1, FinishLeads, SeqWay
<1>5. QED
  BY <1>4 DEF Leads

\* What pays the parties of a DLC and of a swap.
LEMMA DlcLeads ==
    ASSUME NEW x, x.is = "DLCContract", NEW sats, NEW dust
    PROVE  Leads(x, sats, dust)
<1>1. PICK coin : coin = Holding(x, sats) /\ coin.contract = x /\ coin.sats = sats
  BY HoldingIs
<1>2. Ways(coin) = DLCContractWays(x, sats)
  BY <1>1, Zenon DEF Ways
<1>3. ASSUME NEW way \in Ways(coin) PROVE SoundOuts(way.tx.outs, dust)
  <2>1. \/ \E name, guard : way = Finish(name, guard)
        \/ \E name, guard, p, q, a, b : way = Template(name, guard, Tx(<<PayTo(p, a), PayTo(q, b)>>))
    BY <1>2, <1>3, Zenon DEF DLCContractWays
  <2>2. ASSUME NEW name, NEW guard, NEW p, NEW q, NEW a, NEW b,
               way = Template(name, guard, Tx(<<PayTo(p, a), PayTo(q, b)>>))
        PROVE  SoundOuts(way.tx.outs, dust)
    <3>1. IsAddress(PayTo(p, a).to) /\ IsAddress(PayTo(q, b).to)
      BY DEF IsAddress, PayTo, Out, Address
    <3>2. SoundOuts(<<PayTo(p, a), PayTo(q, b)>>, dust)
      BY <3>1, TwoOutsLead
    <3>3. QED
      BY <2>2, <3>2, PlainLeads
  <2>3. QED
    BY <2>1, <2>2, FinishLeads
<1>4. QED
  BY <1>1, <1>3 DEF Leads

LEMMA SwapLeads ==
    ASSUME NEW x, x.is = "PowSwap", NEW sats, NEW dust \in Nat, Fit(x, dust)
    PROVE  Leads(x, sats, dust)
<1>1. \A i \in {1, 2} : Payees(x.swaps[i].outs)
  BY Zenon DEF Fit, Formed
<1>2. PICK coin : coin = Holding(x, sats) /\ coin.contract = x
  BY HoldingIs
<1>3. Ways(coin) = PowSwapWays(x)
  BY <1>2, Zenon DEF Ways
<1>4. ASSUME NEW way \in Ways(coin) PROVE SoundOuts(way.tx.outs, dust)
  <2>1. \/ \E name, guard : way = Finish(name, guard)
        \/ \E i \in {1, 2} : way = Template("payoff", Trivial, x.swaps[i])
    BY <1>3, <1>4, Zenon DEF PowSwapWays
  <2>2. ASSUME NEW i \in {1, 2}, way = Template("payoff", Trivial, x.swaps[i])
        PROVE  SoundOuts(way.tx.outs, dust)
    <3>1. way.tx = x.swaps[i]
      BY <2>2, TemplateOf
    <3>2. QED
      BY <1>1, <3>1, PayeesLead
  <2>3. QED
    BY <2>1, <2>2, FinishLeads
<1>5. QED
  BY <1>2, <1>4 DEF Leads

-----------------------------------------------------------------------------
(* Payments that can be undone, and the annuity vault. *)

LEMMA UndoWay ==
    ASSUME NEW x, x.is = "UndoSend", NEW sats, NEW way \in Ways(Holding(x, sats))
    PROVE  \/ way = Template("undo", Trivial, Tx(<<Out(x.from, x.sats)>>))
           \/ way = Template("complete", Trivial, SeqTx(<<Out(x.to, x.sats)>>, x.timeout))
<1>1. PICK coin : coin = Holding(x, sats) /\ coin.contract = x
  BY HoldingIs
<1>2. Ways(coin) = UndoSendWays(x)
  BY <1>1, Zenon DEF Ways
<1>3. QED
  BY <1>1, <1>2, Zenon DEF UndoSendWays, SeqTx

LEMMA UndoLeads ==
    ASSUME NEW x, x.is = "UndoSend", NEW sats, NEW dust \in Nat, Fit(x, dust)
    PROVE  Leads(x, sats, dust)
<1>1. IsAddress(x.to) /\ (IsAddress(x.from) \/ TreeOf(x.from, x.sats))
  BY Zenon DEF Fit, Formed
<1>2. SoundOuts(<<Out(x.from, x.sats)>>, dust) /\ SoundOuts(<<Out(x.to, x.sats)>>, dust)
  BY <1>1, TreeSound, OneOutLeads
<1>3. ASSUME NEW way \in Ways(Holding(x, sats)) PROVE SoundOuts(way.tx.outs, dust)
  BY <1>2, UndoWay, PlainLeads, SeqWay
<1>4. QED
  BY <1>3 DEF Leads

LEMMA UndoFunded ==
    ASSUME NEW from, NEW to, NEW sats \in Int, NEW timeout, NEW dust \in Nat
    PROVE  FundedCoin(Holding(UndoSend(from, to, sats, timeout), sats), dust)
<1>1. PICK x : x = UndoSend(from, to, sats, timeout)
  OBVIOUS
<1>2. x.is = "UndoSend" /\ x.from = from /\ x.to = to /\ x.sats = sats
  BY <1>1 DEF UndoSend
<1>4. ASSUME NEW way \in Ways(Holding(x, sats)) PROVE Funds(way, sats, dust)
  <2>1. \E y : way.tx.outs = <<Out(y, sats)>> /\ way.tx.fees = 0
    <3>1. \/ way = Template("undo", Trivial, Tx(<<Out(x.from, x.sats)>>))
          \/ way = Template("complete", Trivial, SeqTx(<<Out(x.to, x.sats)>>, x.timeout))
      BY <1>2, UndoWay
    <3>2. QED
      BY <1>2, <3>1, PlainWay, SeqWay
  <2>2. QED
    BY <2>1, OneExact
<1>5. QED
  BY <1>1, <1>4, FundedIs, HoldingIs

LEMMA UndoSound ==
    ASSUME NEW from, NEW to, NEW sats \in Int, NEW timeout, NEW dust \in Nat,
           IsAddress(to), IsAddress(from) \/ TreeOf(from, sats)
    PROVE  Sound(UndoSend(from, to, sats, timeout), sats, dust)
<1>1. PICK x : x = UndoSend(from, to, sats, timeout)
  OBVIOUS
<1>2. x.is = "UndoSend" /\ x.from = from /\ x.to = to /\ x.sats = sats
  BY <1>1 DEF UndoSend
<1>3. Fit(x, dust)
  BY <1>2, Zenon DEF Fit, Formed, Library, IsWork
<1>4. QED
  BY <1>1, <1>3, UndoFunded DEF Sound

\* Cold storage takes all it is sent, if that is a multiple of its parts.
LEMMA ColdStorageTakes ==
    ASSUME NEW cold, NEW sats \in Nat,
           \/ IsAddress(cold)
           \/ /\ cold = SplitTree(cold.who, cold.max, cold.radix)
              /\ cold.max \in Nat \ {0} /\ cold.radix \in Nat \ {0}
              /\ sats % cold.max = 0
    PROVE  IsAddress(ColdStorage(cold, sats)) \/ TreeOf(ColdStorage(cold, sats), sats)
<1>1. CASE IsAddress(cold)
  BY <1>1 DEF IsAddress, ColdStorage
<1>2. CASE ~IsAddress(cold)
  <2>1. PICK max \in Nat \ {0} : max = cold.max /\ sats % max = 0
    BY <1>2
  <2>2. PICK count : count = (sats + max - 1) \div max
    OBVIOUS
  <2>3. count \in Nat /\ count * max = sats
    <3>1. PICK q : q = sats \div max
      OBVIOUS
    <3>2. \A n \in Nat, m \in Nat \ {0} : n % m = 0 => n \div m \in Nat /\ n = m * (n \div m)
      OBVIOUS
    <3>3. q \in Nat /\ sats = max * q
      BY <2>1, <3>1, <3>2
    <3>4. sats + max - 1 \in Nat
      OBVIOUS
    <3>5. PICK n \in Nat : n = sats + max - 1
      BY <3>4
    <3>6. count \in Nat /\ count * max <= n /\ n < count * max + max
      BY <2>2, <3>5, Quotient
    <3>7. PICK c \in Nat : c = count
      BY <3>6
    <3>8. PICK r \in Nat : r = q
      BY <3>3
    <3>9. ASSUME c < r PROVE FALSE
      <4>1. c + 1 <= r
        BY <3>9
      <4>2. (c + 1) * max <= r * max
        BY <4>1, TimesGrows
      <4>3. (c + 1) * max = c * max + max /\ r * max = max * r
        OBVIOUS
      <4>4. PICK a \in Nat : a = c * max
        BY TimesNat
      <4>5. PICK b \in Nat : b = max * r
        BY TimesNat
      <4>6. a + max <= b /\ b = sats /\ n < a + max /\ n = sats + max - 1
        BY <3>3, <3>5, <3>6, <3>7, <3>8, <4>2, <4>3, <4>4, <4>5
      <4>7. QED
        BY <4>6
    <3>10. ASSUME r < c PROVE FALSE
      <4>1. r + 1 <= c
        BY <3>10
      <4>2. (r + 1) * max <= c * max
        BY <4>1, TimesGrows
      <4>3. (r + 1) * max = r * max + max /\ r * max = max * r
        OBVIOUS
      <4>4. PICK a \in Nat : a = c * max
        BY TimesNat
      <4>5. PICK b \in Nat : b = max * r
        BY TimesNat
      <4>6. b + max <= a /\ b = sats /\ a <= n /\ n = sats + max - 1
        BY <3>3, <3>5, <3>6, <3>7, <3>8, <4>2, <4>3, <4>4, <4>5
      <4>7. QED
        BY <4>6
    <3>11. c = r
      BY <3>9, <3>10
    <3>12. count = q /\ q * max = max * q
      <4>1. r * max = max * r
        OBVIOUS
      <4>2. QED
        BY <3>7, <3>8, <3>11, <4>1
    <3>13. QED
      BY <3>3, <3>6, <3>12
  <2>4. PICK pay : pay = PayTo(cold.who, max)
    OBVIOUS
  <2>5. pay.sats = max /\ IsAddress(pay.to)
    BY <2>4 DEF PayTo, Out, Address, IsAddress
  <2>6. PICK p : p = [i \in 1..count |-> pay]
    OBVIOUS
  <2>7. ColdStorage(cold, sats) = TreePay(p, cold.radix)
    BY <1>2, <2>1, <2>2, <2>4, <2>6 DEF ColdStorage, IsAddress
  <2>8. p \in Seq({pay}) /\ Len(p) = count
    BY <2>3, <2>6
  <2>9. Payees(p)
    BY <2>1, <2>5, <2>8, ArePayees
  <2>10. OutSats(p) = sats
    <3>1. /\ OutSats(p) = Total(SatsOf(p), count)
          /\ \A i \in 1..count : SatsOf(p)[i] = p[i].sats
      <4>1. \A o \in {pay} : o.sats \in Int
        BY <2>1, <2>5
      <4>2. QED
        BY <2>8, <4>1, OutSatsTotal
    <3>2. PICK F : F = [i \in 0..count |-> i * max]
      OBVIOUS
    <3>3. \A i \in 0..count : F[i] \in Int
      <4>1. \A i \in 0..count : i * max \in Int
        OBVIOUS
      <4>2. QED
        BY <3>2, <4>1
    <3>4. ASSUME NEW i \in 1..count PROVE SatsOf(p)[i] = F[i] - F[i - 1]
      <4>1. SatsOf(p)[i] = max
        BY <2>5, <2>6, <3>1
      <4>2. F[i] = i * max /\ F[i - 1] = (i - 1) * max
        BY <2>3, <3>2
      <4>3. i * max = (i - 1) * max + max /\ (i - 1) * max \in Int
        BY <2>3
      <4>4. QED
        BY <4>1, <4>2, <4>3
    <3>5. Total(SatsOf(p), count) = F[count] - F[0]
      BY <2>3, <3>3, <3>4, TotalTelescope
    <3>6. F[count] = sats /\ F[0] = 0
      BY <2>3, <3>2
    <3>7. QED
      BY <3>1, <3>5, <3>6
  <2>11. QED
    <3>1. PICK t : t = TreePay(p, cold.radix)
      OBVIOUS
    <3>2. t.participants = p /\ t.radix = cold.radix
      BY <3>1 DEF TreePay
    <3>3. TreeOf(t, sats)
      BY <1>2, <2>9, <2>10, <3>1, <3>2 DEF TreeOf
    <3>4. QED
      BY <2>7, <3>1, <3>3
<1>3. QED
  BY <1>1, <1>2

LEMMA OneAndOne == ASSUME NEW p, NEW q PROVE <<p>> \o <<q>> = <<p, q>>
<1>1. PICK u : u = <<p>> \o <<q>>
  OBVIOUS
<1>2. Len(u) = 2 /\ u[1] = p /\ u[2] = q
  BY <1>1, TwoOuts
<1>3. PICK v : v = <<p, q>>
  OBVIOUS
<1>4. v \in Seq({p, q}) /\ Len(v) = 2 /\ v[1] = p /\ v[2] = q
  BY <1>3
<1>5. u \in Seq({p, q})
  <2>1. \A S : \A a, b \in Seq(S) : a \o b \in Seq(S)
    OBVIOUS
  <2>2. <<p>> \in Seq({p, q}) /\ <<q>> \in Seq({p, q})
    OBVIOUS
  <2>3. QED
    BY <1>1, <2>1, <2>2
<1>6. u = [i \in 1..2 |-> u[i]] /\ v = [i \in 1..2 |-> v[i]]
  BY <1>2, <1>4, <1>5
<1>7. \A i \in 1..2 : i = 1 \/ i = 2
  OBVIOUS
<1>8. \A i \in 1..2 : u[i] = v[i]
  BY <1>2, <1>4, <1>7
<1>9. u = v
  BY <1>6, <1>8
<1>10. QED
  BY <1>1, <1>3, <1>9

\* What a step of the vault pays: what it sends, and the rest of the vault.
LEMMA VaultWay ==
    ASSUME NEW x, x.is = "Vault", NEW sats, NEW way \in Ways(Holding(x, sats))
    PROVE  \/ way = Template("to_cold", Trivial,
                      Tx(<<Out(ColdStorage(x.cold, x.step * x.steps), x.step * x.steps)>>))
           \/ way = Template("step", Trivial,
                      SeqTx(<<Out(UndoSend(ColdStorage(x.cold, x.step), x.hot, x.step, x.mature),
                                  x.step)>>
                            \o (IF x.steps > 1
                                THEN <<Out([x EXCEPT !.steps = @ - 1], x.step * (x.steps - 1))>>
                                ELSE <<>>),
                            x.timeout))
<1>1. PICK coin : coin = Holding(x, sats) /\ coin.contract = x
  BY HoldingIs
<1>2. Ways(coin) = VaultWays(x)
  BY <1>1, Zenon DEF Ways
<1>3. QED
  BY <1>1, <1>2, Zenon DEF VaultWays, VaultStep, VaultToCold, SeqTx

\* Multiples of a part are taken whole.
LEMMA MultipleTaken ==
    ASSUME NEW cold, NEW step \in Nat, NEW n \in Nat,
           \/ IsAddress(cold)
           \/ /\ cold = SplitTree(cold.who, cold.max, cold.radix)
              /\ cold.max \in Nat \ {0} /\ cold.radix \in Nat \ {0}
              /\ step % cold.max = 0
    PROVE  LET sats == step * n
           IN  /\ sats \in Nat
               /\ \/ IsAddress(ColdStorage(cold, sats))
                  \/ TreeOf(ColdStorage(cold, sats), sats)
<1>1. PICK sats \in Nat : sats = step * n
  <2>1. step * n \in Nat
    BY TimesNat
  <2>2. QED
    BY <2>1
<1>2. CASE IsAddress(cold)
  BY <1>1, <1>2, ColdStorageTakes
<1>3. CASE ~IsAddress(cold)
  <2>1. PICK max \in Nat \ {0} : max = cold.max /\ step % max = 0
    BY <1>3
  <2>2. sats % max = 0
    <3>1. PICK q \in Nat : step = max * q
      <4>1. \A a \in Nat, m \in Nat \ {0} : a % m = 0 => a \div m \in Nat /\ a = m * (a \div m)
        OBVIOUS
      <4>2. QED
        BY <2>1, <4>1
    <3>2. PICK r \in Nat : r = q * n
      BY TimesNat
    <3>3. sats = max * r
      BY <1>1, <3>1, <3>2
    <3>4. \A m \in Nat \ {0}, k \in Nat : (m * k) % m = 0
      OBVIOUS
    <3>5. QED
      BY <3>3, <3>4
  <2>3. QED
    BY <1>1, <1>3, <2>1, <2>2, ColdStorageTakes
<1>4. QED
  BY <1>1, <1>2, <1>3

LEMMA VaultSound ==
    ASSUME NEW x, NEW dust \in Nat, Fit(x, dust), x.is = "Vault",
           NEW sats \in Int, sats = x.step * x.steps
    PROVE  Sound(x, sats, dust)
<1>1. /\ VaultFields(x) /\ x.steps # 0
      /\ IsAddress(x.cold) \/ x.step % x.cold.max = 0
  BY Zenon DEF Fit, Formed
<1>2. PICK s \in Nat, n \in Nat : s = x.step /\ n = x.steps /\ n # 0
  BY <1>1 DEF VaultFields
<1>3. ASSUME NEW way \in Ways(Holding(x, sats)) PROVE Funds(way, sats, dust)
  <2>1. PICK sent, rest : /\ sent = UndoSend(ColdStorage(x.cold, x.step), x.hot, x.step, x.mature)
                          /\ rest = [x EXCEPT !.steps = @ - 1]
    OBVIOUS
  <2>2. PICK p, q : p = Out(sent, x.step) /\ q = Out(rest, x.step * (x.steps - 1))
    OBVIOUS
  <2>2a. PICK tail : tail = IF x.steps > 1 THEN <<q>> ELSE <<>>
    OBVIOUS
  <2>2b. n > 1 <=> x.steps > 1
    BY <1>2, Zenon
  <2>3. \/ way = Template("to_cold", Trivial, Tx(<<Out(ColdStorage(x.cold, sats), sats)>>))
        \/ way = Template("step", Trivial, SeqTx(<<p>> \o tail, x.timeout))
    BY <2>1, <2>2, <2>2a, VaultWay, Zenon
  <2>4. ASSUME way = Template("to_cold", Trivial, Tx(<<Out(ColdStorage(x.cold, sats), sats)>>))
        PROVE  Funds(way, sats, dust)
    <3>1. PICK to : to = ColdStorage(x.cold, sats)
      OBVIOUS
    <3>2. way.tx.outs = <<Out(to, sats)>> /\ way.tx.fees = 0
      BY <2>4, <3>1, PlainWay
    <3>3. QED
      BY <3>2, OneExact
  <2>5. ASSUME way = Template("step", Trivial, SeqTx(<<p>> \o tail, x.timeout))
        PROVE  Funds(way, sats, dust)
    <3>0. PICK outs : outs = <<p>> \o tail
      OBVIOUS
    <3>0a. way = Template("step", Trivial, SeqTx(outs, x.timeout))
      BY <2>5, <3>0
    <3>0b. way.tx.outs = outs /\ way.tx.fees = 0
      BY <3>0a, SeqWay
    <3>1. way.tx.outs = <<p>> \o tail /\ way.tx.fees = 0
      BY <3>0, <3>0b
    <3>2. OutSats(<<p>> \o tail) = sats
      <4>0. p.sats = s /\ s \in Int
        BY <1>2, <2>2 DEF Out
      <4>0a. sats = s * n
        BY <1>2, Zenon
      <4>1. CASE n > 1
        <5>1. PICK t \in Nat : t = s * (n - 1)
          <6>1. n - 1 \in Nat
            BY <4>1
          <6>2. QED
            BY <6>1, TimesNat
        <5>2. q.sats = x.step * (x.steps - 1)
          BY <2>2 DEF Out
        <5>3. q.sats = t
          BY <1>2, <5>1, <5>2, Zenon
        <5>4. <<p>> \o tail = <<p, q>>
          <6>1. tail = <<q>>
            <7>1. x.steps > 1
              BY <2>2b, <4>1
            <7>2. QED
              BY <2>2a, <7>1
          <6>2. <<p>> \o <<q>> = <<p, q>>
            BY OneAndOne
          <6>3. QED
            BY <6>1, <6>2
        <5>5. OutSats(<<p, q>>) = s + t
          <6>1. p.sats \in Int /\ q.sats \in Int
            BY <4>0, <5>3
          <6>2. OutSats(<<p, q>>) = p.sats + q.sats
            BY <6>1, SumTwo
          <6>3. QED
            BY <4>0, <5>3, <6>2
        <5>6. s + t = s * n
          <6>1. s * n = s * (n - 1) + s
            OBVIOUS
          <6>2. QED
            BY <5>1, <6>1
        <5>7. QED
          BY <4>0a, <5>4, <5>5, <5>6, Zenon
      <4>2. CASE ~(n > 1)
        <5>1. tail = <<>>
          BY <2>2a, <2>2b, <4>2, Zenon
        <5>2. n = 1
          BY <1>2, <4>2
        <5>3. <<p>> \o tail = <<p>>
          BY <5>1
        <5>4. OutSats(<<p>>) = s
          BY <4>0, SumOne
        <5>5. s * n = s
          BY <5>2
        <5>6. QED
          BY <4>0a, <5>3, <5>4, <5>5, Zenon
      <4>3. QED
        BY <4>1, <4>2
    <3>3. sats + 0 = sats
      OBVIOUS
    <3>4. QED
      BY <3>1, <3>2, <3>3, ExactFunds
  <2>6. QED
    BY <2>3, <2>4, <2>5
<1>4. FundedCoin(Holding(x, sats), dust)
  BY <1>3, FundedIs, HoldingIs
<1>5. QED
  BY <1>4 DEF Sound

LEMMA VaultLeads ==
    ASSUME NEW x, x.is = "Vault", NEW sats, NEW dust \in Nat, Fit(x, dust)
    PROVE  Leads(x, sats, dust)
<1>1. /\ VaultFields(x) /\ x.steps # 0
      /\ IsAddress(x.cold) \/ x.step % x.cold.max = 0
  BY Zenon DEF Fit, Formed
<1>2. PICK s \in Nat, n \in Nat : s = x.step /\ n = x.steps /\ n # 0
  BY <1>1 DEF VaultFields
<1>3. /\ IsAddress(x.hot)
      /\ \/ IsAddress(x.cold)
         \/ /\ x.cold = SplitTree(x.cold.who, x.cold.max, x.cold.radix)
            /\ x.cold.max \in Nat \ {0} /\ x.cold.radix \in Nat \ {0}
            /\ s % x.cold.max = 0
  BY <1>1, <1>2 DEF VaultFields, IsAddress, Address
<1>4. PICK t \in Nat : t = s * n
  BY TimesNat
<1>5. IsAddress(ColdStorage(x.cold, t)) \/ TreeOf(ColdStorage(x.cold, t), t)
  BY <1>3, <1>4, MultipleTaken
<1>6. IsAddress(ColdStorage(x.cold, s)) \/ TreeOf(ColdStorage(x.cold, s), s)
  <2>1. s * 1 = s /\ 1 \in Nat
    OBVIOUS
  <2>2. \/ IsAddress(ColdStorage(x.cold, s * 1))
        \/ TreeOf(ColdStorage(x.cold, s * 1), s * 1)
    BY <1>3, <2>1, MultipleTaken
  <2>3. QED
    BY <2>1, <2>2
<1>7. PICK sent, rest : /\ sent = UndoSend(ColdStorage(x.cold, x.step), x.hot, x.step, x.mature)
                        /\ rest = [x EXCEPT !.steps = @ - 1]
  OBVIOUS
<1>8. Sound(sent, s, dust)
  <2>1. s \in Int
    OBVIOUS
  <2>2. QED
    BY <1>2, <1>3, <1>6, <1>7, <2>1, UndoSound
<1>9. CASE n > 1
  <2>1. PICK r \in Nat : r = s * (n - 1)
    <3>1. n - 1 \in Nat
      BY <1>9
    <3>2. QED
      BY <3>1, TimesNat
  <2>2. rest = Vault(x.cold, x.hot, n - 1, s, x.timeout, x.mature)
    BY <1>1, <1>2, <1>7 DEF VaultFields, Vault
  <2>3. /\ rest.is = "Vault" /\ rest.cold = x.cold /\ rest.hot = x.hot
        /\ rest.steps = n - 1 /\ rest.step = s /\ rest.timeout = x.timeout
        /\ rest.mature = x.mature
    BY <2>2 DEF Vault
  <2>4. n - 1 \in Nat /\ n - 1 # 0
    BY <1>9
  <2>5. VaultFields(rest) /\ rest.steps # 0 /\ (IsAddress(rest.cold) \/ rest.step % rest.cold.max = 0)
    <3>1. rest.step % rest.cold.max = x.step % x.cold.max
      BY <1>2, <2>3
    <3>2. VaultFields(rest)
      BY <1>1, <2>2, <2>3, <2>4 DEF VaultFields
    <3>3. QED
      BY <1>1, <2>3, <2>4, <3>1, <3>2
  <2>6. Fit(rest, dust)
    BY <2>3, <2>5, Zenon DEF Fit, Formed, Library, IsWork
  <2>7. Sound(rest, r, dust)
    <3>1. r = rest.step * rest.steps /\ r \in Int
      BY <2>1, <2>3
    <3>2. QED
      BY <2>3, <2>6, <3>1, VaultSound
  <2>8. PICK p, q : p = Out(sent, s) /\ q = Out(rest, r)
    OBVIOUS
  <2>9. p.to = sent /\ p.sats = s /\ q.to = rest /\ q.sats = r
    BY <2>8 DEF Out
  <2>10. SoundOuts(<<p, q>>, dust)
    <3>1. Sound(p.to, p.sats, dust) /\ Sound(q.to, q.sats, dust)
      BY <1>8, <2>7, <2>9, Zenon
    <3>2. PICK outs : outs = <<p, q>>
      OBVIOUS
    <3>3. Len(outs) = 2 /\ outs[1] = p /\ outs[2] = q /\ \A i \in 1..2 : i = 1 \/ i = 2
      BY <3>2
    <3>4. SoundOuts(outs, dust)
      BY <3>1, <3>3, Zenon DEF SoundOuts
    <3>5. QED
      BY <3>2, <3>4
  <2>11. <<p>> \o <<q>> = <<p, q>>
    BY OneAndOne
  <2>12. SoundOuts(<<Out(sent, s)>> \o <<Out(rest, r)>>, dust)
    BY <2>8, <2>10, <2>11
  <2>13. SoundOuts(<<Out(ColdStorage(x.cold, t), t)>>, dust)
    BY <1>5, TreeSound, OneOutLeads
  <2>14. ASSUME NEW way \in Ways(Holding(x, sats)) PROVE SoundOuts(way.tx.outs, dust)
    <3>1. \/ way = Template("to_cold", Trivial, Tx(<<Out(ColdStorage(x.cold, t), t)>>))
          \/ way = Template("step", Trivial,
                     SeqTx(<<Out(sent, s)>> \o (IF x.steps > 1 THEN <<Out(rest, r)>> ELSE <<>>),
                           x.timeout))
      BY <1>2, <1>4, <1>7, <2>1, VaultWay, Zenon
    <3>2. x.steps > 1
      BY <1>2, <1>9
    <3>3. \/ way = Template("to_cold", Trivial, Tx(<<Out(ColdStorage(x.cold, t), t)>>))
          \/ way = Template("step", Trivial, SeqTx(<<Out(sent, s)>> \o <<Out(rest, r)>>, x.timeout))
      BY <3>1, <3>2, Zenon
    <3>4. QED
      BY <2>12, <2>13, <3>3, PlainLeads, SeqWay
  <2>15. QED
    BY <2>14 DEF Leads
<1>10. CASE ~(n > 1)
  <2>1. SoundOuts(<<Out(sent, s)>>, dust)
    BY <1>8, OneOutLeads
  <2>2. SoundOuts(<<Out(ColdStorage(x.cold, t), t)>>, dust)
    BY <1>5, TreeSound, OneOutLeads
  <2>3. <<Out(sent, s)>> \o <<>> = <<Out(sent, s)>>
    OBVIOUS
  <2>4. ASSUME NEW way \in Ways(Holding(x, sats)) PROVE SoundOuts(way.tx.outs, dust)
    <3>1. ~(x.steps > 1)
      BY <1>2, <1>10
    <3>2. \/ way = Template("to_cold", Trivial, Tx(<<Out(ColdStorage(x.cold, t), t)>>))
          \/ way = Template("step", Trivial, SeqTx(<<Out(sent, s)>>, x.timeout))
      BY <1>2, <1>4, <1>7, <2>3, <3>1, VaultWay, Zenon
    <3>3. QED
      BY <2>1, <2>2, <3>2, PlainLeads, SeqWay
  <2>5. QED
    BY <2>4 DEF Leads
<1>11. QED
  BY <1>9, <1>10

LEMMA OutSatsAppend ==
    ASSUME NEW S, \A x \in S : x.sats \in Int, NEW s \in Seq(S), NEW o \in S
    PROVE  Append(s, o) \in Seq(S) /\ OutSats(Append(s, o)) = OutSats(s) + o.sats
<1>1. PICK n \in Nat : n = Len(s)
  OBVIOUS
<1>2. PICK u : u = Append(s, o)
  OBVIOUS
<1>3. /\ u \in Seq(S) /\ Len(u) = n + 1 /\ u[n + 1] = o
      /\ \A i \in 1..n : u[i] = s[i]
  BY <1>1, <1>2
<1>4. /\ OutSats(u) = Total(SatsOf(u), n + 1)
      /\ \A i \in 1..(n + 1) : SatsOf(u)[i] = u[i].sats /\ u[i].sats \in Int
  BY <1>3, OutSatsTotal
<1>5. /\ OutSats(s) = Total(SatsOf(s), n)
      /\ \A i \in 1..n : SatsOf(s)[i] = s[i].sats /\ s[i].sats \in Int
  BY <1>1, OutSatsTotal
<1>6. PICK f, g : f = SatsOf(u) /\ g = SatsOf(s)
  OBVIOUS
<1>7. \A i \in 1..(n + 1) : f[i] \in Int
  BY <1>4, <1>6
<1>8. Total(f, n + 1) = Total(f, n) + f[n + 1]
  BY <1>7, TotalMore
<1>9. \A i \in 1..n : i \in 1..(n + 1)
  OBVIOUS
<1>10. \A i \in 1..n : g[i] \in Int /\ f[i] = g[i]
  BY <1>3, <1>4, <1>5, <1>6, <1>9
<1>11. Total(f, n) = Total(g, n)
  BY <1>10, TotalSame
<1>12. f[n + 1] = o.sats
  <2>1. n + 1 \in 1..(n + 1)
    OBVIOUS
  <2>2. f[n + 1] = u[n + 1].sats
    BY <1>4, <1>6, <2>1
  <2>3. QED
    BY <1>3, <2>2
<1>13. QED
  BY <1>2, <1>3, <1>4, <1>5, <1>6, <1>8, <1>11, <1>12, Zenon

-----------------------------------------------------------------------------
(* The two-state vault. *)

LEMMA SizeIs ==
    ASSUME NEW p, Payees(p)
    PROVE  EstimateTxSize(Tx(p)) \in Nat
<1>1. Len(p) \in Nat /\ DOMAIN p = 1..Len(p)
  BY PayeesAre
<1>2. PICK n : n = Cardinality({i \in DOMAIN p : p[i].to.is # "Address"})
  OBVIOUS
<1>3. n \in Nat
  <2>1. IsFiniteSet(1..Len(p))
    BY <1>1, FS_Interval
  <2>2. {i \in DOMAIN p : p[i].to.is # "Address"} \subseteq 1..Len(p)
    BY <1>1
  <2>3. IsFiniteSet({i \in DOMAIN p : p[i].to.is # "Address"})
    BY <2>1, <2>2, FS_Subset
  <2>4. QED
    BY <1>2, <2>3, FS_CardinalityType
<1>4. Tx(p).inputs = 0 /\ Tx(p).outs = p
  BY DEF Tx
<1>5. EstimateTxSize(Tx(p)) = 12 + 41 * (1 + 0) + 9 * Len(p) + 34 * n
  BY <1>2, <1>4 DEF EstimateTxSize
<1>6. QED
  BY <1>1, <1>3, <1>5

LEMMA SweptIs ==
    ASSUME NEW c, NEW sats, NEW to, NEW extra
    PROVE  Swept(c, sats, to, extra) = SweptTx(c, sats, to, extra)
BY Zenon DEF Swept, SweptTx, SweptOut, SweptFees, WithFees

\* What is swept is all there is.
SweepsAll(way, c, sats, to, extra, dust) ==
    /\ SweptOut(c, sats, to, extra).sats \in Int /\ SweptOut(c, sats, to, extra).to = to
    /\ way.tx.outs = Append(c.cpfp, SweptOut(c, sats, to, extra))
    /\ Funds(way, sats, dust)
LEMMA SweptAll ==
    ASSUME NEW c, Payees(c.cpfp), c.feerate \in Nat, NEW sats \in Int, NEW to, NEW extra \in Nat,
           NEW way, NEW name, NEW guard, way = Template(name, guard, SweptTx(c, sats, to, extra)),
           NEW dust \in Nat
    PROVE  SweepsAll(way, c, sats, to, extra, dust)
<1>1. PICK fees : fees = SweptFees(c, extra)
  OBVIOUS
<1>2. fees \in Int
  <2>1. PICK size \in Nat : size = EstimateTxSize(Tx(c.cpfp))
    BY SizeIs
  <2>2. \A rate \in Nat, n \in Nat : (rate * 4 * n) \div 1000 \in Int
    OBVIOUS
  <2>3. size + extra \in Nat
    OBVIOUS
  <2>4. (c.feerate * 4 * (size + extra)) \div 1000 \in Int
    BY <2>2, <2>3
  <2>5. QED
    BY <1>1, <2>1, <2>4 DEF SweptFees
<1>3. PICK o : o = SweptOut(c, sats, to, extra)
  OBVIOUS
<1>4. PICK p : p = c.cpfp
  OBVIOUS
<1>5. PICK S : S = Range(p)
  OBVIOUS
<1>6. /\ p \in Seq(S) /\ \A x \in S : x.sats \in Int
      /\ OutSats(p) \in Int
  BY <1>4, <1>5, PayeesAre
<1>7. o.to = to /\ o.sats = sats - OutSats(p) - fees
  BY <1>1, <1>3, <1>4 DEF SweptOut, Out
<1>8. o.sats \in Int
  BY <1>2, <1>6, <1>7
<1>9. OutSats(Append(p, o)) = OutSats(p) + o.sats
  <2>1. p \in Seq(S \cup {o}) /\ o \in S \cup {o} /\ \A x \in S \cup {o} : x.sats \in Int
    BY <1>6, <1>8, SeqGrows
  <2>2. QED
    BY <2>1, OutSatsAppend
<1>10. way = Template(name, guard, WithFees(Append(p, o), fees))
  BY <1>1, <1>3, <1>4 DEF SweptTx
<1>11. way.tx.outs = Append(p, o) /\ way.tx.fees = fees
  <2>1. PICK outs : outs = Append(p, o)
    OBVIOUS
  <2>2. way = Template(name, guard, WithFees(outs, fees))
    BY <1>10, <2>1
  <2>3. way.tx.outs = outs /\ way.tx.fees = fees
    BY <2>2, FeesWay
  <2>4. QED
    BY <2>1, <2>3
<1>12. OutSats(Append(p, o)) + fees = sats
  BY <1>2, <1>6, <1>7, <1>9
<1>13. Funds(way, sats, dust)
  BY <1>11, <1>12, ExactFunds
<1>14. QED
  BY <1>3, <1>4, <1>7, <1>8, <1>11, <1>13, Zenon DEF SweepsAll

LEMMA JamesWay ==
    ASSUME NEW x, x.is = "JamesVault", NEW sats, NEW way \in Ways(Holding(x, sats))
    PROVE  \/ \E name, guard : way = Finish(name, guard)
           \/ Suggests(way, sats)
           \/ way = Template("backup", Trivial, SweptTx(x, sats, x.backupAddr, 8 + BackupScript))
           \/ /\ x.state = "Secure"
              /\ way = Template("begin_redeem", Trivial,
                         SweptTx(x, sats, [x EXCEPT !.state = "Redeeming"], 8 + 35))
<1>1. PICK coin : coin = Holding(x, sats) /\ coin.contract = x /\ coin.sats = sats
  BY HoldingIs
<1>2. Ways(coin) = JamesVaultWays(x, sats)
  BY <1>1, Zenon DEF Ways
<1>3. PICK hot, cold : hot = SpendHot(x, sats) /\ cold = SpendCold(sats)
  OBVIOUS
<1>4. \A tx \in hot \cup cold : \E u \in HotPayments :
        OutSats(u) <= sats /\ tx.outs = u /\ tx.fees = 0
  <2>1. ASSUME NEW tx \in hot
        PROVE  \E u \in HotPayments : OutSats(u) <= sats /\ tx.outs = u /\ tx.fees = 0
    <3>1. PICK u \in HotPayments : OutSats(u) <= sats /\ tx = SeqTx(u, x.timeout)
      BY <1>3, Zenon DEF SpendHot, SeqTx
    <3>2. tx.outs = u /\ tx.fees = 0
      BY <3>1 DEF SeqTx, Tx
    <3>3. QED
      BY <3>1, <3>2
  <2>2. ASSUME NEW tx \in cold
        PROVE  \E u \in HotPayments : OutSats(u) <= sats /\ tx.outs = u /\ tx.fees = 0
    <3>1. PICK u \in HotPayments : OutSats(u) <= sats /\ tx = Tx(u)
      BY <1>3, Zenon DEF SpendCold
    <3>2. tx.outs = u /\ tx.fees = 0
      BY <3>1 DEF Tx
    <3>3. QED
      BY <3>1, <3>2
  <2>3. QED
    BY <2>1, <2>2
<1>5. ASSUME NEW name, NEW guard, NEW txs, txs \subseteq hot \cup cold,
             way \in Continuation(name, guard, txs)
      PROVE  (\E n, g : way = Finish(n, g)) \/ Suggests(way, sats)
  <2>1. way = Finish(name, guard) \/ \E tx \in txs : way.tx = tx /\ ~way.ctv
    BY <1>5, ContinuationWays
  <2>2. QED
    BY <1>4, <1>5, <2>1 DEF Suggests
<1>6. PICK signed, backup : /\ signed = And(Key(x.hotKey), Older(x.timeout))
                            /\ backup = Key(x.backup)
  OBVIOUS
<1>7. \/ way = Template("backup", Trivial, Swept(x, sats, x.backupAddr, 8 + BackupScript))
      \/ /\ x.state = "Secure"
         /\ way = Template("begin_redeem", Trivial,
                    Swept(x, sats, [x EXCEPT !.state = "Redeeming"], 8 + 35))
      \/ way \in Continuation("spend_hot", signed, hot)
      \/ way \in Continuation("spend_cold", backup, cold)
  BY <1>1, <1>2, <1>3, <1>6, Zenon DEF JamesVaultWays
<1>8. hot \subseteq hot \cup cold /\ cold \subseteq hot \cup cold
  OBVIOUS
<1>9. CASE way \in Continuation("spend_hot", signed, hot)
  BY <1>5, <1>8, <1>9
<1>10. CASE way \in Continuation("spend_cold", backup, cold)
  BY <1>5, <1>8, <1>10
<1>11. QED
  BY <1>7, <1>9, <1>10, SweptIs, Zenon

LEMMA SuggestsFunds ==
    ASSUME NEW way, NEW sats \in Int, NEW dust, Suggests(way, sats)
    PROVE  Funds(way, sats, dust) /\ SoundOuts(way.tx.outs, dust)
<1>1. PICK u \in HotPayments : OutSats(u) <= sats /\ way.tx.outs = u /\ way.tx.fees = 0 /\ ~way.ctv
  BY DEF Suggests
<1>2. Payees(u)
  BY ArgumentsAssumption
<1>3. OutSats(u) \in Int
  BY <1>2, PayeesAre
<1>4. OutSats(way.tx.outs) + way.tx.fees <= sats
  BY <1>1, <1>3
<1>5. Funds(way, sats, dust)
  BY <1>1, <1>4 DEF Funds
<1>6. QED
  BY <1>1, <1>2, <1>5, PayeesLead

LEMMA JamesSound ==
    ASSUME NEW x, x.is = "JamesVault", x.state # "Secure", NEW sats \in Int, NEW dust \in Nat,
           Fit(x, dust)
    PROVE  Sound(x, sats, dust)
<1>1. Payees(x.cpfp) /\ x.feerate \in Nat
  BY Zenon DEF Fit, Formed
<1>2. ASSUME NEW way \in Ways(Holding(x, sats)) PROVE Funds(way, sats, dust)
  <2>1. ASSUME way = Template("backup", Trivial, SweptTx(x, sats, x.backupAddr, 8 + BackupScript))
        PROVE  Funds(way, sats, dust)
    <3>1. PICK extra \in Nat : extra = 8 + BackupScript
      BY DEF BackupScript
    <3>2. PICK to : to = x.backupAddr
      OBVIOUS
    <3>3. way = Template("backup", Trivial, SweptTx(x, sats, to, extra))
      BY <2>1, <3>1, <3>2
    <3>4. SweepsAll(way, x, sats, to, extra, dust)
      BY <1>1, <3>3, SweptAll
    <3>5. QED
      BY <3>4, Zenon DEF SweepsAll
  <2>2. CASE \E name, guard : way = Finish(name, guard)
    BY <2>2, FinishFunds
  <2>3. CASE Suggests(way, sats)
    BY <2>3, SuggestsFunds
  <2>4. QED
    BY <2>1, <2>2, <2>3, JamesWay
<1>3. FundedCoin(Holding(x, sats), dust)
  BY <1>2, FundedIs, HoldingIs
<1>4. QED
  BY <1>3 DEF Sound

LEMMA AppendLeads ==
    ASSUME NEW p, Payees(p), NEW o, NEW dust, IsAddress(o.to) \/ Sound(o.to, o.sats, dust)
    PROVE  SoundOuts(Append(p, o), dust)
<1>1. /\ Len(p) \in Nat /\ p \in Seq(Range(p)) /\ \A i \in 1..Len(p) : IsAddress(p[i].to)
  BY PayeesAre
<1>2. PICK u : u = Append(p, o)
  OBVIOUS
<1>3. Len(u) = Len(p) + 1 /\ u[Len(p) + 1] = o /\ \A i \in 1..Len(p) : u[i] = p[i]
  BY <1>1, <1>2
<1>4. \A i \in 1..Len(u) : i \in 1..Len(p) \/ i = Len(p) + 1
  BY <1>1, <1>3
<1>5. SoundOuts(u, dust)
  BY <1>1, <1>3, <1>4, Zenon DEF SoundOuts
<1>6. QED
  BY <1>2, <1>5

LEMMA JamesLeads ==
    ASSUME NEW x, x.is = "JamesVault", NEW sats \in Int, NEW dust \in Nat, Fit(x, dust)
    PROVE  Leads(x, sats, dust)
<1>1. /\ x = JamesVault(x.state, x.timeout, x.hotKey, x.backup, x.backupAddr, x.feerate, x.cpfp)
      /\ Payees(x.cpfp) /\ IsAddress(x.backupAddr) /\ x.feerate \in Nat
  BY Zenon DEF Fit, Formed
<1>2. PICK y : y = [x EXCEPT !.state = "Redeeming"]
  OBVIOUS
<1>3. y = JamesVault("Redeeming", x.timeout, x.hotKey, x.backup, x.backupAddr, x.feerate, x.cpfp)
  BY <1>1, <1>2 DEF JamesVault
<1>4. /\ y.is = "JamesVault" /\ y.state = "Redeeming" /\ y.cpfp = x.cpfp
      /\ y.backupAddr = x.backupAddr /\ y.feerate = x.feerate
      /\ y = JamesVault(y.state, y.timeout, y.hotKey, y.backup, y.backupAddr, y.feerate, y.cpfp)
  BY <1>3 DEF JamesVault
<1>5. Fit(y, dust)
  <2>1. Payees(y.cpfp) /\ IsAddress(y.backupAddr) /\ y.feerate \in Nat
    BY <1>1, <1>4
  <2>2. QED
    BY <1>4, <2>1, Zenon DEF Fit, Formed, Library, IsWork
<1>6. ASSUME NEW way \in Ways(Holding(x, sats)) PROVE SoundOuts(way.tx.outs, dust)
  <2>1. ASSUME NEW to, NEW extra \in Nat, NEW name, NEW guard,
               way = Template(name, guard, SweptTx(x, sats, to, extra)),
               IsAddress(to) \/ to = y
        PROVE  SoundOuts(way.tx.outs, dust)
    <3>1. PICK o : o = SweptOut(x, sats, to, extra)
      OBVIOUS
    <3>1a. /\ SweptOut(x, sats, to, extra).sats \in Int /\ SweptOut(x, sats, to, extra).to = to
           /\ way.tx.outs = Append(x.cpfp, SweptOut(x, sats, to, extra))
      <4>1. Payees(x.cpfp) /\ x.feerate \in Nat
        BY <1>1
      <4>2. way = Template(name, guard, SweptTx(x, sats, to, extra))
        BY <2>1
      <4>3. SweepsAll(way, x, sats, to, extra, dust)
        BY <4>1, <4>2, SweptAll
      <4>4. QED
        BY <4>3, Zenon DEF SweepsAll
    <3>2. o.sats \in Int /\ o.to = to /\ way.tx.outs = Append(x.cpfp, o)
      BY <3>1, <3>1a, Zenon
    <3>3. CASE to = y
      <4>1. y.state # "Secure"
        BY <1>4
      <4>2. Sound(o.to, o.sats, dust)
        BY <1>4, <1>5, <3>2, <3>3, <4>1, JamesSound
      <4>3. QED
        BY <1>1, <3>2, <4>2, AppendLeads
    <3>4. CASE IsAddress(to)
      BY <1>1, <3>2, <3>4, AppendLeads
    <3>5. QED
      BY <2>1, <3>3, <3>4
  <2>2. CASE \E name, guard : way = Finish(name, guard)
    BY <2>2, FinishLeads
  <2>3. CASE Suggests(way, sats)
    BY <2>3, SuggestsFunds
  <2>4. 8 + BackupScript \in Nat /\ 8 + 35 \in Nat
    BY DEF BackupScript
  <2>5. \/ \E name, guard : way = Finish(name, guard)
        \/ Suggests(way, sats)
        \/ \E name, guard : way = Template(name, guard, SweptTx(x, sats, x.backupAddr, 8 + BackupScript))
        \/ \E name, guard : way = Template(name, guard, SweptTx(x, sats, y, 8 + 35))
    BY <1>2, JamesWay, Zenon
  <2>6. QED
    BY <1>1, <2>1, <2>2, <2>3, <2>4, <2>5, Zenon
<1>7. QED
  BY <1>6 DEF Leads

-----------------------------------------------------------------------------
(* Bets. *)

LEMMA BetIs ==
    ASSUME NEW c, NEW sats, NEW dust
    PROVE  BetOn(c, sats, dust) <=>
             /\ c = [is |-> "GenericBet", sats |-> sats, oracle |-> c.oracle,
                     outcomes |-> c.outcomes]
             /\ c.outcomes \in Seq(Range(c.outcomes)) /\ c.outcomes # <<>> /\ sats \in Nat
             /\ \A i \in DOMAIN c.outcomes : BetPays(c.outcomes[i], sats, dust)
BY Zenon DEF BetOn, BetPays

\* A part of the outcomes is a bet as well.
LEMMA PartBet ==
    ASSUME NEW c, NEW sats, NEW dust, BetOn(c, sats, dust),
           NEW first \in Nat \ {0}, NEW last \in Nat, first <= last, last <= Len(c.outcomes),
           NEW y, y = [c EXCEPT !.outcomes = SubSeq(@, first, last)]
    PROVE  BetOn(y, sats, dust)
<1>1. /\ c = [is |-> "GenericBet", sats |-> sats, oracle |-> c.oracle,
              outcomes |-> c.outcomes]
      /\ c.outcomes \in Seq(Range(c.outcomes)) /\ c.outcomes # <<>> /\ sats \in Nat
      /\ \A i \in DOMAIN c.outcomes : BetPays(c.outcomes[i], sats, dust)
  BY BetIs
<1>2. PICK os, S, oracle : os = c.outcomes /\ S = Range(c.outcomes) /\ oracle = c.oracle
  OBVIOUS
<1>3. os \in Seq(S) /\ last <= Len(os)
  BY <1>1, <1>2
<1>4. PICK q : q = SubSeq(os, first, last)
  OBVIOUS
<1>5. y = [is |-> "GenericBet", sats |-> sats, oracle |-> oracle, outcomes |-> q]
  <2>1. c = [is |-> "GenericBet", sats |-> sats, oracle |-> oracle, outcomes |-> os]
    BY <1>1, <1>2, Zenon
  <2>2. y = [c EXCEPT !.outcomes = q]
    BY <1>2, <1>4
  <2>3. QED
    BY <2>1, <2>2
<1>6. PICK m \in Nat : m = last - first + 1 /\ m # 0
  OBVIOUS
<1>7. /\ q \in Seq(S) /\ Len(q) = m
      /\ \A j \in 1..m : first + j - 1 \in 1..Len(os) /\ q[j] = os[first + j - 1]
  <2>1. first <= last + 1
    OBVIOUS
  <2>2. QED
    BY <1>3, <1>4, <1>6, <2>1, PartIs
<1>8. DOMAIN q = 1..m /\ DOMAIN os = 1..Len(os) /\ q # <<>>
  BY <1>3, <1>6, <1>7
<1>9. \A j \in DOMAIN q : BetPays(q[j], sats, dust)
  BY <1>1, <1>2, <1>7, <1>8, Zenon
<1>10. q \in Seq(Range(q))
  <2>1. q = [i \in 1..m |-> q[i]]
    BY <1>7
  <2>2. \A i \in 1..m : q[i] \in Range(q)
    BY <1>8 DEF Range
  <2>3. QED
    BY <2>1, <2>2
<1>11. /\ y = [is |-> "GenericBet", sats |-> sats, oracle |-> y.oracle,
               outcomes |-> y.outcomes]
       /\ y.outcomes = q
  <2>1. y.oracle = oracle /\ y.outcomes = q
    BY <1>5
  <2>2. QED
    BY <1>5, <2>1, Zenon
<1>12. QED
  BY <1>1, <1>8, <1>9, <1>10, <1>11, BetIs, Zenon

BetPaid(way, x, held, dust) ==
    \E name, guard :
       \/ \E i \in DOMAIN x.outcomes : way = Template(name, guard, x.outcomes[i].tx)
       \/ \E y : BetOn(y, held, dust) /\ way = Template(name, guard, Tx(<<Out(y, held)>>))
LEMMA BetWay ==
    ASSUME NEW x, NEW held, NEW dust, BetOn(x, held, dust), NEW sats,
           NEW way \in Ways(Holding(x, sats))
    PROVE  BetPaid(way, x, held, dust)
<1>1. PICK coin : coin = Holding(x, sats) /\ coin.contract = x
  BY HoldingIs
<1>2. /\ x = [is |-> "GenericBet", sats |-> held, oracle |-> x.oracle,
              outcomes |-> x.outcomes]
      /\ x.outcomes \in Seq(Range(x.outcomes)) /\ x.outcomes # <<>>
  BY BetIs
<1>3. x.is = "GenericBet" /\ x.sats = held
  BY <1>2
<1>4. Ways(coin) = GenericBetWays(x)
  BY <1>1, <1>3, Zenon DEF Ways
<1>5. PICK l \in Nat : l = Len(x.outcomes)
  BY <1>2
<1>6. PICK mid : mid = Len(x.outcomes) \div 2
  OBVIOUS
<1>7. mid \in Nat /\ mid <= l
  <2>1. \A n \in Nat : n \div 2 \in Nat /\ n \div 2 <= n
    OBVIOUS
  <2>2. QED
    BY <1>5, <1>6, <2>1
<1>8. ASSUME NEW first \in Nat \ {0}, NEW last \in Nat, last <= l,
             NEW tx \in RecurseOver(x, first, last), NEW name, NEW guard,
             way = Template(name, guard, tx)
      PROVE  \/ \E i \in DOMAIN x.outcomes : way = Template(name, guard, x.outcomes[i].tx)
             \/ \E y : BetOn(y, held, dust) /\ way = Template(name, guard, Tx(<<Out(y, held)>>))
  <2>1. ~(first > last)
    BY <1>8 DEF RecurseOver
  <2>2. CASE first = last
    <3>1. tx = x.outcomes[first].tx
      BY <2>1, <2>2 DEF RecurseOver
    <3>2. first \in DOMAIN x.outcomes
      <4>1. DOMAIN x.outcomes = 1..l
        BY <1>2, <1>5
      <4>2. first \in 1..l
        BY <1>8, <2>2
      <4>3. QED
        BY <4>1, <4>2
    <3>3. QED
      BY <1>8, <3>1, <3>2
  <2>3. CASE first # last
    <3>1. PICK y : y = [x EXCEPT !.outcomes = SubSeq(@, first, last)]
      OBVIOUS
    <3>2. tx = Tx(<<Out(y, x.sats)>>)
      BY <2>1, <2>3, <3>1, Zenon DEF RecurseOver
    <3>3. BetOn(y, held, dust)
      <4>1. first <= last /\ last <= Len(x.outcomes)
        BY <1>5, <1>8, <2>1
      <4>2. QED
        BY <3>1, <4>1, PartBet
    <3>4. way = Template(name, guard, Tx(<<Out(y, held)>>))
      BY <1>3, <1>8, <3>2
    <3>5. QED
      BY <3>3, <3>4
  <2>4. QED
    BY <2>2, <2>3
<1>9. PICK gte, lt : /\ gte = GetKeyGte(x.oracle, MiddlePrice(x))
                     /\ lt = GetKeyLt(x.oracle, MiddlePrice(x))
  OBVIOUS
<1>10. \/ \E tx \in RecurseOver(x, mid + 1, Len(x.outcomes)) : way = Template("pay_gte", gte, tx)
       \/ \E tx \in RecurseOver(x, 1, mid) : way = Template("pay_lt", lt, tx)
  BY <1>1, <1>4, <1>6, <1>9, Zenon DEF GenericBetWays
<1>11. /\ mid + 1 \in Nat \ {0} /\ Len(x.outcomes) \in Nat /\ Len(x.outcomes) <= l
       /\ 1 \in Nat \ {0}
  BY <1>5, <1>7
<1>12. QED
  BY <1>7, <1>8, <1>10, <1>11, Zenon DEF BetPaid

LEMMA BetSound ==
    ASSUME NEW x, NEW sats, NEW dust \in Nat, BetOn(x, sats, dust)
    PROVE  Sound(x, sats, dust)
<1>1. /\ x = [is |-> "GenericBet", sats |-> sats, oracle |-> x.oracle,
              outcomes |-> x.outcomes]
      /\ sats \in Nat /\ \A i \in DOMAIN x.outcomes : BetPays(x.outcomes[i], sats, dust)
  BY BetIs
<1>2. x.is = "GenericBet" /\ x.sats = sats /\ sats \in Int
  BY <1>1
<1>3. Fit(x, dust)
  BY <1>2, Zenon DEF Fit, Formed, Library, IsWork
<1>4. ASSUME NEW way \in Ways(Holding(x, sats)) PROVE Funds(way, sats, dust)
  <2>1. PICK name, guard :
          \/ \E i \in DOMAIN x.outcomes : way = Template(name, guard, x.outcomes[i].tx)
          \/ \E y : BetOn(y, sats, dust) /\ way = Template(name, guard, Tx(<<Out(y, sats)>>))
    <3>1. BetPaid(way, x, sats, dust)
      BY BetWay
    <3>2. QED
      BY <3>1, Zenon DEF BetPaid
  <2>2. ASSUME NEW i \in DOMAIN x.outcomes, way = Template(name, guard, x.outcomes[i].tx)
        PROVE  Funds(way, sats, dust)
    <3>1. way.tx = x.outcomes[i].tx
      BY <2>2, TemplateOf
    <3>2. BetPays(x.outcomes[i], sats, dust)
      BY <1>1
    <3>3. QED
      BY <3>1, <3>2, Zenon DEF Funds, BetPays
  <2>3. ASSUME NEW y, way = Template(name, guard, Tx(<<Out(y, sats)>>))
        PROVE  Funds(way, sats, dust)
    <3>1. way.tx.outs = <<Out(y, sats)>> /\ way.tx.fees = 0
      BY <2>3, PlainWay
    <3>2. QED
      BY <1>2, <3>1, OneExact
  <2>4. QED
    BY <2>1, <2>2, <2>3
<1>5. FundedCoin(Holding(x, sats), dust)
  BY <1>4, FundedIs, HoldingIs
<1>6. QED
  BY <1>2, <1>3, <1>5 DEF Sound

LEMMA BetLeads ==
    ASSUME NEW x, x.is = "GenericBet", NEW sats, NEW dust \in Nat, Fit(x, dust)
    PROVE  Leads(x, sats, dust)
<1>1. PICK held : held = x.sats /\ BetOn(x, held, dust)
  BY Zenon DEF Fit, Formed
<1>2. \A i \in DOMAIN x.outcomes : BetPays(x.outcomes[i], held, dust)
  BY <1>1, BetIs
<1>3. ASSUME NEW way \in Ways(Holding(x, sats)) PROVE SoundOuts(way.tx.outs, dust)
  <2>1. PICK name, guard :
          \/ \E i \in DOMAIN x.outcomes : way = Template(name, guard, x.outcomes[i].tx)
          \/ \E y : BetOn(y, held, dust) /\ way = Template(name, guard, Tx(<<Out(y, held)>>))
    <3>1. BetPaid(way, x, held, dust)
      BY <1>1, BetWay
    <3>2. QED
      BY <3>1, Zenon DEF BetPaid
  <2>2. ASSUME NEW i \in DOMAIN x.outcomes, way = Template(name, guard, x.outcomes[i].tx)
        PROVE  SoundOuts(way.tx.outs, dust)
    <3>1. way.tx = x.outcomes[i].tx
      BY <2>2, TemplateOf
    <3>2. Payees(x.outcomes[i].tx.outs)
      BY <1>2 DEF BetPays
    <3>3. QED
      BY <3>1, <3>2, PayeesLead
  <2>3. ASSUME NEW y, BetOn(y, held, dust), way = Template(name, guard, Tx(<<Out(y, held)>>))
        PROVE  SoundOuts(way.tx.outs, dust)
    <3>1. SoundOuts(<<Out(y, held)>>, dust)
      BY <2>3, BetSound, OneOutLeads
    <3>2. QED
      BY <2>3, <3>1, PlainLeads
  <2>4. QED
    BY <2>1, <2>2, <2>3
<1>4. QED
  BY <1>3 DEF Leads

BringsTx(outs, brings, inputs) == [Tx(outs) EXCEPT !.brings = brings, !.inputs = inputs]
LEMMA BringsWay ==
    ASSUME NEW outs, NEW brings, NEW inputs, NEW tx, tx = BringsTx(outs, brings, inputs)
    PROVE  tx.outs = outs /\ tx.fees = 0 /\ tx.inputs = inputs
<1>1. PICK first : first = [Tx(outs) EXCEPT !.brings = brings]
  OBVIOUS
<1>2. first = [outs |-> outs, seq |-> 0, seqTime |-> 0, lock |-> 0, lockTime |-> 0,
               fees |-> 0, brings |-> brings, inputs |-> 0]
  BY <1>1 DEF Tx
<1>3. tx = [first EXCEPT !.inputs = inputs]
  BY <1>1 DEF BringsTx
<1>4. QED
  BY <1>2, <1>3

\* Options lead to the bet they are on.
LEMMA OptionLeads ==
    ASSUME NEW x, x.is \in {"ExplodingOption", "UnderFunded"}, NEW sats, NEW dust \in Nat,
           Fit(x, dust)
    PROVE  Leads(x, sats, dust)
<1>1. BetOn(x.opt, x.partyOne + x.partyTwo, dust)
  BY Zenon DEF Fit, Formed
<1>2. PICK held : held = x.partyOne + x.partyTwo
  OBVIOUS
<1>3. SoundOuts(<<Out(x.opt, held)>>, dust)
  BY <1>1, <1>2, BetSound, OneOutLeads
<1>4. PICK coin : coin = Holding(x, sats) /\ coin.contract = x
  BY HoldingIs
<1>5. \A who, n : IsAddress(PayTo(who, n).to)
  BY DEF IsAddress, PayTo, Out, Address
<1>6. \A p, q, m, n : SoundOuts(<<PayTo(p, m), PayTo(q, n)>>, dust)
  BY <1>5, TwoOutsLead
<1>7. \A p, m : SoundOuts(<<PayTo(p, m)>>, dust)
  <2>1. \A p : IsAddress(Address(p))
    BY DEF IsAddress, Address
  <2>2. \A p, m : PayTo(p, m) = Out(Address(p), m)
    BY DEF PayTo
  <2>3. \A p, m : SoundOuts(<<Out(Address(p), m)>>, dust)
    BY <2>1, OneOutLeads
  <2>4. QED
    BY <2>2, <2>3
<1>8. CASE x.is = "ExplodingOption"
  <2>1. Ways(coin) = ExplodingOptionWays(x)
    BY <1>4, <1>8, Zenon DEF Ways
  <2>2. ASSUME NEW way \in Ways(coin) PROVE SoundOuts(way.tx.outs, dust)
    <3>1. PICK outs : outs = <<PayTo("p1", x.partyOne), PayTo("p2", x.partyTwo)>>
      OBVIOUS
    <3>2. \/ way = Template("explodes", Trivial, LockTx(outs, x.timeout))
          \/ way = Template("strikes", Key(x.keyP2), Tx(<<Out(x.opt, held)>>))
      BY <1>2, <2>1, <2>2, <3>1, Zenon DEF ExplodingOptionWays, LockTx
    <3>3. SoundOuts(outs, dust)
      BY <1>6, <3>1
    <3>4. QED
      BY <1>3, <3>2, <3>3, LockWay, PlainLeads
  <2>3. QED
    BY <1>4, <2>2 DEF Leads
<1>9. CASE x.is = "UnderFunded"
  <2>1. Ways(coin) = UnderFundedWays(x)
    BY <1>4, <1>9, Zenon DEF Ways
  <2>2. ASSUME NEW way \in Ways(coin) PROVE SoundOuts(way.tx.outs, dust)
    <3>1. PICK outs : outs = <<PayTo("p1", x.partyOne)>>
      OBVIOUS
    <3>2. \/ way = Template("explodes", Trivial, LockTx(outs, x.timeout))
          \/ way = Template("strikes", Trivial, BringsTx(<<Out(x.opt, held)>>, x.partyTwo, 1))
      BY <1>2, <2>1, <2>2, <3>1, Zenon DEF UnderFundedWays, LockTx, BringsTx
    <3>3. SoundOuts(outs, dust)
      BY <1>7, <3>1
    <3>4. CASE way = Template("explodes", Trivial, LockTx(outs, x.timeout))
      BY <3>3, <3>4, LockWay
    <3>5. CASE way = Template("strikes", Trivial, BringsTx(<<Out(x.opt, held)>>, x.partyTwo, 1))
      <4>1. PICK tx : tx = BringsTx(<<Out(x.opt, held)>>, x.partyTwo, 1)
        OBVIOUS
      <4>2. way.tx = tx
        BY <3>5, <4>1, TemplateOf
      <4>3. tx.outs = <<Out(x.opt, held)>>
        BY <4>1, BringsWay
      <4>4. QED
        BY <1>3, <4>2, <4>3
    <3>6. QED
      BY <3>2, <3>4, <3>5
  <2>3. QED
    BY <1>4, <2>2 DEF Leads
<1>10. QED
  BY <1>8, <1>9

-----------------------------------------------------------------------------
(* Candles. *)

\* A payment several times.
LEMMA EqualPays ==
    ASSUME NEW n \in Nat, NEW p, Len(p) = n, NEW S, p \in Seq(S), NEW sats \in Nat,
           \A o \in S : o.sats = sats
    PROVE  OutSats(p) = n * sats
<1>1. \A i \in 1..n : p[i].sats = sats
  OBVIOUS
<1>2. /\ OutSats(p) = Total(SatsOf(p), n)
      /\ \A i \in 1..n : SatsOf(p)[i] = p[i].sats
  <2>1. \A o \in S : o.sats \in Int
    OBVIOUS
  <2>2. QED
    BY <2>1, OutSatsTotal
<1>3. PICK F : F = [i \in 0..n |-> i * sats]
  OBVIOUS
<1>4. \A i \in 0..n : F[i] \in Int
  <2>1. \A i \in 0..n : i * sats \in Int
    OBVIOUS
  <2>2. QED
    BY <1>3, <2>1
<1>5. PICK f : f = SatsOf(p)
  OBVIOUS
<1>6. ASSUME NEW i \in 1..n PROVE f[i] = F[i] - F[i - 1]
  <2>1. f[i] = sats
    BY <1>1, <1>2, <1>5
  <2>2. F[i] = i * sats /\ F[i - 1] = (i - 1) * sats
    BY <1>3
  <2>3. i * sats = (i - 1) * sats + sats /\ (i - 1) * sats \in Int
    OBVIOUS
  <2>4. QED
    BY <2>1, <2>2, <2>3
<1>7. Total(f, n) = F[n] - F[0]
  BY <1>4, <1>6, TotalTelescope
<1>8. F[n] = n * sats /\ F[0] = 0 /\ n * sats \in Int
  <2>1. 0 * sats = 0 /\ n * sats \in Int
    OBVIOUS
  <2>2. QED
    BY <1>3, <2>1
<1>9. QED
  BY <1>2, <1>5, <1>7, <1>8

\* The sats of the nights still to come.
LEMMA NightsAddUp ==
    ASSUME NEW amount \in Nat
    PROVE  \A n \in 1..Nights :
             /\ HanukkiahMax(amount)[n] \in Int
             /\ HanukkiahMax(amount)[n]
                  = n * amount + (IF n < Nights THEN HanukkiahMax(amount)[n + 1] ELSE 0)
<1>0. PICK N \in Nat : N = Nights
  BY ArgumentsAssumption
<1> DEFINE Rec(g) == [n \in 1..Nights |-> n * amount + (IF n < Nights THEN g[n + 1] ELSE 0)]
           k == CHOOSE g : g = Rec(g)
<1>1. PICK g : g = [i \in 1..N |-> (N + 1 - i) * amount]
  OBVIOUS
<1>2. \A i \in 1..N : g[i] \in Int /\ g[i] = (N + 1 - i) * amount
  <2>1. \A i \in 1..N : (N + 1 - i) * amount \in Int
    OBVIOUS
  <2>2. QED
    BY <1>1, <2>1
<1>3. PICK f : f = [n \in 1..N |-> Total(g, N + 1 - n)]
  OBVIOUS
<1>4. ASSUME NEW n \in 1..N
      PROVE  f[n] = n * amount + (IF n < N THEN f[n + 1] ELSE 0)
  <2>1. PICK m \in Nat : m = N - n /\ m + 1 = N + 1 - n /\ m + 1 <= N
    OBVIOUS
  <2>2. \A i \in 1..(m + 1) : i \in 1..N
    BY <2>1
  <2>3. Total(g, m) \in Int /\ Total(g, m + 1) = Total(g, m) + g[m + 1]
    BY <1>2, <2>2, TotalMore
  <2>4. g[m + 1] = n * amount /\ n * amount \in Int
    <3>1. m + 1 \in 1..N /\ N + 1 - (m + 1) = n
      BY <2>1
    <3>2. g[m + 1] = (N + 1 - (m + 1)) * amount /\ g[m + 1] \in Int
      BY <1>2, <3>1
    <3>3. QED
      BY <3>1, <3>2
  <2>5. f[n] = Total(g, m + 1)
    BY <1>3, <2>1
  <2>6. CASE n < N
    <3>1. n + 1 \in 1..N /\ N + 1 - (n + 1) = m
      BY <2>1, <2>6
    <3>2. f[n + 1] = Total(g, m)
      BY <1>3, <3>1
    <3>3. QED
      BY <2>3, <2>4, <2>5, <2>6, <3>2
  <2>7. CASE ~(n < N)
    <3>1. m = 0
      BY <2>1, <2>7
    <3>2. Total(g, m) = 0
      BY <3>1, TotalNone
    <3>3. QED
      BY <2>3, <2>4, <2>5, <2>7, <3>2
  <2>8. QED
    BY <2>6, <2>7
<1>5. f = Rec(f)
  <2>1. f = [n \in 1..N |-> f[n]]
    BY <1>3
  <2>2. Rec(f) = [n \in 1..N |-> Rec(f)[n]]
    BY <1>0
  <2>3. \A n \in 1..N : Rec(f)[n] = f[n]
    BY <1>0, <1>4
  <2> HIDE DEF Rec
  <2>4. QED
    BY <2>1, <2>2, <2>3
<1>6. k = Rec(k)
  <2> HIDE DEF Rec
  <2>1. QED
    BY <1>5
<1>7. HanukkiahMax(amount) = k
  BY DEF HanukkiahMax
<1> HIDE DEF k
<1>8. ASSUME NEW n \in 1..N PROVE k[n] = n * amount + (IF n < N THEN k[n + 1] ELSE 0)
  <2>1. k[n] = Rec(k)[n]
    <3> HIDE DEF Rec
    <3>1. QED
      BY <1>6
  <2>2. Rec(k)[n] = n * amount + (IF n < N THEN k[n + 1] ELSE 0)
    BY <1>0
  <2> HIDE DEF Rec
  <2>3. QED
    BY <2>1, <2>2
<1> HIDE DEF Rec
<1> DEFINE Bad == {m \in Nat : m < N /\ ~(k[N - m] \in Int)}
<1>9. Bad = {}
  <2>1. SUFFICES ASSUME Bad # {} PROVE FALSE
    OBVIOUS
  <2>2. PICK m \in Bad : \A j \in Bad : m <= j
    <3>1. Bad \in SUBSET Nat
      OBVIOUS
    <3> HIDE DEF Bad
    <3>2. QED
      BY <2>1, <3>1, LeastNat
  <2>3. m \in Nat /\ m < N /\ ~(k[N - m] \in Int)
    BY <2>2
  <2>4. PICK n \in 1..N : n = N - m
    BY <2>3
  <2>5. k[n] = n * amount + (IF n < N THEN k[n + 1] ELSE 0) /\ n * amount \in Int
    BY <1>8
  <2>6. n < N /\ ~(k[n + 1] \in Int)
    BY <2>3, <2>4, <2>5
  <2>7. m - 1 \in Nat /\ m - 1 < N /\ N - (m - 1) = n + 1 /\ ~(m <= m - 1)
    BY <2>3, <2>4, <2>6
  <2>8. m - 1 \in Bad
    BY <2>6, <2>7
  <2> HIDE DEF Bad
  <2>9. QED
    BY <2>2, <2>7, <2>8
<1>10. ASSUME NEW n \in 1..N PROVE k[n] \in Int
  <2>1. N - n \in Nat /\ N - n < N /\ N - (N - n) = n
    OBVIOUS
  <2>2. N - n \notin Bad
    BY <1>9
  <2>3. QED
    BY <2>1, <2>2
<1>11. QED
  BY <1>0, <1>7, <1>8, <1>10

CandlesTx(tx, lock, brings) == [tx EXCEPT !.lock = lock, !.brings = brings]
LEMMA CandlesWay ==
    ASSUME NEW way, NEW name, NEW guard, NEW outs, NEW lock, NEW brings,
           way = Template(name, guard, CandlesTx(Tx(outs), lock, brings))
    PROVE  way.tx.outs = outs /\ way.tx.fees = 0
<1>1. PICK tx : tx = CandlesTx(Tx(outs), lock, brings)
  OBVIOUS
<1>2. PICK first : first = [Tx(outs) EXCEPT !.lock = lock]
  OBVIOUS
<1>3. first = [outs |-> outs, seq |-> 0, seqTime |-> 0, lock |-> lock, lockTime |-> 0,
               fees |-> 0, brings |-> 0, inputs |-> 0]
  BY <1>2 DEF Tx
<1>4. tx = [first EXCEPT !.brings = brings]
  BY <1>1, <1>2 DEF CandlesTx
<1>5. tx.outs = outs /\ tx.fees = 0
  BY <1>3, <1>4
<1>6. QED
  BY <1>1, <1>5, TemplateOf

Candles(x) == [i \in 1..x.night |-> PayTo(x.recipient, x.amount)]
LEMMA HanukkiahWay ==
    ASSUME NEW x, x.is = "Hanukkiah", NEW sats, NEW way \in Ways(Holding(x, sats))
    PROVE  way.tx.outs = NextNight(x) \o Candles(x) /\ way.tx.fees = 0
<1>1. PICK coin : coin = Holding(x, sats) /\ coin.contract = x
  BY HoldingIs
<1>2. Ways(coin) = HanukkiahWays(x)
  BY <1>1, Zenon DEF Ways
<1>3. PICK outs : outs = NextNight(x) \o Candles(x)
  OBVIOUS
<1>4. \E lock, brings : way = Template("light_candles", Trivial, CandlesTx(Tx(outs), lock, brings))
  BY <1>1, <1>2, <1>3, Zenon DEF HanukkiahWays, CandlesTx, NextNight, Candles
<1>5. way.tx.outs = outs /\ way.tx.fees = 0
  BY <1>4, CandlesWay
<1>6. QED
  BY <1>3, <1>5

LEMMA CandlesAre ==
    ASSUME NEW x, x.amount \in Nat, x.night \in 1..Nights
    PROVE  \E pay : /\ Candles(x) \in Seq({pay}) /\ Len(Candles(x)) = x.night
                    /\ pay.sats = x.amount /\ IsAddress(pay.to)
                    /\ OutSats(Candles(x)) = x.night * x.amount
<1>1. PICK pay : pay = PayTo(x.recipient, x.amount)
  OBVIOUS
<1>2. pay.sats = x.amount /\ IsAddress(pay.to)
  BY <1>1 DEF PayTo, Out, Address, IsAddress
<1>3. PICK p : p = Candles(x)
  OBVIOUS
<1>4. PICK n \in Nat : n = x.night
  BY ArgumentsAssumption
<1>5. p = [i \in 1..n |-> pay]
  BY <1>1, <1>3, <1>4 DEF Candles
<1>6. p \in Seq({pay}) /\ Len(p) = n
  BY <1>5
<1>7. PICK amount \in Nat : amount = x.amount
  OBVIOUS
<1>8. OutSats(p) = n * amount
  BY <1>2, <1>6, <1>7, EqualPays
<1>9. QED
  BY <1>2, <1>3, <1>4, <1>6, <1>7, <1>8, Zenon

LEMMA HanukkiahSound ==
    ASSUME NEW x, x.is = "Hanukkiah", NEW dust \in Nat, Fit(x, dust),
           NEW sats \in Int, sats = HanukkiahMax(x.amount)[x.night]
    PROVE  Sound(x, sats, dust)
<1>1. x.amount \in Nat /\ x.night \in 1..Nights
  BY Zenon DEF Fit, Formed
<1>2. PICK N \in Nat : N = Nights
  BY ArgumentsAssumption
<1>3. PICK n \in 1..N : n = x.night
  BY <1>1, <1>2
<1>4. PICK amount \in Nat : amount = x.amount
  BY <1>1
<1>5. PICK max : max = HanukkiahMax(amount)
  OBVIOUS
<1>6. \A i \in 1..N : /\ max[i] \in Int
                      /\ max[i] = i * amount + (IF i < N THEN max[i + 1] ELSE 0)
  BY <1>2, <1>5, NightsAddUp
<1>7. PICK pay : /\ Candles(x) \in Seq({pay}) /\ pay.sats = x.amount
                 /\ OutSats(Candles(x)) = x.night * x.amount
  BY <1>1, CandlesAre
<1>8. PICK p : p = Candles(x)
  OBVIOUS
<1>9. p \in Seq({pay}) /\ pay.sats = amount /\ OutSats(p) = n * amount /\ n * amount \in Int
  <2>1. n * amount \in Int
    OBVIOUS
  <2>2. QED
    BY <1>3, <1>4, <1>7, <1>8, <2>1, Zenon
<1>10. PICK next : next = NextNight(x)
  OBVIOUS
<1>11. OutSats(next \o p) = max[n]
  <2>1. CASE n < N
    <3>1. PICK o : o = Out([x EXCEPT !.night = @ + 1], HanukkiahMax(x.amount)[x.night + 1])
      OBVIOUS
    <3>2. next = <<o>>
      <4>1. x.night < Nights
        BY <1>2, <1>3, <2>1, Zenon
      <4>2. QED
        BY <1>10, <3>1, <4>1, Zenon DEF NextNight
    <3>3. o.sats = HanukkiahMax(x.amount)[x.night + 1]
      BY <3>1, Zenon DEF Out
    <3>4. o.sats = max[n + 1]
      BY <1>3, <1>4, <1>5, <3>3, Zenon
    <3>5. n + 1 \in 1..N
      BY <2>1
    <3>6. o.sats \in Int
      BY <1>6, <3>4, <3>5
    <3>7. PICK S : S = {o, pay}
      OBVIOUS
    <3>8. (\A y \in S : y.sats \in Int) /\ <<o>> \in Seq(S) /\ p \in Seq(S)
      <4>1. {pay} \subseteq S /\ o \in S
        BY <3>7
      <4>2. \A y \in S : y.sats \in Int
        BY <1>9, <3>6, <3>7
      <4>3. p \in Seq(S)
        BY <1>9, <4>1, SeqGrows
      <4>4. QED
        BY <4>1, <4>2, <4>3
    <3>9. PICK q : q = <<o>>
      OBVIOUS
    <3>10. OutSats(q \o p) = OutSats(q) + OutSats(p)
      BY <3>8, <3>9, OutSatsJoin
    <3>11. OutSats(q) = o.sats
      BY <3>6, <3>9, SumOne
    <3>12. max[n] = n * amount + max[n + 1] /\ max[n + 1] \in Int
      BY <1>6, <2>1, <3>5
    <3>13. OutSats(q \o p) = max[n]
      BY <1>9, <3>4, <3>10, <3>11, <3>12
    <3>14. QED
      BY <3>2, <3>9, <3>13, Zenon
  <2>2. CASE ~(n < N)
    <3>1. next = <<>>
      <4>1. ~(x.night < Nights)
        BY <1>2, <1>3, <2>2, Zenon
      <4>2. QED
        BY <1>10, <4>1, Zenon DEF NextNight
    <3>2. next \o p = p
      BY <1>9, <3>1
    <3>3. max[n] = n * amount
      BY <1>6, <1>9, <2>2
    <3>4. QED
      BY <1>9, <3>2, <3>3
  <2>3. QED
    BY <2>1, <2>2
<1>12. sats = max[n] /\ max[n] \in Int
  <2>1. sats = max[n]
    BY <1>3, <1>4, <1>5, Zenon
  <2>2. QED
    BY <1>6, <2>1
<1>13. ASSUME NEW way \in Ways(Holding(x, sats)) PROVE Funds(way, sats, dust)
  <2>1. way.tx.outs = next \o p /\ way.tx.fees = 0
    BY <1>8, <1>10, HanukkiahWay
  <2>2. OutSats(way.tx.outs) + way.tx.fees = sats
    BY <1>11, <1>12, <2>1
  <2>3. QED
    BY <2>2, ExactFunds
<1>14. FundedCoin(Holding(x, sats), dust)
  BY <1>13, FundedIs, HoldingIs
<1>15. QED
  BY <1>14 DEF Sound

LEMMA HanukkiahLeads ==
    ASSUME NEW x, x.is = "Hanukkiah", NEW sats, NEW dust \in Nat, Fit(x, dust)
    PROVE  Leads(x, sats, dust)
<1>1. /\ x = Hanukkiah(x.recipient, x.amount, x.feerate, x.nightTime, x.night)
      /\ x.amount \in Nat /\ x.night \in 1..Nights
  BY Zenon DEF Fit, Formed
<1>2. PICK pay : /\ Candles(x) \in Seq({pay}) /\ IsAddress(pay.to)
  BY <1>1, CandlesAre
<1>3. PICK p : p = Candles(x) /\ p \in Seq({pay})
  BY <1>2
<1>4. \A i \in 1..Len(p) : IsAddress(p[i].to)
  <2>1. \A i \in 1..Len(p) : p[i] = pay
    BY <1>3
  <2>2. QED
    BY <1>2, <2>1
<1>5. SoundOuts(NextNight(x) \o p, dust)
  <2>1. CASE x.night < Nights
    <3>1. PICK y : y = [x EXCEPT !.night = @ + 1]
      OBVIOUS
    <3>2. PICK n \in Int : n = x.night
      BY <1>1
    <3>3. y = Hanukkiah(x.recipient, x.amount, x.feerate, x.nightTime, n + 1)
      BY <1>1, <3>1, <3>2 DEF Hanukkiah
    <3>4. /\ y.is = "Hanukkiah" /\ y.amount = x.amount /\ y.night = n + 1
          /\ y = Hanukkiah(y.recipient, y.amount, y.feerate, y.nightTime, y.night)
      BY <3>3 DEF Hanukkiah
    <3>5. y.amount \in Nat /\ y.night \in 1..Nights
      <4>1. \A a, N \in Int : a \in 1..N /\ a < N => a + 1 \in 1..N
        OBVIOUS
      <4>2. Nights \in Int
        BY ArgumentsAssumption
      <4>3. n + 1 \in 1..Nights
        BY <1>1, <2>1, <3>2, <4>1, <4>2
      <4>4. QED
        BY <1>1, <3>4, <4>3
    <3>6. Fit(y, dust)
      BY <3>4, <3>5, Zenon DEF Fit, Formed, Library, IsWork
    <3>7. PICK max : max = HanukkiahMax(y.amount)[y.night]
      OBVIOUS
    <3>8. max \in Int
      BY <3>5, <3>7, NightsAddUp
    <3>9. Sound(y, max, dust)
      BY <3>4, <3>6, <3>7, <3>8, HanukkiahSound
    <3>10. PICK o : o = Out(y, max)
      OBVIOUS
    <3>11. o.to = y /\ o.sats = max
      BY <3>10 DEF Out
    <3>12. NextNight(x) = <<o>>
      <4>1. max = HanukkiahMax(x.amount)[x.night + 1]
        BY <3>2, <3>4, <3>7, Zenon
      <4>2. QED
        BY <2>1, <3>1, <3>10, <4>1, Zenon DEF NextNight
    <3>13. PICK u : u = <<o>> \o p
      OBVIOUS
    <3>14. /\ Len(p) \in Nat /\ Len(u) = 1 + Len(p) /\ u[1] = o
           /\ \A i \in 1..Len(p) : u[1 + i] = p[i]
      <4>1. PICK S : S = {o, pay}
        OBVIOUS
      <4>2. {pay} \subseteq S /\ o \in S
        BY <4>1
      <4>3. p \in Seq(S)
        BY <1>3, <4>2, SeqGrows
      <4>4. PICK q : q = <<o>>
        OBVIOUS
      <4>5. q \in Seq(S) /\ Len(q) = 1 /\ q[1] = o
        BY <4>2, <4>4
      <4>6. u = q \o p /\ 1 \in 1..1
        BY <3>13, <4>4
      <4>7. /\ Len(u) = Len(q) + Len(p) /\ Len(p) \in Nat
            /\ \A i \in 1..Len(q) : u[i] = q[i]
            /\ \A i \in 1..Len(p) : u[Len(q) + i] = p[i]
        <5>1. /\ Len(q \o p) = Len(q) + Len(p) /\ Len(q) \in Nat /\ Len(p) \in Nat
              /\ \A i \in 1..Len(q) : (q \o p)[i] = q[i]
              /\ \A i \in 1..Len(p) : /\ (q \o p)[Len(q) + i] = p[i]
                                       /\ Len(q) + i \in 1..(Len(q) + Len(p))
          <6>1. q \in Seq(S) /\ p \in Seq(S)
            BY <4>3, <4>5
          <6>2. QED
            BY <6>1, Joined
        <5>2. QED
          BY <4>6, <5>1
      <4>8. QED
        BY <4>5, <4>6, <4>7
    <3>15. ASSUME NEW i \in 1..Len(u)
           PROVE  IsAddress(u[i].to) \/ Sound(u[i].to, u[i].sats, dust)
      <4>1. CASE i = 1
        BY <3>9, <3>11, <3>14, <4>1
      <4>2. CASE i # 1
        <5>1. i - 1 \in 1..Len(p) /\ 1 + (i - 1) = i
          BY <3>14, <4>2
        <5>2. u[i] = p[i - 1]
          BY <3>14, <5>1
        <5>3. QED
          BY <1>4, <5>1, <5>2
      <4>3. QED
        BY <4>1, <4>2
    <3>16. QED
      BY <3>12, <3>13, <3>15 DEF SoundOuts
  <2>2. CASE ~(x.night < Nights)
    <3>1. NextNight(x) \o p = p
      <4>1. NextNight(x) = <<>>
        BY <2>2, Zenon DEF NextNight
      <4>2. QED
        BY <1>3, <4>1
    <3>2. QED
      BY <1>4, <3>1, AddressOutsLead
  <2>3. QED
    BY <2>1, <2>2
<1>6. ASSUME NEW way \in Ways(Holding(x, sats)) PROVE SoundOuts(way.tx.outs, dust)
  BY <1>3, <1>5, HanukkiahWay
<1>7. QED
  BY <1>6 DEF Leads

FeeCandlesTx(tx, lock, brings, fees) ==
    [tx EXCEPT !.lock = lock, !.brings = brings, !.fees = fees]
LEMMA FeeCandlesIs ==
    ASSUME NEW outs, NEW lock, NEW brings, NEW fees, NEW tx,
           tx = FeeCandlesTx(Tx(outs), lock, brings, fees)
    PROVE  tx.outs = outs /\ tx.fees = fees
<1>1. PICK first : first = [Tx(outs) EXCEPT !.lock = lock]
  OBVIOUS
<1>2. first = [outs |-> outs, seq |-> 0, seqTime |-> 0, lock |-> lock, lockTime |-> 0,
               fees |-> 0, brings |-> 0, inputs |-> 0]
  BY <1>1 DEF Tx
<1>3. PICK second : second = [first EXCEPT !.brings = brings]
  OBVIOUS
<1>4. second = [outs |-> outs, seq |-> 0, seqTime |-> 0, lock |-> lock, lockTime |-> 0,
                fees |-> 0, brings |-> brings, inputs |-> 0]
  BY <1>2, <1>3
<1>5. tx = [second EXCEPT !.fees = fees]
  BY <1>1, <1>3 DEF FeeCandlesTx
<1>6. QED
  BY <1>4, <1>5

NightOuts(x) == [i \in 1..x.night |-> PayTo(Reverse(x.recipients)[i], x.amount)]
NightFees(x) == x.feerate * EstimateTxSize(Tx(NightOuts(x)))

LEMMA NightWay ==
    ASSUME NEW x, NEW way \in Hanukkiah2NightWays(x)
    PROVE  way.tx.outs = NightOuts(x) /\ way.tx.fees = NightFees(x)
<1>1. PICK tx : tx = FeeCandlesTx(Tx(NightOuts(x)), x.nightTime + Day * (x.night - 1),
                                  NightFees(x), NightFees(x))
  OBVIOUS
<1>2. way = Template("light_candles", Trivial, tx)
  BY <1>1, Zenon DEF Hanukkiah2NightWays, FeeCandlesTx, NightOuts, NightFees
<1>3. way.tx = tx
  BY <1>2, TemplateOf
<1>4. PICK outs, fees : outs = NightOuts(x) /\ fees = NightFees(x)
  OBVIOUS
<1>5. \E lock, brings : tx = FeeCandlesTx(Tx(outs), lock, brings, fees)
  BY <1>1, <1>4
<1>6. tx.outs = outs /\ tx.fees = fees
  BY <1>5, FeeCandlesIs
<1>7. QED
  BY <1>3, <1>4, <1>6

LEMMA NightPays ==
    ASSUME NEW x, x.night \in Nat
    PROVE  /\ Len(NightOuts(x)) = x.night
           /\ \A i \in 1..x.night : /\ IsAddress(NightOuts(x)[i].to)
                                    /\ NightOuts(x)[i].sats = x.amount
           /\ NightOuts(x) \in Seq(Range(NightOuts(x)))
<1>1. PICK n \in Nat : n = x.night
  OBVIOUS
<1>2. PICK p : p = NightOuts(x)
  OBVIOUS
<1>3. p = [i \in 1..n |-> PayTo(Reverse(x.recipients)[i], x.amount)]
  BY <1>1, <1>2, Zenon DEF NightOuts
<1>4. \A who : IsAddress(PayTo(who, x.amount).to) /\ PayTo(who, x.amount).sats = x.amount
  BY DEF PayTo, Out, Address, IsAddress
<1>5. \A i \in 1..n : p[i] = PayTo(Reverse(x.recipients)[i], x.amount)
  BY <1>3
<1>6. \A i \in 1..n : IsAddress(p[i].to) /\ p[i].sats = x.amount
  BY <1>4, <1>5, Zenon
<1>7. Len(p) = n /\ p \in Seq(Range(p))
  <2>1. DOMAIN p = 1..n
    BY <1>3
  <2>2. \A i \in 1..n : p[i] \in Range(p)
    BY <2>1 DEF Range
  <2>3. p = [i \in 1..n |-> p[i]]
    BY <1>3
  <2>4. QED
    BY <2>2, <2>3
<1>8. QED
  BY <1>1, <1>2, <1>6, <1>7

LEMMA NightLeads ==
    ASSUME NEW x, x.is = "Hanukkiah2Night", NEW sats, NEW dust \in Nat, Fit(x, dust)
    PROVE  Leads(x, sats, dust)
<1>1. x.night \in Nat
  BY Zenon DEF Fit, Formed
<1>2. PICK coin : coin = Holding(x, sats) /\ coin.contract = x
  BY HoldingIs
<1>3. Ways(coin) = Hanukkiah2NightWays(x)
  BY <1>2, Zenon DEF Ways
<1>4. \A i \in 1..Len(NightOuts(x)) : IsAddress(NightOuts(x)[i].to)
  BY <1>1, NightPays
<1>5. SoundOuts(NightOuts(x), dust)
  BY <1>4, AddressOutsLead
<1>6. ASSUME NEW way \in Ways(coin) PROVE SoundOuts(way.tx.outs, dust)
  BY <1>3, <1>5, NightWay
<1>7. QED
  BY <1>2, <1>6 DEF Leads

\* What a night is given is what it pays.
NightMax(c, n) ==
    LET tx == (CHOOSE w \in Hanukkiah2NightWays(Hanukkiah2Night(c, n)) : TRUE).tx
    IN  OutSats(tx.outs) + tx.fees
LEMMA NightSound ==
    ASSUME NEW c, c.amount \in Nat, c.feerate \in Nat, NEW n \in Nat, NEW dust \in Nat
    PROVE  Sound(Hanukkiah2Night(c, n), NightMax(c, n), dust)
<1>1. PICK x : x = Hanukkiah2Night(c, n)
  OBVIOUS
<1>2. /\ x.is = "Hanukkiah2Night" /\ x.amount = c.amount /\ x.feerate = c.feerate
      /\ x.night = n
  BY <1>1 DEF Hanukkiah2Night
<1>3. PICK p : p = NightOuts(x)
  OBVIOUS
<1>4. /\ Len(p) = n /\ p \in Seq(Range(p))
      /\ \A i \in 1..n : IsAddress(p[i].to) /\ p[i].sats = x.amount
  BY <1>2, <1>3, NightPays
<1>5. Payees(p)
  <2>1. DOMAIN p = 1..n
    BY <1>4
  <2>2. QED
    BY <1>2, <1>4, <2>1 DEF Payees, ToAddresses, IsAddress
<1>6. OutSats(p) \in Int
  BY <1>5, PayeesAre
<1>7. NightFees(x) \in Int
  <2>1. PICK size \in Nat : size = EstimateTxSize(Tx(p))
    BY <1>5, SizeIs
  <2>2. PICK rate \in Nat : rate = x.feerate
    BY <1>2
  <2>3. NightFees(x) = rate * size
    BY <1>3, <2>1, <2>2, Zenon DEF NightFees
  <2>4. rate * size \in Int
    OBVIOUS
  <2>5. QED
    BY <2>3, <2>4
<1>8. Hanukkiah2NightWays(x) # {}
  BY DEF Hanukkiah2NightWays
<1>9. PICK sats : sats = NightMax(c, n)
  OBVIOUS
<1>10. sats = OutSats(p) + NightFees(x)
  <2>1. PICK w \in Hanukkiah2NightWays(x) :
          w = CHOOSE v \in Hanukkiah2NightWays(x) : TRUE
    BY <1>8
  <2>2. sats = OutSats(w.tx.outs) + w.tx.fees
    BY <1>1, <1>9, <2>1, Zenon DEF NightMax
  <2>3. QED
    BY <1>3, <2>2, NightWay
<1>11. sats \in Int
  BY <1>6, <1>7, <1>10
<1>12. Fit(x, dust)
  BY <1>2, Zenon DEF Fit, Formed, Library, IsWork
<1>13. FundedCoin(Holding(x, sats), dust)
  <2>1. PICK coin : coin = Holding(x, sats) /\ coin.contract = x /\ coin.sats = sats
    BY HoldingIs
  <2>2. Ways(coin) = Hanukkiah2NightWays(x)
    BY <1>2, <2>1, Zenon DEF Ways
  <2>3. ASSUME NEW way \in Ways(coin) PROVE Funds(way, sats, dust)
    <3>1. OutSats(way.tx.outs) + way.tx.fees = sats
      BY <1>3, <1>10, <2>2, NightWay
    <3>2. QED
      BY <1>11, <3>1, ExactFunds
  <2>4. QED
    BY <2>1, <2>3, FundedIs
<1>14. QED
  BY <1>1, <1>9, <1>11, <1>12, <1>13 DEF Sound

TwiceTx(outs, brings, fees) == [Tx(outs) EXCEPT !.brings = brings, !.fees = fees]
LEMMA TwiceIs ==
    ASSUME NEW outs, NEW brings, NEW fees, NEW tx, tx = TwiceTx(outs, brings, fees)
    PROVE  tx.outs = outs /\ tx.fees = fees
<1>1. PICK first : first = [Tx(outs) EXCEPT !.brings = brings]
  OBVIOUS
<1>2. first = [outs |-> outs, seq |-> 0, seqTime |-> 0, lock |-> 0, lockTime |-> 0,
               fees |-> 0, brings |-> brings, inputs |-> 0]
  BY <1>1 DEF Tx
<1>3. tx = [first EXCEPT !.fees = fees]
  BY <1>1 DEF TwiceTx
<1>4. QED
  BY <1>2, <1>3

LEMMA NightsLead ==
    ASSUME NEW x, x.is = "Hanukkiah2", NEW sats, NEW dust \in Nat, Fit(x, dust)
    PROVE  Leads(x, sats, dust)
<1>1. x.amount \in Nat /\ x.feerate \in Nat
  BY Zenon DEF Fit, Formed
<1>2. PICK coin : coin = Holding(x, sats) /\ coin.contract = x
  BY HoldingIs
<1>3. Ways(coin) = Hanukkiah2Ways(x)
  BY <1>2, Zenon DEF Ways
<1>4. PICK outs : outs = [n \in 1..Nights |-> Out(Hanukkiah2Night(x, n), NightMax(x, n))]
  OBVIOUS
<1>5. PICK fees : fees = x.feerate * EstimateTxSize(Tx(outs))
  OBVIOUS
<1>6. PICK tx : tx = TwiceTx(outs, fees, fees)
  OBVIOUS
<1>7. tx.outs = outs
  BY <1>6, TwiceIs
<1>8. ASSUME NEW way \in Ways(coin) PROVE way = Template("create", Trivial, tx)
  BY <1>3, <1>4, <1>5, <1>6, <1>8, Zenon DEF Hanukkiah2Ways, TwiceTx, NightMax
<1>9. Nights \in Nat
  BY ArgumentsAssumption
<1>10. Len(outs) = Nights /\ \A n \in 1..Nights : outs[n] = Out(Hanukkiah2Night(x, n), NightMax(x, n))
  BY <1>4, <1>9
<1>11. ASSUME NEW n \in 1..Nights
       PROVE  Sound(outs[n].to, outs[n].sats, dust)
  <2>1. Sound(Hanukkiah2Night(x, n), NightMax(x, n), dust)
    <3>1. n \in Nat
      BY <1>9
    <3>2. QED
      BY <1>1, <3>1, NightSound
  <2>2. outs[n].to = Hanukkiah2Night(x, n) /\ outs[n].sats = NightMax(x, n)
    <3>1. \A to, m : Out(to, m).to = to /\ Out(to, m).sats = m
      BY DEF Out
    <3>2. PICK y, m : y = Hanukkiah2Night(x, n) /\ m = NightMax(x, n)
      OBVIOUS
    <3>3. outs[n] = Out(y, m)
      BY <1>10, <3>2
    <3>4. QED
      BY <3>1, <3>2, <3>3
  <2>3. QED
    BY <2>1, <2>2, Zenon
<1>12. SoundOuts(outs, dust)
  BY <1>10, <1>11, Zenon DEF SoundOuts
<1>13. ASSUME NEW way \in Ways(coin) PROVE SoundOuts(way.tx.outs, dust)
  BY <1>7, <1>8, <1>12, TemplateOf
<1>14. QED
  BY <1>2, <1>13 DEF Leads

-----------------------------------------------------------------------------
(* Pools that are halved. *)

LEMMA RefundsPart ==
    ASSUME NEW c, Refunds(c), NEW first \in Nat \ {0}, NEW last \in Nat, first <= last + 1,
           last <= Len(c.refunds)
    PROVE  Refunds(CoinPool(SubSeq(c.clauses, first, last), SubSeq(c.refunds, first, last)))
<1>1. PICK p, q : p = c.clauses /\ q = c.refunds
  OBVIOUS
<1>2. PICK S, T : S = Range(p) /\ T = Range(q)
  OBVIOUS
<1>3. p \in Seq(S) /\ Payees(q) /\ Len(p) = Len(q) /\ last <= Len(p) /\ last <= Len(q)
  BY <1>1, <1>2 DEF Refunds
<1>4. q \in Seq(T) /\ \A o \in T : IsAddress(o.to) /\ o.sats \in Nat
  BY <1>2, <1>3, PayeesAre
<1>5. PICK a, b : a = SubSeq(p, first, last) /\ b = SubSeq(q, first, last)
  OBVIOUS
<1>6. a \in Seq(S) /\ Len(a) = last - first + 1
  BY <1>3, <1>5, PartIs
<1>7. b \in Seq(T) /\ Len(b) = last - first + 1
  BY <1>3, <1>4, <1>5, PartIs
<1>8. Payees(b)
  BY <1>4, <1>7, ArePayees
<1>9. a \in Seq(Range(a))
  <2>1. DOMAIN a = 1..Len(a) /\ Len(a) \in Nat /\ a = [i \in 1..Len(a) |-> a[i]]
    BY <1>6
  <2>2. \A i \in 1..Len(a) : a[i] \in Range(a)
    BY <2>1 DEF Range
  <2>3. QED
    BY <2>1, <2>2
<1>10. PICK y : y = CoinPool(a, b)
  OBVIOUS
<1>11. y.clauses = a /\ y.refunds = b
  BY <1>10 DEF CoinPool
<1>12. Refunds(y)
  BY <1>6, <1>7, <1>8, <1>9, <1>10, <1>11 DEF Refunds
<1>13. QED
  BY <1>1, <1>5, <1>10, <1>12

\* Both halves of a pool are pools, and hold what it held.
PaysPool(o) == IsAddress(o.to) \/ (Refunds(o.to) /\ OutSats(o.to.refunds) = o.sats)
LEMMA BisectIs ==
    ASSUME NEW c, Refunds(c)
    PROVE  /\ OutSats(BisectOffline(c)) = OutSats(c.refunds) /\ OutSats(c.refunds) \in Int
           /\ \A i \in 1..Len(BisectOffline(c)) : PaysPool(BisectOffline(c)[i])
<1>1. PICK q, S : q = c.refunds /\ S = Range(q)
  OBVIOUS
<1>2. /\ Payees(q) /\ Len(c.clauses) = Len(q)
  BY <1>1 DEF Refunds
<1>3. /\ q \in Seq(S) /\ Len(q) \in Nat /\ OutSats(q) \in Int
      /\ \A o \in S : IsAddress(o.to) /\ o.sats \in Nat /\ o.sats \in Int
      /\ \A i \in 1..Len(q) : IsAddress(q[i].to)
  BY <1>1, <1>2, PayeesAre
<1>4. PICK l \in Nat : l = Len(q)
  BY <1>3
<1>5. CASE ~(l >= 2)
  <2>1. BisectOffline(c) = q
    BY <1>1, <1>2, <1>4, <1>5, Zenon DEF BisectOffline
  <2>2. QED
    BY <1>1, <1>3, <2>1 DEF PaysPool
<1>6. CASE l >= 2
  <2>1. PICK h \in Nat : h = l \div 2 /\ h <= l
    <3>1. \A n \in Nat : n \div 2 \in Nat /\ n \div 2 <= n
      OBVIOUS
    <3>2. QED
      BY <3>1
  <2>2. PICK a, b : a = SubSeq(q, 1, h) /\ b = SubSeq(q, h + 1, l)
    OBVIOUS
  <2>3. OutSats(a) \in Int /\ OutSats(b) \in Int /\ OutSats(a) + OutSats(b) = OutSats(q)
    BY <1>3, <1>4, <2>1, <2>2, OutSatsHalves
  <2>4. PICK x, y : /\ x = CoinPool(SubSeq(c.clauses, 1, h), a)
                    /\ y = CoinPool(SubSeq(c.clauses, h + 1, l), b)
    OBVIOUS
  <2>5. PICK o, p : o = Out(x, OutSats(a)) /\ p = Out(y, OutSats(b))
    OBVIOUS
  <2>6. BisectOffline(c) = <<o, p>>
    BY <1>1, <1>2, <1>4, <1>6, <2>1, <2>2, <2>4, <2>5, Zenon DEF BisectOffline
  <2>7. x.refunds = a /\ y.refunds = b
    BY <2>4 DEF CoinPool
  <2>8. o.to = x /\ o.sats = OutSats(a) /\ p.to = y /\ p.sats = OutSats(b)
    BY <2>5 DEF Out
  <2>9. Refunds(x)
    <3>1. 1 \in Nat \ {0} /\ 1 <= h + 1 /\ h <= Len(c.refunds)
      <4>1. Len(c.refunds) = l
        BY <1>1, <1>4, Zenon
      <4>2. QED
        BY <2>1, <4>1
    <3>2. QED
      BY <1>1, <2>2, <2>4, <3>1, RefundsPart
  <2>10. Refunds(y)
    <3>1. h + 1 \in Nat \ {0} /\ h + 1 <= l + 1 /\ l <= Len(c.refunds)
      <4>1. Len(c.refunds) = l
        BY <1>1, <1>4, Zenon
      <4>2. QED
        BY <2>1, <4>1
    <3>2. QED
      BY <1>1, <2>2, <2>4, <3>1, RefundsPart
  <2>11. PaysPool(o) /\ PaysPool(p)
    BY <2>7, <2>8, <2>9, <2>10, Zenon DEF PaysPool
  <2>12. PICK outs : outs = <<o, p>>
    OBVIOUS
  <2>13. Len(outs) = 2 /\ outs[1] = o /\ outs[2] = p /\ \A i \in 1..2 : i = 1 \/ i = 2
    BY <2>12
  <2>14. \A i \in 1..Len(outs) : PaysPool(outs[i])
    BY <2>11, <2>13, Zenon
  <2>15. OutSats(<<o, p>>) = OutSats(q)
    <3>1. o.sats \in Int /\ p.sats \in Int
      BY <2>3, <2>8
    <3>2. OutSats(<<o, p>>) = o.sats + p.sats
      BY <3>1, SumTwo
    <3>3. QED
      BY <2>3, <2>8, <3>2
  <2>16. QED
    BY <1>1, <1>3, <2>6, <2>12, <2>14, <2>15, Zenon
<1>7. QED
  BY <1>5, <1>6

LEMMA CoinPoolWay ==
    ASSUME NEW x, x.is = "CoinPool", NEW sats, NEW way \in Ways(Holding(x, sats))
    PROVE  \/ \E name, guard : way = Finish(name, guard)
           \/ Updates(way, sats)
           \/ way = Template("bisect_offline", Trivial, Tx(BisectOffline(x)))
<1>1. PICK coin : coin = Holding(x, sats) /\ coin.contract = x /\ coin.sats = sats
  BY HoldingIs
<1>2. Ways(coin) = CoinPoolWays(x, sats)
  BY <1>1, Zenon DEF Ways
<1>3. PICK txs : txs = {CoinPoolUpdate(u) : u \in {u \in PoolUpdates :
                          OutSats(u.payouts) <= sats + u.external}}
  OBVIOUS
<1>4. PICK all : all = AllOf(Range(x.clauses))
  OBVIOUS
<1>5. \/ way = Template("bisect_offline", Trivial, Tx(BisectOffline(x)))
      \/ way \in Continuation("next_pool", all, txs)
  BY <1>1, <1>2, <1>3, <1>4, Zenon DEF CoinPoolWays
<1>6. CASE way \in Continuation("next_pool", all, txs)
  <2>1. way = Finish("next_pool", all) \/ \E tx \in txs : way.tx = tx /\ ~way.ctv
    BY <1>6, ContinuationWays
  <2>2. ASSUME NEW tx \in txs, way.tx = tx, ~way.ctv PROVE Updates(way, sats)
    <3>1. PICK u \in PoolUpdates : /\ OutSats(u.payouts) <= sats + u.external
                                   /\ tx = CoinPoolUpdate(u)
      BY <1>3
    <3>2. tx = BringsTx(u.payouts, u.external, Len(u.inputs))
      BY <3>1, Zenon DEF CoinPoolUpdate, BringsTx
    <3>3. PICK outs, external, inputs : /\ outs = u.payouts /\ external = u.external
                                        /\ inputs = Len(u.inputs)
      OBVIOUS
    <3>4. tx = BringsTx(outs, external, inputs)
      BY <3>2, <3>3, Zenon
    <3>5. tx.outs = outs /\ tx.fees = 0 /\ tx.inputs = inputs
      BY <3>4, BringsWay
    <3>6. QED
      BY <2>2, <3>1, <3>3, <3>5, Zenon DEF Updates
  <2>3. QED
    BY <2>1, <2>2
<1>7. QED
  BY <1>5, <1>6

LEMMA UpdateFunds ==
    ASSUME NEW way, NEW sats \in Int, Updates(way, sats), NEW dust
    PROVE  /\ Funds(way, sats, dust)
           /\ \A i \in 1..Len(way.tx.outs) : PaysPool(way.tx.outs[i])
<1>1. PICK u \in PoolUpdates :
        /\ OutSats(u.payouts) <= sats + u.external
        /\ way.tx.outs = u.payouts /\ way.tx.fees = 0 /\ way.tx.inputs = Len(u.inputs)
        /\ ~way.ctv
  BY Zenon DEF Updates
<1>2. PICK outs, S : outs = u.payouts /\ S = Range(outs)
  OBVIOUS
<1>3. /\ outs \in Seq(S) /\ u.inputs \in Seq(Range(u.inputs)) /\ u.external \in Nat
      /\ u.external > 0 => u.inputs # <<>>
      /\ \A i \in DOMAIN outs :
           outs[i].sats \in Nat /\ PaysPool(outs[i])
  BY <1>2, ArgumentsAssumption, Zenon DEF PaysPool
<1>4. DOMAIN outs = 1..Len(outs) /\ \A o \in S : o.sats \in Int
  BY <1>2, <1>3 DEF Range
<1>5. OutSats(outs) \in Int
  BY <1>3, <1>4, OutSatsTotal
<1>6. PICK external \in Nat : external = u.external
  BY <1>3
<1>7. Len(u.inputs) > 0 \/ external = 0
  <2>1. CASE external = 0
    BY <2>1
  <2>2. CASE external # 0
    <3>1. external > 0
      BY <2>2
    <3>2. u.inputs # <<>>
      BY <1>3, <1>6, <3>1, Zenon
    <3>3. QED
      BY <1>3, <3>2
  <2>3. QED
    BY <2>1, <2>2
<1>8. OutSats(outs) <= sats + external
  BY <1>1, <1>2, <1>6, Zenon
<1>9. OutSats(outs) + 0 <= sats \/ way.tx.inputs > 0
  <2>1. CASE external = 0
    BY <1>5, <1>8, <2>1
  <2>2. CASE Len(u.inputs) > 0
    BY <1>1, <2>2, Zenon
  <2>3. QED
    BY <1>7, <2>1, <2>2
<1>10. Funds(way, sats, dust)
  BY <1>1, <1>2, <1>9, Zenon DEF Funds
<1>11. QED
  BY <1>1, <1>2, <1>3, <1>4, <1>10, Zenon

LEMMA RefundsSound ==
    ASSUME NEW x, Refunds(x), NEW sats, OutSats(x.refunds) = sats, NEW dust \in Nat
    PROVE  Sound(x, sats, dust)
<1>1. x.is = "CoinPool"
  <2>1. x = CoinPool(x.clauses, x.refunds)
    BY Zenon DEF Refunds
  <2>2. QED
    BY <2>1 DEF CoinPool
<1>2. Fit(x, dust)
  BY <1>1, Zenon DEF Fit, Formed, Library, IsWork
<1>3. OutSats(BisectOffline(x)) = sats /\ sats \in Int
  BY BisectIs
<1>4. ASSUME NEW way \in Ways(Holding(x, sats)) PROVE Funds(way, sats, dust)
  <2>1. CASE \E name, guard : way = Finish(name, guard)
    BY <2>1, FinishFunds
  <2>2. CASE Updates(way, sats)
    BY <1>3, <2>2, UpdateFunds
  <2>3. CASE way = Template("bisect_offline", Trivial, Tx(BisectOffline(x)))
    <3>1. PICK outs : outs = BisectOffline(x)
      OBVIOUS
    <3>2. way.tx.outs = outs /\ way.tx.fees = 0
      BY <2>3, <3>1, PlainWay
    <3>3. OutSats(way.tx.outs) + way.tx.fees = sats
      BY <1>3, <3>1, <3>2
    <3>4. QED
      BY <1>3, <3>3, ExactFunds
  <2>4. QED
    BY <1>1, <2>1, <2>2, <2>3, CoinPoolWay
<1>5. FundedCoin(Holding(x, sats), dust)
  BY <1>4, FundedIs, HoldingIs
<1>6. QED
  BY <1>2, <1>3, <1>5 DEF Sound

LEMMA PoolsLead ==
    ASSUME NEW outs, \A i \in 1..Len(outs) : PaysPool(outs[i]), NEW dust \in Nat
    PROVE  SoundOuts(outs, dust)
<1>1. ASSUME NEW i \in 1..Len(outs)
      PROVE  IsAddress(outs[i].to) \/ Sound(outs[i].to, outs[i].sats, dust)
  <2>1. PICK to, sats : to = outs[i].to /\ sats = outs[i].sats
    OBVIOUS
  <2>2. IsAddress(to) \/ (Refunds(to) /\ OutSats(to.refunds) = sats)
    BY <2>1, Zenon DEF PaysPool
  <2>3. QED
    BY <2>1, <2>2, RefundsSound
<1>2. QED
  BY <1>1 DEF SoundOuts

LEMMA CoinPoolLeads ==
    ASSUME NEW x, x.is = "CoinPool", NEW sats \in Int, NEW dust \in Nat, Fit(x, dust)
    PROVE  Leads(x, sats, dust)
<1>1. Refunds(x)
  BY Zenon DEF Fit, Formed
<1>2. ASSUME NEW way \in Ways(Holding(x, sats)) PROVE SoundOuts(way.tx.outs, dust)
  <2>1. CASE \E name, guard : way = Finish(name, guard)
    BY <2>1, FinishLeads
  <2>2. CASE Updates(way, sats)
    BY <2>2, UpdateFunds, PoolsLead
  <2>3. CASE way = Template("bisect_offline", Trivial, Tx(BisectOffline(x)))
    <3>1. PICK outs : outs = BisectOffline(x)
      OBVIOUS
    <3>2. way.tx.outs = outs
      BY <2>3, <3>1, PlainWay
    <3>3. \A i \in 1..Len(outs) : PaysPool(outs[i])
      BY <1>1, <3>1, BisectIs
    <3>4. QED
      BY <3>2, <3>3, PoolsLead
  <2>4. QED
    BY <2>1, <2>2, <2>3, CoinPoolWay
<1>3. QED
  BY <1>2 DEF Leads

-----------------------------------------------------------------------------
(* Works and their sales. *)

InputTx(outs, brings, inputs, lock) ==
    [Tx(outs) EXCEPT !.brings = brings, !.inputs = inputs, !.lock = lock]
LEMMA InputIs ==
    ASSUME NEW outs, NEW brings, NEW inputs, NEW lock, NEW tx,
           tx = InputTx(outs, brings, inputs, lock)
    PROVE  tx.outs = outs /\ tx.fees = 0 /\ tx.inputs = inputs
<1>1. PICK first : first = [Tx(outs) EXCEPT !.brings = brings]
  OBVIOUS
<1>2. first = [outs |-> outs, seq |-> 0, seqTime |-> 0, lock |-> 0, lockTime |-> 0,
               fees |-> 0, brings |-> brings, inputs |-> 0]
  BY <1>1 DEF Tx
<1>3. PICK second : second = [first EXCEPT !.inputs = inputs]
  OBVIOUS
<1>4. second = [outs |-> outs, seq |-> 0, seqTime |-> 0, lock |-> 0, lockTime |-> 0,
                fees |-> 0, brings |-> brings, inputs |-> inputs]
  BY <1>2, <1>3
<1>5. tx = [second EXCEPT !.lock = lock]
  BY <1>1, <1>3 DEF InputTx
<1>6. QED
  BY <1>4, <1>5

LEMMA TransferIs ==
    ASSUME NEW data, NEW to, NEW sats, NEW price, NEW time, NEW tx,
           tx = Transfer(data, to, sats, price, time)
    PROVE  /\ tx.outs = SaleOuts(data, to, sats, price)
           /\ tx.fees = 0 /\ tx.inputs = 1
<1>1. PICK outs : outs = SaleOuts(data, to, sats, price)
  OBVIOUS
<1>2. tx = InputTx(outs, price, 1, time)
  BY <1>1, Zenon DEF Transfer, InputTx
<1>3. QED
  BY <1>1, <1>2, InputIs

\* Who adds an input and is not held to a template can always do so.
LEMMA InputFunds ==
    ASSUME NEW way, ~way.ctv, way.tx.inputs = 1, NEW sats, NEW dust
    PROVE  Funds(way, sats, dust)
<1>1. 1 > 0
  OBVIOUS
<1>2. QED
  BY <1>1, Zenon DEF Funds

LEMMA NftSound ==
    ASSUME NEW data, DataFields(data), NEW sats \in Int, NEW dust \in Nat
    PROVE  Sound(SimpleNFT(data), sats, dust)
<1>1. PICK x : x = SimpleNFT(data)
  OBVIOUS
<1>2. x.is = "SimpleNFT" /\ x.data = data
  BY <1>1 DEF SimpleNFT
<1>3. WorkFields(x)
  BY <1>1, <1>2, Zenon DEF WorkFields
<1>4. Fit(x, dust)
  BY <1>2, <1>3, Zenon DEF Fit, Formed, Library, IsWork
<1>5. PICK coin : coin = Holding(x, sats) /\ coin.contract = x /\ coin.sats = sats
  BY HoldingIs
<1>6. Ways(coin) = SimpleNFTWays(x, sats)
  BY <1>2, <1>5, Zenon DEF Ways
<1>7. ASSUME NEW way \in Ways(coin) PROVE Funds(way, sats, dust)
  <2>1. PICK guard, txs : /\ way \in Continuation("sell", guard, txs)
                          /\ \A tx \in txs : \E sale : tx = Sell(data, sale, sats)
    BY <1>2, <1>6 DEF SimpleNFTWays
  <2>2. ASSUME NEW tx \in txs, way.tx = tx, ~way.ctv PROVE Funds(way, sats, dust)
    <3>1. PICK sale : tx = Sell(data, sale, sats)
      BY <2>1
    <3>2. PICK outs, brings : tx = BringsTx(outs, brings, 1)
      BY <3>1, Zenon DEF Sell, BringsTx
    <3>3. tx.inputs = 1
      BY <3>2, BringsWay
    <3>4. QED
      BY <2>2, <3>3, InputFunds
  <2>3. QED
    BY <2>1, <2>2, ContinuationWays, FinishFunds
<1>8. FundedCoin(Holding(x, sats), dust)
  BY <1>5, <1>7, FundedIs
<1>9. QED
  BY <1>1, <1>4, <1>8 DEF Sound

\* A transfer hands on the work with its sats, and the price.
LEMMA SaleOutsAre ==
    ASSUME NEW data, DataFields(data), NEW to, NEW sats \in Int, NEW price \in Nat,
           NEW dust \in Nat
    PROVE  /\ OutSats(SaleOuts(data, to, sats, price)) = sats + price
           /\ SoundOuts(SaleOuts(data, to, sats, price), dust)
<1>1. PICK sold : sold = [data EXCEPT !.owner = to]
  OBVIOUS
<1>2. DataFields(sold)
  <2>1. sold = NftData(to, data.artist, data.royalty)
    BY <1>1 DEF DataFields, NftData
  <2>2. /\ sold.royalty = data.royalty
        /\ sold = NftData(sold.owner, sold.artist, sold.royalty)
    BY <2>1 DEF NftData
  <2>3. QED
    BY <2>2, Zenon DEF DataFields
<1>3. PICK royalty \in Nat : royalty = RoyaltyForArtist(data, price)
  BY RoyaltyIs
<1>4. PICK x : x = Out(SimpleNFT(sold), sats)
  OBVIOUS
<1>5. x.sats = sats /\ Sound(x.to, x.sats, dust)
  <2>1. x.to = SimpleNFT(sold) /\ x.sats = sats
    BY <1>4 DEF Out
  <2>2. QED
    BY <1>2, <2>1, NftSound
<1>6. CASE data.artist = "none"
  <2>1. PICK y : y = PayTo(data.owner, price)
    OBVIOUS
  <2>2. y.sats = price /\ IsAddress(y.to)
    BY <2>1 DEF PayTo, Out, Address, IsAddress
  <2>3. SaleOuts(data, to, sats, price) = <<x>> \o <<y>>
    BY <1>1, <1>4, <1>6, <2>1, Zenon DEF SaleOuts
  <2>4. SaleOuts(data, to, sats, price) = <<x, y>>
    BY <2>3, OneAndOne
  <2>5. OutSats(<<x, y>>) = sats + price
    BY <1>5, <2>2, SumTwo
  <2>6. SoundOuts(<<x, y>>, dust)
    BY <1>5, <2>2, TwoOutsLead
  <2>7. QED
    BY <2>4, <2>5, <2>6
<1>7. CASE data.artist # "none"
  <2>1. PICK y, z : y = PayTo(data.owner, price - royalty) /\ z = PayTo(data.artist, royalty)
    OBVIOUS
  <2>2. y.sats = price - royalty /\ IsAddress(y.to) /\ z.sats = royalty /\ IsAddress(z.to)
    BY <2>1 DEF PayTo, Out, Address, IsAddress
  <2>3. SaleOuts(data, to, sats, price) = <<x>> \o <<y, z>>
    BY <1>1, <1>3, <1>4, <1>7, <2>1, Zenon DEF SaleOuts
  <2>4. PICK p, q : p = <<x>> /\ q = <<y, z>>
    OBVIOUS
  <2>5. PICK S : S = {x, y, z}
    OBVIOUS
  <2>6. p \in Seq(S) /\ q \in Seq(S) /\ \A o \in S : o.sats \in Int
    BY <1>5, <2>2, <2>4, <2>5
  <2>7. OutSats(p \o q) = OutSats(p) + OutSats(q)
    BY <2>6, OutSatsJoin
  <2>8. OutSats(p) = sats
    BY <1>5, <2>4, SumOne
  <2>9. OutSats(q) = price
    <3>1. OutSats(q) = y.sats + z.sats
      <4>1. y.sats \in Int /\ z.sats \in Int
        BY <2>2
      <4>2. QED
        BY <2>4, <4>1, SumTwo
    <3>2. QED
      BY <2>2, <3>1
  <2>10. OutSats(p \o q) = sats + price
    BY <2>7, <2>8, <2>9
  <2>11. PICK s : s = p \o q
    OBVIOUS
  <2>12. \A i \in 1..Len(s) : s[i] \in {x, y, z}
    BY <2>4, <2>11, FirstAndTwo
  <2>13. SoundOuts(s, dust)
    BY <1>5, <2>2, <2>12 DEF SoundOuts
  <2>14. QED
    BY <2>3, <2>4, <2>10, <2>11, <2>13, Zenon
<1>8. QED
  BY <1>6, <1>7

LEMMA AuctionWay ==
    ASSUME NEW x, x.is = "NFTDutchAuction", WorkFields(x), NEW sats,
           NEW way \in Ways(Holding(x, sats))
    PROVE  \/ \E name, guard : way = Finish(name, guard)
           \/ /\ ~way.ctv /\ way.tx.inputs = 1
              /\ \E price \in Nat : way.tx.outs = SaleOuts(x.data, x.to, x.sats, price)
<1>1. PICK coin : coin = Holding(x, sats) /\ coin.contract = x
  BY HoldingIs
<1>2. Ways(coin) = NFTDutchAuctionWays(x)
  BY <1>1, Zenon DEF Ways
<1>3. x.time \in Nat /\ AuctionFields(x.extra)
  BY Zenon DEF WorkFields
<1>4. PICK entries : entries = Range(CreateSchedule(x.extra, x.time))
  OBVIOUS
<1>5. PICK txs : txs = {Transfer(x.data, x.to, x.sats, s.price, s.height) : s \in entries}
  OBVIOUS
<1>6. \E guard : way \in Continuation("transfer", guard, txs)
  BY <1>1, <1>2, <1>4, <1>5, Zenon DEF NFTDutchAuctionWays
<1>7. ASSUME NEW tx \in txs, way.tx = tx, ~way.ctv
      PROVE  /\ way.tx.inputs = 1
             /\ \E price \in Nat : way.tx.outs = SaleOuts(x.data, x.to, x.sats, price)
  <2>1. PICK s \in entries : tx = Transfer(x.data, x.to, x.sats, s.price, s.height)
    BY <1>5
  <2>2. s.price \in Nat
    BY <1>3, <1>4, ScheduleLine
  <2>3. PICK price, height : price = s.price /\ height = s.height
    OBVIOUS
  <2>4. tx = Transfer(x.data, x.to, x.sats, price, height)
    BY <2>1, <2>3
  <2>5. tx.outs = SaleOuts(x.data, x.to, x.sats, price) /\ tx.inputs = 1
    BY <2>4, TransferIs
  <2>6. QED
    BY <1>7, <2>2, <2>3, <2>5
<1>8. QED
  BY <1>6, <1>7, ContinuationWays

LEMMA SaleWay ==
    ASSUME NEW x, x.is = "SimpleNFTSale", NEW sats, NEW way \in Ways(Holding(x, sats))
    PROVE  way.tx.outs = SaleOuts(x.data, x.to, x.sats, x.price) /\ way.tx.fees = 0
<1>1. PICK coin : coin = Holding(x, sats) /\ coin.contract = x
  BY HoldingIs
<1>2. Ways(coin) = SimpleNFTSaleWays(x)
  BY <1>1, Zenon DEF Ways
<1>3. PICK tx : tx = Transfer(x.data, x.to, x.sats, x.price, 0)
  OBVIOUS
<1>4. way = Template("transfer", Trivial, tx)
  BY <1>1, <1>2, <1>3, Zenon DEF SimpleNFTSaleWays
<1>5. way.tx = tx
  BY <1>4, TemplateOf
<1>6. tx.outs = SaleOuts(x.data, x.to, x.sats, x.price) /\ tx.fees = 0
  BY <1>3, TransferIs
<1>7. QED
  BY <1>5, <1>6

LEMMA TransfersLead ==
    ASSUME NEW x, x.is \in {"SimpleNFTSale", "NFTDutchAuction"}, NEW sats, NEW dust \in Nat,
           Fit(x, dust)
    PROVE  Leads(x, sats, dust)
<1>1. WorkFields(x) /\ x.sats \in Int
  BY Zenon DEF Fit, Formed, IsWork
<1>2. DataFields(x.data) /\ (x.is = "SimpleNFTSale" => x.price \in Nat)
  BY <1>1, Zenon DEF WorkFields
<1>3. ASSUME NEW way \in Ways(Holding(x, sats)) PROVE SoundOuts(way.tx.outs, dust)
  <2>1. CASE x.is = "SimpleNFTSale"
    BY <1>1, <1>2, <2>1, SaleWay, SaleOutsAre
  <2>2. CASE x.is = "NFTDutchAuction"
    <3>1. \/ \E name, guard : way = Finish(name, guard)
          \/ \E price \in Nat : way.tx.outs = SaleOuts(x.data, x.to, x.sats, price)
      BY <1>1, <2>2, AuctionWay
    <3>2. QED
      BY <1>1, <1>2, <3>1, FinishLeads, SaleOutsAre
  <2>3. QED
    BY <2>1, <2>2
<1>4. QED
  BY <1>3 DEF Leads

\* A sale holds the work's sats and the price, an auction whatever it was given.
LEMMA SaleSound ==
    ASSUME NEW x, WorkFields(x), x.is \in {"SimpleNFTSale", "NFTDutchAuction"}, x.sats \in Int,
           NEW sats \in Int, x.is = "SimpleNFTSale" => sats = x.sats + x.price,
           NEW dust \in Nat
    PROVE  Sound(x, sats, dust)
<1>1. Fit(x, dust)
  <2>1. CASE x.is = "SimpleNFTSale"
    BY <2>1, Zenon DEF Fit, Formed, Library, IsWork
  <2>2. CASE x.is = "NFTDutchAuction"
    BY <2>2, Zenon DEF Fit, Formed, Library, IsWork
  <2>3. QED
    BY <2>1, <2>2
<1>2. DataFields(x.data) /\ (x.is = "SimpleNFTSale" => x.price \in Nat)
  BY Zenon DEF WorkFields
<1>3. ASSUME NEW way \in Ways(Holding(x, sats)) PROVE Funds(way, sats, dust)
  <2>1. CASE x.is = "SimpleNFTSale"
    <3>1. way.tx.outs = SaleOuts(x.data, x.to, x.sats, x.price) /\ way.tx.fees = 0
      BY <2>1, SaleWay
    <3>2. OutSats(way.tx.outs) = x.sats + x.price
      BY <1>2, <2>1, <3>1, SaleOutsAre
    <3>3. OutSats(way.tx.outs) + way.tx.fees = sats
      BY <2>1, <3>1, <3>2
    <3>4. QED
      BY <3>3, ExactFunds
  <2>2. CASE x.is = "NFTDutchAuction"
    BY <2>2, AuctionWay, FinishFunds, InputFunds
  <2>3. QED
    BY <2>1, <2>2
<1>4. FundedCoin(Holding(x, sats), dust)
  BY <1>3, FundedIs, HoldingIs
<1>5. QED
  BY <1>1, <1>4 DEF Sound

LEMMA NftLeads ==
    ASSUME NEW x, x.is = "SimpleNFT", NEW sats \in Int, NEW dust \in Nat, Fit(x, dust)
    PROVE  Leads(x, sats, dust)
<1>1. DataFields(x.data)
  BY Zenon DEF Fit, Formed, IsWork, WorkFields
<1>2. PICK coin : coin = Holding(x, sats) /\ coin.contract = x /\ coin.sats = sats
  BY HoldingIs
<1>3. Ways(coin) = SimpleNFTWays(x, sats)
  BY <1>2, Zenon DEF Ways
<1>4. ASSUME NEW sale \in Sales PROVE SoundOuts(Sell(x.data, sale, sats).outs, dust)
  <2>1. PICK y, max : y = SaleContract(x.data, sale, sats) /\ max = SaleMax(sale, sats)
    OBVIOUS
  <2>2. IsWork(y) /\ y.is # "SimpleNFT" /\ WorkFields(y) /\ y.sats = sats
    BY <1>1, <2>1, SaleContractIs
  <2>3. y.is \in {"SimpleNFTSale", "NFTDutchAuction"}
    BY <2>2 DEF IsWork
  <2>4. max \in Int /\ (y.is = "SimpleNFTSale" => max = y.sats + y.price)
    <3>1. CASE sale.which = "sale"
      <4>1. y.price = sale.price
        BY <2>1, <3>1 DEF SaleContract, SimpleNFTSale
      <4>2. max = sats + sale.price
        BY <2>1, <3>1, Zenon DEF SaleMax
      <4>3. sale.price \in Nat
        BY SalesAssumption
      <4>4. QED
        BY <2>2, <4>1, <4>2, <4>3
    <3>2. CASE sale.which # "sale"
      <4>1. y.is # "SimpleNFTSale"
        <5>1. \E extra : y = NFTDutchAuction(extra, x.data, sale.to, sale.time, sats)
          BY <2>1, <3>2, Zenon DEF SaleContract
        <5>2. QED
          BY <5>1 DEF NFTDutchAuction
      <4>2. CASE sale.extra = <<>>
        <5>1. max = sats + DeriveDefault(sale.price).start
          BY <2>1, <3>2, <4>2, Zenon DEF SaleMax
        <5>2. DeriveDefault(sale.price).start = sale.price * 10
          BY DEF DeriveDefault, DutchAuctionData
        <5>3. PICK price \in Nat : price = sale.price
          BY SalesAssumption
        <5>4. price * 10 \in Int
          OBVIOUS
        <5>5. QED
          BY <4>1, <5>1, <5>2, <5>3, <5>4
      <4>3. CASE sale.extra # <<>>
        <5>1. max = sats + sale.extra[1].start
          BY <2>1, <3>2, <4>3, Zenon DEF SaleMax
        <5>2. sale.extra[1].start \in Nat
          BY <4>3, SalesAssumption, Zenon DEF AuctionFields
        <5>3. QED
          BY <4>1, <5>1, <5>2
      <4>4. QED
        BY <4>2, <4>3
    <3>3. QED
      BY <3>1, <3>2
  <2>5. Sound(y, max, dust)
    BY <2>2, <2>3, <2>4, SaleSound
  <2>6. SoundOuts(<<Out(y, max)>>, dust)
    BY <2>5, OneOutLeads
  <2>7. PICK outs : outs = <<Out(y, max)>>
    OBVIOUS
  <2>8. \E brings : Sell(x.data, sale, sats) = BringsTx(outs, brings, 1)
    BY <2>1, <2>7, Zenon DEF Sell, BringsTx
  <2>9. Sell(x.data, sale, sats).outs = outs
    BY <2>8, BringsWay
  <2>10. QED
    BY <2>6, <2>7, <2>9
<1>5. ASSUME NEW way \in Ways(coin) PROVE SoundOuts(way.tx.outs, dust)
  <2>1. PICK guard, txs : /\ way \in Continuation("sell", guard, txs)
                          /\ \A tx \in txs : \E sale \in Sales : tx = Sell(x.data, sale, sats)
    BY <1>3 DEF SimpleNFTWays
  <2>2. QED
    BY <1>4, <2>1, ContinuationWays, FinishLeads
<1>6. QED
  BY <1>2, <1>5 DEF Leads

LEMMA FeesMore ==
    ASSUME NEW S, S \in SUBSET PaymentRequests, NEW x \in PaymentRequests, x \notin S
    PROVE  /\ FeesOf(S \cup {x}) = x.fee + FeesOf(S)
           /\ FeesOf(S) \in Int /\ x.fee \in Int
<1>1. PICK g : g = [r \in S |-> r.fee]
  OBVIOUS
<1>2. PICK f : f = [r \in S \cup {x} |-> r.fee]
  OBVIOUS
<1>3. IsFiniteSet(S)
  BY FS_Subset, PaymentsAssumption
<1>4. f[x] = x.fee /\ x.fee \in Int
  BY <1>2, PaymentsAssumption
<1>5. \A r \in S \cup {x} : f[r] \in Int
  <2>1. \A r \in S \cup {x} : r \in PaymentRequests
    OBVIOUS
  <2>2. QED
    BY <1>2, <2>1, PaymentsAssumption
<1>6. \A r \in S : g[r] = f[r]
  BY <1>1, <1>2
<1>7. /\ SumFunctionOnSet(f, S \cup {x}) = f[x] + SumFunctionOnSet(g, S)
      /\ SumFunctionOnSet(g, S) \in Int
  BY <1>3, <1>5, <1>6, SumAdd
<1>8. QED
  BY <1>1, <1>2, <1>4, <1>7 DEF FeesOf

\* Requests pay amounts.
LEMMA PaymentsInSats ==
    /\ \A o \in AddressOuts : IsAddress(o.to) /\ o.sats \in Nat /\ o.sats \in Int
    /\ \A r \in PaymentRequests : r.payments \in Seq(AddressOuts) /\ OutSats(r.payments) \in Int
<1>1. ASSUME NEW o \in AddressOuts PROVE IsAddress(o.to) /\ o.sats \in Nat /\ o.sats \in Int
  <2>1. PICK r \in PaymentRequests : o \in Range(r.payments)
    BY DEF AddressOuts
  <2>2. PICK i \in DOMAIN r.payments : o = r.payments[i]
    BY <2>1 DEF Range
  <2>3. QED
    BY <2>2, PaymentsAssumption DEF ToAddresses, IsAddress
<1>2. ASSUME NEW r \in PaymentRequests
      PROVE  r.payments \in Seq(AddressOuts) /\ OutSats(r.payments) \in Int
  <2>1. PICK p : p = r.payments /\ p \in Seq(AddressOuts)
    BY PaymentsToAddresses
  <2>2. OutSats(p) \in Int
    BY <1>1, <2>1, OutSatsTotal
  <2>3. QED
    BY <2>1, <2>2
<1>3. QED
  BY <1>1, <1>2

LEMMA NobodyAsked ==
    ASSUME NEW M, NEW c, NEW R
    PROVE  Accounts(M, c, R, 0, <<>>, <<>>)
<1>1. FirstAsked(c, R, 0) = {}
  BY DEF FirstAsked
<1>2. FeesOf({}) = 0
  BY SumEmpty DEF FeesOf
<1>3. OutSats(<<>>) = 0 /\ Total(SatsOf(c.members), 0) = 0
  BY OutSatsNone, TotalNone
<1>4. <<>> \in Seq(M) /\ <<>> \in Seq(AddressOuts)
  OBVIOUS
<1>5. FeesOf(FirstAsked(c, R, 0)) = 0
  BY <1>1, <1>2
<1>6. 0 \in Int /\ 0 + 0 + 0 = 0
  OBVIOUS
<1>7. QED
  BY <1>3, <1>4, <1>5, <1>6, Zenon DEF Accounts

\* A member of a pool and their request.
LEMMA MemberIs ==
    ASSUME NEW W, NEW c, PoolIn([who : W, sats : Nat], c)
    PROVE  /\ Len(c.members) \in Nat
           /\ \A i \in 1..Len(c.members) : c.members[i].sats \in Int
           /\ \A m \in [who : W, sats : Nat] : m.sats \in Int
           /\ \A i \in 1..Len(c.members) : SatsOf(c.members)[i] = c.members[i].sats
           /\ OutSats(c.members) = Total(SatsOf(c.members), Len(c.members))
           /\ OutSats(c.members) \in Int
<1>1. PICK M : M = [who : W, sats : Nat]
  OBVIOUS
<1>2. PICK p : p = c.members /\ p \in Seq(M)
  BY <1>1 DEF PoolIn
<1>3. \A m \in M : m.sats \in Int
  BY <1>1
<1>4. /\ Len(p) \in Nat /\ OutSats(p) = Total(SatsOf(p), Len(p)) /\ OutSats(p) \in Int
      /\ \A i \in 1..Len(p) : SatsOf(p)[i] = p[i].sats /\ p[i].sats \in Int
  BY <1>2, <1>3, OutSatsTotal
<1>5. QED
  BY <1>1, <1>2, <1>3, <1>4, Zenon

OneEach(R) ==
    R \in SUBSET PaymentRequests /\ \A q, r \in R : q.from = r.from => q = r
LEMMA RequestOf ==
    ASSUME NEW R, OneEach(R), NEW who, NEW r \in R, r.from = who
    PROVE  /\ (CHOOSE q \in R : q.from = who) = r
           /\ Spends(R, who) = r.fee + OutSats(r.payments)
<1>1. R \in SUBSET PaymentRequests /\ \A q \in R : q.from = r.from => q = r
  BY DEF OneEach
<1>2. (CHOOSE q \in R : q.from = who) = r
  BY <1>1
<1>3. Own(R, who) = {r}
  BY <1>1 DEF Own
<1>4. {} \in SUBSET PaymentRequests /\ r \in PaymentRequests /\ r \notin {} /\ {} \cup {r} = {r}
  BY <1>1
<1>5. Costs({} \cup {r}) = Cost(r) + Costs({})
  BY <1>4, CostsMore, Zenon
<1>6. Costs({}) = 0 /\ Cost(r) \in Int
  BY <1>4, SumEmpty, CostInt DEF Costs
<1>7. Costs({r}) = Cost(r)
  BY <1>4, <1>5, <1>6
<1>8. Spends(R, who) = Cost(r)
  BY <1>3, <1>7, SpendsAre
<1>9. QED
  BY <1>2, <1>8, Zenon DEF Cost

\* Sums of what one member keeps, pays and leaves as a fee.
LEMMA OneAccount ==
    ASSUME NEW a \in Int, NEW b \in Int, NEW f \in Int, NEW s \in Int, NEW fee \in Int,
           NEW paid \in Int
    PROVE  (a + (s - (fee + paid))) + (b + paid) + (fee + f) = (a + b + f) + s
OBVIOUS
LEMMA KeepsAll ==
    ASSUME NEW a \in Int, NEW b \in Int, NEW f \in Int, NEW s \in Int
    PROVE  (a + (s - 0)) + b + f = (a + b + f) + s
OBVIOUS

LEMMA MembersAccount ==
    ASSUME NEW W, NEW c, PoolIn([who : W, sats : Nat], c), NEW R \in GoodRequests(c),
           NEW n \in 1..Len(c.members), NEW v, NEW p,
           Accounts([who : W, sats : Nat], c, R, n - 1, v, p)
    PROVE  Accounts([who : W, sats : Nat], c, R, n,
                    IF Goes(c, R, n) THEN v ELSE Append(v, Entry(c, R, n)),
                    IF Asks(R, c.members[n].who) THEN p \o PaysOf(c, R, n) ELSE p)
<1>1. PICK M : M = [who : W, sats : Nat]
  OBVIOUS
<1>2. PICK w : w = IF Goes(c, R, n) THEN v ELSE Append(v, Entry(c, R, n))
  OBVIOUS
<1>3. PICK q : q = IF Asks(R, c.members[n].who) THEN p \o PaysOf(c, R, n) ELSE p
  OBVIOUS
<1>4. /\ AskedOf(c, R)
      /\ \A i \in 1..Len(c.members) : Entry(c, R, i) \in M
  BY <1>1, BalanceLeft
<1>5. R \in SUBSET PaymentRequests /\ \A r, s \in R : r.from = s.from => r = s
  BY <1>4 DEF AskedOf
<1>6. PICK s \in Int : s = c.members[n].sats
  BY MemberIs
<1>7. PICK who : who = c.members[n].who
  OBVIOUS
<1>8. PICK e : e = Entry(c, R, n) /\ e \in M /\ e.sats \in Int
  BY <1>1, <1>4, MemberIs
<1>9. e.sats = s - Spends(R, who)
  BY <1>6, <1>7, <1>8 DEF Entry, Rest
<1>10. /\ v \in Seq(M) /\ OutSats(v) \in Int
       /\ p \in Seq(AddressOuts) /\ OutSats(p) \in Int
       /\ FeesOf(FirstAsked(c, R, n - 1)) \in Int
       /\ OutSats(v) + OutSats(p) + FeesOf(FirstAsked(c, R, n - 1)) = Total(SatsOf(c.members), n - 1)
  BY <1>1, Zenon DEF Accounts
<1>11. Total(SatsOf(c.members), n) = Total(SatsOf(c.members), n - 1) + s
  <2>1. Len(c.members) \in Nat /\ \A i \in 1..Len(c.members) :
           SatsOf(c.members)[i] = c.members[i].sats /\ c.members[i].sats \in Int
    BY MemberIs
  <2>2. n - 1 \in Nat /\ (n - 1) + 1 = n /\ \A i \in 1..n : i \in 1..Len(c.members)
    BY <2>1
  <2>3. PICK f : f = SatsOf(c.members)
    OBVIOUS
  <2>4. \A i \in 1..((n - 1) + 1) : f[i] \in Int
    BY <2>1, <2>2, <2>3
  <2>5. Total(f, (n - 1) + 1) = Total(f, n - 1) + f[(n - 1) + 1]
    BY <2>2, <2>4, TotalMore
  <2>6. f[n] = s
    BY <1>6, <2>1, <2>3
  <2>7. QED
    BY <2>2, <2>3, <2>5, <2>6
<1>12. w \in Seq(M) /\ OutSats(w) = OutSats(v) + e.sats
  <2>1. CASE Goes(c, R, n)
    <3>1. e.sats = 0
      BY <1>8, <2>1 DEF Goes, Entry
    <3>2. QED
      BY <1>2, <1>10, <2>1, <3>1
  <2>2. CASE ~Goes(c, R, n)
    <3>1. \A m \in M : m.sats \in Int
      BY <1>1, MemberIs
    <3>2. Append(v, e) \in Seq(M) /\ OutSats(Append(v, e)) = OutSats(v) + e.sats
      BY <1>8, <1>10, <3>1, OutSatsAppend
    <3>3. w = Append(v, e)
      BY <1>2, <1>8, <2>2
    <3>4. QED
      BY <3>2, <3>3
  <2>3. QED
    BY <2>1, <2>2
<1>13. CASE Asks(R, who)
  <2>1. PICK r \in R : r.from = who
    BY <1>13 DEF Asks
  <2>2. PaysOf(c, R, n) = r.payments /\ Spends(R, who) = r.fee + OutSats(r.payments)
    <3>1. OneEach(R)
      BY <1>5, Zenon DEF OneEach
    <3>2. (CHOOSE x \in R : x.from = who) = r /\ Spends(R, who) = r.fee + OutSats(r.payments)
      BY <2>1, <3>1, RequestOf
    <3>3. QED
      BY <1>7, <3>2, Zenon DEF PaysOf
  <2>3. FirstAsked(c, R, n) = FirstAsked(c, R, n - 1) \cup {r}
    <3>1. n \in 1..n /\ \A i \in 1..n : i \in 1..(n - 1) \/ i = n
      BY MemberIs
    <3>2. \A i \in 1..(n - 1) : i \in 1..n
      BY MemberIs
    <3>3. \A x \in R : x.from = who => x = r
      BY <1>5, <2>1
    <3>4. ASSUME NEW x \in R
          PROVE  (\E i \in 1..n : c.members[i].who = x.from)
                   <=> (\E i \in 1..(n - 1) : c.members[i].who = x.from) \/ x = r
      BY <1>7, <2>1, <3>1, <3>2, <3>3, Zenon
    <3>5. QED
      BY <3>4, <2>1 DEF FirstAsked
  <2>4. r \notin FirstAsked(c, R, n - 1)
    <3>1. ASSUME NEW i \in 1..(n - 1), c.members[i].who = r.from PROVE FALSE
      <4>1. i \in 1..Len(c.members) /\ i # n
        BY MemberIs
      <4>2. c.members[i].who = c.members[n].who
        BY <1>7, <2>1, <3>1
      <4>3. QED
        BY <4>1, <4>2 DEF PoolIn
    <3>2. QED
      BY <3>1 DEF FirstAsked
  <2>5. /\ FeesOf(FirstAsked(c, R, n)) = r.fee + FeesOf(FirstAsked(c, R, n - 1))
        /\ r.fee \in Int
    <3>1. FirstAsked(c, R, n - 1) \in SUBSET PaymentRequests /\ r \in PaymentRequests
      BY <1>5 DEF FirstAsked
    <3>2. QED
      BY <2>3, <2>4, <3>1, FeesMore
  <2>6. r.payments \in Seq(AddressOuts) /\ OutSats(r.payments) \in Int
    BY <1>5, PaymentsInSats
  <2>7. q \in Seq(AddressOuts) /\ OutSats(q) = OutSats(p) + OutSats(r.payments)
    <3>1. PICK t : t = r.payments
      OBVIOUS
    <3>2. q = p \o t
      BY <1>3, <1>7, <1>13, <2>2, <3>1, Zenon
    <3>3. p \o t \in Seq(AddressOuts) /\ OutSats(p \o t) = OutSats(p) + OutSats(t)
      BY <1>10, <2>6, <3>1, PaymentsInSats, OutSatsJoin
    <3>4. QED
      BY <3>1, <3>2, <3>3, Zenon
  <2>8. OutSats(w) = OutSats(v) + (s - (r.fee + OutSats(r.payments)))
    BY <1>9, <1>12, <2>2, Zenon
  <2>9. OutSats(w) + OutSats(q) + FeesOf(FirstAsked(c, R, n)) = Total(SatsOf(c.members), n)
    <3>1. (OutSats(v) + (s - (r.fee + OutSats(r.payments)))) + (OutSats(p) + OutSats(r.payments))
             + (r.fee + FeesOf(FirstAsked(c, R, n - 1)))
           = (OutSats(v) + OutSats(p) + FeesOf(FirstAsked(c, R, n - 1))) + s
      <4>1. PICK a, b, f : a = OutSats(v) /\ b = OutSats(p) /\ f = FeesOf(FirstAsked(c, R, n - 1))
        OBVIOUS
      <4>2. PICK fee, paid : fee = r.fee /\ paid = OutSats(r.payments)
        OBVIOUS
      <4>3. a \in Int /\ b \in Int /\ f \in Int /\ fee \in Int /\ paid \in Int
        BY <1>10, <2>5, <2>6, <4>1, <4>2, Zenon
      <4>4. (a + (s - (fee + paid))) + (b + paid) + (fee + f) = (a + b + f) + s
        BY <4>3, OneAccount
      <4>5. QED
        BY <4>1, <4>2, <4>4, Zenon
    <3>2. QED
      <4>1. PICK all, left : /\ all = OutSats(w) + OutSats(q) + FeesOf(FirstAsked(c, R, n))
                             /\ left = (OutSats(v) + OutSats(p) + FeesOf(FirstAsked(c, R, n - 1))) + s
        OBVIOUS
      <4>2. all = left
        BY <2>5, <2>7, <2>8, <3>1, <4>1, Zenon
      <4>3. Total(SatsOf(c.members), n) = left
        BY <1>10, <1>11, <4>1, Zenon
      <4>4. QED
        BY <4>1, <4>2, <4>3
  <2>10. OutSats(w) \in Int /\ OutSats(q) \in Int /\ FeesOf(FirstAsked(c, R, n)) \in Int
    <3>1. OutSats(w) \in Int
      BY <1>8, <1>10, <1>12
    <3>2. OutSats(q) \in Int
      BY <1>10, <2>6, <2>7
    <3>3. FeesOf(FirstAsked(c, R, n)) \in Int
      BY <1>10, <2>5
    <3>4. QED
      BY <3>1, <3>2, <3>3
  <2>11. QED
    BY <1>1, <1>2, <1>3, <1>12, <2>7, <2>9, <2>10, Zenon DEF Accounts
<1>14. CASE ~Asks(R, who)
  <2>1. Spends(R, who) = 0
    BY <1>14, SpendsNothing DEF Asks, Own
  <2>2. FirstAsked(c, R, n) = FirstAsked(c, R, n - 1)
    <3>1. \A i \in 1..n : i \in 1..(n - 1) \/ i = n
      BY MemberIs
    <3>2. \A i \in 1..(n - 1) : i \in 1..n
      BY MemberIs
    <3>3. \A x \in R : c.members[n].who # x.from
      BY <1>7, <1>14 DEF Asks
    <3>4. QED
      BY <3>1, <3>2, <3>3 DEF FirstAsked
  <2>3. q = p
    BY <1>3, <1>7, <1>14
  <2>4. OutSats(w) = OutSats(v) + (s - 0)
    BY <1>9, <1>12, <2>1, Zenon
  <2>5. OutSats(w) + OutSats(q) + FeesOf(FirstAsked(c, R, n)) = Total(SatsOf(c.members), n)
    <3>1. (OutSats(v) + (s - 0)) + OutSats(p) + FeesOf(FirstAsked(c, R, n - 1))
           = (OutSats(v) + OutSats(p) + FeesOf(FirstAsked(c, R, n - 1))) + s
      BY <1>10, KeepsAll
    <3>2. QED
      BY <1>10, <1>11, <2>2, <2>3, <2>4, <3>1, Zenon
  <2>6. OutSats(w) \in Int
    BY <1>8, <1>10, <1>12
  <2>7. QED
    BY <1>1, <1>2, <1>3, <1>10, <1>12, <2>2, <2>3, <2>5, <2>6, Zenon DEF Accounts
<1>15. QED
  BY <1>7, <1>13, <1>14

\* A spend of a pool hands on what its members had.
LEMMA PoolAddsUp ==
    ASSUME NEW W, NEW c, PoolIn([who : W, sats : Nat], c), NEW R \in GoodRequests(c)
    PROVE  /\ OutSats(NewMembers(c, R)) \in Int /\ OutSats(AllPayments(c, R)) \in Int
           /\ FeesOf(R) \in Int
           /\ OutSats(NewMembers(c, R)) + OutSats(AllPayments(c, R)) + FeesOf(R)
                = OutSats(c.members)
<1>1. PICK M : M = [who : W, sats : Nat]
  OBVIOUS
<1>2. PICK last \in Nat : last = Len(c.members)
  BY MemberIs
<1>3. AskedOf(c, R) /\ \A i \in 1..Len(c.members) : Entry(c, R, i) \in M
  BY <1>1, BalanceLeft
<1>4. PICK g : /\ NewMembers(c, R) = g[last] /\ g[0] = <<>>
               /\ \A n \in 1..last : g[n] = IF Goes(c, R, n) THEN g[n - 1]
                                            ELSE Append(g[n - 1], Entry(c, R, n))
  <2>1. \E g : /\ NewMembers(c, R) = g[Len(c.members)]
               /\ g[0] = <<>>
               /\ \A n \in 1..Len(c.members) :
                    g[n] = IF Goes(c, R, n) THEN g[n - 1]
                           ELSE Append(g[n - 1], Entry(c, R, n))
    BY <1>2, <1>3, NewMembersOneByOne
  <2>2. QED
    BY <1>2, <2>1, Zenon
<1>5. PICK k : /\ AllPayments(c, R) = k[last] /\ k[0] = <<>>
               /\ \A n \in 1..last :
                    k[n] = IF Asks(R, c.members[n].who) THEN k[n - 1] \o PaysOf(c, R, n)
                           ELSE k[n - 1]
  <2>1. \E k : /\ AllPayments(c, R) = k[Len(c.members)]
               /\ k[0] = <<>>
               /\ \A n \in 1..Len(c.members) :
                    k[n] = IF Asks(R, c.members[n].who) THEN k[n - 1] \o PaysOf(c, R, n)
                           ELSE k[n - 1]
    BY <1>2, <1>3, AllPaymentsOneByOne DEF AskedOf
  <2>2. QED
    BY <1>2, <2>1, Zenon
<1> DEFINE Good(n) == Accounts(M, c, R, n, g[n], k[n])
<1>6. Good(0)
  BY <1>4, <1>5, NobodyAsked, Zenon
<1>7. ASSUME NEW n \in 1..last, Good(n - 1) PROVE Good(n)
  <2>1. n \in 1..Len(c.members)
    BY <1>2
  <2>2. PICK v, p : v = g[n - 1] /\ p = k[n - 1]
    OBVIOUS
  <2>3. Accounts([who : W, sats : Nat], c, R, n - 1, v, p)
    BY <1>1, <1>7, <2>2, Zenon
  <2>4. Accounts([who : W, sats : Nat], c, R, n,
                 IF Goes(c, R, n) THEN v ELSE Append(v, Entry(c, R, n)),
                 IF Asks(R, c.members[n].who) THEN p \o PaysOf(c, R, n) ELSE p)
    BY <2>1, <2>3, MembersAccount, Zenon
  <2>5. QED
    BY <1>1, <1>4, <1>5, <2>2, <2>4, Zenon
<1>9. Good(last)
  <2> HIDE DEF Good
  <2>1. PICK T : T = {n \in 0..last : Good(n)}
    OBVIOUS
  <2>2. 0 \in T /\ \A n \in 1..last : n - 1 \in T => n \in T
    BY <1>6, <1>7, <2>1
  <2>3. QED
    BY <2>1, <2>2, StepByStep
<1>10. FirstAsked(c, R, last) = R
  BY <1>2, <1>3 DEF FirstAsked, AskedOf
<1>11. Accounts(M, c, R, last, NewMembers(c, R), AllPayments(c, R))
  BY <1>4, <1>5, <1>9, Zenon
<1>12. OutSats(c.members) = Total(SatsOf(c.members), last)
  BY <1>2, MemberIs
<1>13. QED
  BY <1>10, <1>11, <1>12, Zenon DEF Accounts

LEMMA PoolFieldsAre ==
    ASSUME NEW x
    PROVE  PoolFields(x) <=> \E W : PoolIn([who : W, sats : Nat], x)
<1>1. ASSUME NEW W, PoolIn([who : W, sats : Nat], x) PROVE PoolFields(x)
  <2>1. PICK M : M = [who : W, sats : Nat]
    OBVIOUS
  <2>2. PICK p : p = x.members /\ p \in Seq(M)
    BY <1>1, <2>1 DEF PoolIn
  <2>3. /\ Len(p) \in Nat /\ DOMAIN p = 1..Len(p) /\ p = [i \in 1..Len(p) |-> p[i]]
        /\ \A i \in 1..Len(p) : p[i] \in M
    BY <2>2
  <2>4. PICK V : V = {m.who : m \in Range(p)}
    OBVIOUS
  <2>5. PICK N : N = [who : V, sats : Nat]
    OBVIOUS
  <2>6. ASSUME NEW i \in 1..Len(p) PROVE p[i] \in N
    <3>1. p[i] \in [who : W, sats : Nat]
      BY <2>1, <2>3
    <3>2. p[i] \in Range(p)
      BY <2>3 DEF Range
    <3>3. p[i].who \in V
      BY <2>4, <3>2
    <3>4. QED
      BY <2>5, <3>1, <3>3
  <2>7. p \in Seq(N)
    BY <2>3, <2>6
  <2>8. x.members \in Seq(Members(x))
    BY <2>2, <2>4, <2>5, <2>7, Zenon DEF Members
  <2>9. QED
    BY <1>1, <2>8, Zenon DEF PoolIn, PoolFields
<1>2. ASSUME PoolFields(x) PROVE \E W : PoolIn([who : W, sats : Nat], x)
  <2>1. PICK W : W = {m.who : m \in Range(x.members)}
    OBVIOUS
  <2>2. Members(x) = [who : W, sats : Nat]
    BY <2>1, Zenon DEF Members
  <2>3. PoolIn([who : W, sats : Nat], x)
    BY <1>2, <2>2, Zenon DEF PoolIn, PoolFields
  <2>4. QED
    BY <2>3
<1>3. QED
  BY <1>1, <1>2

LEMMA PaymentPoolWay ==
    ASSUME NEW x, x.is = "PaymentPool", NEW sats, NEW way \in Ways(Holding(x, sats))
    PROVE  \/ \E name, guard : way = Finish(name, guard)
           \/ \E guard : \E R \in GoodRequests(x) : way = Suggestion("do_tx", guard, DoTx(x, R), R)
           \/ Len(x.members) > 1 /\ way = Template("ejection", Trivial, Tx(Ejection(x)))
<1>1. PICK coin : coin = Holding(x, sats) /\ coin.contract = x
  BY HoldingIs
<1>2. Ways(coin) = PaymentPoolWays(x)
  BY <1>1, Zenon DEF Ways
<1>3. QED
  BY <1>1, <1>2 DEF PaymentPoolWays

\* What an update and an ejection hand on.
LEMMA UpdateOuts ==
    ASSUME NEW W, NEW c, PoolIn([who : W, sats : Nat], c), NEW R \in GoodRequests(c)
    PROVE  /\ \E y, spends :
                /\ DoTx(c, R).outs = <<Out(y, OutSats(y.members))>> \o spends
                /\ PoolIn([who : W, sats : Nat], y)
                /\ spends \in Seq(Range(spends))
                /\ \A o \in Range(spends) : IsAddress(o.to) \/ TreeOf(o.to, o.sats)
           /\ OutSats(DoTx(c, R).outs) + DoTx(c, R).fees = OutSats(c.members)
           /\ OutSats(c.members) \in Int
<1>1. PICK M : M = [who : W, sats : Nat]
  OBVIOUS
<1>2. PICK all : all = AllPayments(c, R) /\ all \in Seq(AddressOuts)
  <2>1. R \in SUBSET PaymentRequests /\ Len(c.members) \in Nat
    BY BalanceLeft, MemberIs DEF AskedOf
  <2>2. QED
    BY <2>1, AllPaymentsOfThem
<1>3. PICK members : members = NewMembers(c, R)
  OBVIOUS
<1>4. PICK y : y = PaymentPool(members, c.sequence + 1)
  OBVIOUS
<1>5. y.members = members /\ y.sequence = c.sequence + 1 /\ y = PaymentPool(y.members, y.sequence)
  BY <1>4 DEF PaymentPool
<1>6. members \in Seq(M) /\ Kept(c, R, Len(c.members), members)
  <2>1. Len(c.members) \in Nat /\ \A i \in 1..Len(c.members) : Entry(c, R, i) \in M
    BY <1>1, BalanceLeft, MemberIs
  <2>2. \A i, j \in 1..Len(c.members) : c.members[i].who = c.members[j].who => i = j
    BY DEF PoolIn
  <2>3. QED
    BY <1>3, <2>1, <2>2, NewMembersKept
<1>7. PoolIn(M, y)
  <2>1. c.sequence + 1 \in Nat
    BY DEF PoolIn
  <2>2. \A i, j \in 1..Len(members) : members[i].who = members[j].who => i = j
    BY <1>6, Zenon DEF Kept
  <2>3. QED
    BY <1>5, <1>6, <2>1, <2>2, Zenon DEF PoolIn
<1>8. /\ OutSats(members) \in Int /\ OutSats(all) \in Int /\ FeesOf(R) \in Int
      /\ OutSats(members) + OutSats(all) + FeesOf(R) = OutSats(c.members)
  BY <1>2, <1>3, PoolAddsUp
<1>9. PICK spends : spends = IF Len(all) > 4 THEN <<Out(TreePay(all, 4), OutSats(all))>> ELSE all
  OBVIOUS
<1>10. PICK S : /\ spends \in Seq(S) /\ OutSats(spends) = OutSats(all)
                /\ \A o \in S : (IsAddress(o.to) \/ TreeOf(o.to, o.sats)) /\ o.sats \in Int
  <2>1. CASE Len(all) > 4
    <3>1. PICK o : o = Out(TreePay(all, 4), OutSats(all))
      OBVIOUS
    <3>2. o.to = TreePay(all, 4) /\ o.sats = OutSats(all)
      BY <3>1 DEF Out
    <3>3. Payees(all)
      BY <1>2, PaymentsInSats, ArePayees
    <3>4. TreeOf(TreePay(all, 4), OutSats(all))
      <4>1. PICK t : t = TreePay(all, 4)
        OBVIOUS
      <4>2. t.participants = all /\ t.radix = 4 /\ 4 \in Nat \ {0}
        BY <4>1 DEF TreePay
      <4>3. QED
        BY <3>3, <4>1, <4>2, Zenon DEF TreeOf
    <3>5. spends = <<o>>
      BY <1>9, <2>1, <3>1
    <3>6. OutSats(<<o>>) = o.sats
      BY <1>8, <3>2, SumOne
    <3>7. <<o>> \in Seq({o})
      OBVIOUS
    <3>8. spends \in Seq({o}) /\ OutSats(spends) = OutSats(all)
      BY <3>2, <3>5, <3>6, <3>7, Zenon
    <3>9. TreeOf(o.to, o.sats) /\ o.sats \in Int
      BY <1>8, <3>2, <3>4, Zenon
    <3>10. \A q \in {o} : (IsAddress(q.to) \/ TreeOf(q.to, q.sats)) /\ q.sats \in Int
      BY <3>9, Zenon
    <3>11. PICK T : T = {o}
      OBVIOUS
    <3>12. /\ spends \in Seq(T) /\ OutSats(spends) = OutSats(all)
           /\ \A q \in T : (IsAddress(q.to) \/ TreeOf(q.to, q.sats)) /\ q.sats \in Int
      BY <3>8, <3>10, <3>11, Zenon
    <3>13. QED
      BY <3>12, Zenon
  <2>2. CASE ~(Len(all) > 4)
    BY <1>2, <1>9, <2>2, PaymentsInSats
  <2>3. QED
    BY <2>1, <2>2
<1>11. PICK first : first = Out(y, OutSats(y.members))
  OBVIOUS
<1>12. first.sats = OutSats(members)
  BY <1>5, <1>11 DEF Out
<1>13. PICK outs : outs = <<first>> \o spends
  OBVIOUS
<1>14. PICK fees : fees = SumFunction([r \in R |-> r.fee])
  OBVIOUS
<1>15. fees = FeesOf(R)
  BY <1>14 DEF FeesOf, SumFunction
<1>16. PICK tx : tx = DoTx(c, R)
  OBVIOUS
<1>17. tx = WithFees(outs, fees)
  BY <1>2, <1>3, <1>4, <1>9, <1>11, <1>13, <1>14, <1>16 DEF DoTx, WithFees
<1>18. tx.outs = outs /\ tx.fees = fees
  BY <1>17 DEF WithFees, Tx
<1>19. OutSats(outs) = OutSats(members) + OutSats(all)
  <2>1. PICK T : T = S \cup {first}
    OBVIOUS
  <2>2. PICK s : s = <<first>>
    OBVIOUS
  <2>3. s \in Seq(T) /\ spends \in Seq(T) /\ \A o \in T : o.sats \in Int
    BY <1>8, <1>10, <1>12, <2>1, <2>2
  <2>4. OutSats(s \o spends) = OutSats(s) + OutSats(spends)
    BY <2>3, OutSatsJoin
  <2>5. OutSats(s) = OutSats(members)
    BY <1>8, <1>12, <2>2, SumOne
  <2>6. QED
    BY <1>10, <1>13, <2>2, <2>4, <2>5, Zenon
<1>20. OutSats(tx.outs) + tx.fees = OutSats(c.members)
  BY <1>8, <1>15, <1>18, <1>19, Zenon
<1>21. spends \in Seq(Range(spends)) /\ \A o \in Range(spends) : o \in S
  <2>1. Len(spends) \in Nat /\ DOMAIN spends = 1..Len(spends) /\ spends = [i \in 1..Len(spends) |-> spends[i]]
        /\ \A i \in 1..Len(spends) : spends[i] \in S
    BY <1>10
  <2>2. \A i \in 1..Len(spends) : spends[i] \in Range(spends)
    BY <2>1 DEF Range
  <2>3. \A o \in Range(spends) : o \in S
    BY <2>1 DEF Range
  <2>4. spends \in Seq(Range(spends))
    BY <2>1, <2>2
  <2>5. QED
    BY <2>3, <2>4
<1>22. \A o \in Range(spends) : IsAddress(o.to) \/ TreeOf(o.to, o.sats)
  BY <1>10, <1>21, Zenon
<1>23. tx.outs = <<Out(y, OutSats(y.members))>> \o spends
  BY <1>11, <1>13, <1>18, Zenon
<1>24. OutSats(c.members) \in Int
  BY MemberIs
<1>25. QED
  BY <1>1, <1>7, <1>16, <1>20, <1>21, <1>22, <1>23, <1>24, Zenon

LEMMA EjectionOuts ==
    ASSUME NEW W, NEW c, PoolIn([who : W, sats : Nat], c), Len(c.members) > 1
    PROVE  /\ \E x, y : /\ Ejection(c) = <<Out(x, OutSats(x.members)), Out(y, OutSats(y.members))>>
                        /\ PoolIn([who : W, sats : Nat], x) /\ PoolIn([who : W, sats : Nat], y)
           /\ OutSats(Ejection(c)) = OutSats(c.members) /\ OutSats(c.members) \in Int
<1>1. PICK M : M = [who : W, sats : Nat]
  OBVIOUS
<1>2. PICK last \in Nat : last = Len(c.members) /\ last > 1
  BY DEF PoolIn
<1>3. PICK mid : mid = (last + 1) \div 2
  OBVIOUS
<1>4. mid \in Nat /\ 1 <= mid /\ mid < last
  BY <1>2, <1>3, Middle
<1>5. PICK x : x = PaymentPool(SubSeq(c.members, 1, mid), c.sequence + 1)
  OBVIOUS
<1>6. PICK y : y = PaymentPool(SubSeq(c.members, mid + 1, last), c.sequence + 1)
  OBVIOUS
<1>7. PoolIn(M, x)
  <2>1. 1 \in Nat \ {0} /\ mid \in Nat /\ mid <= Len(c.members) /\ 1 <= mid + 1
    BY <1>2, <1>4
  <2>2. HalfOf([who : W, sats : Nat], c, 1, mid, x)
    BY <1>5, <2>1, HalfIs
  <2>3. QED
    BY <1>1, <2>2 DEF HalfOf, NextPool
<1>8. PoolIn(M, y)
  <2>1. mid + 1 \in Nat \ {0} /\ last <= Len(c.members) /\ mid + 1 <= last + 1
    BY <1>2, <1>4
  <2>2. HalfOf([who : W, sats : Nat], c, mid + 1, last, y)
    BY <1>6, <2>1, HalfIs
  <2>3. QED
    BY <1>1, <2>2 DEF HalfOf, NextPool
<1>9. PICK left, right : /\ left = SubSeq(c.members, 1, mid)
                         /\ right = SubSeq(c.members, mid + 1, last)
  OBVIOUS
<1>10. x.members = left /\ y.members = right
  BY <1>5, <1>6, <1>9 DEF PaymentPool
<1>11. PICK outs : outs = Ejection(c)
  OBVIOUS
<1>12. outs = <<Out(x, OutSats(left)), Out(y, OutSats(right))>>
  <2>1. mid = (Len(c.members) + 1) \div 2 /\ last = Len(c.members)
    BY <1>2, <1>3, Zenon
  <2>2. QED
    BY <1>5, <1>6, <1>9, <1>11, <2>1, Zenon DEF Ejection
<1>13. /\ OutSats(left) \in Int /\ OutSats(right) \in Int
       /\ OutSats(left) + OutSats(right) = OutSats(c.members)
  <2>1. PICK p : p = c.members /\ p \in Seq(M)
    BY <1>1 DEF PoolIn
  <2>2. \A m \in M : m.sats \in Int
    BY <1>1, MemberIs
  <2>3. mid <= Len(p) /\ last = Len(p)
    BY <1>2, <1>4, <2>1
  <2>4. /\ OutSats(SubSeq(p, 1, mid)) \in Int /\ OutSats(SubSeq(p, mid + 1, Len(p))) \in Int
        /\ OutSats(SubSeq(p, 1, mid)) + OutSats(SubSeq(p, mid + 1, Len(p))) = OutSats(p)
    BY <1>4, <2>1, <2>2, <2>3, OutSatsHalves
  <2>5. QED
    BY <1>9, <2>1, <2>3, <2>4, Zenon
<1>14. OutSats(outs) = OutSats(c.members)
  <2>1. PICK a, b : a = Out(x, OutSats(left)) /\ b = Out(y, OutSats(right))
    OBVIOUS
  <2>2. a.sats = OutSats(left) /\ b.sats = OutSats(right)
    BY <2>1 DEF Out
  <2>3. OutSats(<<a, b>>) = a.sats + b.sats
    BY <1>13, <2>2, SumTwo
  <2>4. QED
    BY <1>12, <1>13, <2>1, <2>2, <2>3, Zenon
<1>15. OutSats(c.members) \in Int
  BY MemberIs
<1>16. QED
  BY <1>1, <1>7, <1>8, <1>10, <1>11, <1>12, <1>14, <1>15, Zenon

\* A pool that holds its balances is sound.
LEMMA PoolSound ==
    ASSUME NEW W, NEW x, PoolIn([who : W, sats : Nat], x), NEW sats, OutSats(x.members) = sats,
           NEW dust \in Nat
    PROVE  Sound(x, sats, dust)
<1>1. x.is = "PaymentPool"
  <2>1. x = PaymentPool(x.members, x.sequence)
    BY Zenon DEF PoolIn
  <2>2. QED
    BY <2>1 DEF PaymentPool
<1>2. Fit(x, dust)
  <2>1. PoolFields(x)
    BY PoolFieldsAre
  <2>2. QED
    BY <1>1, <2>1, Zenon DEF Fit, Formed, Library, IsWork
<1>3. sats \in Int
  BY MemberIs
<1>4. ASSUME NEW way \in Ways(Holding(x, sats)) PROVE Funds(way, sats, dust)
  <2>1. CASE \E name, guard : way = Finish(name, guard)
    BY <2>1, FinishFunds
  <2>2. ASSUME NEW guard, NEW R \in GoodRequests(x), way = Suggestion("do_tx", guard, DoTx(x, R), R)
        PROVE  Funds(way, sats, dust)
    <3>1. PICK tx : tx = DoTx(x, R)
      OBVIOUS
    <3>2. OutSats(tx.outs) + tx.fees = sats
      BY <3>1, UpdateOuts
    <3>3. way.tx = tx
      BY <2>2, <3>1, SuggestionIs
    <3>4. OutSats(way.tx.outs) + way.tx.fees = sats
      BY <3>2, <3>3
    <3>5. QED
      BY <1>3, <3>4, ExactFunds
  <2>3. CASE Len(x.members) > 1 /\ way = Template("ejection", Trivial, Tx(Ejection(x)))
    <3>1. PICK outs : outs = Ejection(x)
      OBVIOUS
    <3>2. way.tx.outs = outs /\ way.tx.fees = 0
      BY <2>3, <3>1, PlainWay
    <3>3. OutSats(outs) = sats
      BY <2>3, <3>1, EjectionOuts
    <3>4. OutSats(way.tx.outs) + way.tx.fees = sats
      BY <1>3, <3>2, <3>3
    <3>5. QED
      BY <1>3, <3>4, ExactFunds
  <2>4. QED
    BY <1>1, <2>1, <2>2, <2>3, PaymentPoolWay
<1>5. FundedCoin(Holding(x, sats), dust)
  BY <1>4, FundedIs, HoldingIs
<1>6. QED
  BY <1>2, <1>3, <1>5 DEF Sound

\* A pool leads to pools of those who stay, and to trees and addresses.
LEMMA PaymentPoolLeads ==
    ASSUME NEW x, x.is = "PaymentPool", NEW sats, NEW dust \in Nat, Fit(x, dust)
    PROVE  Leads(x, sats, dust)
<1>1. PICK W : PoolIn([who : W, sats : Nat], x)
  <2>1. PoolFields(x)
    BY Zenon DEF Fit, Formed
  <2>2. QED
    BY <2>1, PoolFieldsAre
<1>2. ASSUME NEW y, PoolIn([who : W, sats : Nat], y) PROVE Sound(y, OutSats(y.members), dust)
  BY <1>2, PoolSound
<1>3. ASSUME NEW way \in Ways(Holding(x, sats)) PROVE SoundOuts(way.tx.outs, dust)
  <2>1. CASE \E name, guard : way = Finish(name, guard)
    BY <2>1, FinishLeads
  <2>2. ASSUME NEW guard, NEW R \in GoodRequests(x), way = Suggestion("do_tx", guard, DoTx(x, R), R)
        PROVE  SoundOuts(way.tx.outs, dust)
    <3>1. PICK y, spends :
            /\ DoTx(x, R).outs = <<Out(y, OutSats(y.members))>> \o spends
            /\ PoolIn([who : W, sats : Nat], y)
            /\ spends \in Seq(Range(spends))
            /\ \A o \in Range(spends) : IsAddress(o.to) \/ TreeOf(o.to, o.sats)
      BY <1>1, UpdateOuts
    <3>2. PICK first : first = Out(y, OutSats(y.members))
      OBVIOUS
    <3>3. PICK outs : outs = <<first>> \o spends
      OBVIOUS
    <3>4. way.tx.outs = outs
      <4>1. way.tx = DoTx(x, R)
        BY <2>2, SuggestionIs
      <4>2. QED
        BY <3>1, <3>2, <3>3, <4>1, Zenon
    <3>5. first.to = y /\ first.sats = OutSats(y.members)
      BY <3>2 DEF Out
    <3>6. /\ Len(spends) \in Nat /\ Len(outs) = Len(spends) + 1 /\ outs[1] = first
          /\ \A i \in 2..(Len(spends) + 1) : i - 1 \in 1..Len(spends) /\ outs[i] = spends[i - 1]
      BY <3>1, <3>3, Prepended
    <3>7. Sound(first.to, first.sats, dust)
      BY <1>2, <3>1, <3>5
    <3>8. ASSUME NEW i \in 1..Len(outs)
          PROVE  IsAddress(outs[i].to) \/ Sound(outs[i].to, outs[i].sats, dust)
      <4>1. CASE i = 1
        BY <3>6, <3>7, <4>1
      <4>2. CASE i # 1
        <5>1. i - 1 \in 1..Len(spends) /\ outs[i] = spends[i - 1]
          BY <3>6, <4>2
        <5>2. outs[i] \in Range(spends)
          BY <3>1, <5>1
        <5>3. IsAddress(outs[i].to) \/ TreeOf(outs[i].to, outs[i].sats)
          BY <3>1, <5>2, Zenon
        <5>4. QED
          BY <5>3, TreeSound
      <4>3. QED
        BY <4>1, <4>2
    <3>9. QED
      BY <3>4, <3>8, Zenon DEF SoundOuts
  <2>3. CASE Len(x.members) > 1 /\ way = Template("ejection", Trivial, Tx(Ejection(x)))
    <3>1. PICK outs : outs = Ejection(x)
      OBVIOUS
    <3>2. way.tx.outs = outs
      BY <2>3, <3>1, PlainWay
    <3>3. PICK y, z :
            /\ outs = <<Out(y, OutSats(y.members)), Out(z, OutSats(z.members))>>
            /\ PoolIn([who : W, sats : Nat], y) /\ PoolIn([who : W, sats : Nat], z)
      BY <1>1, <2>3, <3>1, EjectionOuts
    <3>4. PICK a, b : a = Out(y, OutSats(y.members)) /\ b = Out(z, OutSats(z.members))
      OBVIOUS
    <3>5. /\ a.to = y /\ a.sats = OutSats(y.members)
          /\ b.to = z /\ b.sats = OutSats(z.members)
      BY <3>4 DEF Out
    <3>6. Sound(a.to, a.sats, dust) /\ Sound(b.to, b.sats, dust)
      BY <1>2, <3>3, <3>5
    <3>7. SoundOuts(<<a, b>>, dust)
      BY <3>6, TwoOutsLead
    <3>8. QED
      BY <3>2, <3>3, <3>4, <3>7, Zenon
  <2>4. QED
    BY <2>1, <2>2, <2>3, PaymentPoolWay
<1>4. QED
  BY <1>3 DEF Leads

-----------------------------------------------------------------------------
(* The sats of every coin. *)

\* Each contract hands on what the contracts it pays need.
LEMMA SoundLeads ==
    ASSUME NEW x, NEW sats, NEW dust \in Nat, Sound(x, sats, dust)
    PROVE  Leads(x, sats, dust)
<1>1. sats \in Int /\ (Fit(x, dust) \/ IsBundle(x, sats))
  BY DEF Sound
<1>2. CASE IsBundle(x, sats)
  BY <1>2, BundleLeads
<1>3. CASE Fit(x, dust)
  <2>1. CASE x.is \in {"TreePay", "FeeTreePay", "MiningPayout", "TrampolinePay"}
    BY <1>3, <2>1, TreeLeads, FeeTreeLeads, TrampolineLeads
  <2>2. CASE x.is \in {"CoinPool", "PaymentPool"}
    BY <1>1, <1>3, <2>2, CoinPoolLeads, PaymentPoolLeads
  <2>3. CASE x.is \in {"Hanukkiah", "Hanukkiah2", "Hanukkiah2Night"}
    BY <1>3, <2>3, HanukkiahLeads, NightsLead, NightLeads
  <2>4. CASE x.is \in {"UndoSend", "Vault", "JamesVault"}
    BY <1>1, <1>3, <2>4, UndoLeads, VaultLeads, JamesLeads
  <2>5. CASE x.is \in {"HodlChicken", "Staker", "Channel", "FederatedPegIn"}
    BY <1>1, <1>3, <2>5, ChickenLeads, StakerLeads, ChannelLeads, PegInLeads
  <2>6. CASE x.is \in {"BasicEscrow", "BasicEscrow2", "ExampleA", "PayToPublicKey"}
    BY <2>6, FinishesLead
  <2>7. CASE x.is \in {"TrustlessEscrow", "ExampleCompileIf", "ExampleB", "ChainReturn"}
    BY <1>3, <2>7, EscrowLeads, ExampleBLeads, ChainLeads
  <2>8. CASE x.is \in {"GenericBet", "ExplodingOption", "UnderFunded"}
    BY <1>3, <2>8, BetLeads, OptionLeads
  <2>9. CASE x.is \in {"DLCContract", "PowSwap"}
    BY <1>3, <2>9, DlcLeads, SwapLeads
  <2>10. CASE x.is \in {"SimpleNFT", "SimpleNFTSale", "NFTDutchAuction"}
    BY <1>1, <1>3, <2>10, NftLeads, TransfersLead
  <2>11. x.is \in Library
    BY <1>3, Zenon DEF Fit, Formed
  <2>12. QED
    BY <2>1, <2>2, <2>3, <2>4, <2>5, <2>6, <2>7, <2>8, <2>9, <2>10, <2>11 DEF Library
<1>4. QED
  BY <1>1, <1>2, <1>3

\* The parts of cold storage that come to no more than a step make it up.
LEMMA PartsFit ==
    ASSUME NEW max \in Nat \ {0}, NEW step \in Nat, max * ((step + max - 1) \div max) <= step
    PROVE  step % max = 0
<1> PICK n \in Nat : n = step + max - 1
  OBVIOUS
<1>1. PICK q \in Nat : q = n \div max
  BY Quotient
<1>2. n < q * max + max /\ max * q <= step
  BY <1>1, Quotient
<1>3. step = max * q
  BY <1>1, <1>2
<1>4. \A m \in Nat \ {0}, k \in Nat : (m * k) % m = 0
  OBVIOUS
<1>5. QED
  BY <1>3, <1>4

LEMMA VaultFits ==
    ASSUME NEW c, NEW sats, VaultFields(c), c.is = "Vault", c.steps # 0,
           VaultCompiles(c, sats), ~ShortTree(c)
    PROVE  IsAddress(c.cold) \/ c.step % c.cold.max = 0
<1>1. SUFFICES ASSUME c.cold.is # "Address" PROVE c.step % c.cold.max = 0
  BY DEF IsAddress
<1>2. PICK max \in Nat \ {0}, step \in Nat, steps \in Nat \ {0} :
        max = c.cold.max /\ step = c.step /\ steps = c.steps
  BY <1>1 DEF VaultFields, Address
<1>3. PICK cold \in Nat : cold = max * ((step + max - 1) \div max) /\ cold = ColdSats(c.cold, step)
  <2>1. step + max - 1 \in Nat
    OBVIOUS
  <2>2. max * ((step + max - 1) \div max) \in Nat
    BY <2>1, Quotient, TimesNat
  <2>3. QED
    BY <1>1, <1>2, <2>2 DEF ColdSats
<1>4. cold <= step
  <2>1. CASE steps = 1
    BY <1>2, <1>3, <2>1 DEF ShortTree
  <2>2. CASE steps # 1
    <3>1. 1 \in 1..c.steps /\ step * 1 = step
      BY <1>2
    <3>2. QED
      BY <1>2, <1>3, <2>2, <3>1 DEF VaultCompiles
  <2>3. QED
    BY <2>1, <2>2
<1>5. QED
  BY <1>2, <1>3, <1>4, PartsFit

\* The contracts of a vault whose cold storage may be short lead to such.
LEMMA AstrayLeads ==
    ASSUME NEW v, NEW x, NEW sats, NEW dust \in Nat, Astray(v, x, sats, dust),
           NEW way \in Ways(Holding(x, sats)), NEW i \in 1..Len(way.tx.outs)
    PROVE  LET o == way.tx.outs[i] IN IsAddress(o.to) \/ Astray(v, o.to, o.sats, dust)
<1>1. PICK s, sent, coin, outs :
        /\ s \in Nat /\ s = v.step /\ coin = Holding(x, sats) /\ coin.contract = x /\ outs = way.tx.outs
        /\ sent = UndoSend(ColdStorage(v.cold, s), v.hot, s, v.mature)
  BY HoldingIs DEF Astray, VaultFields
<1>2. /\ VaultFields(v) /\ v.is = "Vault" /\ v.steps = 1 /\ v.cold.is # "Address"
      /\ IsAddress(v.hot) /\ s * 1 = s
  <2>1. v.steps = 1 /\ v.cold.is # "Address" /\ s * 1 = s
    BY <1>1 DEF Astray, ShortTree, ColdSats
  <2>2. QED
    BY <2>1 DEF Astray, ShortTree, VaultFields, IsAddress, Address
<1>3. ColdTree(v, ColdStorage(v.cold, s))
  BY <1>1, <1>2, ColdStorageIs DEF ColdTree
<1>4. Astray(v, sent, s, dust)
  BY <1>1, UndoFunded DEF Astray
<1>5. ASSUME NEW y, outs = <<Out(y, s)>>, IsAddress(y) \/ ColdTree(v, y) \/ y = sent
      PROVE  IsAddress(outs[i].to) \/ Astray(v, outs[i].to, outs[i].sats, dust)
  <2>1. outs[i].to = y /\ outs[i].sats = s
    BY <1>1, <1>5 DEF Out
  <2>2. QED
    BY <1>4, <1>5, <2>1, Zenon DEF Astray
<1>6. CASE ColdTree(v, x)
  <2>1. PICK p \in Seq({PayTo(v.cold.who, v.cold.max)}) : x = TreePay(p, v.cold.radix)
    BY <1>6 DEF ColdTree
  <2>2. PICK radix \in Nat \ {0} : radix = v.cold.radix
    BY <1>2 DEF VaultFields, Address
  <2>3. \/ outs = p
        \/ \A k \in 1..Len(outs) : \E q \in Seq({PayTo(v.cold.who, v.cold.max)}) :
              outs[k].to = TreePay(q, radix)
    <3>1. coin.contract = TreePay(p, radix) /\ way \in Ways(coin)
      BY <1>1, <2>1, <2>2
    <3>2. QED
      BY <1>1, <3>1, TreeOuts
  <2>4. CASE outs = p
    <3>1. outs[i] = PayTo(v.cold.who, v.cold.max)
      BY <1>1, <2>4
    <3>2. QED
      BY <1>1, <3>1 DEF PayTo, Out, IsAddress, Address
  <2>5. QED
    BY <1>1, <2>2, <2>3, <2>4 DEF Astray, ColdTree
<1>7. CASE x = v
  <2>1. \/ way = Template("to_cold", Trivial, Tx(<<Out(ColdStorage(v.cold, s), s)>>))
        \/ way = Template("step", Trivial, SeqTx(<<Out(sent, s)>>, v.timeout))
    <3>1. ~(v.steps > 1) /\ <<Out(sent, s)>> \o <<>> = <<Out(sent, s)>>
      BY <1>2
    <3>2. QED
      BY <1>1, <1>2, <1>7, <3>1, VaultWay, Zenon
  <2>2. outs = <<Out(ColdStorage(v.cold, s), s)>> \/ outs = <<Out(sent, s)>>
    BY <1>1, <2>1, PlainWay, SeqWay
  <2>3. QED
    BY <1>1, <1>3, <1>5, <2>2
<1>8. CASE x = sent
  <2>1. /\ x.is = "UndoSend" /\ x.from = ColdStorage(v.cold, s) /\ x.to = v.hot /\ x.sats = s
    BY <1>1, <1>8 DEF UndoSend
  <2>2. \/ way = Template("undo", Trivial, Tx(<<Out(x.from, s)>>))
        \/ way = Template("complete", Trivial, SeqTx(<<Out(x.to, s)>>, x.timeout))
    BY <2>1, UndoWay
  <2>3. outs = <<Out(x.from, s)>> \/ outs = <<Out(x.to, s)>>
    BY <1>1, <2>2, PlainWay, SeqWay
  <2>4. QED
    BY <1>1, <1>2, <1>3, <1>5, <2>1, <2>3
<1>9. QED
  BY <1>1, <1>6, <1>7, <1>8 DEF Astray

LEMMA FundsInvInit == ASSUME Init PROVE FundsInv
<1>1. PICK c, sats, dust : c = Plays[play].contract /\ sats = Plays[play].sats /\ dust = Plays[play].dust
  OBVIOUS
<1>2. PICK zero : zero = [blocks |-> 0, time |-> 0]
  OBVIOUS
<1>3. play \in DOMAIN Plays /\ Compiles(c, sats) /\ coins = {Coin(<<>>, c, sats, zero)}
  BY <1>1, <1>2 DEF Init
<1>4. sats \in Nat /\ dust \in Nat /\ Formed(c, dust) /\ FundedCoin(Coin(<<>>, c, sats, zero), dust)
  BY <1>1, <1>2, <1>3, FundingAssumption, Zenon
<1>5. PICK coin : coin = Coin(<<>>, c, sats, zero)
  OBVIOUS
<1>6. coin.contract = c /\ coin.sats = sats
  BY <1>5 DEF Coin
<1>7. FundedCoin(Holding(c, sats), dust)
  <2>1. Ways(coin) = Ways(Holding(c, sats))
    BY <1>6, WaysOfHolding
  <2>2. \A way \in Ways(coin) : Funds(way, sats, dust)
    BY <1>4, <1>5, <1>6, FundedIs
  <2>3. QED
    BY <2>1, <2>2, FundedIs, HoldingIs
<1>8. Sound(c, sats, dust) \/ Astray(c, c, sats, dust)
  <2>1. c.is = "Vault" => VaultFields(c) /\ c.steps # 0 /\ VaultCompiles(c, sats)
    BY <1>3, <1>4, Zenon DEF Formed, Compiles
  <2>2. CASE ShortTree(c)
    BY <1>7, <2>1, <2>2 DEF Astray, ShortTree
  <2>3. CASE ~ShortTree(c)
    BY <1>4, <1>7, <2>1, <2>3, VaultFits DEF Sound, Fit
  <2>4. QED
    BY <2>2, <2>3
<1>9. QED
  BY <1>1, <1>3, <1>4, <1>5, <1>6, <1>8 DEF FundsInv

LEMMA FundsInvNext == ASSUME FundsInv, [Next]_vars PROVE FundsInv'
<1>1. CASE UNCHANGED <<play, coins>>
  BY <1>1 DEF FundsInv
<1>2. ASSUME NEW coin \in coins, NEW way \in Ways(coin), Spend(coin, way) PROVE FundsInv'
  <2>1. play' = play /\ coins' = (coins \ {coin}) \cup NewCoins(coin, way)
    BY <1>2 DEF Spend
  <2>2. PICK dust, v : dust \in Nat /\ dust = Plays[play].dust /\ v = Plays[play].contract
    BY DEF FundsInv
  <2>3. PICK x, sats : x = coin.contract /\ sats = coin.sats
    OBVIOUS
  <2>4. Sound(x, sats, dust) \/ Astray(v, x, sats, dust)
    BY <2>2, <2>3 DEF FundsInv
  <2>5. way \in Ways(Holding(x, sats))
    BY <2>3, WaysOfHolding
  <2>6. \A i \in 1..Len(way.tx.outs) :
          LET o == way.tx.outs[i]
          IN  IsAddress(o.to) \/ Sound(o.to, o.sats, dust) \/ Astray(v, o.to, o.sats, dust)
    <3>1. CASE Sound(x, sats, dust)
      BY <2>2, <2>5, <3>1, SoundLeads DEF Leads, SoundOuts
    <3>2. CASE Astray(v, x, sats, dust)
      BY <2>2, <2>5, <3>2, AstrayLeads
    <3>3. QED
      BY <2>4, <3>1, <3>2
  <2>7. ASSUME NEW c \in NewCoins(coin, way)
        PROVE  Sound(c.contract, c.sats, dust) \/ Astray(v, c.contract, c.sats, dust)
    <3>1. PICK i \in 1..Len(way.tx.outs) :
            /\ way.tx.outs[i].to.is # "Address"
            /\ c.contract = way.tx.outs[i].to /\ c.sats = way.tx.outs[i].sats
      BY NewCoinsAre
    <3>2. QED
      BY <2>6, <3>1 DEF IsAddress
  <2>8. \A c \in coins' : Sound(c.contract, c.sats, dust) \/ Astray(v, c.contract, c.sats, dust)
    BY <2>1, <2>2, <2>7 DEF FundsInv
  <2>9. QED
    BY <2>1, <2>2, <2>8 DEF FundsInv
<1>3. QED
  BY <1>1, <1>2 DEF Next, SomeSpend, SomeTick, Tick, vars

\* AlwaysFunded for every play of the library's contracts.
THEOREM AlwaysFundedHolds == Spec => []AlwaysFunded
<1>1. Init => FundsInv
  BY FundsInvInit
<1>2. FundsInv /\ [Next]_vars => FundsInv'
  BY FundsInvNext
<1>3. FundsInv => AlwaysFunded
  <2> SUFFICES ASSUME FundsInv, NEW coin \in coins, ~ShortOfSats(coin)
               PROVE  FundedCoin(coin, Plays[play].dust)
    BY DEF AlwaysFunded
  <2>1. PICK dust, v : dust = Plays[play].dust /\ v = Plays[play].contract
    OBVIOUS
  <2>2. FundedCoin(Holding(coin.contract, coin.sats), dust)
    <3>1. ColdTree(v, coin.contract) => coin.contract.is = "TreePay"
      BY DEF ColdTree, TreePay
    <3>2. QED
      BY <2>1, <3>1 DEF FundsInv, Sound, Astray, ShortOfSats
  <2>3. \A way \in Ways(coin) : Funds(way, coin.sats, dust)
    BY <2>2, FundedIs, HoldingIs, WaysOfHolding
  <2>4. QED
    BY <2>1, <2>3, FundedIs
<1>4. QED
  BY <1>1, <1>2, <1>3, PTL DEF Spec

-----------------------------------------------------------------------------
(* What a tree of payments owes each of its payees.  An output together     *)
(* with what somebody gets out of it is written Out(output, sats), so that  *)
(* the lemmas about amounts in a row apply.                                 *)

LEMMA DueIs ==
    ASSUME NEW who, NEW o, o.sats \in Nat
    PROVE  Due(who, o) \in Nat
BY DEF Due

\* Payments are worth what they say to whom they pay.
LEMMA WorthsAre ==
    ASSUME NEW who, NEW p, Payees(p)
    PROVE  \E S : /\ \A kind : Owing(who, kind, S)
                  /\ Worths(who, p) \in Seq(S)
                  /\ Prices(Worths(who, p), p, Dues(who, p))
                  /\ Weighs(S, p, Dues(who, p))
<1>1. Len(p) \in Nat /\ \A i \in 1..Len(p) : IsAddress(p[i].to) /\ p[i].sats \in Nat
  BY PayeesAre
<1>2. PICK v : v = Worths(who, p)
  OBVIOUS
<1>3. Len(v) = Len(p) /\ DOMAIN v = 1..Len(p)
  BY <1>1, <1>2 DEF Worths
<1>4. \A i \in 1..Len(p) : v[i] = Out(p[i], Due(who, p[i]))
  BY <1>2 DEF Worths
<1>5. ASSUME NEW i \in 1..Len(p) PROVE v[i].to = p[i] /\ v[i].sats = Due(who, p[i])
  <2>1. v[i] = Out(p[i], Due(who, p[i]))
    BY <1>4
  <2>2. QED
    BY <2>1 DEF Out
<1>6. PICK S : S = {v[i] : i \in 1..Len(p)}
  OBVIOUS
<1>7. v \in Seq(S)
  <2>1. v = [i \in 1..Len(p) |-> v[i]]
    BY <1>2, <1>4 DEF Worths
  <2>2. QED
    BY <1>1, <1>6, <2>1
<1>8. ASSUME NEW e \in S PROVE e.sats \in Nat /\ IsAddress(e.to.to) /\ e.sats = Due(who, e.to)
  <2>1. PICK i \in 1..Len(p) : e = v[i]
    BY <1>6
  <2>2. e.to = p[i] /\ e.sats = Due(who, p[i])
    BY <1>5, <2>1
  <2>3. QED
    BY <1>1, <2>2, DueIs
<1>9. \A kind : Owing(who, kind, S)
  BY <1>8, Zenon DEF Owing
<1>10. Prices(v, p, Dues(who, p))
  BY <1>2, <1>3, <1>5, Zenon DEF Prices, Dues
<1>11. Weighs(S, p, Dues(who, p))
  BY <1>7, <1>10, Zenon DEF Weighs
<1>12. QED
  BY <1>2, <1>7, <1>9, <1>10, <1>11

LEMMA OwingSats == ASSUME NEW who, NEW kind, NEW S, Owing(who, kind, S)
                   PROVE  \A e \in S : e.sats \in Int
BY DEF Owing

\* Amounts that are all nothing add up to nothing, and others to no less.
LEMMA SatsInNat ==
    ASSUME NEW S, \A e \in S : e.sats \in Nat, NEW v \in Seq(S)
    PROVE  OutSats(v) \in Nat
<1>1. /\ Len(v) \in Nat /\ OutSats(v) = Total(SatsOf(v), Len(v))
      /\ \A i \in 1..Len(v) : SatsOf(v)[i] = v[i].sats
  BY OutSatsTotal
<1>2. PICK f, n : f = SatsOf(v) /\ n = Len(v)
  OBVIOUS
<1>3. \A i \in 1..n : f[i] \in Nat
  <2>1. \A i \in 1..Len(v) : v[i] \in S
    OBVIOUS
  <2>2. QED
    BY <1>1, <1>2, <2>1
<1>4. PICK T : T = {k \in 0..n : Total(f, k) \in Nat}
  OBVIOUS
<1>5. ASSUME NEW k \in 1..n, k - 1 \in T PROVE k \in T
  <2>1. PICK j \in Nat : j = k - 1 /\ j + 1 = k /\ \A i \in 1..(j + 1) : i \in 1..n
    <3>1. k - 1 \in Nat /\ k - 1 + 1 = k /\ \A i \in 1..k : i \in 1..n
      BY <1>1, <1>2
    <3>2. QED
      BY <3>1
  <2>2. \A i \in 1..(j + 1) : f[i] \in Nat /\ f[i] \in Int
    BY <1>3, <2>1
  <2>3. Total(f, j + 1) = Total(f, j) + f[j + 1] /\ f[j + 1] \in Nat
    BY <2>2, TotalMore
  <2>4. Total(f, j + 1) \in Nat
    BY <1>4, <1>5, <2>1, <2>3
  <2>5. QED
    BY <1>4, <2>1, <2>4
<1>6. n \in T
  <2>1. 0 \in T
    BY <1>1, <1>2, <1>4, TotalNone
  <2>2. QED
    BY <1>1, <1>2, <1>5, <2>1, StepByStep
<1>7. QED
  BY <1>1, <1>2, <1>4, <1>6

LEMMA NothingAdded ==
    ASSUME NEW S, \A e \in S : e.sats \in Int, NEW v \in Seq(S), \A i \in 1..Len(v) : v[i].sats = 0
    PROVE  OutSats(v) = 0
<1>1. /\ Len(v) \in Nat /\ OutSats(v) = Total(SatsOf(v), Len(v))
      /\ \A i \in 1..Len(v) : SatsOf(v)[i] = v[i].sats
  BY OutSatsTotal
<1>2. PICK f, n, F : f = SatsOf(v) /\ n = Len(v) /\ F = [i \in 0..n |-> 0]
  OBVIOUS
<1>3. /\ n \in Nat /\ \A i \in 0..n : F[i] \in Int
      /\ \A i \in 1..n : f[i] = F[i] - F[i - 1]
  <2>1. \A i \in 1..n : i \in 0..n /\ i - 1 \in 0..n
    BY <1>1, <1>2
  <2>2. QED
    BY <1>1, <1>2, <2>1
<1>4. Total(f, n) = F[n] - F[0]
  BY <1>3, TotalTelescope
<1>5. n \in 0..n /\ 0 \in 0..n
  BY <1>3
<1>6. QED
  BY <1>1, <1>2, <1>4, <1>5

\* Whoever gets something out of outputs is among their keys.
LEMMA KeysOwed ==
    ASSUME NEW who, NEW S, Owing(who, "PayoutBundle", S), NEW outs, outs \in Seq(Range(outs)),
           NEW sats, Weighs(S, outs, sats)
    PROVE  IsFiniteSet(GetKeys(outs)) /\ (sats # 0 => <<who>> \in GetKeys(outs))
<1>1. PICK v \in Seq(S) : Prices(v, outs, sats)
  BY DEF Weighs
<1>2. PICK n \in Nat : n = Len(outs) /\ n = Len(v)
  BY <1>1 DEF Prices
<1>3. \A i \in 1..n : v[i] \in S /\ v[i].to = outs[i]
  BY <1>1, <1>2 DEF Prices
<1>4. PICK keys : keys = [i \in 1..n |-> IF outs[i].to.is = "Address" THEN {<<outs[i].to.who>>}
                                         ELSE outs[i].to.keys]
  OBVIOUS
<1>5. PICK K : K = {keys[i] : i \in 1..n}
  OBVIOUS
<1>6. GetKeys(outs) = UNION K
  BY <1>2, <1>4, <1>5 DEF GetKeys
<1>7. ASSUME NEW i \in 1..n
      PROVE  \/ /\ IsAddress(outs[i].to) /\ keys[i] = {<<outs[i].to.who>>}
                /\ v[i].sats = Due(who, outs[i])
             \/ /\ keys[i] = outs[i].to.keys /\ IsFiniteSet(keys[i])
                /\ v[i].sats # 0 => <<who>> \in keys[i]
  <2>1. v[i] \in S /\ v[i].to = outs[i]
    BY <1>3
  <2>2. CASE IsAddress(outs[i].to)
    <3>1. keys[i] = {<<outs[i].to.who>>}
      BY <1>4, <2>2 DEF IsAddress
    <3>2. v[i].sats = Due(who, outs[i])
      <4>1. ~(outs[i].to.is = "PayoutBundle")
        BY <2>2 DEF IsAddress
      <4>2. QED
        BY <2>1, <4>1 DEF Owing, Bundles
    <3>3. QED
      BY <2>2, <3>1, <3>2
  <2>3. CASE ~IsAddress(outs[i].to)
    <3>1. Bundles(who, "PayoutBundle", S, outs[i], v[i].sats)
      BY <2>1, <2>3 DEF Owing
    <3>2. keys[i] = outs[i].to.keys
      BY <1>4, <2>3 DEF IsAddress
    <3>3. QED
      BY <3>1, <3>2, Zenon DEF Bundles
  <2>4. QED
    BY <2>2, <2>3
<1>8. IsFiniteSet(K) /\ \A T \in K : IsFiniteSet(T)
  <2>1. keys \in Surjection(1..n, K) /\ IsFiniteSet(1..n)
    <3>1. keys \in [1..n -> K] /\ \A T \in K : \E i \in 1..n : keys[i] = T
      BY <1>4, <1>5
    <3>2. keys \in Surjection(1..n, K)
      BY <3>1, Zenon DEF Surjection
    <3>3. QED
      BY <1>2, <3>2, FS_Interval
  <2>2. IsFiniteSet(K)
    BY <2>1, FS_Surjection
  <2>3. ASSUME NEW i \in 1..n PROVE IsFiniteSet(keys[i])
    <3>1. keys[i] = {<<outs[i].to.who>>} \/ IsFiniteSet(keys[i])
      BY <1>7
    <3>2. QED
      BY <3>1, FS_Singleton
  <2>4. QED
    BY <1>5, <2>2, <2>3
<1>9. ASSUME sats # 0 PROVE <<who>> \in UNION K
  <2>1. \E i \in 1..n : v[i].sats # 0
    <3>1. OutSats(v) = sats
      BY <1>1 DEF Prices
    <3>2. QED
      BY <1>2, <1>9, <3>1, OwingSats, NothingAdded
  <2>2. PICK i \in 1..n : v[i].sats # 0
    BY <2>1
  <2>3. <<who>> \in keys[i]
    <3>1. CASE v[i].sats = Due(who, outs[i]) /\ keys[i] = {<<outs[i].to.who>>}
      <4>1. outs[i].to = Address(who)
        BY <2>2, <3>1 DEF Due
      <4>2. outs[i].to.who = who
        BY <4>1 DEF Address
      <4>3. QED
        BY <3>1, <4>2
    <3>2. QED
      BY <1>7, <2>2, <3>1
  <2>4. QED
    BY <1>5, <2>3
<1>10. QED
  BY <1>6, <1>8, <1>9, FS_UNION

\* More entries do not change what outputs weigh.
LEMMA WeighsMore ==
    ASSUME NEW S, NEW T, S \subseteq T, NEW outs, NEW sats, Weighs(S, outs, sats)
    PROVE  Weighs(T, outs, sats)
BY SeqGrows DEF Weighs

LEMMA OwingMore ==
    ASSUME NEW who, NEW kind, NEW S, Owing(who, kind, S), NEW e, e.sats \in Nat,
           Bundles(who, kind, S, e.to, e.sats)
    PROVE  Owing(who, kind, S \cup {e})
<1>1. PICK T : T = S \cup {e}
  OBVIOUS
<1>2. ASSUME NEW o, NEW sats, Bundles(who, kind, S, o, sats) PROVE Bundles(who, kind, T, o, sats)
  <2>1. Weighs(T, o.to.contracts, sats)
    BY <1>1, <1>2, WeighsMore DEF Bundles
  <2>2. QED
    BY <1>2, <2>1 DEF Bundles
<1>3. ASSUME NEW d \in T
      PROVE  /\ d.sats \in Nat
             /\ \/ IsAddress(d.to.to) /\ d.sats = Due(who, d.to)
                \/ Bundles(who, kind, T, d.to, d.sats)
  <2>1. CASE d = e
    BY <1>2, <2>1
  <2>2. CASE d \in S
    BY <1>2, <2>2, Zenon DEF Owing
  <2>3. QED
    BY <1>1, <2>1, <2>2
<1>4. QED
  BY <1>1, <1>3, Zenon DEF Owing

LEMMA PartWeighs ==
    ASSUME NEW S, \A e \in S : e.sats \in Int, NEW v \in Seq(S), NEW outs, outs \in Seq(Range(outs)),
           NEW sats, Prices(v, outs, sats),
           NEW a \in Nat \ {0}, NEW b \in Nat, b <= Len(outs), a <= b + 1
    PROVE  /\ SubSeq(v, a, b) \in Seq(S) /\ SubSeq(outs, a, b) \in Seq(Range(SubSeq(outs, a, b)))
           /\ Prices(SubSeq(v, a, b), SubSeq(outs, a, b), OutSats(SubSeq(v, a, b)))
           /\ Len(SubSeq(outs, a, b)) = b - a + 1
<1>1. Len(v) = Len(outs) /\ \A i \in 1..Len(outs) : v[i].to = outs[i]
  BY DEF Prices
<1>2. PICK p, q : p = SubSeq(v, a, b) /\ q = SubSeq(outs, a, b)
  OBVIOUS
<1>3. /\ p \in Seq(S) /\ Len(p) = b - a + 1
      /\ \A j \in 1..(b - a + 1) : a + j - 1 \in 1..Len(v) /\ p[j] = v[a + j - 1]
  BY <1>1, <1>2, PartIs
<1>4. /\ q \in Seq(Range(outs)) /\ Len(q) = b - a + 1
      /\ \A j \in 1..(b - a + 1) : a + j - 1 \in 1..Len(outs) /\ q[j] = outs[a + j - 1]
  BY <1>2, PartIs
<1>5. \A j \in 1..Len(q) : p[j].to = q[j]
  BY <1>1, <1>3, <1>4
<1>6. Prices(p, q, OutSats(p))
  BY <1>3, <1>4, <1>5 DEF Prices
<1>7. q \in Seq(Range(q))
  <2>1. DOMAIN q = 1..Len(q) /\ Len(q) \in Nat /\ q = [i \in 1..Len(q) |-> q[i]]
    BY <1>4
  <2>2. \A i \in 1..Len(q) : q[i] \in Range(q)
    BY <2>1 DEF Range
  <2>3. QED
    BY <2>1, <2>2
<1>8. QED
  BY <1>2, <1>3, <1>4, <1>6, <1>7

\* A bundle is worth what the outputs in it are.
LEMMA BundleOwing ==
    ASSUME NEW who, NEW c, NEW S, Owing(who, KindOf(c), S), NEW outs, outs \in Seq(Range(outs)),
           NEW sats, Weighs(S, outs, sats)
    PROVE  Bundles(who, KindOf(c), S, Bundle(c, outs), sats)
<1>1. PICK o : o = Bundle(c, outs)
  OBVIOUS
<1>2. CASE c.is = "MiningPayout"
  <2>1. o.to.is = "PayoutBundle" /\ o.to.contracts = outs /\ o.to.keys = GetKeys(outs)
    BY <1>1, <1>2 DEF Bundle, PayoutBundle, Out
  <2>2. KindOf(c) = "PayoutBundle"
    BY <1>2 DEF KindOf
  <2>3. IsFiniteSet(GetKeys(outs)) /\ (sats # 0 => <<who>> \in GetKeys(outs))
    BY <2>2, KeysOwed
  <2>4. QED
    BY <1>1, <2>1, <2>2, <2>3, Zenon DEF Bundles
<1>3. CASE c.is # "MiningPayout"
  <2>1. o.to.is = "PayThese" /\ o.to.contracts = outs
    BY <1>1, <1>3 DEF Bundle, PayThese, Out
  <2>2. KindOf(c) = "PayThese" /\ "PayThese" # "PayoutBundle"
    BY <1>3 DEF KindOf
  <2>3. QED
    BY <1>1, <2>1, <2>2, Zenon DEF Bundles
<1>4. QED
  BY <1>2, <1>3

LEMMA AppendIs ==
    ASSUME NEW S, NEW s \in Seq(S), NEW x
    PROVE  /\ Len(Append(s, x)) = Len(s) + 1 /\ Append(s, x)[Len(s) + 1] = x
           /\ \A i \in 1..Len(s) : Append(s, x)[i] = s[i]
           /\ Append(s, x) \in Seq(S \cup {x})
OBVIOUS

LEMMA NextQueueOwing ==
    ASSUME NEW who, NEW c, c.radix \in Nat \ {0, 1}, NEW queue, NEW sats,
           QueueOwing(who, KindOf(c), queue, sats)
    PROVE  QueueOwing(who, KindOf(c), NextQueue(c, queue), sats)
<1>1. CASE Len(queue) <= c.radix
  BY <1>1 DEF NextQueue
<1>2. CASE ~(Len(queue) <= c.radix)
  <2>1. PICK kind : kind = KindOf(c)
    OBVIOUS
  <2>2. PICK S : Owing(who, kind, S) /\ Weighs(S, queue, sats)
    BY <2>1 DEF QueueOwing
  <2>3. queue \in Seq(Range(queue))
    BY DEF QueueOwing
  <2>4. PICK v \in Seq(S) : Prices(v, queue, sats)
    BY <2>2 DEF Weighs
  <2>5. PICK r \in Nat : r = c.radix /\ r >= 2
    OBVIOUS
  <2>6. PICK l \in Nat : l = Len(queue) /\ r < l
    <3>1. Len(queue) \in Nat
      BY <2>3
    <3>2. QED
      BY <1>2, <2>5, <3>1
  <2>7. PICK first, rest, vf, vr :
          /\ first = SubSeq(queue, 1, r) /\ rest = SubSeq(queue, r + 1, l)
          /\ vf = SubSeq(v, 1, r) /\ vr = SubSeq(v, r + 1, l)
    OBVIOUS
  <2>8. \A e \in S : e.sats \in Int /\ e.sats \in Nat
    BY <2>2 DEF Owing
  <2>9. /\ vf \in Seq(S) /\ first \in Seq(Range(first)) /\ Prices(vf, first, OutSats(vf))
    <3>1. 1 \in Nat \ {0} /\ r <= Len(queue) /\ 1 <= r + 1
      BY <2>5, <2>6
    <3>2. QED
      BY <2>3, <2>4, <2>7, <2>8, <3>1, PartWeighs
  <2>10. /\ vr \in Seq(S) /\ rest \in Seq(Range(rest)) /\ Prices(vr, rest, OutSats(vr))
         /\ Len(rest) = l - r
    <3>1. PICK a \in Nat \ {0} : a = r + 1 /\ l <= Len(queue) /\ a <= l + 1 /\ l - a + 1 = l - r
      <4>1. r + 1 \in Nat \ {0} /\ l <= Len(queue) /\ r + 1 <= l + 1 /\ l - (r + 1) + 1 = l - r
        BY <2>5, <2>6
      <4>2. QED
        BY <4>1
    <3>2. /\ SubSeq(v, a, l) \in Seq(S) /\ SubSeq(queue, a, l) \in Seq(Range(SubSeq(queue, a, l)))
          /\ Prices(SubSeq(v, a, l), SubSeq(queue, a, l), OutSats(SubSeq(v, a, l)))
          /\ Len(SubSeq(queue, a, l)) = l - a + 1
      BY <2>3, <2>4, <2>8, <3>1, PartWeighs
    <3>3. QED
      BY <2>7, <3>1, <3>2, Zenon
  <2>11. /\ OutSats(vf) \in Int /\ OutSats(vr) \in Int
         /\ OutSats(vf) + OutSats(vr) = sats
    <3>1. Len(v) = l /\ OutSats(v) = sats
      BY <2>4, <2>6 DEF Prices
    <3>2. /\ OutSats(SubSeq(v, 1, r)) \in Int /\ OutSats(SubSeq(v, r + 1, Len(v))) \in Int
          /\ OutSats(SubSeq(v, 1, r)) + OutSats(SubSeq(v, r + 1, Len(v))) = OutSats(v)
      BY <2>6, <2>8, <3>1, OutSatsHalves
    <3>3. QED
      BY <2>7, <3>1, <3>2
  <2>12. OutSats(vf) \in Nat
    BY <2>8, <2>9, SatsInNat
  <2>13. PICK o : o = Bundle(c, first)
    OBVIOUS
  <2>14. PICK e : e = Out(o, OutSats(vf))
    OBVIOUS
  <2>15. e.to = o /\ e.sats = OutSats(vf)
    BY <2>14 DEF Out
  <2>16. Weighs(S, first, OutSats(vf))
    BY <2>9 DEF Weighs
  <2>17. Bundles(who, kind, S, e.to, e.sats)
    BY <2>1, <2>2, <2>9, <2>13, <2>15, <2>16, BundleOwing
  <2>18. PICK T : T = S \cup {e}
    OBVIOUS
  <2>19. Owing(who, kind, T)
    BY <2>2, <2>12, <2>15, <2>17, <2>18, OwingMore
  <2>20. vr \in Seq(T) /\ e \in T /\ \A d \in T : d.sats \in Int
    BY <2>8, <2>10, <2>12, <2>15, <2>18, SeqGrows
  <2>21. PICK w, next : w = Append(vr, e) /\ next = Append(rest, o)
    OBVIOUS
  <2>22. w \in Seq(T) /\ OutSats(w) = OutSats(vr) + e.sats
    BY <2>20, <2>21, OutSatsAppend
  <2>23. OutSats(w) = sats
    BY <2>11, <2>15, <2>22
  <2>24. PICK m \in Nat : m = Len(rest) /\ m = Len(vr)
    BY <2>10 DEF Prices
  <2>25. /\ Len(w) = m + 1 /\ Len(next) = m + 1 /\ w[m + 1] = e /\ next[m + 1] = o
         /\ \A i \in 1..m : w[i] = vr[i] /\ next[i] = rest[i]
         /\ next \in Seq(Range(rest) \cup {o})
    <3>1. /\ Len(w) = Len(vr) + 1 /\ w[Len(vr) + 1] = e /\ \A i \in 1..Len(vr) : w[i] = vr[i]
      BY <2>20, <2>21, AppendIs
    <3>2. /\ Len(next) = Len(rest) + 1 /\ next[Len(rest) + 1] = o
          /\ \A i \in 1..Len(rest) : next[i] = rest[i]
          /\ next \in Seq(Range(rest) \cup {o})
      BY <2>10, <2>21, AppendIs
    <3>3. QED
      BY <2>24, <3>1, <3>2
  <2>26. \A i \in 1..(m + 1) : w[i].to = next[i]
    <3>1. \A i \in 1..(m + 1) : i \in 1..m \/ i = m + 1
      OBVIOUS
    <3>2. \A i \in 1..m : vr[i].to = rest[i]
      BY <2>10, <2>24 DEF Prices
    <3>3. QED
      BY <2>15, <2>25, <3>1, <3>2
  <2>27. Prices(w, next, sats)
    BY <2>23, <2>25, <2>26 DEF Prices
  <2>28. next \in Seq(Range(next))
    <3>1. DOMAIN next = 1..Len(next) /\ Len(next) \in Nat /\ next = [i \in 1..Len(next) |-> next[i]]
      BY <2>25
    <3>2. \A i \in 1..Len(next) : next[i] \in Range(next)
      BY <3>1 DEF Range
    <3>3. QED
      BY <3>1, <3>2
  <2>29. NextQueue(c, queue) = next
    BY <1>2, <2>5, <2>6, <2>7, <2>13, <2>21 DEF NextQueue
  <2>30. Weighs(T, next, sats)
    BY <2>22, <2>27 DEF Weighs
  <2>31. QED
    BY <2>1, <2>19, <2>28, <2>29, <2>30, Zenon DEF QueueOwing
<1>3. QED
  BY <1>1, <1>2

\* What is left of the queue is worth what the payments are.
LEMMA BundledOwing ==
    ASSUME NEW who, NEW c, Payees(c.participants), c.radix \in Nat \ {0, 1}
    PROVE  QueueOwing(who, KindOf(c), Bundled(c), Dues(who, c.participants))
<1>1. PICK last \in Nat : last = Len(c.participants)
  BY PayeesAre
<1>2. PICK f : IsQueue(f, c, last) /\ Bundled(c) = f[last]
  BY <1>1, BundledIs
<1>3. PICK sats : sats = Dues(who, c.participants)
  OBVIOUS
<1> DEFINE Good(n) == QueueOwing(who, KindOf(c), f[n], sats)
<1>4. Good(0)
  <2>1. c.participants \in Seq(Range(c.participants))
    BY PayeesAre
  <2>2. f[0] = c.participants
    BY <1>2 DEF IsQueue
  <2>3. \E S : Owing(who, KindOf(c), S) /\ Weighs(S, c.participants, sats)
    BY <1>3, WorthsAre
  <2>4. QED
    BY <2>1, <2>2, <2>3, Zenon DEF QueueOwing
<1>5. ASSUME NEW n \in 1..last, Good(n - 1) PROVE Good(n)
  <2>1. f[n] = NextQueue(c, f[n - 1])
    BY <1>2 DEF IsQueue
  <2>2. QED
    BY <1>5, <2>1, NextQueueOwing
<1> HIDE DEF Good
<1>6. Good(last)
  <2>1. PICK T : T = {n \in 0..last : Good(n)}
    OBVIOUS
  <2>2. 0 \in T /\ \A n \in 1..last : n - 1 \in T => n \in T
    BY <1>4, <1>5, <2>1
  <2>3. QED
    BY <2>1, <2>2, StepByStep
<1>7. QED
  BY <1>2, <1>3, <1>6 DEF Good

LEMMA AllSign ==
    ASSUME NEW who, NEW keys, IsFiniteSet(keys), NEW sats, sats # 0 => <<who>> \in keys,
           NEW name, NEW way, way = Finish(name, AllOf(keys))
    PROVE  SignsAway(who, way, sats)
<1>1. way.guard = AllOf(keys) /\ way.tx.outs = <<>> /\ ~way.ctv
  BY FinishIs, TxIs
<1>2. ASSUME NEW cond \in AllOf(keys) PROVE cond.keys = keys
  <2>1. PICK K \in kSubset(Cardinality(keys), keys) : cond.keys = K
    BY DEF AllOf, Threshold
  <2>2. K \in SUBSET keys /\ Cardinality(K) = Cardinality(keys)
    BY <2>1 DEF kSubset
  <2>3. QED
    BY <2>1, <2>2, FS_Subset
<1>3. QED
  BY <1>1, <1>2 DEF SignsAway

LEMMA IsSeqOfItsOwn ==
    ASSUME NEW S, NEW v \in Seq(S)
    PROVE  v \in Seq(Range(v)) /\ Len(v) \in Nat /\ \A i \in 1..Len(v) : v[i] \in S
<1>1. DOMAIN v = 1..Len(v) /\ Len(v) \in Nat /\ v = [i \in 1..Len(v) |-> v[i]]
  OBVIOUS
<1>2. \A i \in 1..Len(v) : v[i] \in Range(v) /\ v[i] \in S
  BY <1>1 DEF Range
<1>3. QED
  BY <1>1, <1>2

LEMMA OwingShared ==
    ASSUME NEW who, NEW kind \in Kinds, NEW S, Owing(who, kind, S),
           NEW outs, outs \in Seq(Range(outs)), NEW sats, Weighs(S, outs, sats)
    PROVE  Shared(who, outs, sats)
<1>1. PICK v \in Seq(S) : Prices(v, outs, sats)
  BY DEF Weighs
<1>2. v \in Seq(Range(v)) /\ Len(v) = Len(outs) /\ \A i \in 1..Len(outs) : v[i] \in S /\ v[i].to = outs[i]
  BY <1>1, IsSeqOfItsOwn DEF Prices
<1>3. ASSUME NEW i \in 1..Len(outs) PROVE ShareIs(who, outs[i], v[i].sats)
  <2>1. PICK e \in S : e = v[i] /\ e.to = outs[i]
    BY <1>2
  <2>2. e.sats \in Nat
    BY DEF Owing
  <2>3. CASE IsAddress(e.to.to)
    <3>1. ~(e.to.to.is = kind)
      BY <2>3 DEF IsAddress, Kinds
    <3>2. e.sats = Due(who, e.to)
      BY <3>1 DEF Owing, Bundles
    <3>3. QED
      BY <2>1, <2>2, <2>3, <3>2 DEF ShareIs
  <2>4. CASE ~IsAddress(e.to.to)
    <3>1. Bundles(who, kind, S, e.to, e.sats)
      BY <2>4 DEF Owing
    <3>2. PICK o, n, x : o = e.to /\ n = e.sats /\ x = o.to
      OBVIOUS
    <3>3. Owes(who, x, n)
      BY <2>2, <3>1, <3>2, Zenon DEF Owes
    <3>4. QED
      BY <2>1, <2>2, <2>4, <3>2, <3>3 DEF ShareIs
  <2>5. QED
    BY <2>3, <2>4
<1>4. QED
  BY <1>1, <1>2, <1>3, Zenon DEF Shared

\* Payments to addresses share what they say.
LEMMA PayeesShare ==
    ASSUME NEW who, NEW p, Payees(p)
    PROVE  Shared(who, p, Dues(who, p)) /\ Dues(who, p) \in Nat
<1>1. PICK S : (\A kind : Owing(who, kind, S)) /\ Worths(who, p) \in Seq(S) /\ Weighs(S, p, Dues(who, p))
  BY WorthsAre
<1>2. "PayThese" \in Kinds /\ p \in Seq(Range(p)) /\ Owing(who, "PayThese", S)
  BY <1>1, PayeesAre DEF Kinds
<1>3. Shared(who, p, Dues(who, p))
  BY <1>1, <1>2, OwingShared
<1>4. Dues(who, p) \in Nat
  BY <1>1, <1>2, SatsInNat DEF Owing, Dues
<1>5. QED
  BY <1>3, <1>4

LEMMA BundleDivides ==
    ASSUME NEW who, NEW kind \in Kinds, NEW S, NEW o, NEW sats, Owing(who, kind, S),
           Bundles(who, kind, S, o, sats), NEW held, NEW way \in Ways(Holding(o.to, held))
    PROVE  Divides(who, way, sats)
<1>1. PICK x : x = o.to
  OBVIOUS
<1>2. /\ x.is = kind /\ x.contracts \in Seq(Range(x.contracts)) /\ Weighs(S, x.contracts, sats)
      /\ kind = "PayoutBundle" => IsFiniteSet(x.keys) /\ (sats # 0 => <<who>> \in x.keys)
  BY <1>1 DEF Bundles
<1>3. Shared(who, x.contracts, sats)
  BY <1>2, OwingShared
<1>4. PICK coin : coin = Holding(x, held) /\ coin.contract = x
  BY HoldingIs
<1>5. CASE kind = "PayThese"
  <2>1. Ways(coin) = PayTheseWays(x)
    BY <1>2, <1>4, <1>5, Zenon DEF Ways
  <2>2. way = Template("expand", Trivial, Delayed(x.contracts, x.delay, x.fees))
    BY <1>1, <1>4, <2>1, Zenon DEF PayTheseWays, Delayed
  <2>3. way.tx.outs = x.contracts
    BY <2>2, DelayedWay
  <2>4. QED
    BY <1>3, <2>3 DEF Divides
<1>6. CASE kind = "PayoutBundle"
  <2>1. Ways(coin) = PayoutBundleWays(x)
    BY <1>2, <1>4, <1>6, Zenon DEF Ways
  <2>2. CASE way = Finish("cooperate", AllOf(x.keys))
    BY <1>2, <1>6, <2>2, AllSign DEF Divides
  <2>3. CASE way = Template("expand", Trivial, WithFees(x.contracts, x.fees))
    <3>1. way.tx.outs = x.contracts
      BY <2>3, FeesWay
    <3>2. QED
      BY <1>3, <3>1 DEF Divides
  <2>4. QED
    BY <1>1, <1>4, <2>1, <2>2, <2>3, Zenon DEF PayoutBundleWays, WithFees
<1>7. QED
  BY <1>5, <1>6 DEF Kinds

LEMMA QueueShared ==
    ASSUME NEW who, NEW c, Payees(c.participants), c.radix \in Nat \ {0, 1}
    PROVE  Shared(who, Bundled(c), Dues(who, c.participants))
<1>1. PICK S : /\ Owing(who, KindOf(c), S) /\ Weighs(S, Bundled(c), Dues(who, c.participants))
               /\ Bundled(c) \in Seq(Range(Bundled(c)))
  BY BundledOwing DEF QueueOwing
<1>2. KindOf(c) \in Kinds
  BY DEF KindOf, Kinds
<1>3. QED
  BY <1>1, <1>2, OwingShared

LEMMA FeeTreeDivides ==
    ASSUME NEW who, NEW x, x.is \in {"FeeTreePay", "MiningPayout"}, x.radix \in Nat \ {0, 1},
           Payees(x.participants), NEW held, NEW way \in Ways(Holding(x, held))
    PROVE  Divides(who, way, Dues(who, x.participants))
<1>1. PICK sats : sats = Dues(who, x.participants) /\ Shared(who, Bundled(x), sats)
  BY QueueShared
<1>2. PICK coin : coin = Holding(x, held) /\ coin.contract = x
  BY HoldingIs
<1>3. CASE x.is = "FeeTreePay"
  <2>1. Ways(coin) = FeeTreePayWays(x)
    BY <1>2, <1>3, Zenon DEF Ways
  <2>2. way = Template("expand", Trivial, Delayed(Bundled(x), x.delay, x.fees))
    BY <1>2, <2>1, Zenon DEF FeeTreePayWays, Delayed
  <2>3. way.tx.outs = Bundled(x)
    BY <2>2, DelayedWay
  <2>4. QED
    BY <1>1, <2>3 DEF Divides
<1>4. CASE x.is = "MiningPayout"
  <2>1. Ways(coin) = MiningPayoutWays(x)
    BY <1>2, <1>4, Zenon DEF Ways
  <2>2. CASE way = Finish("cooperate", AllOf(GetKeys(x.participants)))
    <3>1. PICK S : Owing(who, "PayoutBundle", S) /\ Weighs(S, x.participants, sats)
      BY <1>1, WorthsAre
    <3>2. IsFiniteSet(GetKeys(x.participants)) /\ (sats # 0 => <<who>> \in GetKeys(x.participants))
      BY <3>1, PayeesAre, KeysOwed
    <3>3. QED
      BY <1>1, <2>2, <3>2, AllSign DEF Divides
  <2>3. CASE way = Template("expand", Trivial, WithFees(Bundled(x), x.fees))
    <3>1. way.tx.outs = Bundled(x)
      BY <2>3, FeesWay
    <3>2. QED
      BY <1>1, <3>1 DEF Divides
  <2>4. QED
    BY <1>2, <2>1, <2>2, <2>3, Zenon DEF MiningPayoutWays, WithFees
<1>5. QED
  BY <1>3, <1>4

\* Part of payments is worth that part of what the payments are.
PartWorth(who, p, a, b) == Worths(who, SubSeq(p, a, b)) = SubSeq(Worths(who, p), a, b)

LEMMA WorthsOfPart ==
    ASSUME NEW who, NEW p, Payees(p), NEW a \in Nat \ {0}, NEW b \in Nat, b <= Len(p), a <= b + 1
    PROVE  PartWorth(who, p, a, b)
<1>1. p \in Seq(Range(p)) /\ Len(p) \in Nat
  BY PayeesAre
<1>2. PICK w : w = Worths(who, p)
  OBVIOUS
<1>3. w \in Seq(Range(w)) /\ Len(w) = Len(p) /\ \A i \in 1..Len(p) : w[i] = Out(p[i], Due(who, p[i]))
  <2>1. w = [i \in 1..Len(p) |-> w[i]] /\ DOMAIN w = 1..Len(p)
        /\ \A i \in 1..Len(p) : w[i] = Out(p[i], Due(who, p[i]))
    BY <1>2 DEF Worths
  <2>2. \A i \in 1..Len(p) : w[i] \in Range(w)
    BY <2>1 DEF Range
  <2>3. QED
    BY <1>1, <2>1, <2>2
<1>4. PICK q, u : q = SubSeq(p, a, b) /\ u = SubSeq(w, a, b)
  OBVIOUS
<1>5. /\ q \in Seq(Range(p)) /\ Len(q) = b - a + 1
      /\ \A j \in 1..(b - a + 1) : a + j - 1 \in 1..Len(p) /\ q[j] = p[a + j - 1]
  BY <1>1, <1>4, PartIs
<1>6. /\ u \in Seq(Range(w)) /\ Len(u) = b - a + 1
      /\ \A j \in 1..(b - a + 1) : a + j - 1 \in 1..Len(w) /\ u[j] = w[a + j - 1]
  BY <1>3, <1>4, PartIs
<1>7. PICK n : n = b - a + 1
  OBVIOUS
<1>8. u = [j \in 1..n |-> u[j]] /\ \A j \in 1..n : u[j] = Out(q[j], Due(who, q[j]))
  <2>1. u = [j \in 1..Len(u) |-> u[j]]
    BY <1>6
  <2>2. QED
    BY <1>3, <1>5, <1>6, <1>7, <2>1
<1>9. Worths(who, q) = [j \in 1..n |-> Out(q[j], Due(who, q[j]))]
  BY <1>5, <1>7 DEF Worths
<1>10. Worths(who, q) = u
  BY <1>8, <1>9
<1>11. QED
  BY <1>2, <1>4, <1>10 DEF PartWorth

\* Chunks of payments are worth the chunks of what the payments are.
LEMMA WorthsOfChunks ==
    ASSUME NEW who, NEW p, Payees(p), NEW size \in Nat \ {0}
    PROVE  /\ Len(Chunks(Worths(who, p), size)) = Len(Chunks(p, size))
           /\ \A i \in 1..Len(Chunks(p, size)) :
                Worths(who, Chunks(p, size)[i]) = Chunks(Worths(who, p), size)[i]
<1>1. PICK l \in Nat : l = Len(p)
  BY PayeesAre
<1>2. PICK w : w = Worths(who, p) /\ Len(w) = l
  <2>1. Len(Worths(who, p)) = Len(p)
    BY <1>1 DEF Worths
  <2>2. QED
    BY <1>1, <2>1
<1>3. PICK count : count = (l + size - 1) \div size
  OBVIOUS
<1>4. /\ count \in Nat
      /\ \A i \in 1..count : /\ (i - 1) * size \in Nat /\ (i - 1) * size <= l
                             /\ i * size \in Nat /\ (i - 1) * size <= i * size
  BY <1>3, ChunkEnds
<1>5. PICK cp, cw : cp = Chunks(p, size) /\ cw = Chunks(w, size)
  OBVIOUS
<1>6. /\ cp = [i \in 1..count |-> SubSeq(p, (i - 1) * size + 1, Smaller(i * size, l))]
      /\ cw = [i \in 1..count |-> SubSeq(w, (i - 1) * size + 1, Smaller(i * size, l))]
  BY <1>1, <1>2, <1>3, <1>5, Zenon DEF Chunks
<1>7. Len(cp) = count /\ Len(cw) = count
  BY <1>4, <1>6
<1>8. ASSUME NEW i \in 1..count PROVE Worths(who, cp[i]) = cw[i]
  <2>1. PICK a \in Nat, t \in Nat : a = (i - 1) * size /\ t = i * size /\ a <= l /\ a <= t
    BY <1>4
  <2>2. PICK b \in Nat : b = Smaller(t, l) /\ b <= l /\ a <= b
    BY <2>1, <1>1, SmallerOf
  <2>3. cp[i] = SubSeq(p, a + 1, b) /\ cw[i] = SubSeq(w, a + 1, b)
    <3>1. /\ cp[i] = SubSeq(p, (i - 1) * size + 1, Smaller(i * size, l))
          /\ cw[i] = SubSeq(w, (i - 1) * size + 1, Smaller(i * size, l))
      BY <1>6, Zenon
    <3>2. QED
      BY <2>1, <2>2, <3>1, Zenon
  <2>4. PICK first \in Nat \ {0} : first = a + 1 /\ first <= b + 1 /\ b <= Len(p)
    BY <1>1, <2>1, <2>2
  <2>5. Worths(who, SubSeq(p, first, b)) = SubSeq(Worths(who, p), first, b)
    <3>1. first \in Nat \ {0} /\ b \in Nat /\ b <= Len(p) /\ first <= b + 1
      BY <1>1, <2>2, <2>4
    <3>2. PartWorth(who, p, first, b)
      BY <3>1, WorthsOfPart
    <3>3. QED
      BY <3>2 DEF PartWorth
  <2>6. QED
    BY <1>2, <2>3, <2>4, <2>5, Zenon
<1>9. QED
  BY <1>2, <1>5, <1>7, <1>8, Zenon

LEMMA RowOf ==
    ASSUME NEW n \in Nat, NEW outs, Len(outs) = n, NEW h, \A i \in 1..n : h[i] \in Int
    PROVE  HasRow(n, outs, h)
<1>1. PICK v : v = [i \in 1..n |-> Out(outs[i], h[i])]
  OBVIOUS
<1>2. Len(v) = n /\ DOMAIN v = 1..n /\ v = [i \in 1..n |-> v[i]]
  BY <1>1
<1>3. ASSUME NEW i \in 1..n PROVE v[i].to = outs[i] /\ v[i].sats = h[i]
  <2>1. v[i] = Out(outs[i], h[i])
    BY <1>1
  <2>2. QED
    BY <2>1 DEF Out
<1>4. v \in Seq(Range(v)) /\ \A x \in Range(v) : x.sats \in Int
  <2>1. \A i \in 1..n : v[i] \in Range(v)
    BY <1>2 DEF Range
  <2>2. v \in Seq(Range(v))
    BY <1>2, <2>1
  <2>3. QED
    BY <1>2, <1>3, <2>2 DEF Range
<1>5. OutSats(v) = Total(h, n)
  <2>1. /\ OutSats(v) = Total(SatsOf(v), n)
        /\ \A i \in 1..n : SatsOf(v)[i] = v[i].sats
    BY <1>2, <1>4, OutSatsTotal
  <2>2. \A i \in 1..n : h[i] \in Int /\ SatsOf(v)[i] = h[i]
    BY <1>3, <2>1
  <2>3. QED
    BY <2>1, <2>2, TotalSame
<1>6. Prices(v, outs, Total(h, n))
  BY <1>2, <1>3, <1>5 DEF Prices
<1>7. QED
  BY <1>3, <1>4, <1>6, Zenon DEF HasRow

\* A tree of payments shares them among the branches.
LEMMA TreeDivides ==
    ASSUME NEW who, NEW p, NEW r \in Nat \ {0}, Payees(p), NEW held,
           NEW way \in Ways(Holding(TreePay(p, r), held))
    PROVE  Divides(who, way, Dues(who, p))
<1>1. PICK outs : /\ way = Template("expand", Trivial, Tx(outs))
                  /\ outs = p \/ \E size \in Nat \ {0} : outs = Branches(Chunks(p, size), r)
  BY TreeCut
<1>2. way.tx.outs = outs
  BY <1>1, TemplateIs, TxIs
<1>3. CASE outs = p
  BY <1>2, <1>3, PayeesShare DEF Divides
<1>4. ASSUME NEW size \in Nat \ {0}, outs = Branches(Chunks(p, size), r)
      PROVE  Shared(who, outs, Dues(who, p))
  <2>1. PICK branches : branches = Chunks(p, size) /\ outs = Branches(branches, r)
    BY <1>4
  <2>2. /\ Len(branches) \in Nat /\ Len(outs) = Len(branches) /\ outs \in Seq(Range(outs))
        /\ \A i \in 1..Len(branches) :
             Payees(branches[i]) /\ outs[i] = Out(TreePay(branches[i], r), OutSats(branches[i]))
    BY <2>1, BranchesAre
  <2>3. PICK w, T : w = Worths(who, p) /\ w \in Seq(T) /\ \A x \in T : x.sats \in Int
    BY WorthsAre, OwingSats
  <2>4. PICK cw : cw = Chunks(w, size)
    OBVIOUS
  <2>5. PICK h : h = [i \in 1..Len(cw) |-> OutSats(cw[i])]
    OBVIOUS
  <2>6. /\ \A i \in 1..Len(cw) : OutSats(cw[i]) \in Int
        /\ Total(h, Len(cw)) = OutSats(w)
    BY <2>3, <2>4, <2>5, ChunksAddUp
  <2>7. Len(cw) = Len(branches) /\ \A i \in 1..Len(branches) : Worths(who, branches[i]) = cw[i]
    <3>1. /\ Len(Chunks(Worths(who, p), size)) = Len(Chunks(p, size))
          /\ \A i \in 1..Len(Chunks(p, size)) :
                Worths(who, Chunks(p, size)[i]) = Chunks(Worths(who, p), size)[i]
      BY WorthsOfChunks
    <3>2. QED
      BY <2>1, <2>3, <2>4, <3>1, Zenon
  <2>8. PICK count \in Nat : count = Len(branches) /\ count = Len(cw)
    BY <2>2, <2>7
  <2>9. ASSUME NEW i \in 1..count PROVE h[i] = Dues(who, branches[i]) /\ h[i] \in Int
    <3>1. h[i] = OutSats(cw[i]) /\ Worths(who, branches[i]) = cw[i] /\ h[i] \in Int
      BY <2>5, <2>6, <2>7, <2>8
    <3>2. QED
      BY <3>1, Zenon DEF Dues
  <2>10. Total(h, count) = Dues(who, p)
    BY <2>3, <2>6, <2>8, Zenon DEF Dues
  <2>11. PICK v : /\ v \in Seq(Range(v)) /\ Prices(v, outs, Total(h, count))
                  /\ \A i \in 1..count : v[i].sats = h[i]
    <3>1. Len(outs) = count /\ \A i \in 1..count : h[i] \in Int
      BY <2>2, <2>8, <2>9
    <3>2. HasRow(count, outs, h)
      BY <3>1, RowOf
    <3>3. QED
      BY <3>2, Zenon DEF HasRow
  <2>12. ASSUME NEW i \in 1..Len(outs) PROVE ShareIs(who, outs[i], v[i].sats)
    <3>1. PICK q, n : q = branches[i] /\ Payees(q) /\ n = v[i].sats /\ n = Dues(who, q)
      BY <2>2, <2>8, <2>9, <2>11
    <3>2. n \in Nat
      BY <3>1, PayeesShare
    <3>3. PICK x : x = outs[i].to /\ x = TreePay(q, r)
      BY <2>2, <3>1, OutIs
    <3>4. x.participants = q /\ x.radix = r /\ ~IsAddress(x)
      BY <3>3 DEF TreePay, IsAddress
    <3>5. Owes(who, x, n)
      BY <3>1, <3>2, <3>3, <3>4, Zenon DEF Owes
    <3>6. QED
      BY <3>1, <3>2, <3>3, <3>4, <3>5 DEF ShareIs
  <2>13. QED
    BY <2>2, <2>10, <2>11, <2>12, Zenon DEF Shared
<1>5. QED
  BY <1>1, <1>2, <1>3, <1>4 DEF Divides

LEMMA TrampolineDivides ==
    ASSUME NEW who, NEW x, x.is = "TrampolinePay", Payees(x.payments), NEW held,
           NEW way \in Ways(Holding(x, held))
    PROVE  Divides(who, way, Dues(who, x.payments))
<1>1. PICK sats : sats = Dues(who, x.payments) /\ sats \in Nat
  BY PayeesShare
<1>2. PICK batch, max : batch = FromBatching(x.payments, x.feerate) /\ max = TreePayMax(batch)
  OBVIOUS
<1>3. PICK coin : coin = Holding(x, held) /\ coin.contract = x
  BY HoldingIs
<1>4. Ways(coin) = TrampolinePayWays(x)
  BY <1>3, Zenon DEF Ways
<1>5. PICK o, outs : o = Out(batch, max) /\ outs = <<o>> /\ way.tx.outs = outs
  BY <1>2, <1>3, <1>4 DEF TrampolinePayWays, Template, Tx
<1>6. PICK fees : batch = FeeTreePay(x.payments, 4, fees, 0)
  BY <1>2 DEF FromBatching
<1>7. /\ batch.is = "FeeTreePay" /\ batch.participants = x.payments /\ batch.radix = 4
      /\ ~IsAddress(batch)
  BY <1>6 DEF FeeTreePay, IsAddress
<1>8. Owes(who, batch, sats)
  <2>1. batch.radix \in Nat \ {0, 1}
    BY <1>7
  <2>2. Payees(batch.participants) /\ sats = Dues(who, batch.participants)
    BY <1>1, <1>7, Zenon
  <2>3. QED
    BY <1>1, <1>7, <2>1, <2>2 DEF Owes
<1>9. PICK h : h = [i \in 1..1 |-> sats]
  OBVIOUS
<1>10. Len(outs) = 1 /\ outs[1] = o /\ outs \in Seq(Range(outs)) /\ o.to = batch
  <2>1. Len(outs) = 1 /\ DOMAIN outs = 1..1 /\ outs[1] = o
    BY <1>5
  <2>2. o \in Range(outs)
    BY <2>1 DEF Range
  <2>3. outs \in Seq(Range(outs))
    BY <1>5, <2>2
  <2>4. QED
    BY <1>5, <2>1, <2>3, OutIs
<1>11. \A i \in 1..1 : h[i] = sats /\ h[i] \in Int
  BY <1>1, <1>9
<1>12. Total(h, 1) = sats
  <2>1. Total(h, 0 + 1) = Total(h, 0) + h[0 + 1]
    BY <1>11, TotalMore
  <2>2. QED
    BY <1>1, <1>11, <2>1, TotalNone
<1>13. PICK v : /\ v \in Seq(Range(v)) /\ Prices(v, outs, Total(h, 1))
                /\ \A i \in 1..1 : v[i].sats = h[i]
  <2>1. HasRow(1, outs, h)
    BY <1>10, <1>11, RowOf
  <2>2. QED
    BY <2>1, Zenon DEF HasRow
<1>14. ASSUME NEW i \in 1..1 PROVE ShareIs(who, outs[i], v[i].sats)
  <2>1. outs[i] = o /\ v[i].sats = sats
    BY <1>10, <1>11, <1>13
  <2>2. QED
    BY <1>1, <1>7, <1>8, <1>10, <2>1 DEF ShareIs
<1>15. Shared(who, outs, sats)
  BY <1>10, <1>12, <1>13, <1>14, Zenon DEF Shared
<1>16. QED
  BY <1>1, <1>5, <1>15 DEF Divides

\* Every way out of a contract of a tree shares out what it owes.
LEMMA OwesDivides ==
    ASSUME NEW who, NEW x, NEW sats, Owes(who, x, sats), NEW held, NEW way \in Ways(Holding(x, held))
    PROVE  Divides(who, way, sats)
<1>1. CASE /\ x = TreePay(x.participants, x.radix) /\ x.radix \in Nat \ {0}
           /\ Payees(x.participants) /\ sats = Dues(who, x.participants)
  <2>1. PICK p, r : p = x.participants /\ r = x.radix
    OBVIOUS
  <2>2. /\ x = TreePay(p, r) /\ r \in Nat \ {0} /\ Payees(p) /\ sats = Dues(who, p)
        /\ way \in Ways(Holding(TreePay(p, r), held))
    BY <1>1, <2>1, Zenon
  <2>3. Divides(who, way, Dues(who, p))
    BY <2>2, TreeDivides
  <2>4. QED
    BY <2>2, <2>3, Zenon
<1>2. CASE /\ x.is \in {"FeeTreePay", "MiningPayout"} /\ x.radix \in Nat \ {0, 1}
           /\ Payees(x.participants) /\ sats = Dues(who, x.participants)
  <2>1. Divides(who, way, Dues(who, x.participants))
    BY <1>2, FeeTreeDivides
  <2>2. QED
    BY <1>2, <2>1, Zenon
<1>3. CASE x.is = "TrampolinePay" /\ Payees(x.payments) /\ sats = Dues(who, x.payments)
  <2>1. Divides(who, way, Dues(who, x.payments))
    BY <1>3, TrampolineDivides
  <2>2. QED
    BY <1>3, <2>1, Zenon
<1>4. ASSUME NEW kind \in Kinds, NEW S, NEW o, Owing(who, kind, S), o.to = x,
             Bundles(who, kind, S, o, sats)
      PROVE  Divides(who, way, sats)
  <2>1. way \in Ways(Holding(o.to, held))
    BY <1>4
  <2>2. QED
    BY <1>4, <2>1, BundleDivides
<1>5. QED
  BY <1>1, <1>2, <1>3, <1>4 DEF Owes

-----------------------------------------------------------------------------
(* What a spend does to what its coins owe: the outputs to addresses are    *)
(* paid, the others are coins h[i] that owe w[i], as F says.                *)

PassesOn(who, outs, w, F, kept, h) ==
    /\ outs \in Seq(Range(outs)) /\ IsFiniteSet(kept) /\ \A c \in kept : F[c] \in Int
    /\ \A i \in 1..Len(outs) :
         /\ w[i] \in Int
         /\ IsAddress(outs[i].to) => w[i] = Due(who, outs[i])
         /\ ~IsAddress(outs[i].to) =>
              /\ F[h[i]] = w[i] /\ h[i] \notin kept
              /\ \A j \in 1..Len(outs) : ~IsAddress(outs[j].to) /\ h[i] = h[j] => i = j
\* The coins after k outputs, the outputs to who, and their sats.
MadeOf(outs, kept, h, k) == kept \cup {h[i] : i \in {i \in 1..k : ~IsAddress(outs[i].to)}}
Mine(who, outs, k) == {i \in 1..k : outs[i].to = Address(who)}
Balanced(who, outs, w, F, kept, h, k) ==
    LET S == MadeOf(outs, kept, h, k)
        M == Mine(who, outs, k)
    IN  /\ IsFiniteSet(S) /\ IsFiniteSet(M) /\ SumFunctionOnSet(F, S) \in Int
        /\ SumFunctionOnSet(F, kept) \in Int
        /\ SumFunctionOnSet(SatsOf(outs), M) \in Int /\ Total(w, k) \in Int
        /\ SumFunctionOnSet(F, S) + SumFunctionOnSet(SatsOf(outs), M)
             = SumFunctionOnSet(F, kept) + Total(w, k)

LEMMA MineMore ==
    ASSUME NEW who, NEW outs, NEW k \in Nat
    PROVE  Mine(who, outs, k + 1) = IF outs[k + 1].to = Address(who)
                                    THEN Mine(who, outs, k) \cup {k + 1} ELSE Mine(who, outs, k)
<1>1. \A i : i \in 1..(k + 1) <=> i \in 1..k \/ i = k + 1
  OBVIOUS
<1>2. QED
  BY <1>1, Zenon DEF Mine

OneMade(outs, kept, h, k, j) ==
    MadeOf(outs, kept, h, j) = IF IsAddress(outs[j].to) THEN MadeOf(outs, kept, h, k)
                               ELSE MadeOf(outs, kept, h, k) \cup {h[j]}

LEMMA OneMoreMade ==
    ASSUME NEW outs, NEW kept, NEW h, NEW k \in Nat
    PROVE  OneMade(outs, kept, h, k, k + 1)
<1>1. \A i : i \in 1..(k + 1) <=> i \in 1..k \/ i = k + 1
  OBVIOUS
<1>2. QED
  BY <1>1 DEF MadeOf, OneMade

SumsOn(a, b, c, d, e) ==
    /\ (e + a) + b = c + (d + e) /\ a + (e + b) = c + (d + e)
    /\ e + a \in Int /\ e + b \in Int /\ d + e \in Int
LEMMA TwoSums ==
    ASSUME NEW a \in Int, NEW b \in Int, NEW c \in Int, NEW d \in Int, NEW e \in Int, a + b = c + d
    PROVE  SumsOn(a, b, c, d, e)
BY DEF SumsOn

LEMMA BalancedMore ==
    ASSUME NEW who, NEW outs, NEW w, NEW F, NEW kept, NEW h, PassesOn(who, outs, w, F, kept, h),
           NEW k \in Nat, k + 1 <= Len(outs), Balanced(who, outs, w, F, kept, h, k)
    PROVE  Balanced(who, outs, w, F, kept, h, k + 1)
<1>1. PICK n \in Nat : n = Len(outs) /\ DOMAIN outs = 1..n
  BY DEF PassesOn
<1>2. PICK S, M : S = MadeOf(outs, kept, h, k) /\ M = Mine(who, outs, k)
  OBVIOUS
<1>3. PICK U, N : U = MadeOf(outs, kept, h, k + 1) /\ N = Mine(who, outs, k + 1)
  OBVIOUS
<1>4. PICK j \in 1..n : j = k + 1
  BY <1>1
<1>5. PICK g : g = SatsOf(outs)
  OBVIOUS
<1>6. /\ IsFiniteSet(S) /\ IsFiniteSet(M) /\ SumFunctionOnSet(F, S) \in Int
      /\ SumFunctionOnSet(F, kept) \in Int
      /\ SumFunctionOnSet(g, M) \in Int /\ Total(w, k) \in Int
      /\ SumFunctionOnSet(F, S) + SumFunctionOnSet(g, M) = SumFunctionOnSet(F, kept) + Total(w, k)
  BY <1>2, <1>5, Zenon DEF Balanced
<1>7. SUFFICES /\ IsFiniteSet(U) /\ IsFiniteSet(N) /\ SumFunctionOnSet(F, U) \in Int
               /\ SumFunctionOnSet(g, N) \in Int /\ Total(w, j) \in Int
               /\ SumFunctionOnSet(F, U) + SumFunctionOnSet(g, N)
                    = SumFunctionOnSet(F, kept) + Total(w, j)
  BY <1>3, <1>4, <1>5, <1>6, Zenon DEF Balanced
<1>8. Total(w, j) = Total(w, k) + w[j] /\ Total(w, j) \in Int /\ w[j] \in Int
  <2>1. \A i \in 1..(k + 1) : w[i] \in Int
    <3>1. \A i \in 1..(k + 1) : i \in 1..n
      BY <1>1
    <3>2. QED
      BY <1>1, <3>1 DEF PassesOn
  <2>2. Total(w, k + 1) = Total(w, k) + w[k + 1]
    BY <2>1, TotalMore
  <2>3. w[k + 1] \in Int
    BY <2>1
  <2>4. QED
    BY <1>4, <1>6, <2>2, <2>3
<1>9. PICK a \in Int, b \in Int, c \in Int, d \in Int, e \in Int :
          /\ a = SumFunctionOnSet(F, S) /\ b = SumFunctionOnSet(g, M)
          /\ c = SumFunctionOnSet(F, kept) /\ d = Total(w, k) /\ e = w[j] /\ a + b = c + d
  BY <1>6, <1>8, Zenon
<1>10. /\ (e + a) + b = c + (d + e) /\ a + (e + b) = c + (d + e)
       /\ e + a \in Int /\ e + b \in Int /\ d + e \in Int
  <2>1. a + b = c + d
    BY <1>9
  <2>2. SumsOn(a, b, c, d, e)
    BY <2>1, TwoSums
  <2>3. QED
    BY <2>2, Zenon DEF SumsOn
<1>11. \A i \in 1..n : g[i] = outs[i].sats
  BY <1>1, <1>5 DEF SatsOf
<1>12. N = IF outs[j].to = Address(who) THEN M \cup {j} ELSE M
  <2>1. Mine(who, outs, k + 1) = IF outs[k + 1].to = Address(who)
                                 THEN Mine(who, outs, k) \cup {k + 1} ELSE Mine(who, outs, k)
    BY MineMore
  <2>2. QED
    BY <1>2, <1>3, <1>4, <2>1, Zenon
<1>13. U = IF IsAddress(outs[j].to) THEN S ELSE S \cup {h[j]}
  <2>1. OneMade(outs, kept, h, k, k + 1)
    BY OneMoreMade
  <2>2. QED
    BY <1>2, <1>3, <1>4, <2>1, Zenon DEF OneMade
<1>14. /\ IsAddress(outs[j].to) => w[j] = Due(who, outs[j])
       /\ ~IsAddress(outs[j].to) =>
              /\ F[h[j]] = w[j] /\ h[j] \notin kept
              /\ \A i \in 1..n : ~IsAddress(outs[i].to) /\ h[j] = h[i] => j = i
  BY <1>1 DEF PassesOn
<1>15. CASE outs[j].to = Address(who)
  <2>1. IsAddress(outs[j].to)
    BY <1>15 DEF IsAddress, Address
  <2>2. w[j] = outs[j].sats /\ g[j] = w[j]
    BY <1>11, <1>14, <1>15, <2>1 DEF Due
  <2>3. N = M \cup {j} /\ U = S /\ j \notin M
    BY <1>2, <1>4, <1>12, <1>13, <1>15, <2>1 DEF Mine
  <2>4. \A i \in M \cup {j} : g[i] \in Int
    <3>1. ASSUME NEW i \in M PROVE g[i] \in Int
      <4>1. i \in 1..n /\ outs[i].to = Address(who)
        BY <1>1, <1>2 DEF Mine
      <4>2. IsAddress(outs[i].to) /\ w[i] \in Int
        BY <1>1, <4>1 DEF IsAddress, Address, PassesOn
      <4>3. w[i] = Due(who, outs[i])
        BY <1>1, <4>1, <4>2 DEF PassesOn
      <4>4. QED
        BY <1>11, <4>1, <4>2, <4>3 DEF Due
    <3>2. QED
      BY <1>8, <2>2, <3>1
  <2>5. SumFunctionOnSet(g, M \cup {j}) = g[j] + SumFunctionOnSet(g, M)
    BY <1>6, <2>3, <2>4, SumOneMore
  <2>6. IsFiniteSet(M \cup {j})
    BY <1>6, FS_AddElement
  <2>7. SumFunctionOnSet(g, N) = w[j] + SumFunctionOnSet(g, M) /\ IsFiniteSet(N)
    BY <2>2, <2>3, <2>5, <2>6, Zenon
  <2>8. IsFiniteSet(U) /\ SumFunctionOnSet(F, U) = a /\ SumFunctionOnSet(g, N) = e + b
    BY <1>6, <1>9, <2>3, <2>7, Zenon
  <2>9. QED
    BY <1>8, <1>9, <1>10, <2>7, <2>8, Zenon
<1>16. CASE outs[j].to # Address(who) /\ IsAddress(outs[j].to)
  <2>1. N = M /\ U = S /\ w[j] = 0
    BY <1>12, <1>13, <1>14, <1>16 DEF Due
  <2>2. QED
    BY <1>6, <1>8, <2>1
<1>17. CASE ~IsAddress(outs[j].to)
  <2>1. outs[j].to # Address(who)
    BY <1>17 DEF IsAddress, Address
  <2>2. PICK x : x = h[j] /\ F[x] = w[j] /\ N = M /\ U = S \cup {x}
    BY <1>12, <1>13, <1>14, <1>17, <2>1
  <2>3. x \notin S
    <3>1. SUFFICES ASSUME x \in S PROVE FALSE
      OBVIOUS
    <3>2. x \notin kept
      BY <1>14, <1>17, <2>2
    <3>3. PICK i \in 1..k : x = h[i] /\ ~IsAddress(outs[i].to)
      BY <1>2, <3>1, <3>2 DEF MadeOf
    <3>4. i \in 1..n /\ i # j
      BY <1>1, <1>4
    <3>5. QED
      BY <1>14, <1>17, <2>2, <3>3, <3>4
  <2>4. \A y \in S \cup {x} : F[y] \in Int
    <3>1. ASSUME NEW y \in S PROVE F[y] \in Int
      <4>1. CASE y \in kept
        BY <4>1 DEF PassesOn
      <4>2. CASE y \notin kept
        <5>1. PICK i \in 1..k : y = h[i] /\ ~IsAddress(outs[i].to)
          BY <1>2, <4>2 DEF MadeOf
        <5>2. i \in 1..Len(outs)
          BY <1>1
        <5>3. F[h[i]] = w[i] /\ w[i] \in Int
          BY <5>1, <5>2 DEF PassesOn
        <5>4. QED
          BY <5>1, <5>3
      <4>3. QED
        BY <4>1, <4>2
    <3>2. QED
      BY <1>8, <2>2, <3>1
  <2>5. SumFunctionOnSet(F, S \cup {x}) = F[x] + SumFunctionOnSet(F, S)
    BY <1>6, <2>3, <2>4, SumOneMore
  <2>6. IsFiniteSet(S \cup {x})
    BY <1>6, FS_AddElement
  <2>7. SumFunctionOnSet(F, U) = w[j] + SumFunctionOnSet(F, S) /\ IsFiniteSet(U)
    BY <2>2, <2>5, <2>6, Zenon
  <2>8. IsFiniteSet(N) /\ SumFunctionOnSet(g, N) = b /\ SumFunctionOnSet(F, U) = e + a
    BY <1>6, <1>9, <2>2, <2>7, Zenon
  <2>9. QED
    BY <1>8, <1>9, <1>10, <2>7, <2>8, Zenon
<1>18. QED
  BY <1>15, <1>16, <1>17

LEMMA AllHanded ==
    ASSUME NEW who, NEW outs, NEW w, NEW F, NEW kept, NEW h, PassesOn(who, outs, w, F, kept, h)
    PROVE  Len(outs) \in Nat /\ Balanced(who, outs, w, F, kept, h, Len(outs))
<1>1. PICK n \in Nat : n = Len(outs)
  BY DEF PassesOn
<1>2. Balanced(who, outs, w, F, kept, h, 0)
  <2>1. MadeOf(outs, kept, h, 0) = kept /\ Mine(who, outs, 0) = {}
    <3>1. 1..0 = {}
      OBVIOUS
    <3>2. QED
      BY <3>1 DEF MadeOf, Mine
  <2>2. /\ SumFunctionOnSet(F, kept) \in Int /\ SumFunctionOnSet(SatsOf(outs), {}) = 0
        /\ Total(w, 0) = 0 /\ IsFiniteSet(kept) /\ IsFiniteSet({})
    BY SumType, SumEmpty, TotalNone, FS_EmptySet DEF PassesOn
  <2>3. QED
    BY <2>1, <2>2 DEF Balanced
<1>3. PICK T : T = {k \in 0..n : Balanced(who, outs, w, F, kept, h, k)}
  OBVIOUS
<1>4. ASSUME NEW k \in 1..n, k - 1 \in T PROVE k \in T
  <2>1. PICK j \in Nat : j = k - 1 /\ j + 1 = k /\ j + 1 <= Len(outs)
    BY <1>1
  <2>2. Balanced(who, outs, w, F, kept, h, j)
    BY <1>3, <1>4, <2>1
  <2>3. Balanced(who, outs, w, F, kept, h, j + 1)
    BY <2>1, <2>2, BalancedMore
  <2>4. QED
    BY <1>3, <2>1, <2>3
<1>5. n \in T
  BY <1>2, <1>3, <1>4, StepByStep
<1>6. QED
  BY <1>1, <1>3, <1>5

LEMMA PaidAndMade ==
    ASSUME NEW who, NEW outs, NEW w, NEW F, NEW kept, NEW h, PassesOn(who, outs, w, F, kept, h),
           NEW n, n = Len(outs)
    PROVE  PaysOut(who, outs, F, kept, MadeOf(outs, kept, h, n), Total(w, n))
<1>1. n \in Nat /\ Balanced(who, outs, w, F, kept, h, n)
  BY AllHanded
<1>2. DOMAIN outs = 1..n
  BY DEF PassesOn
<1>3. SumFunctionOnSet(SatsOf(outs), Mine(who, outs, n)) = PaidTo(who, outs)
  BY <1>2, Zenon DEF SatsOf, Mine, PaidTo
<1>4. QED
  BY <1>1, <1>3, Zenon DEF Balanced, PaysOut

LEMMA PaidIsDue == ASSUME NEW who, NEW p, Payees(p) PROVE PaidTo(who, p) = Dues(who, p)
<1>1. PICK n \in Nat : n = Len(p)
  BY PayeesAre
<1>2. PICK v, S : /\ v = Worths(who, p) /\ v \in Seq(S) /\ \A e \in S : e.sats \in Int
  BY WorthsAre, OwingSats
<1>3. Len(v) = n /\ \A i \in 1..n : v[i] = Out(p[i], Due(who, p[i]))
  BY <1>1, <1>2 DEF Worths
<1>4. /\ OutSats(v) = Total(SatsOf(v), n)
      /\ \A i \in 1..n : SatsOf(v)[i] = v[i].sats /\ v[i].sats \in Int
  BY <1>2, <1>3, OutSatsTotal
<1>5. PICK w : w = SatsOf(v)
  OBVIOUS
<1>6. ASSUME NEW i \in 1..n PROVE w[i] \in Int /\ w[i] = Due(who, p[i]) /\ IsAddress(p[i].to)
  <2>1. v[i].sats = Due(who, p[i])
    BY <1>3, OutIs
  <2>2. QED
    BY <1>1, <1>4, <1>5, <2>1, PayeesAre
<1>7. PassesOn(who, p, w, <<>>, {}, <<>>)
  BY <1>1, <1>6, PayeesAre, FS_EmptySet DEF PassesOn
<1>8. MadeOf(p, {}, <<>>, n) = {}
  BY <1>6 DEF MadeOf
<1>9. /\ PaidTo(who, p) \in Int /\ Total(w, n) \in Int
      /\ SumFunctionOnSet(<<>>, {}) + PaidTo(who, p) = SumFunctionOnSet(<<>>, {}) + Total(w, n)
  <2>1. PaysOut(who, p, <<>>, {}, MadeOf(p, {}, <<>>, n), Total(w, n))
    BY <1>1, <1>7, PaidAndMade
  <2>2. QED
    BY <1>8, <2>1, Zenon DEF PaysOut
<1>10. SumFunctionOnSet(<<>>, {}) = 0
  BY SumEmpty
<1>11. PaidTo(who, p) = Total(w, n)
  BY <1>9, <1>10
<1>12. QED
  BY <1>2, <1>4, <1>5, <1>11 DEF Dues

LEMMA SharedNothing == ASSUME NEW who PROVE Shared(who, <<>>, 0)
<1>1. <<>> \in Seq(Range(<<>>)) /\ Len(<<>>) = 0 /\ 1..0 = {}
  OBVIOUS
<1>2. Prices(<<>>, <<>>, 0)
  BY <1>1, OutSatsNone DEF Prices
<1>3. QED
  BY <1>1, <1>2 DEF Shared

\* A spend that shares out what its coin owes keeps the accounts.
LEMMA SharedOut ==
    ASSUME Ledger, IsFiniteSet(coins), NEW who, NEW coin, NEW way, NEW s, Leaves(coin, way, s),
           NEW owed, Debts(who, owed, coins), Shared(who, way.tx.outs, owed[coin])
    PROVE  \E f : /\ Debts(who, f, coins') /\ IsFiniteSet(coins')
                  /\ PaidTo(who, way.tx.outs) \in Int
                  /\ SumFunctionOnSet(f, coins') \in Int /\ SumFunctionOnSet(owed, coins) \in Int
                  /\ SumFunctionOnSet(f, coins') + PaidTo(who, way.tx.outs)
                       = SumFunctionOnSet(owed, coins)
<1>1. coin \in coins /\ coins' = (coins \ {coin}) \cup NewCoins(coin, way)
  BY DEF Leaves
<1>2. coin.id \in Seq(Int) /\ coins \subseteq Ever
  BY <1>1 DEF Ledger, LedgerTypes, Ever
<1>3. PICK outs, v :
        /\ outs = way.tx.outs /\ outs \in Seq(Range(outs))
        /\ Prices(v, outs, owed[coin]) /\ v \in Seq(Range(v))
        /\ \A i \in 1..Len(outs) : ShareIs(who, outs[i], v[i].sats)
  BY DEF Shared
<1>4. PICK n \in Nat : n = Len(outs) /\ n = Len(v)
  BY <1>3 DEF Prices
<1>5. PICK kept, new : kept = coins \ {coin} /\ new = NewCoins(coin, way)
  OBVIOUS
<1>6. PICK w : w = SatsOf(v)
  OBVIOUS
<1>7. \A i \in 1..n : v[i].sats \in Nat /\ ShareIs(who, outs[i], v[i].sats)
  BY <1>3, <1>4 DEF ShareIs
<1>8. \A e \in Range(v) : e.sats \in Int
  <2>1. \A e \in Range(v) : \E i \in 1..n : e = v[i]
    BY <1>3, <1>4 DEF Range
  <2>2. QED
    BY <1>7, <2>1
<1>9. /\ Total(w, n) = owed[coin]
      /\ \A i \in 1..n : w[i] = v[i].sats /\ w[i] \in Nat
  <2>1. /\ OutSats(v) = Total(SatsOf(v), n)
        /\ \A i \in 1..n : SatsOf(v)[i] = v[i].sats
    BY <1>3, <1>4, <1>8, OutSatsTotal
  <2>2. OutSats(v) = owed[coin]
    BY <1>3 DEF Prices
  <2>3. QED
    BY <1>6, <1>7, <2>1, <2>2
<1>10. PICK h : h = [i \in 1..n |-> Coin(Append(coin.id, i), outs[i].to, outs[i].sats, now)]
  OBVIOUS
<1>11. ASSUME NEW i \in 1..n
       PROVE  h[i].contract = outs[i].to /\ h[i].id = Append(coin.id, i) /\ h[i].id[Len(h[i].id)] = i
  <2>1. h[i].contract = outs[i].to /\ h[i].id = Append(coin.id, i)
    BY <1>10 DEF Coin
  <2>2. Append(coin.id, i)[Len(Append(coin.id, i))] = i
    BY <1>2
  <2>3. QED
    BY <2>1, <2>2
<1>12. new = {h[i] : i \in {i \in 1..n : ~IsAddress(outs[i].to)}}
  <2>1. new = {Coin(Append(coin.id, i), outs[i].to, outs[i].sats, now) :
                 i \in {i \in 1..n : ~IsAddress(outs[i].to)}}
    BY <1>3, <1>4, <1>5, Zenon DEF NewCoins, IsAddress
  <2>2. \A i \in 1..n : h[i] = Coin(Append(coin.id, i), outs[i].to, outs[i].sats, now)
    BY <1>10
  <2>3. QED
    BY <2>1, <2>2
<1>13. MadeOf(outs, kept, h, n) = coins'
  BY <1>1, <1>5, <1>12, Zenon DEF MadeOf
<1>14. \A c \in new : c \notin kept
  <2>1. \A c \in new : \A d \in Ever : d.id # c.id
    BY <1>1, <1>5, NewIsNew
  <2>2. QED
    BY <1>2, <1>5, <2>1
<1>15. PICK f : f = [c \in coins' |-> IF c \in kept THEN owed[c] ELSE w[c.id[Len(c.id)]]]
  OBVIOUS
<1>16. \A c \in kept : f[c] = owed[c] /\ f[c] \in Nat /\ Owes(who, c.contract, f[c])
  <2>1. ASSUME NEW c \in kept PROVE f[c] = owed[c] /\ c \in coins
    BY <1>1, <1>5, <1>15
  <2>2. QED
    BY <2>1 DEF Debts
<1>17. ASSUME NEW i \in 1..n, ~IsAddress(outs[i].to)
       PROVE  h[i] \in new /\ f[h[i]] = w[i] /\ Owes(who, h[i].contract, f[h[i]])
  <2>1. h[i] \in new /\ h[i] \in coins' /\ h[i] \notin kept
    BY <1>1, <1>5, <1>12, <1>14, <1>17
  <2>2. f[h[i]] = w[i]
    BY <1>11, <1>15, <2>1
  <2>3. Owes(who, outs[i].to, v[i].sats)
    BY <1>7, <1>17 DEF ShareIs
  <2>4. QED
    BY <1>9, <1>11, <2>1, <2>2, <2>3
<1>18. PassesOn(who, outs, w, f, kept, h)
  <2>1. IsFiniteSet(kept)
    BY <1>5, FS_Subset
  <2>2. \A c \in kept : f[c] \in Int
    BY <1>16
  <2>3. ASSUME NEW i \in 1..n
        PROVE  /\ w[i] \in Int
               /\ IsAddress(outs[i].to) => w[i] = Due(who, outs[i])
               /\ ~IsAddress(outs[i].to) =>
                    /\ f[h[i]] = w[i] /\ h[i] \notin kept
                    /\ \A j \in 1..n : ~IsAddress(outs[j].to) /\ h[i] = h[j] => i = j
    <3>1. w[i] \in Int /\ (IsAddress(outs[i].to) => w[i] = Due(who, outs[i]))
      BY <1>7, <1>9 DEF ShareIs
    <3>2. \A j \in 1..n : h[i] = h[j] => i = j
      BY <1>11
    <3>3. ~IsAddress(outs[i].to) => f[h[i]] = w[i] /\ h[i] \notin kept
      BY <1>14, <1>17
    <3>4. QED
      BY <3>1, <3>2, <3>3
  <2>4. QED
    BY <1>3, <1>4, <2>1, <2>2, <2>3, Zenon DEF PassesOn
<1>19. PICK made, paid, left, all, owing :
         /\ made = SumFunctionOnSet(f, coins') /\ paid = PaidTo(who, outs)
         /\ left = SumFunctionOnSet(f, kept) /\ all = SumFunctionOnSet(owed, coins)
         /\ owing = owed[coin]
  OBVIOUS
<1>20. /\ IsFiniteSet(coins') /\ made \in Int /\ paid \in Int /\ left \in Int
       /\ made + paid = left + owing
  <2>1. PaysOut(who, outs, f, kept, MadeOf(outs, kept, h, n), Total(w, n))
    BY <1>4, <1>18, PaidAndMade
  <2>2. QED
    BY <1>9, <1>13, <1>19, <2>1, Zenon DEF PaysOut
<1>21. all = owing + left /\ owing \in Nat
  <2>1. IsFiniteSet(kept) /\ coin \notin kept /\ kept \cup {coin} = coins
    BY <1>1, <1>5, FS_Subset
  <2>2. \A y \in coins : owed[y] \in Nat
    BY DEF Debts
  <2>3. \A y \in kept \cup {coin} : owed[y] \in Int
    BY <2>1, <2>2
  <2>4. SumFunctionOnSet(owed, kept \cup {coin}) = owed[coin] + SumFunctionOnSet(f, kept)
    <3>1. OneMore(owed, f, kept, coin)
      BY <1>16, <2>1, <2>3, Zenon DEF OneMore
    <3>2. QED
      BY <3>1, OneMoreAdds
  <2>5. QED
    BY <1>1, <1>19, <2>1, <2>2, <2>4, Zenon
<1>22. all \in Int /\ made + paid = all
  BY <1>20, <1>21
<1>23. Debts(who, f, coins')
  <2>1. \A c \in coins' : f[c] \in Nat /\ Owes(who, c.contract, f[c])
    <3>1. ASSUME NEW c \in new PROVE f[c] \in Nat /\ Owes(who, c.contract, f[c])
      <4>1. PICK i \in 1..n : c = h[i] /\ ~IsAddress(outs[i].to)
        BY <1>12
      <4>2. QED
        BY <1>9, <1>17, <4>1
    <3>2. QED
      BY <1>1, <1>5, <1>16, <3>1
  <2>2. QED
    BY <1>15, <2>1, Zenon DEF Debts
<1>24. QED
  BY <1>3, <1>19, <1>20, <1>22, <1>23, Zenon

\* Nobody is owed less than nothing.
LEMMA SumInNat ==
    ASSUME NEW S, IsFiniteSet(S), NEW f, \A y \in S : f[y] \in Nat
    PROVE  SumFunctionOnSet(f, S) \in Nat
<1> DEFINE Bad == {n \in Nat : \E U \in SUBSET S :
                     Cardinality(U) = n /\ ~(SumFunctionOnSet(f, U) \in Nat)}
<1>1. SUFFICES ASSUME Bad # {} PROVE FALSE
  BY FS_CardinalityType
<1>2. PICK n \in Bad : \A k \in Bad : n <= k
  <2>1. Bad \in SUBSET Nat
    OBVIOUS
  <2> HIDE DEF Bad
  <2>2. QED
    BY <1>1, <2>1, LeastNat
<1>3. PICK U \in SUBSET S : Cardinality(U) = n /\ ~(SumFunctionOnSet(f, U) \in Nat)
  BY <1>2
<1>4. IsFiniteSet(U) /\ U # {}
  <2>1. U # {}
    <3>1. 0 \in Nat
      OBVIOUS
    <3>2. QED
      BY <1>3, <3>1, SumEmpty, Zenon
  <2>2. QED
    BY <2>1, FS_Subset
<1>5. PICK x \in U : TRUE
  BY <1>4
<1>6. PICK V : V = U \ {x} /\ V \in SUBSET S /\ x \notin V /\ V \cup {x} = U
  <2>1. U \ {x} \in SUBSET S /\ x \notin U \ {x} /\ (U \ {x}) \cup {x} = U
    OBVIOUS
  <2>2. QED
    BY <2>1
<1>7. IsFiniteSet(V) /\ Cardinality(V) = n - 1 /\ n - 1 \in Nat
  BY <1>3, <1>4, <1>5, <1>6, FS_Subset, SmallerByOne
<1>8. SumFunctionOnSet(f, V) \in Nat
  <2>1. n - 1 \notin Bad
    <3>1. ~(n <= n - 1)
      BY <1>2
    <3> HIDE DEF Bad
    <3>2. QED
      BY <1>2, <3>1
  <2>2. QED
    BY <1>6, <1>7, <2>1
<1>9. f[x] \in Nat /\ \A y \in V \cup {x} : f[y] \in Int
  BY <1>5, <1>6
<1>10. SumFunctionOnSet(f, V \cup {x}) = f[x] + SumFunctionOnSet(f, V)
  BY <1>6, <1>7, <1>9, SumOneMore
<1>11. f[x] + SumFunctionOnSet(f, V) \in Nat
  BY <1>8, <1>9
<1>12. QED
  BY <1>3, <1>6, <1>10, <1>11, Zenon

LEMMA ReceivedInt ==
    ASSUME NEW who, IsFiniteSet(spent), \A s \in spent : PaidTo(who, s.way.tx.outs) \in Int
    PROVE  Received(who) \in Int
<1>1. PICK f : f = [s \in spent |-> PaidTo(who, s.way.tx.outs)]
  OBVIOUS
<1>2. \A s \in spent : f[s] \in Int
  BY <1>1
<1>3. SumFunctionOnSet(f, spent) \in Int
  BY <1>2, SumType
<1>4. DOMAIN f = spent
  BY <1>1
<1>5. QED
  BY <1>1, <1>3, <1>4, Zenon DEF Received, SumFunction

LEMMA FormedOwes ==
    ASSUME NEW who, NEW c, NEW dust, Formed(c, dust), IsPayTree(c)
    PROVE  Payees(Payroll(c)) /\ Owes(who, c, Dues(who, Payroll(c)))
<1>1. CASE c.is = "TreePay"
  <2>1. c = TreePay(c.participants, c.radix) /\ c.radix \in Nat \ {0} /\ Payees(c.participants)
    BY <1>1 DEF Formed, TreeOf
  <2>2. Payroll(c) = c.participants
    BY <1>1 DEF Payroll
  <2>3. QED
    BY <2>1, <2>2, PayeesShare, Zenon DEF Owes
<1>2. CASE c.is \in {"FeeTreePay", "MiningPayout"}
  <2>1. Payees(c.participants) /\ c.radix \in Nat \ {0, 1}
    BY <1>2 DEF Formed
  <2>2. Payroll(c) = c.participants
    BY <1>2 DEF Payroll
  <2>3. QED
    BY <1>2, <2>1, <2>2, PayeesShare, Zenon DEF Owes
<1>3. CASE c.is = "TrampolinePay"
  <2>1. Payees(c.payments)
    BY <1>3 DEF Formed
  <2>2. Payroll(c) = c.payments
    BY <1>3 DEF Payroll
  <2>3. QED
    BY <1>3, <2>1, <2>2, PayeesShare, Zenon DEF Owes
<1>4. QED
  BY <1>1, <1>2, <1>3 DEF IsPayTree

LEMMA DuesInvInit == ASSUME Init PROVE DuesInv
<1>1. SUFFICES ASSUME IsPayTree(Plays[play].contract)
               PROVE  /\ signing \in DOMAIN Plays[play].deals
                      /\ Payees(Payroll(Plays[play].contract)) /\ \A who : InBalance(who)
  BY DEF DuesInv
<1>2. PICK c, sats, zero : c = Plays[play].contract /\ sats = Plays[play].sats
                           /\ zero = [blocks |-> 0, time |-> 0]
  OBVIOUS
<1>3. PICK coin : coin = Coin(<<>>, c, sats, zero) /\ coins = {coin} /\ coin.contract = c
  <2>1. coins = {Coin(<<>>, c, sats, zero)}
    <3>1. now = zero
      BY <1>2 DEF Init
    <3>2. QED
      BY <1>2, <3>1, Zenon DEF Init
  <2>2. Coin(<<>>, c, sats, zero).contract = c
    BY DEF Coin
  <2>3. QED
    BY <2>1, <2>2
<1>4. play \in DOMAIN Plays /\ Compiles(c, sats) /\ signing \in DOMAIN Plays[play].deals /\ spent = {}
  BY <1>2 DEF Init
<1>5. Formed(c, Plays[play].dust)
  BY <1>2, <1>4, FundingAssumption, Zenon
<1>6. ASSUME NEW who PROVE InBalance(who)
  <2>1. PICK due \in Nat : due = Dues(who, Payroll(c)) /\ Owes(who, c, due)
    BY <1>1, <1>2, <1>5, FormedOwes, PayeesShare
  <2>2. PICK owed : owed = [x \in coins |-> due]
    OBVIOUS
  <2>3. Debts(who, owed, coins)
    BY <1>3, <2>1, <2>2 DEF Debts
  <2>4. SumFunctionOnSet(owed, coins) = due
    <3>1. coins = {} \cup {coin} /\ owed[coin] = due /\ \A y \in {} \cup {coin} : owed[y] \in Int
      BY <1>3, <2>2
    <3>2. SumFunctionOnSet(owed, {} \cup {coin}) = owed[coin] + SumFunctionOnSet(owed, {})
      BY <3>1, FS_EmptySet, SumOneMore
    <3>3. SumFunctionOnSet(owed, {}) = 0
      BY SumEmpty
    <3>4. SumFunctionOnSet(owed, coins) = due + 0
      BY <3>1, <3>2, <3>3, Zenon
    <3>5. QED
      BY <3>4
  <2>5. Received(who) = 0
    <3>1. PICK f : f = [s \in spent |-> PaidTo(who, s.way.tx.outs)]
      OBVIOUS
    <3>2. DOMAIN f = {}
      BY <1>4, <3>1
    <3>3. Received(who) = SumFunctionOnSet(f, {})
      BY <3>1, <3>2, Zenon DEF Received, SumFunction
    <3>4. QED
      BY <3>3, SumEmpty
  <2>6. Received(who) + SumFunctionOnSet(owed, coins) = due
    BY <2>4, <2>5
  <2>7. QED
    BY <1>2, <1>3, <1>4, <2>1, <2>3, <2>6, FS_Singleton DEF InBalance
<1>7. Payees(Payroll(c))
  BY <1>1, <1>2, <1>5, FormedOwes
<1>8. QED
  BY <1>2, <1>4, <1>6, <1>7

LEMMA DuesInvSpend ==
    ASSUME Ledger, DuesInv, NEW coin, NEW way, NEW s, Leaves(coin, way, s)
    PROVE  DuesInv'
<1>1. SUFFICES ASSUME IsPayTree(Plays[play].contract)
               PROVE  /\ signing \in DOMAIN Plays[play].deals
                      /\ Payees(Payroll(Plays[play].contract)) /\ \A who : InBalance(who)'
  BY DEF DuesInv, Leaves
<1>2. /\ coin \in coins /\ way \in Ways(coin) /\ s.coin = coin /\ s.way = way
      /\ \E cond \in way.guard : s.keys = cond.keys
      /\ coins' = (coins \ {coin}) \cup NewCoins(coin, way)
      /\ spent' = spent \cup {s} /\ play' = play
  BY DEF Leaves
<1>3. /\ signing \in DOMAIN Plays[play].deals /\ Payees(Payroll(Plays[play].contract))
      /\ \A who : InBalance(who)
  BY <1>1 DEF DuesInv
<1>4. IsFiniteSet(spent) /\ s \notin spent
  BY <1>2 DEF Ledger, LedgerTypes, LedgerUnique
<1>5. ASSUME NEW who PROVE InBalance(who)'
  <2>1. InBalance(who)
    BY <1>3
  <2>2. CASE Consented(who)
    <3>1. Consented(who)'
      BY <1>2, <2>2 DEF Consented
    <3>2. QED
      BY <3>1 DEF InBalance
  <2>3. CASE ~Consented(who)
    <3>1. PICK owed, due : /\ Debts(who, owed, coins)
                           /\ due = Dues(who, Payroll(Plays[play].contract))
                           /\ Received(who) + SumFunctionOnSet(owed, coins) = due
      BY <2>1, <2>3 DEF InBalance
    <3>2. IsFiniteSet(coins) /\ \A t \in spent : PaidTo(who, t.way.tx.outs) \in Int
      BY <2>1, <2>3 DEF InBalance
    <3>3. PICK sats : sats = owed[coin] /\ Owes(who, coin.contract, sats)
      BY <1>2, <3>1 DEF Debts
    <3>4. Divides(who, way, sats)
      <4>1. way \in Ways(Holding(coin.contract, coin.sats))
        BY <1>2, WaysOfHolding
      <4>2. QED
        BY <3>3, <4>1, OwesDivides
    <3>5. CASE SignsAway(who, way, sats) /\ sats # 0
      <4>1. s \in spent' /\ ~s.way.ctv /\ <<who>> \in s.keys
        BY <1>2, <3>5 DEF SignsAway
      <4>2. Consented(who)'
        BY <4>1 DEF Consented
      <4>3. QED
        BY <4>2 DEF InBalance
    <3>6. CASE Shared(who, way.tx.outs, sats)
      <4>1. PICK f : /\ Debts(who, f, coins') /\ IsFiniteSet(coins') /\ PaidTo(who, way.tx.outs) \in Int
                     /\ SumFunctionOnSet(f, coins') \in Int /\ SumFunctionOnSet(owed, coins) \in Int
                     /\ SumFunctionOnSet(f, coins') + PaidTo(who, way.tx.outs)
                          = SumFunctionOnSet(owed, coins)
        BY <3>1, <3>2, <3>3, <3>6, SharedOut
      <4>2. \A t \in spent \cup {s} : PaidTo(who, t.way.tx.outs) \in Int
        BY <1>2, <3>2, <4>1
      <4>3. Received(who)' = Received(who) + PaidTo(who, s.way.tx.outs)
        BY <1>2, <1>4, <4>2, ReceivedMore
      <4>4. Received(who) \in Int
        BY <1>4, <3>2, ReceivedInt
      <4>5. PICK a, b, c, d : /\ a = Received(who) /\ b = PaidTo(who, way.tx.outs)
                              /\ c = SumFunctionOnSet(f, coins') /\ d = SumFunctionOnSet(owed, coins)
        OBVIOUS
      <4>6. a \in Int /\ b \in Int /\ c \in Int /\ c + b = d /\ a + d = due
        BY <3>1, <4>1, <4>4, <4>5, Zenon
      <4>7. (a + b) + c = due
        BY <4>6
      <4>8. Received(who)' + SumFunctionOnSet(f, coins') = due
        BY <1>2, <4>3, <4>5, <4>7, Zenon
      <4>9. QED
        BY <1>2, <3>1, <4>1, <4>2, <4>8 DEF InBalance
    <3>7. SignsAway(who, way, sats) /\ ~(sats # 0) => Shared(who, way.tx.outs, sats)
      BY SharedNothing DEF SignsAway
    <3>8. QED
      BY <3>4, <3>5, <3>6, <3>7 DEF Divides
  <2>4. QED
    BY <2>2, <2>3
<1>6. QED
  BY <1>3, <1>5

LEMMA DuesInvNext == ASSUME Ledger, DuesInv, [Next]_vars PROVE DuesInv'
<1>1. CASE UNCHANGED <<play, signing, coins, spent>>
  BY <1>1 DEF DuesInv, InBalance, Consented, Received
<1>2. ASSUME NEW coin \in coins, NEW way \in Ways(coin), Spend(coin, way) PROVE DuesInv'
  BY <1>2, SpendLeaves, DuesInvSpend
<1>3. QED
  BY <1>1, <1>2 DEF Next, SomeSpend, SomeTick, Tick, vars

\* Trees of payments pay what they were started with: nobody who did not sign a
\* coin away gets more than their payments, or in the end less, however the
\* payments are split and bundled (PaidWithinDeal: treepay.rs, the mining
\* pool's payouts, and the trampoline of the batching server).
THEOREM TreesKeepTheDeal == Spec => [](IsPayTree(Plays[play].contract) => PaidWithinDeal)
<1>1. Init => DuesInv
  BY DuesInvInit
<1>2. Ledger /\ DuesInv /\ [Next]_vars => DuesInv'
  BY DuesInvNext
<1>3. Ledger /\ DuesInv => (IsPayTree(Plays[play].contract) => PaidWithinDeal)
  <2>1. SUFFICES ASSUME Ledger, DuesInv, IsPayTree(Plays[play].contract) PROVE PaidWithinDeal
    OBVIOUS
  <2>2. /\ play \in DOMAIN Plays /\ IsFiniteSet(spent)
        /\ signing \in DOMAIN Plays[play].deals /\ Payees(Payroll(Plays[play].contract))
        /\ \A who : InBalance(who)
    BY <2>1 DEF Ledger, LedgerTypes, DuesInv
  <2>3. PICK deal \in Plays[play].deals[signing] :
          \A who \in DOMAIN deal : deal[who] = PaidTo(who, Payroll(Plays[play].contract))
    BY <2>1, <2>2, DealsAssumption
  <2>4. ASSUME NEW who \in DOMAIN deal, ~Consented(who)
        PROVE  IF coins = {} THEN Received(who) = deal[who] ELSE Received(who) <= deal[who]
    <3>1. PICK owed : /\ Debts(who, owed, coins)
                      /\ Received(who) + SumFunctionOnSet(owed, coins)
                           = Dues(who, Payroll(Plays[play].contract))
      BY <2>2, <2>4 DEF InBalance
    <3>2. Received(who) \in Int /\ IsFiniteSet(coins)
      BY <2>2, <2>4, ReceivedInt DEF InBalance
    <3>3. SumFunctionOnSet(owed, coins) \in Nat
      BY <3>1, <3>2, SumInNat DEF Debts
    <3>4. deal[who] = Dues(who, Payroll(Plays[play].contract))
      BY <2>2, <2>3, PaidIsDue
    <3>5. PICK a, b : a = Received(who) /\ b = SumFunctionOnSet(owed, coins)
      OBVIOUS
    <3>6. a \in Int /\ b \in Nat /\ a + b = deal[who]
      BY <3>1, <3>2, <3>3, <3>4, <3>5, Zenon
    <3>7. a <= a + b /\ (b = 0 => a = a + b)
      BY <3>6
    <3>8. coins = {} => b = 0
      BY <3>5, SumEmpty
    <3>9. QED
      BY <3>5, <3>6, <3>7, <3>8, Zenon
  <2>5. QED
    BY <2>3, <2>4 DEF PaidWithinDeal
<1>4. QED
  BY <1>1, <1>2, <1>3, LedgerHolds, PTL DEF Spec
=============================================================================
