--------------------------- MODULE ScreeningProofs ---------------------------
(***************************************************************************)
(* Proofs about Screening, for every set of transactions whose Pump.fun    *)
(* launches are laid out as detector.rs observed them and whose LaunchLab  *)
(* launches are laid out in any way, every ruleset and every answer of the *)
(* enrichment.                                                             *)
(***************************************************************************)
EXTENDS Screening, NaturalLemmas, FiniteSetTheorems, SequenceTheorems, TLAPS

-----------------------------------------------------------------------------
\* Selecting positions of a sequence.

LEMMA SameCardinality == \A S : D!Cardinality(S) = Cardinality(S)
  BY DEF D!Cardinality, Cardinality

\* K is a set of positions of a sequence of length n.
ArePositions(K, n) == n \in Nat /\ K \subseteq 1 .. n

\* How many of the positions K are not above i.
Rank(K, i) == Cardinality({j \in K : j <= i})

LEMMA RankSteps ==
  ASSUME NEW n \in Nat, NEW K, K \subseteq 1 .. n
  PROVE  /\ IsFiniteSet(K)
         /\ \A i \in 0 .. n : Rank(K, i) \in Nat
         /\ Rank(K, 0) = 0
         /\ Rank(K, n) = Cardinality(K)
         /\ \A i \in 1 .. n :
              Rank(K, i) = Rank(K, i - 1) + IF i \in K THEN 1 ELSE 0
<1>0. \A j \in K : j \in Int /\ 1 <= j /\ j <= n
  OBVIOUS
<1>1. IsFiniteSet(1 .. n)
  BY FS_Interval
<1>2. IsFiniteSet(K)
  BY <1>1, FS_Subset
<1>3. \A i : IsFiniteSet({j \in K : j <= i})
  <2> SUFFICES ASSUME NEW i
               PROVE  IsFiniteSet({j \in K : j <= i})
    OBVIOUS
  <2>1. {j \in K : j <= i} \subseteq K
    OBVIOUS
  <2>2. QED
    BY <1>2, <2>1, FS_Subset
<1>4. \A i : Rank(K, i) \in Nat
  BY <1>3, FS_CardinalityType DEF Rank
<1>5. Rank(K, 0) = 0
  <2>1. \A j \in K : ~(j <= 0)
    BY <1>0
  <2>2. {j \in K : j <= 0} = {}
    BY <2>1, Zenon
  <2>3. QED
    BY <2>2, FS_EmptySet DEF Rank
<1>6. Rank(K, n) = Cardinality(K)
  <2>1. {j \in K : j <= n} = K
    BY <1>0
  <2>2. QED
    BY <2>1 DEF Rank
<1>7. ASSUME NEW i \in 1 .. n
      PROVE  Rank(K, i) = Rank(K, i - 1) + IF i \in K THEN 1 ELSE 0
  <2> DEFINE below == {j \in K : j <= i - 1}
  <2>1. IsFiniteSet(below) /\ Cardinality(below) \in Nat
    BY <1>3, FS_CardinalityType
  <2>2. Rank(K, i - 1) = Cardinality(below)
    BY DEF Rank
  <2>3. \A j \in K : j <= i <=> (j <= i - 1 \/ j = i)
    BY <1>0
  <2>4. CASE i \in K
    <3>1. {j \in K : j <= i} = below \cup {i}
      BY <2>3, <2>4, Zenon
    <3>2. ~(i <= i - 1)
      OBVIOUS
    <3>3. i \notin below
      BY <3>2, Zenon
    <3> HIDE DEF below
    <3>4. Cardinality(below \cup {i}) = Cardinality(below) + 1
      BY <2>1, <3>3, FS_AddElement
    <3>5. QED
      BY <2>2, <2>4, <3>1, <3>4 DEF Rank
  <2>5. CASE i \notin K
    <3>1. {j \in K : j <= i} = below
      BY <2>3, <2>5, Zenon
    <3> HIDE DEF below
    <3>2. QED
      BY <2>1, <2>2, <2>5, <3>1 DEF Rank
  <2>6. QED
    BY <2>4, <2>5
<1>8. QED
  BY <1>2, <1>4, <1>5, <1>6, <1>7

\* Every rank is reached: at the first position where the count is k.
LEMMA RankIsReached ==
  ASSUME NEW n \in Nat, NEW K, K \subseteq 1 .. n, NEW k \in 1 .. Cardinality(K)
  PROVE  \E i \in K : Rank(K, i) = k
<1>0. /\ \A i \in 0 .. n : Rank(K, i) \in Nat
      /\ Rank(K, 0) = 0
      /\ Rank(K, n) = Cardinality(K)
      /\ \A i \in 1 .. n :
           Rank(K, i) = Rank(K, i - 1) + IF i \in K THEN 1 ELSE 0
  BY RankSteps, Zenon
<1>1. k \in Nat /\ k # 0 /\ n \in 0 .. n /\ Rank(K, n) >= k
  BY <1>0
<1> DEFINE T == {i \in 0 .. n : Rank(K, i) >= k}
<1>2. n \in T /\ T \subseteq Nat
  BY <1>1
<1> HIDE DEF T
<1>3. PICK i \in T : \A j \in T : i <= j
  BY <1>2, LeastNumber
<1>4. i \in 0 .. n /\ Rank(K, i) >= k
  BY <1>3 DEF T
<1>5. i # 0
  BY <1>0, <1>1, <1>4
<1>6. i \in 1 .. n /\ i - 1 \in 0 .. n /\ i - 1 \notin T
  BY <1>3, <1>4, <1>5
<1>7. ~(Rank(K, i - 1) >= k) /\ Rank(K, i - 1) \in Nat
  BY <1>0, <1>6 DEF T
<1>8. Rank(K, i) = Rank(K, i - 1) + IF i \in K THEN 1 ELSE 0
  BY <1>0, <1>6
<1>9. i \in K /\ Rank(K, i) = k
  BY <1>1, <1>4, <1>7, <1>8
<1>10. QED
  BY <1>9

\* The k-th position is one of them, and k of them are not above it.
LEMMA PositionIsKept ==
  ASSUME NEW n \in Nat, NEW K, K \subseteq 1 .. n, NEW k \in 1 .. D!Cardinality(K)
  PROVE  D!Position(K, k) \in K /\ Rank(K, D!Position(K, k)) = k
<1>1. \E i \in K : Rank(K, i) = k
  BY RankIsReached, SameCardinality
<1>2. D!Position(K, k) = CHOOSE i \in K : Rank(K, i) = k
  BY SameCardinality, Zenon DEF D!Position, Rank
<1>3. QED
  BY <1>1, <1>2

\* What is selected is what stands at the positions.
LEMMA SelectionItems ==
  ASSUME NEW n, NEW s, NEW K, ArePositions(K, n)
  PROVE  /\ D!Cardinality(K) \in Nat
         /\ Len(D!SelectAt(s, K)) = D!Cardinality(K)
         /\ DOMAIN D!SelectAt(s, K) = 1 .. D!Cardinality(K)
         /\ \A k \in 1 .. D!Cardinality(K) :
              /\ D!SelectAt(s, K)[k] = s[D!Position(K, k)]
              /\ D!Position(K, k) \in K
<1>1. D!Cardinality(K) \in Nat
  BY SameCardinality, RankSteps, FS_CardinalityType DEF ArePositions
<1>2. \A k \in 1 .. D!Cardinality(K) : D!Position(K, k) \in K
  BY PositionIsKept DEF ArePositions
<1>3. QED
  BY <1>1, <1>2 DEF D!SelectAt

\* It is a sequence over every set they are in.
LEMMA SelectionType ==
  ASSUME NEW S, NEW n, NEW s, NEW K, ArePositions(K, n),
         \A i \in K : s[i] \in S
  PROVE  D!SelectAt(s, K) \in Seq(S)
<1>1. D!Cardinality(K) \in Nat /\ \A k \in 1 .. D!Cardinality(K) : D!Position(K, k) \in K
  BY SelectionItems
<1>2. D!SelectAt(s, K) \in [1 .. D!Cardinality(K) -> S]
  BY <1>1 DEF D!SelectAt
<1>3. QED
  BY <1>1, <1>2

\* Selecting every position leaves a sequence as it is.
LEMMA SelectAll ==
  ASSUME NEW S, NEW s \in Seq(S)
  PROVE  D!SelectAt(s, DOMAIN s) = s
<1> DEFINE n == Len(s)
<1>1. n \in Nat /\ DOMAIN s = 1 .. n /\ s = [k \in 1 .. n |-> s[k]]
  OBVIOUS
<1> HIDE DEF n
<1>2. D!Cardinality(1 .. n) = n
  <2>1. Cardinality(1 .. n) = n
    <3>1. 1 \in Int /\ n \in Int
      BY <1>1
    <3>2. Cardinality(1 .. n) = IF 1 > n THEN 0 ELSE n - 1 + 1
      BY <3>1, FS_Interval, Zenon
    <3>3. QED
      BY <1>1, <3>2
  <2>2. QED
    BY <2>1, SameCardinality, Zenon
<1>3. ASSUME NEW k \in 1 .. n
      PROVE  D!Position(1 .. n, k) = k
  <2> DEFINE p == D!Position(1 .. n, k)
  <2>1. p \in 1 .. n /\ Rank(1 .. n, p) = k
    BY <1>1, <1>2, PositionIsKept
  <2> HIDE DEF p
  <2>2. {j \in 1 .. n : j <= p} = 1 .. p
    BY <1>1, <2>1
  <2>3. Cardinality(1 .. p) = p
    BY <2>1, FS_Interval
  <2>4. QED
    BY <2>1, <2>2, <2>3 DEF Rank, p
<1>4. QED
  BY <1>1, <1>2, <1>3 DEF D!SelectAt

\* Among the positions that are kept the ranks grow.
LEMMA RankGrows ==
  ASSUME NEW n \in Nat, NEW K, K \subseteq 1 .. n,
         NEW i \in K, NEW j \in K, i < j
  PROVE  Rank(K, i) < Rank(K, j)
<1> DEFINE low == {l \in K : l <= i}
           high == {l \in K : l <= j}
<1>1. IsFiniteSet(K)
  BY RankSteps
<1>2. high \subseteq K
  OBVIOUS
<1>3. IsFiniteSet(high)
  BY <1>1, <1>2, FS_Subset
<1>4. /\ \A l \in K : l <= i => l <= j
      /\ j <= j /\ ~(j <= i)
  <2>1. \A l \in K : l \in Int
    OBVIOUS
  <2>2. QED
    BY <2>1
<1>5. low \subseteq high /\ j \in high /\ j \notin low
  BY <1>4, Zenon
<1>6. Rank(K, i) = Cardinality(low) /\ Rank(K, j) = Cardinality(high)
  BY DEF Rank
<1> HIDE DEF low, high
<1>7. /\ Cardinality(low) <= Cardinality(high)
      /\ Cardinality(low) \in Nat /\ Cardinality(high) \in Nat
      /\ Cardinality(low) # Cardinality(high)
  BY <1>3, <1>5, FS_Subset, FS_CardinalityType
<1>8. QED
  BY <1>6, <1>7

\* If the first position is kept it stays the first.
LEMMA SelectFirst ==
  ASSUME NEW n, NEW K, ArePositions(K, n), 1 \in K
  PROVE  D!Position(K, 1) = 1 /\ D!Cardinality(K) >= 1
<1>0. n \in Nat /\ K \subseteq 1 .. n
  BY DEF ArePositions
<1>1. /\ IsFiniteSet(K)
      /\ Rank(K, 0) = 0
      /\ \A i \in 1 .. n : Rank(K, i) = Rank(K, i - 1) + IF i \in K THEN 1 ELSE 0
  BY <1>0, RankSteps, Zenon
<1>2. 1 \in 1 .. n /\ Rank(K, 1) = 1
  BY <1>0, <1>1
<1>3. Cardinality(K) \in Nat /\ Cardinality(K) # 0
  BY <1>1, FS_CardinalityType, FS_EmptySet
<1>4. D!Cardinality(K) >= 1 /\ D!Cardinality(K) \in Nat
  BY <1>3, SameCardinality
<1> DEFINE p == D!Position(K, 1)
<1>5. p \in K /\ Rank(K, p) = 1
  <2>1. 1 \in 1 .. D!Cardinality(K)
    BY <1>4
  <2>2. QED
    BY <1>0, <2>1, PositionIsKept, Zenon
<1> HIDE DEF p
<1>6. p \in Int /\ p >= 1
  BY <1>0, <1>5
<1>7. CASE p > 1
  <2>1. Rank(K, 1) < Rank(K, p)
    BY <1>0, <1>6, <1>7, <1>5, RankGrows
  <2>2. QED
    BY <1>2, <1>5, <2>1
<1>8. QED
  BY <1>4, <1>6, <1>7 DEF p

-----------------------------------------------------------------------------
\* Decoding one instruction.

LEMMA WalkType ==
  ASSUME NEW t \in Transactions
  PROVE  /\ Walk(t) \in Seq(Instructions)
         /\ \A i \in DOMAIN Walk(t) :
              Walk(t)[i] \in Instructions /\ OnChain(t, Walk(t)[i])
<1>1. t.outer \in Seq(Instructions) /\ t.inner \in Seq(Instructions)
  BY ChainAssumption
<1>2. Walk(t) \in Seq(Instructions)
  BY <1>1, ConcatProperties DEF Walk
<1>3. \A i \in DOMAIN Walk(t) : OnChain(t, Walk(t)[i])
  BY ChainAssumption
<1>4. \A i \in DOMAIN Walk(t) : Walk(t)[i] \in Instructions
  BY <1>2, ElementOfSeq
<1>5. QED
  BY <1>2, <1>3, <1>4

\* The accounts of an instruction once the ones that do not resolve are dropped:
\* all of them when nothing is loaded, and the first where it was if it resolves.
LEMMA ResolveFacts ==
  ASSUME NEW t \in Transactions, NEW ix \in Instructions, OnChain(t, ix)
  PROVE  /\ D!Resolve(t, ix) \in Seq(Accounts)
         /\ t.loaded = {} => D!Resolve(t, ix) = ix.accounts
         /\ Len(ix.accounts) >= 1 /\ ix.accounts[1] \in t.static =>
              /\ Len(D!Resolve(t, ix)) >= 1
              /\ D!Resolve(t, ix)[1] = ix.accounts[1]
<1> DEFINE s == ix.accounts
           n == Len(s)
           K == {i \in DOMAIN s : s[i] \in t.static}
<1>1. s \in Seq(Accounts) /\ n \in Nat /\ DOMAIN s = 1 .. n
  BY DEF Instructions
<1>2. ArePositions(K, n) /\ \A i \in K : s[i] \in Accounts
  BY <1>1 DEF ArePositions
<1>3. t.loaded = {} => K = DOMAIN s
  BY DEF OnChain
<1>4. D!Resolve(t, ix) = D!SelectAt(s, K)
  BY DEF D!Resolve
<1>5. n >= 1 /\ s[1] \in t.static => 1 \in K
  BY <1>1
<1> HIDE DEF s, n, K
<1>6. /\ D!SelectAt(s, K) \in Seq(Accounts)
      /\ Len(D!SelectAt(s, K)) = D!Cardinality(K)
      /\ D!Cardinality(K) \in Nat
      /\ \A k \in 1 .. D!Cardinality(K) : D!SelectAt(s, K)[k] = s[D!Position(K, k)]
  <2>1. D!SelectAt(s, K) \in Seq(Accounts)
    BY <1>1, <1>2, SelectionType
  <2>2. /\ D!Cardinality(K) \in Nat
        /\ Len(D!SelectAt(s, K)) = D!Cardinality(K)
        /\ \A k \in 1 .. D!Cardinality(K) :
             /\ D!SelectAt(s, K)[k] = s[D!Position(K, k)]
             /\ D!Position(K, k) \in K
    BY <1>2, SelectionItems
  <2>3. QED
    BY <2>1, <2>2, Zenon
<1>7. t.loaded = {} => D!SelectAt(s, K) = s
  BY <1>1, <1>3, SelectAll
<1>8. 1 \in K => D!Cardinality(K) >= 1 /\ D!SelectAt(s, K)[1] = s[1]
  <2> SUFFICES ASSUME 1 \in K
               PROVE  D!Cardinality(K) >= 1 /\ D!SelectAt(s, K)[1] = s[1]
    OBVIOUS
  <2>1. D!Position(K, 1) = 1 /\ D!Cardinality(K) >= 1
    BY <1>1, <1>2, SelectFirst
  <2>2. D!Cardinality(K) \in Nat
    BY <1>6
  <2>3. 1 \in 1 .. D!Cardinality(K)
    BY <2>1, <2>2
  <2>4. QED
    BY <1>6, <2>1, <2>3
<1>9. n >= 1 /\ s[1] \in t.static =>
        Len(D!SelectAt(s, K)) >= 1 /\ D!SelectAt(s, K)[1] = s[1]
  BY <1>5, <1>6, <1>8, Zenon
<1>10. QED
  BY <1>4, <1>6, <1>7, <1>9, Zenon DEF s, n

\* The strings of a Pump.fun launch, read in order.
LEMMA TextsRead ==
  ASSUME NEW ix \in Instructions, NEW c \in Launches, LaidOut(ix, c),
         c.venue = "PumpFun"
  PROVE  /\ D!ReadString(ix.fields) = IF Readable(c, 1) THEN c.name ELSE None
         /\ D!ReadString(D!SkipString(ix.fields))
              = IF Readable(c, 2) THEN c.symbol ELSE None
<1> DEFINE f == ix.fields
           Field == [text : Texts \cup {None}, ok : BOOLEAN]
<1>1. f \in Seq(Field) /\ Len(f) >= 2 /\ f # <<>>
  BY DEF Instructions, LaidOut
<1>2. /\ f[1].text = c.name /\ f[2].text = c.symbol
      /\ f[1].ok <=> c.readable >= 1
      /\ f[1].ok => (f[2].ok <=> c.readable = 2)
      /\ c.readable \in 0 .. 2
  BY DEF LaidOut, Launches
<1> HIDE DEF f, Field
<1>3. Head(f) = f[1] /\ Tail(f) # <<>> /\ Head(Tail(f)) = f[2]
  BY <1>1
<1>4. D!ReadString(f) = IF Readable(c, 1) THEN c.name ELSE None
  BY <1>1, <1>2, <1>3 DEF D!ReadString, Readable
<1>5. CASE f[1].ok
  <2>1. D!SkipString(f) = Tail(f)
    BY <1>1, <1>3, <1>5 DEF D!SkipString
  <2>2. QED
    BY <1>2, <1>3, <1>4, <1>5, <2>1 DEF D!ReadString, Readable, f
<1>6. CASE ~f[1].ok
  <2>1. D!SkipString(f) = f
    BY <1>1, <1>3, <1>6 DEF D!SkipString
  <2>2. QED
    BY <1>2, <1>4, <1>6, <2>1 DEF Readable, f
<1>7. QED
  BY <1>5, <1>6

\* An instruction that is recognised makes a launch of that venue.
LEMMA RecognisedMakes ==
  ASSUME NEW t \in Transactions, NEW ix \in Instructions, OnChain(t, ix),
         NEW vs \in SUBSET D!Venues, NEW v \in D!Venues
  PROVE  D!Recognises(vs, v, ix) <=>
           /\ ix.makes \in Launches /\ ix.makes.venue = v /\ v \in vs
           /\ LaidOut(ix, ix.makes)
<1>1. ix.makes \in Launches \cup {None} /\ None \notin Launches
  BY ScreeningAssumption DEF Instructions
<1>2. ASSUME NEW c \in Launches
      PROVE  c.venue \in D!Venues
  BY DEF Launches
<1>3. ASSUME NEW u \in D!Venues, NEW w \in D!Venues, Program[u] = Program[w]
      PROVE  u = w
  BY <1>3, ScreeningAssumption DEF D!Venues
<1>4. ASSUME D!Recognises(vs, v, ix)
      PROVE  /\ ix.makes \in Launches /\ ix.makes.venue = v /\ v \in vs
             /\ LaidOut(ix, ix.makes)
  <2>1. v \in vs /\ ix.program = Program[v] /\ ix.create
    BY <1>4 DEF D!Recognises
  <2>2. ix.makes \in Launches /\ LaidOut(ix, ix.makes)
    BY <1>1, <2>1 DEF OnChain
  <2>3. Program[ix.makes.venue] = Program[v]
    BY <2>1, <2>2 DEF LaidOut
  <2>4. QED
    BY <1>2, <1>3, <2>1, <2>2, <2>3
<1>5. QED
  BY <1>4 DEF D!Recognises, LaidOut

\* The text of a Pump.fun event is the launch's own, as far as it can be read.
Own(ev, c) ==
  /\ ev.mint = c.mint
  /\ ev.name = IF Readable(c, 1) THEN c.name ELSE None
  /\ ev.symbol = IF Readable(c, 2) THEN c.symbol ELSE None

\* It has a name and a symbol.
Named(c) == None \notin {c.name, c.symbol}

\* The Pump.fun decoder: None of a list too short to hold the creator.
LEMMA PumpfunDecoded ==
  ASSUME NEW ix \in Instructions, NEW c \in Launches, LaidOut(ix, c),
         c.venue = "PumpFun", NEW r \in Seq(Accounts)
  PROVE  LET ev == D!DecodePumpfun(ix.fields, r)
         IN  /\ Len(r) < 8 => ev = None
             /\ Len(r) >= 8 =>
                  /\ ev \in Events /\ ev # None
                  /\ ev.venue = "PumpFun" /\ ev.mint = r[1]
                  /\ ev.creator = r[8] /\ ev.pool = r[3]
                  /\ ev.mint = c.mint => Own(ev, c)
<1>1. /\ D!ReadString(ix.fields) = IF Readable(c, 1) THEN c.name ELSE None
      /\ D!ReadString(D!SkipString(ix.fields)) = IF Readable(c, 2) THEN c.symbol ELSE None
      /\ c.name \in Texts \cup {None} /\ c.symbol \in Texts \cup {None}
  BY TextsRead DEF Launches
<1>2. \A i \in 1 .. Len(r) : r[i] \in Accounts /\ r[i] # None
  BY ScreeningAssumption
<1>3. Len(r) \in Nat
  OBVIOUS
<1>4. ASSUME Len(r) < 8
      PROVE  D!DecodePumpfun(ix.fields, r) = None
  BY <1>3, <1>4 DEF D!DecodePumpfun, D!Get
<1>5. ASSUME Len(r) >= 8
      PROVE  LET ev == D!DecodePumpfun(ix.fields, r)
             IN  /\ ev \in Events /\ ev # None
                 /\ ev.venue = "PumpFun" /\ ev.mint = r[1]
                 /\ ev.creator = r[8] /\ ev.pool = r[3]
                 /\ ev.mint = c.mint => Own(ev, c)
  <2>1. /\ D!Get(r, 0) = r[1] /\ D!Get(r, 7) = r[8] /\ D!Get(r, 2) = r[3]
        /\ {r[1], r[3], r[8]} \subseteq Accounts /\ None \notin {r[1], r[8]}
    BY <1>2, <1>3, <1>5 DEF D!Get
  <2>2. D!DecodePumpfun(ix.fields, r)
          = [venue |-> "PumpFun", mint |-> r[1], creator |-> r[8], pool |-> r[3],
             name |-> D!ReadString(ix.fields),
             symbol |-> D!ReadString(D!SkipString(ix.fields))]
    BY <2>1 DEF D!DecodePumpfun, D!Event
  <2>3. D!DecodePumpfun(ix.fields, r) \in Events
    BY <1>1, <2>1, <2>2 DEF Events, D!Venues
  <2>4. D!DecodePumpfun(ix.fields, r) # None
    BY <2>3, ScreeningAssumption
  <2>5. QED
    BY <1>1, <2>2, <2>3, <2>4 DEF Own
<1>6. QED
  BY <1>3, <1>4, <1>5

\* The LaunchLab decoder.
LEMMA RaydiumDecoded ==
  ASSUME NEW r \in Seq(Accounts)
  PROVE  LET ev == D!DecodeRaydium(r)
         IN  /\ Len(r) < 2 => ev = None
             /\ Len(r) >= 2 =>
                  /\ ev \in Events /\ ev # None
                  /\ ev.venue = "RaydiumLaunchLab" /\ ev.mint = r[2]
                  /\ ev.creator = r[Len(r)] /\ ev.pool = r[1]
                  /\ ev.name = None /\ ev.symbol = None
<1>1. \A i \in 1 .. Len(r) : r[i] \in Accounts
  OBVIOUS
<1>2. Len(r) \in Nat
  OBVIOUS
<1>3. ASSUME Len(r) >= 2
      PROVE  LET ev == D!DecodeRaydium(r)
             IN  /\ ev \in Events /\ ev # None
                 /\ ev.venue = "RaydiumLaunchLab" /\ ev.mint = r[2]
                 /\ ev.creator = r[Len(r)] /\ ev.pool = r[1]
                 /\ ev.name = None /\ ev.symbol = None
  <2>1. /\ D!Get(r, 0) = r[1] /\ D!Get(r, 1) = r[2] /\ D!Last(r) = r[Len(r)]
        /\ {r[1], r[2], r[Len(r)]} \subseteq Accounts
    BY <1>1, <1>2, <1>3 DEF D!Get, D!Last
  <2>2. D!DecodeRaydium(r)
          = [venue |-> "RaydiumLaunchLab", mint |-> r[2], creator |-> r[Len(r)],
             pool |-> r[1], name |-> None, symbol |-> None]
    BY <1>2, <1>3, <2>1 DEF D!DecodeRaydium, D!Event
  <2>3. D!DecodeRaydium(r) \in Events
    BY <2>1, <2>2 DEF Events, D!Venues
  <2>4. D!DecodeRaydium(r) # None
    BY <2>3, ScreeningAssumption
  <2>5. QED
    BY <2>2, <2>3, <2>4
<1>4. QED
  BY <1>2, <1>3 DEF D!DecodeRaydium

\* One instruction: what the detector makes of it, and of which launch.
LEMMA InstructionDecoded ==
  ASSUME NEW t \in Transactions, NEW ix \in Instructions, OnChain(t, ix),
         NEW vs \in SUBSET D!Venues
  PROVE  LET ev == D!DecodeInstruction(vs, t, ix)
             c  == ix.makes
         IN  /\ ev # None =>
                  /\ ev \in Events /\ c \in Launches /\ c.venue \in vs
                  /\ ev.venue = c.venue
                  /\ ev.venue = "PumpFun" => Own(ev, c) /\ Named(c)
                  /\ t.loaded = {} => Describes(ev, c)
             /\ t.loaded = {} /\ c # None /\ c.venue \in vs => ev # None
<1> DEFINE ev == D!DecodeInstruction(vs, t, ix)
           c == ix.makes
           r == D!Resolve(t, ix)
<1>1. /\ r \in Seq(Accounts)
      /\ t.loaded = {} => r = ix.accounts
      /\ Len(ix.accounts) >= 1 /\ ix.accounts[1] \in t.static =>
           Len(r) >= 1 /\ r[1] = ix.accounts[1]
  BY ResolveFacts
<1>2. c \in Launches \cup {None}
  BY DEF Instructions
<1>3. CASE ix.program \notin t.static
  <2>1. ev = None
    BY <1>3 DEF D!DecodeInstruction
  <2>2. t.loaded # {}
    BY <1>3 DEF OnChain
  <2>3. QED
    BY <2>1, <2>2
<1>4. CASE ix.program \in t.static /\ D!Recognises(vs, "PumpFun", ix)
  <2>1. c \in Launches /\ c.venue = "PumpFun" /\ "PumpFun" \in vs /\ LaidOut(ix, c)
    BY <1>4, RecognisedMakes DEF D!Venues
  <2>2. ~D!Recognises(vs, "RaydiumLaunchLab", ix)
    BY <2>1, RecognisedMakes DEF D!Venues
  <2>3. ev = D!DecodePumpfun(ix.fields, r)
    BY <1>4, <2>2 DEF D!DecodeInstruction, D!Decode
  <2>4. /\ Named(c)
        /\ Len(ix.accounts) >= 8 /\ c.mint = ix.accounts[1]
        /\ c.pool = ix.accounts[3] /\ c.creator = ix.accounts[8]
        /\ ix.accounts[1] \in t.static
    BY <2>1, ScreeningAssumption DEF LaidOut, OnChain, Named
  <2>5. Len(ix.accounts) >= 1 /\ Len(r) \in Nat
    BY <1>1, <2>4 DEF Instructions
  <2>6. r[1] = c.mint
    BY <1>1, <2>4, <2>5
  <2> HIDE DEF ev, c, r
  <2>7. /\ Len(r) < 8 => ev = None
        /\ Len(r) >= 8 =>
             /\ ev \in Events /\ ev # None
             /\ ev.venue = "PumpFun" /\ ev.mint = r[1]
             /\ ev.creator = r[8] /\ ev.pool = r[3]
             /\ ev.mint = c.mint => Own(ev, c)
    BY <1>1, <2>1, <2>3, PumpfunDecoded
  <2>8. t.loaded = {} => Len(r) >= 8 /\ r[3] = c.pool /\ r[8] = c.creator
    BY <1>1, <2>4
  <2>9. /\ ev # None =>
             /\ ev \in Events /\ c \in Launches /\ c.venue \in vs
             /\ ev.venue = c.venue
             /\ ev.venue = "PumpFun" => Own(ev, c) /\ Named(c)
             /\ t.loaded = {} => Describes(ev, c)
        /\ t.loaded = {} /\ c # None /\ c.venue \in vs => ev # None
    BY <2>1, <2>4, <2>5, <2>6, <2>7, <2>8 DEF Describes
  <2>10. QED
    BY <2>9 DEF ev, c
<1>5. CASE ix.program \in t.static /\ D!Recognises(vs, "RaydiumLaunchLab", ix)
  <2>1. /\ c \in Launches /\ c.venue = "RaydiumLaunchLab"
        /\ "RaydiumLaunchLab" \in vs /\ LaidOut(ix, c)
    BY <1>5, RecognisedMakes DEF D!Venues
  <2>2. ~D!Recognises(vs, "PumpFun", ix)
    BY <2>1, RecognisedMakes DEF D!Venues
  <2>3. ev = D!DecodeRaydium(r)
    BY <1>5, <2>2 DEF D!DecodeInstruction, D!Decode
  <2>4. Len(ix.accounts) >= 2
    BY <2>1 DEF LaidOut
  <2>5. Len(r) \in Nat
    BY <1>1
  <2> HIDE DEF ev, c, r
  <2>6. /\ Len(r) < 2 => ev = None
        /\ Len(r) >= 2 =>
             /\ ev \in Events /\ ev # None
             /\ ev.venue = "RaydiumLaunchLab" /\ ev.mint = r[2]
             /\ ev.creator = r[Len(r)] /\ ev.pool = r[1]
             /\ ev.name = None /\ ev.symbol = None
    BY <1>1, <2>3, RaydiumDecoded
  <2>7. t.loaded = {} => Len(r) >= 2
    BY <1>1, <2>4
  <2>8. /\ ev # None =>
             /\ ev \in Events /\ c \in Launches /\ c.venue \in vs
             /\ ev.venue = c.venue
             /\ ev.venue = "PumpFun" => Own(ev, c) /\ Named(c)
             /\ t.loaded = {} => Describes(ev, c)
        /\ t.loaded = {} /\ c # None /\ c.venue \in vs => ev # None
    BY <2>1, <2>5, <2>6, <2>7 DEF Describes
  <2>9. QED
    BY <2>8 DEF ev, c
<1>6. CASE /\ ix.program \in t.static
           /\ \A v \in D!Venues : ~D!Recognises(vs, v, ix)
  <2>1. ev = None
    BY <1>6 DEF D!DecodeInstruction, D!Decode, D!Venues
  <2>2. ~(c # None /\ c.venue \in vs)
    <3> SUFFICES ASSUME c # None, c.venue \in vs
                 PROVE  FALSE
      OBVIOUS
    <3>1. c \in Launches /\ LaidOut(ix, c) /\ c.venue \in D!Venues
      BY <1>2 DEF OnChain
    <3>2. D!Recognises(vs, c.venue, ix)
      BY <3>1, RecognisedMakes
    <3>3. QED
      BY <1>6, <3>1, <3>2
  <2>3. QED
    BY <2>1, <2>2
<1>7. QED
  BY <1>3, <1>4, <1>5, <1>6 DEF D!Venues

-----------------------------------------------------------------------------
\* The walk over a transaction.

\* The instructions of which an event is made.
Kept(vs, t) ==
  {i \in DOMAIN Walk(t) : D!DecodeInstruction(vs, t, Walk(t)[i]) # None}

LEMMA Extracted ==
  ASSUME NEW t \in Transactions, NEW vs \in SUBSET D!Venues
  PROVE  /\ D!Extract(vs, t) \in Seq(Events)
         /\ Len(D!Extract(vs, t)) = D!Cardinality(Kept(vs, t))
         /\ DOMAIN D!Extract(vs, t) = 1 .. D!Cardinality(Kept(vs, t))
         /\ \A k \in 1 .. D!Cardinality(Kept(vs, t)) :
              /\ D!Position(Kept(vs, t), k) \in Kept(vs, t)
              /\ D!Extract(vs, t)[k]
                   = D!DecodeInstruction(vs, t, Walk(t)[D!Position(Kept(vs, t), k)])
<1> DEFINE w == Walk(t)
           K == Kept(vs, t)
           events == [i \in DOMAIN w |-> D!DecodeInstruction(vs, t, w[i])]
<1>1. /\ w \in Seq(Instructions) /\ Len(w) \in Nat /\ DOMAIN w = 1 .. Len(w)
      /\ \A i \in DOMAIN w : w[i] \in Instructions /\ OnChain(t, w[i])
  BY WalkType
<1>2. D!Extract(vs, t) = D!SelectAt(events, K)
  <2>1. {i \in DOMAIN w : events[i] # None} = K
    BY DEF Kept
  <2>2. QED
    BY <2>1 DEF D!Extract, D!Collect, Walk
<1>3. ArePositions(K, Len(w))
  BY <1>1 DEF ArePositions, Kept
<1>4. \A i \in K : events[i] = D!DecodeInstruction(vs, t, w[i]) /\ events[i] \in Events
  BY <1>1, InstructionDecoded DEF Kept
<1> HIDE DEF w, K, events
<1>5. D!SelectAt(events, K) \in Seq(Events)
  BY <1>3, <1>4, SelectionType
<1>6. /\ Len(D!SelectAt(events, K)) = D!Cardinality(K)
      /\ DOMAIN D!SelectAt(events, K) = 1 .. D!Cardinality(K)
      /\ \A k \in 1 .. D!Cardinality(K) :
           /\ D!SelectAt(events, K)[k] = events[D!Position(K, k)]
           /\ D!Position(K, k) \in K
  BY <1>3, SelectionItems
<1>7. \A k \in 1 .. D!Cardinality(K) :
        /\ D!Position(K, k) \in K
        /\ D!SelectAt(events, K)[k] = D!DecodeInstruction(vs, t, w[D!Position(K, k)])
  BY <1>4, <1>6
<1>8. QED
  BY <1>2, <1>5, <1>6, <1>7 DEF w, K

-----------------------------------------------------------------------------
\* The launches are those of the transaction, and of no other.
ReadInv ==
  /\ status # "read" => launches = <<>>
  /\ status = "read" => ~tx.failed /\ launches = D!Extract(targets, tx)

\* What was accepted passed the rules with the facts it still has.
VerdictInv ==
  \A i \in DOMAIN launches :
    stage[i] = "accepted" =>
      F!Evaluate(rules, launches[i], F!FactsOrDefault(facts[i]))

\* Every launch event names a mint and a creator, and the handling of each has
\* a stage and facts of its own.
THEOREM TypeCorrect == Spec => []TypeOK
<1>1. Init => TypeOK
  <2>1. <<>> \in [DOMAIN <<>> -> Stages] /\ <<>> \in [DOMAIN <<>> -> Enrichment \cup {None}]
    OBVIOUS
  <2>2. QED
    BY <2>1 DEF Init, TypeOK
<1>2. TypeOK /\ [Next]_vars => TypeOK'
  <2> SUFFICES ASSUME TypeOK, [Next]_vars
               PROVE  TypeOK'
    OBVIOUS
  <2> USE DEF TypeOK
  <2>1. CASE Withhold
    BY <2>1 DEF Withhold
  <2>2. CASE Read
    <3>1. launches' \in Seq(Events)
      BY <2>2, Extracted DEF Read
    <3>2. QED
      BY <2>2, <3>1 DEF Read, Stages
  <2>3. ASSUME NEW i \in DOMAIN launches, Prefilter(i)
        PROVE  TypeOK'
    BY <2>3 DEF Prefilter, Judge, Stages
  <2>4. ASSUME NEW i \in DOMAIN launches, FetchFacts(i)
        PROVE  TypeOK'
    BY <2>4 DEF FetchFacts, Judge, Stages
  <2>5. ASSUME NEW i \in DOMAIN launches, Evaluate(i)
        PROVE  TypeOK'
    BY <2>5 DEF Evaluate, Judge, Stages
  <2>6. CASE UNCHANGED vars
    BY <2>6 DEF vars
  <2>7. QED
    BY <2>1, <2>2, <2>3, <2>4, <2>5, <2>6 DEF Next
<1>3. QED
  BY <1>1, <1>2, PTL DEF Spec

LEMMA ReadInvariance == Spec => []ReadInv
<1>1. Init => ReadInv
  BY DEF Init, ReadInv
<1>2. TypeOK /\ ReadInv /\ [Next]_vars => ReadInv'
  <2> SUFFICES ASSUME TypeOK, ReadInv, [Next]_vars
               PROVE  ReadInv'
    OBVIOUS
  <2> USE DEF ReadInv
  <2>1. CASE Withhold
    BY <2>1 DEF Withhold
  <2>2. CASE Read
    BY <2>2 DEF Read, D!Matches
  <2>3. CASE UNCHANGED <<targets, rules, tx, status, launches>>
    BY <2>3
  <2>4. QED
    BY <2>1, <2>2, <2>3 DEF Next, vars, Prefilter, FetchFacts, Evaluate, Judge
<1>3. QED
  BY <1>1, <1>2, TypeCorrect, PTL DEF Spec

LEMMA VerdictInvariance == Spec => []VerdictInv
<1>1. Init => VerdictInv
  BY DEF Init, VerdictInv
<1>2. TypeOK /\ VerdictInv /\ [Next]_vars => VerdictInv'
  <2> SUFFICES ASSUME TypeOK, VerdictInv, [Next]_vars
               PROVE  VerdictInv'
    OBVIOUS
  <2> USE DEF VerdictInv, TypeOK
  <2>1. CASE Withhold
    BY <2>1 DEF Withhold
  <2>2. CASE Read
    BY <2>2 DEF Read
  <2>3. ASSUME NEW i \in DOMAIN launches, Prefilter(i)
        PROVE  VerdictInv'
    BY <2>3 DEF Prefilter, Judge
  <2>4. ASSUME NEW i \in DOMAIN launches, FetchFacts(i)
        PROVE  VerdictInv'
    BY <2>4 DEF FetchFacts, Judge
  <2>5. ASSUME NEW i \in DOMAIN launches, Evaluate(i)
        PROVE  VerdictInv'
    BY <2>5 DEF Evaluate, Judge
  <2>6. CASE UNCHANGED vars
    BY <2>6 DEF vars
  <2>7. QED
    BY <2>1, <2>2, <2>3, <2>4, <2>5, <2>6 DEF Next
<1>3. QED
  BY <1>1, <1>2, TypeCorrect, PTL DEF Spec

-----------------------------------------------------------------------------
\* Without facts a launch is bought only under rules that ask for none.
THEOREM MissingFactsFail == Spec => []UnenrichedNeedsNoCheck
<1>1. TypeOK /\ VerdictInv => UnenrichedNeedsNoCheck
  <2> SUFFICES ASSUME TypeOK, VerdictInv, NEW i \in DOMAIN launches,
                      stage[i] = "accepted", facts[i] = None
               PROVE  /\ rules.minLiquidity <= 0 /\ rules.minLpLocked <= 0
                      /\ ~rules.needMintRenounced /\ ~rules.needFreezeNull
                      /\ ~rules.needSocials
    BY DEF UnenrichedNeedsNoCheck
  <2>1. F!Evaluate(rules, launches[i], F!DefaultFacts)
    BY DEF VerdictInv, F!FactsOrDefault
  <2>2. rules.minLiquidity \in Int /\ rules.minLpLocked \in Int
    BY ScreeningAssumption DEF TypeOK
  <2>3. QED
    BY <2>1, <2>2 DEF F!Evaluate, F!DefaultFacts
<1>2. QED
  BY <1>1, TypeCorrect, VerdictInvariance, PTL

-----------------------------------------------------------------------------
\* Without lookup tables an event is made of exactly the instructions that make
\* a launch of an enabled venue.
LEMMA LegacyReport ==
  ASSUME TypeOK, ReadInv, Legacy, status = "read"
  PROVE  /\ Len(launches) = Len(Made)
         /\ \A k \in DOMAIN launches :
              /\ Made[k] \in Launches
              /\ Describes(launches[k], Made[k])
              /\ launches[k].venue = "PumpFun" =>
                   Own(launches[k], Made[k]) /\ Named(Made[k])
<1> DEFINE w == Walk(tx)
           K == Kept(targets, tx)
           makes == [i \in DOMAIN w |-> w[i].makes]
<1>1. tx \in Transactions /\ targets \in SUBSET D!Venues
  BY DEF TypeOK
<1>2. /\ Len(w) \in Nat /\ DOMAIN w = 1 .. Len(w)
      /\ \A i \in DOMAIN w : w[i] \in Instructions /\ OnChain(tx, w[i])
  BY <1>1, WalkType
<1>3. K = {i \in DOMAIN w : w[i].makes # None /\ w[i].makes.venue \in targets}
  <2>1. ASSUME NEW i \in DOMAIN w
        PROVE  D!DecodeInstruction(targets, tx, w[i]) # None
                 <=> w[i].makes # None /\ w[i].makes.venue \in targets
    <3>1. w[i].makes \in Launches => w[i].makes # None
      BY ScreeningAssumption
    <3>2. QED
      BY <1>1, <1>2, <3>1, InstructionDecoded DEF Legacy
  <2>2. QED
    BY <2>1 DEF Kept
<1>4. Made = D!SelectAt(makes, K)
  BY <1>3 DEF Made
<1>5. ArePositions(K, Len(w))
  BY <1>2 DEF ArePositions, Kept
<1>6. \A i \in K : /\ i \in DOMAIN w /\ makes[i] = w[i].makes
                   /\ D!DecodeInstruction(targets, tx, w[i]) # None
  BY DEF Kept
<1>7. launches = D!Extract(targets, tx)
  BY DEF ReadInv
<1> HIDE DEF w, K, makes
<1>8. /\ Len(Made) = D!Cardinality(K)
      /\ \A k \in 1 .. D!Cardinality(K) :
           Made[k] = makes[D!Position(K, k)] /\ D!Position(K, k) \in K
  BY <1>4, <1>5, SelectionItems
<1>9. /\ Len(launches) = D!Cardinality(K) /\ DOMAIN launches = 1 .. D!Cardinality(K)
      /\ \A k \in 1 .. D!Cardinality(K) :
           launches[k] = D!DecodeInstruction(targets, tx, w[D!Position(K, k)])
  BY <1>1, <1>7, Extracted DEF K, w
<1>10. ASSUME NEW k \in DOMAIN launches
       PROVE  /\ Made[k] \in Launches
              /\ Describes(launches[k], Made[k])
              /\ launches[k].venue = "PumpFun" =>
                   Own(launches[k], Made[k]) /\ Named(Made[k])
  <2> DEFINE p == D!Position(K, k)
  <2>1. /\ p \in K /\ Made[k] = makes[p]
        /\ launches[k] = D!DecodeInstruction(targets, tx, w[p])
    BY <1>8, <1>9
  <2> HIDE DEF p
  <2>2. /\ p \in DOMAIN w /\ Made[k] = w[p].makes
        /\ w[p] \in Instructions /\ OnChain(tx, w[p]) /\ launches[k] # None
    BY <1>2, <1>6, <2>1
  <2>3. tx.loaded = {}
    BY DEF Legacy
  <2>4. QED
    BY <1>1, <2>1, <2>2, <2>3, InstructionDecoded
<1>11. QED
  BY <1>8, <1>9, <1>10

\* A transaction without lookup tables is reported as it is: every launch of an
\* enabled venue, once, in the order of the walk, and nothing else, and those of
\* Pump.fun with their own accounts.
THEOREM ReportIsFaithful == Spec => []ReportsTheLaunchesMade
<1>1. TypeOK /\ ReadInv => ReportsTheLaunchesMade
  <2> SUFFICES ASSUME TypeOK, ReadInv, status = "read", Legacy
               PROVE  /\ ~tx.failed
                      /\ Len(launches) = Len(Made)
                      /\ \A i \in DOMAIN launches : Describes(launches[i], Made[i])
    BY DEF ReportsTheLaunchesMade
  <2>1. ~tx.failed
    BY DEF ReadInv
  <2>2. QED
    BY <2>1, LegacyReport
<1>2. QED
  BY <1>1, TypeCorrect, ReadInvariance, PTL

\* With or without lookup tables, the texts of a Pump.fun event are those of
\* the launch it is about.
THEOREM MetadataIsKept == Spec => []MetadataIsOwn
<1>1. TypeOK /\ ReadInv => MetadataIsOwn
  <2> SUFFICES ASSUME TypeOK, ReadInv, NEW k \in DOMAIN launches,
                      launches[k].venue = "PumpFun"
               PROVE  \E c \in Creates : Own(launches[k], c)
    BY DEF MetadataIsOwn, Own
  <2> DEFINE w == Walk(tx)
             p == D!Position(Kept(targets, tx), k)
  <2>1. tx \in Transactions /\ targets \in SUBSET D!Venues
    BY DEF TypeOK
  <2>2. launches = D!Extract(targets, tx)
    <3>1. status = "read"
      BY DEF ReadInv
    <3>2. QED
      BY <3>1 DEF ReadInv
  <2>3. /\ p \in Kept(targets, tx)
        /\ launches[k] = D!DecodeInstruction(targets, tx, w[p])
    BY <2>1, <2>2, Extracted
  <2> HIDE DEF p
  <2>4. p \in DOMAIN w /\ launches[k] # None
    BY <2>3 DEF Kept
  <2>5. w[p] \in Instructions /\ OnChain(tx, w[p])
    BY <2>1, <2>4, WalkType
  <2>6. w[p].makes \in Launches /\ Own(launches[k], w[p].makes)
    BY <2>1, <2>3, <2>4, <2>5, InstructionDecoded
  <2>7. w[p].makes \in Creates
    BY <2>4, <2>6, ScreeningAssumption DEF Creates
  <2>8. QED
    BY <2>6, <2>7
<1>2. QED
  BY <1>1, TypeCorrect, ReadInvariance, PTL

\* What is accepted has a creator and texts the rules allow - for Pump.fun those
\* on the chain, not only those in the event.
THEOREM AcceptanceIsSound == Spec => []AcceptedIsAllowed
<1>1. TypeOK /\ ReadInv /\ VerdictInv => AcceptedIsAllowed
  <2> SUFFICES ASSUME TypeOK, ReadInv, VerdictInv, NEW i \in DOMAIN launches,
                      stage[i] = "accepted", Legacy
               PROVE  LET c == Made[i]
                          dev == IF c.venue = "PumpFun" THEN c.creator
                                 ELSE launches[i].creator
                      IN  /\ dev \notin rules.block
                          /\ rules.allow = {} \/ dev \in rules.allow
                          /\ Readable(c, 1) => \A re \in rules.nameDeny : c.name \notin re
                          /\ Readable(c, 1) /\ rules.nameAllow # {} =>
                               \E re \in rules.nameAllow : c.name \in re
                          /\ Readable(c, 2) /\ rules.symbolAllow # {} =>
                               \E re \in rules.symbolAllow : c.symbol \in re
    BY DEF AcceptedIsAllowed
  <2> DEFINE c == Made[i]
             ev == launches[i]
  <2>1. status = "read"
    BY DEF ReadInv
  <2>2. /\ c \in Launches /\ Describes(ev, c)
        /\ ev.venue = "PumpFun" => Own(ev, c) /\ Named(c)
    BY <2>1, LegacyReport
  <2>3. F!Prefilter(rules, ev)
    BY DEF VerdictInv, F!Evaluate
  <2> HIDE DEF c, ev
  <2>4. LET dev == IF c.venue = "PumpFun" THEN c.creator ELSE ev.creator
        IN  dev \notin rules.block /\ (rules.allow = {} \/ dev \in rules.allow)
    BY <2>2, <2>3 DEF F!Prefilter, F!CreatorPasses, Describes
  <2>5. ASSUME Readable(c, 1)
        PROVE  /\ \A re \in rules.nameDeny : c.name \notin re
               /\ rules.nameAllow # {} => \E re \in rules.nameAllow : c.name \in re
    <3>1. ev.name = c.name /\ c.name # None
      BY <2>2, <2>5 DEF Readable, Describes, Own, Named
    <3>2. QED
      BY <2>3, <3>1 DEF F!Prefilter, F!NamePasses, F!MatchesAny
  <2>6. ASSUME Readable(c, 2), rules.symbolAllow # {}
        PROVE  \E re \in rules.symbolAllow : c.symbol \in re
    <3>1. ev.symbol = c.symbol /\ c.symbol # None
      BY <2>2, <2>6 DEF Readable, Describes, Own, Named
    <3>2. QED
      BY <2>3, <2>6, <3>1 DEF F!Prefilter, F!SymbolPasses, F!MatchesAny
  <2>7. QED
    BY <2>4, <2>5, <2>6 DEF c, ev
<1>2. QED
  BY <1>1, TypeCorrect, ReadInvariance, VerdictInvariance, PTL
=============================================================================
