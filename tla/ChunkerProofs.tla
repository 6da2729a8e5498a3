---------------------------- MODULE ChunkerProofs ----------------------------
(***************************************************************************)
(* Proofs about Chunker, for documents of any length, any texts, headings  *)
(* and sizes, and every overlap.  The sums of tokens are handled without   *)
(* an induction theorem: a set of naturals that is not empty has a least   *)
(* member, and at the least length a sum does not exist it does.           *)
(***************************************************************************)
EXTENDS Chunker, SequenceTheorems, WellFoundedInduction, TLAPS

------------------------------------------------------------------------------
(* Numbers *)

LEMMA LeastExists ==
  ASSUME NEW T, T \subseteq Nat, T # {}
  PROVE  \E n \in T : \A m \in T : n <= m
<1>1. PICK n \in T : \A m \in T : ~ (<<m, n>> \in OpToRel(<, Nat))
  BY NatLessThanWellFounded, WFMin
<1>2. \A m \in T : ~ (m < n)
  BY <1>1 DEF OpToRel
<1>3. QED
  BY <1>2

LEMMA GreatestExists ==
  ASSUME NEW n \in Nat, NEW T, T \subseteq 1..n, T # {}
  PROVE  \E k \in T : \A j \in T : j <= k
<1> DEFINE U == {m \in Nat : n - m \in T}
<1>1. PICK k \in T : TRUE
  OBVIOUS
<1>2. n - k \in U
  BY <1>1
<1>3. PICK m \in U : \A l \in U : m <= l
  BY <1>2, LeastExists
<1>4. n - m \in T /\ \A j \in T : j <= n - m
  <2>1. ASSUME NEW j \in T PROVE j <= n - m
    <3>1. n - j \in U
      OBVIOUS
    <3>2. QED
      BY <3>1, <1>3, SMTT(30)
  <2>2. QED
    BY <2>1, <1>3
<1>5. QED
  BY <1>4

------------------------------------------------------------------------------
(* Sums of tokens *)

\* g is the list of the running totals of the numbers f, up to the n-th.
IsTotal(f, n, g) ==
    /\ g = [k \in 0..n |-> g[k]]
    /\ g[0] = 0
    /\ \A k \in 1..n : g[k] = g[k - 1] + f[k]

\* Totals exist for any length.
LEMMA TotalExists ==
  ASSUME NEW n \in Nat, NEW f \in [1..n -> Nat]
  PROVE  \E g : IsTotal(f, n, g)
<1> DEFINE T == {m \in 0..n : ~ \E g : IsTotal(f, m, g)}
<1>1. T \subseteq Nat
  OBVIOUS
<1>2. ASSUME NEW m \in T, \A l \in T : m <= l PROVE FALSE
  <2>1. m \in 0..n /\ ~ \E g : IsTotal(f, m, g)
    OBVIOUS
  <2>2. m # 0
    <3>1. IsTotal(f, 0, [k \in 0..0 |-> 0])
      BY DEF IsTotal
    <3>2. QED
      BY <3>1, <2>1
  <2>3. m - 1 \in 0..n /\ m - 1 \notin T
    <3> HIDE DEF T
    <3>1. QED
      BY <1>2, <2>1, <2>2
  <2>4. PICK g : IsTotal(f, m - 1, g)
    BY <2>3
  <2> DEFINE h == [k \in 0..m |-> IF k = m THEN g[m - 1] + f[m] ELSE g[k]]
  <2> HIDE DEF T
  <2>5. g[0] = 0 /\ \A k \in 1..m - 1 : g[k] = g[k - 1] + f[k]
    BY <2>4 DEF IsTotal
  <2>6. h = [k \in 0..m |-> h[k]]
    OBVIOUS
  <2>7. h[m] = g[m - 1] + f[m] /\ \A k \in 0..m - 1 : h[k] = g[k]
    BY <2>1, <2>2
  <2>8. IsTotal(f, m, h)
    <3> HIDE DEF h
    <3>1. h[0] = 0
      BY <2>1, <2>2, <2>5, <2>7
    <3>2. ASSUME NEW k \in 1..m PROVE h[k] = h[k - 1] + f[k]
      <4>1. CASE k = m
        BY <4>1, <2>1, <2>2, <2>7
      <4>2. CASE k # m
        <5>1. k \in 1..m - 1 /\ k \in 0..m - 1 /\ k - 1 \in 0..m - 1
          BY <4>2, <2>1, <2>2
        <5>2. QED
          BY <5>1, <2>5, <2>7
      <4>3. QED
        BY <4>1, <4>2
    <3>3. QED
      BY <2>6, <3>1, <3>2 DEF IsTotal
  <2>9. QED
    BY <2>8, <2>1
<1>3. T = {}
  <2> HIDE DEF T
  <2>1. QED
    BY <1>1, <1>2, LeastExists
<1>4. n \in 0..n /\ n \notin T
  <2> HIDE DEF T
  <2>1. QED
    BY <1>3
<1>5. QED
  BY <1>4

\* Totals are numbers, and those of a longer list go on from those of a shorter.
LEMMA TotalsAgree ==
  ASSUME NEW n \in Nat, NEW m \in 0..n, NEW f \in [1..n -> Nat], NEW e, NEW g, NEW h,
         \A k \in 1..m : e[k] = f[k],
         IsTotal(e, m, g), IsTotal(f, n, h)
  PROVE  \A k \in 0..m : g[k] = h[k] /\ g[k] \in Nat
<1> DEFINE T == {k \in 0..m : ~ (g[k] = h[k] /\ g[k] \in Nat)}
<1>1. T \subseteq Nat
  OBVIOUS
<1>2. ASSUME NEW k \in T, \A l \in T : k <= l PROVE FALSE
  <2>1. k \in 0..m /\ ~ (g[k] = h[k] /\ g[k] \in Nat)
    OBVIOUS
  <2>2. k # 0
    BY <2>1 DEF IsTotal
  <2>3. k - 1 \in 0..m /\ k - 1 \notin T
    <3> HIDE DEF T
    <3>1. QED
      BY <1>2, <2>1, <2>2
  <2>4. g[k - 1] = h[k - 1] /\ g[k - 1] \in Nat
    BY <2>3
  <2> HIDE DEF T
  <2>5. k \in 1..m /\ k \in 1..n
    BY <2>1, <2>2
  <2>6. g[k] = g[k - 1] + e[k] /\ h[k] = h[k - 1] + f[k] /\ e[k] = f[k]
    BY <2>5, Zenon DEF IsTotal
  <2>7. f[k] \in Nat
    BY <2>5
  <2>8. QED
    BY <2>1, <2>4, <2>6, <2>7
<1>3. T = {}
  <2> HIDE DEF T
  <2>1. QED
    BY <1>1, <1>2, LeastExists
<1>4. QED
  <2>1. ASSUME NEW k \in 0..m, ~ (g[k] = h[k] /\ g[k] \in Nat) PROVE FALSE
    <3>1. k \in T
      BY <2>1
    <3> HIDE DEF T
    <3>2. QED
      BY <3>1, <1>3
  <2>2. QED
    BY <2>1

\* The tokens of the units of a chunk.
Sizes(c) == [k \in 1..Len(c) |-> Tokens[units[c[k]].text]]

\* A chunk of units of the document.
IsChunk(c) == c \in Seq(1..Len(units))

LEMMA UnitTokens ==
  ASSUME units \in Seq(Unit)
  PROVE  \A i \in 1..Len(units) : Tokens[units[i].text] \in Nat
<1>1. \A u \in Unit : u.text \in Texts
  BY DEF Unit
<1>2. \A i \in 1..Len(units) : units[i] \in Unit
  OBVIOUS
<1>3. QED
  BY <1>1, <1>2, TokensAssumption

LEMMA SizesAreNumbers ==
  ASSUME units \in Seq(Unit), NEW c, IsChunk(c)
  PROVE  Sizes(c) \in [1..Len(c) -> Nat] /\ Len(c) \in Nat
<1>1. Len(c) \in Nat /\ \A k \in 1..Len(c) : c[k] \in 1..Len(units)
  BY DEF IsChunk
<1>2. QED
  BY <1>1, UnitTokens DEF Sizes

\* Total is the last of the running totals.
LEMMA TotalIsLast ==
  ASSUME NEW n \in Nat, NEW f \in [1..n -> Nat]
  PROVE  \E g : IsTotal(f, n, g) /\ Total(f) = g[n]
<1> DEFINE Step(g) == g = [k \in 0..Len(f) |-> IF k = 0 THEN 0 ELSE g[k - 1] + f[k]]
           g == CHOOSE g : Step(g)
<1>1. Len(f) = n
  OBVIOUS
<1>2. PICK h : IsTotal(f, n, h)
  BY TotalExists
<1>3. Step(h)
  <2>1. \A k \in 0..n : h[k] = IF k = 0 THEN 0 ELSE h[k - 1] + f[k]
    BY <1>2, SMTT(30) DEF IsTotal
  <2>2. QED
    BY <1>1, <1>2, <2>1, Zenon DEF IsTotal
<1>4. Step(g)
  BY <1>3, Zenon
<1>5. Total(f) = g[n]
  BY <1>1, Zenon DEF Total
<1>6. IsTotal(f, n, g)
  <2> HIDE DEF g
  <2>1. \A k \in 0..n : g[k] = IF k = 0 THEN 0 ELSE g[k - 1] + f[k]
    BY <1>1, <1>4, Zenon
  <2>2. g = [k \in 0..n |-> g[k]]
    BY <1>1, <1>4, Zenon
  <2>3. g[0] = 0 /\ \A k \in 1..n : g[k] = g[k - 1] + f[k]
    BY <2>1
  <2>4. QED
    BY <2>2, <2>3, Zenon DEF IsTotal
<1>7. QED
  BY <1>5, <1>6

LEMMA TokensAreTotal ==
  ASSUME units \in Seq(Unit), NEW c, IsChunk(c)
  PROVE  \E g : IsTotal(Sizes(c), Len(c), g) /\ TokensIn(c) = g[Len(c)]
<1>1. TokensIn(c) = Total(Sizes(c))
  BY Zenon DEF TokensIn, Sizes
<1>2. QED
  BY <1>1, SizesAreNumbers, TotalIsLast

\* No unit, no tokens.
LEMMA TokensOfNothing ==
  ASSUME units \in Seq(Unit)
  PROVE  TokensIn(<<>>) = 0
<1>1. IsChunk(<<>>) /\ Len(<<>>) = 0
  BY DEF IsChunk
<1>2. PICK g : IsTotal(Sizes(<<>>), 0, g) /\ TokensIn(<<>>) = g[0]
  BY <1>1, TokensAreTotal
<1>3. QED
  BY <1>2 DEF IsTotal

\* buffer_tokens += unit_tokens is right.
LEMMA TokensOfAppend ==
  ASSUME units \in Seq(Unit), NEW c, IsChunk(c), NEW i \in 1..Len(units)
  PROVE  /\ TokensIn(c) \in Nat
         /\ TokensIn(Append(c, i)) = TokensIn(c) + Tokens[units[i].text]
<1> DEFINE d == Append(c, i)
           n == Len(c)
<1>1. /\ IsChunk(d) /\ n \in Nat /\ Len(d) = n + 1
      /\ \A k \in 1..n : d[k] = c[k]
      /\ d[n + 1] = i
  BY DEF IsChunk
<1>2. /\ Sizes(c) \in [1..n -> Nat] /\ Sizes(d) \in [1..n + 1 -> Nat]
      /\ \A k \in 1..n : Sizes(c)[k] = Sizes(d)[k]
      /\ Sizes(d)[n + 1] = Tokens[units[i].text]
  <2> HIDE DEF d
  <2>1. Sizes(c) \in [1..n -> Nat] /\ Sizes(d) \in [1..n + 1 -> Nat]
    BY <1>1, SizesAreNumbers
  <2>2. QED
    BY <1>1, <2>1 DEF Sizes
<1>3. PICK g : IsTotal(Sizes(c), n, g) /\ TokensIn(c) = g[n]
  BY TokensAreTotal
<1>4. PICK h : IsTotal(Sizes(d), n + 1, h) /\ TokensIn(d) = h[n + 1]
  BY <1>1, TokensAreTotal
<1> HIDE DEF d, n
<1>5. g[n] = h[n] /\ g[n] \in Nat
  <2>1. n \in 0..n + 1 /\ n + 1 \in Nat /\ n \in 0..n
    BY <1>1
  <2>2. QED
    BY <1>2, <1>3, <1>4, <2>1, TotalsAgree
<1>6. h[n + 1] = h[n] + Sizes(d)[n + 1]
  <2>1. PICK k \in 1..n + 1 : k = n + 1 /\ k - 1 = n
    BY <1>1
  <2>2. h[k] = h[k - 1] + Sizes(d)[k]
    BY <1>4, Zenon DEF IsTotal
  <2>3. QED
    BY <2>1, <2>2, Zenon
<1>7. QED
  BY <1>2, <1>3, <1>4, <1>5, <1>6 DEF d

\* Two units, each with its tokens.
LEMMA TokensOfPair ==
  ASSUME units \in Seq(Unit), NEW i \in 1..Len(units), NEW j \in 1..Len(units)
  PROVE  /\ TokensIn(<<i>>) = Tokens[units[i].text]
         /\ TokensIn(<<i, j>>) = Tokens[units[i].text] + Tokens[units[j].text]
<1>1. IsChunk(<<>>) /\ IsChunk(<<i>>)
  BY DEF IsChunk
<1>2. <<i>> = Append(<<>>, i) /\ <<i, j>> = Append(<<i>>, j)
  OBVIOUS
<1>3. TokensIn(<<i>>) = 0 + Tokens[units[i].text]
  BY <1>1, <1>2, TokensOfAppend, TokensOfNothing
<1>4. TokensIn(<<i, j>>) = TokensIn(<<i>>) + Tokens[units[j].text]
  BY <1>1, <1>2, TokensOfAppend
<1>5. Tokens[units[i].text] \in Nat
  BY UnitTokens
<1>6. QED
  BY <1>3, <1>4, <1>5

------------------------------------------------------------------------------
(* Ends of chunks *)

LEMMA FromProperties ==
  ASSUME NEW S, NEW c \in Seq(S), NEW k \in 1..Len(c) + 1
  PROVE  /\ From(c, k) \in Seq(S)
         /\ Len(From(c, k)) = Len(c) - k + 1
         /\ \A i \in 1..Len(c) - k + 1 : From(c, k)[i] = c[k + i - 1]
         /\ From(c, k) = <<>> <=> k = Len(c) + 1
<1>1. \A i \in k..Len(c) : c[i] \in S
  OBVIOUS
<1>2. /\ From(c, k) \in Seq(S)
      /\ Len(From(c, k)) = IF k <= Len(c) THEN Len(c) - k + 1 ELSE 0
      /\ \A i \in 1..Len(c) - k + 1 : From(c, k)[i] = c[k + i - 1]
  BY <1>1, SubSeqProperties DEF From
<1>3. QED
  BY <1>2

\* The end of an end is an end.
LEMMA FromFrom ==
  ASSUME NEW S, NEW c \in Seq(S), NEW f \in 1..Len(c) + 1, NEW t \in 1..Len(From(c, f)) + 1
  PROVE  f + t - 1 \in 1..Len(c) + 1 /\ From(From(c, f), t) = From(c, f + t - 1)
<1> DEFINE d == From(c, f)
           e == From(d, t)
           g == From(c, f + t - 1)
<1>1. d \in Seq(S) /\ Len(d) = Len(c) - f + 1 /\ \A i \in 1..Len(d) : d[i] = c[f + i - 1]
  BY FromProperties
<1>2. f + t - 1 \in 1..Len(c) + 1
  BY <1>1
<1>3. /\ g \in Seq(S) /\ Len(g) = Len(c) - (f + t - 1) + 1
      /\ \A i \in 1..Len(c) - (f + t - 1) + 1 : g[i] = c[f + t - 1 + i - 1]
  BY <1>2, FromProperties
<1>4. /\ e \in Seq(S) /\ Len(e) = Len(d) - t + 1
      /\ \A i \in 1..Len(d) - t + 1 : e[i] = d[t + i - 1]
  <2> HIDE DEF d
  <2>1. QED
    BY <1>1, FromProperties DEF d
<1> HIDE DEF d, e, g
<1>5. Len(e) = Len(g) /\ \A i \in 1..Len(e) : e[i] = g[i]
  <2>1. Len(e) = Len(g)
    BY <1>1, <1>3, <1>4
  <2>2. ASSUME NEW i \in 1..Len(e) PROVE e[i] = g[i]
    <3>1. t + i - 1 \in 1..Len(d)
      BY <1>1, <1>4
    <3>2. e[i] = c[f + (t + i - 1) - 1]
      BY <3>1, <1>1, <1>4
    <3>3. g[i] = c[f + t - 1 + i - 1]
      BY <2>1, <1>1, <1>3, <1>4
    <3>4. f + (t + i - 1) - 1 = f + t - 1 + i - 1
      BY <1>1, <1>4
    <3>5. QED
      BY <3>2, <3>3, <3>4
  <2>3. QED
    BY <2>1, <2>2
<1>6. QED
  BY <1>2, <1>3, <1>4, <1>5, SeqEqual DEF d, e, g

\* _overlap_suffix takes an end of the chunk, and a shorter one has too few
\* tokens.
LEMMA OverlapSuffixIsEnd ==
  ASSUME NEW S, NEW c \in Seq(S), c # <<>>, overlap \in Nat
  PROVE  \E f \in 1..Len(c) + 1 :
            /\ OverlapSuffix(c) = From(c, f)
            /\ overlap > 0 => f <= Len(c)
            /\ \A k \in f + 1..Len(c) : ~ (TokensIn(From(c, k)) >= overlap)
            /\ overlap = 0 => f = Len(c) + 1
<1> DEFINE enough == {k \in DOMAIN c : TokensIn(From(c, k)) >= overlap}
           first == IF enough = {} THEN 1 ELSE CHOOSE k \in enough : \A j \in enough : j <= k
<1>1. Len(c) \in Nat \ {0} /\ DOMAIN c = 1..Len(c)
  OBVIOUS
<1>2. CASE overlap = 0
  <2>1. OverlapSuffix(c) = <<>>
    BY <1>2 DEF OverlapSuffix
  <2>2. Len(c) + 1 \in 1..Len(c) + 1 /\ From(c, Len(c) + 1) = <<>>
    BY <1>1, FromProperties
  <2>3. QED
    BY <1>1, <1>2, <2>1, <2>2
<1>3. CASE overlap # 0
  <2>1. OverlapSuffix(c) = From(c, first)
    BY <1>3 DEF OverlapSuffix
  <2>2. enough \subseteq 1..Len(c)
    BY <1>1
  <2>3. first \in 1..Len(c) /\ \A k \in enough : k <= first
    <3> HIDE DEF enough
    <3>1. CASE enough = {}
      BY <3>1, <1>1
    <3>2. CASE enough # {}
      <4>1. \E k \in enough : \A j \in enough : j <= k
        BY <3>2, <2>2, <1>1, GreatestExists
      <4>2. first \in enough /\ \A k \in enough : k <= first
        BY <3>2, <4>1
      <4>3. QED
        BY <4>2, <2>2
    <3>3. QED
      BY <3>1, <3>2
  <2> HIDE DEF first
  <2>4. ASSUME NEW k \in first + 1..Len(c), TokensIn(From(c, k)) >= overlap PROVE FALSE
    <3>1. k \in DOMAIN c /\ ~ (k <= first)
      BY <1>1, <2>3
    <3>2. k \in enough
      BY <3>1, <2>4
    <3> HIDE DEF enough
    <3>3. QED
      BY <2>3, <3>1, <3>2
  <2>5. QED
    BY <1>1, <1>3, <2>1, <2>3, <2>4
<1>4. QED
  BY <1>2, <1>3

\* The loop that pops units ends with an end that fits, and with a unit if the
\* last one fits.
LEMMA TrimmedIsEnd ==
  ASSUME NEW S, NEW c \in Seq(S), NEW tokens \in Nat
  PROVE  \E t \in 1..Len(c) + 1 :
            /\ Trimmed(c, tokens) = From(c, t)
            /\ t <= Len(c) => TokensIn(From(c, t)) + tokens <= ChunkSize
            /\ c # <<>> /\ TokensIn(From(c, Len(c))) + tokens <= ChunkSize => t <= Len(c)
<1> DEFINE fits == {k \in DOMAIN c : TokensIn(From(c, k)) + tokens <= ChunkSize}
           first == CHOOSE k \in fits : \A j \in fits : k <= j
<1>1. Len(c) \in Nat /\ DOMAIN c = 1..Len(c) /\ (c = <<>> <=> Len(c) = 0)
  OBVIOUS
<1>2. CASE fits = {}
  <2>1. Trimmed(c, tokens) = <<>>
    BY <1>2 DEF Trimmed
  <2>2. Len(c) + 1 \in 1..Len(c) + 1 /\ From(c, Len(c) + 1) = <<>>
    BY <1>1, FromProperties
  <2>3. ASSUME c # <<>>, TokensIn(From(c, Len(c))) + tokens <= ChunkSize PROVE FALSE
    <3>1. Len(c) \in DOMAIN c
      BY <1>1, <2>3
    <3>2. Len(c) \in fits
      BY <3>1, <2>3
    <3>3. QED
      BY <1>2, <3>2
  <2>4. ~ (Len(c) + 1 <= Len(c))
    BY <1>1
  <2>5. QED
    BY <2>1, <2>2, <2>3, <2>4
<1>3. CASE fits # {}
  <2>1. Trimmed(c, tokens) = From(c, first)
    BY <1>3 DEF Trimmed
  <2>2. fits \subseteq Nat
    BY <1>1
  <2>3. first \in fits
    <3> HIDE DEF fits
    <3>1. \E k \in fits : \A j \in fits : k <= j
      BY <1>3, <2>2, LeastExists
    <3>2. QED
      BY <3>1
  <2> HIDE DEF first
  <2>4. first \in 1..Len(c) /\ TokensIn(From(c, first)) + tokens <= ChunkSize
    BY <1>1, <2>3
  <2>5. first \in 1..Len(c) + 1 /\ first <= Len(c)
    BY <1>1, <2>4
  <2>6. QED
    BY <2>1, <2>4, <2>5
<1>4. QED
  BY <1>2, <1>3

------------------------------------------------------------------------------
(* Chunks *)

\* A chunk has units, is of one section, ends with its last unit of the document
\* and keeps to the size.
Good(c) ==
    /\ IsChunk(c) /\ c # <<>>
    /\ \A k \in 1..Len(c) : c[k] <= Last(c) /\ units[c[k]].heading = Heading(c)
    /\ Len(c) > 1 => TokensIn(c) <= ChunkSize

LEMMA AppendIs ==
  ASSUME NEW S, NEW b \in Seq(S), NEW i \in S
  PROVE  /\ Append(b, i) \in Seq(S) /\ Append(b, i) # <<>> /\ Len(Append(b, i)) = Len(b) + 1
         /\ Append(b, i)[Len(b) + 1] = i /\ \A k \in 1..Len(b) : Append(b, i)[k] = b[k]
BY AppendProperties

\* A chunk that is extended within its section and fits is good, and so is one
\* that is begun.
LEMMA ExtendedGood ==
  ASSUME units \in Seq(Unit), ChunkSize \in Nat, NEW b, IsChunk(b), NEW i \in 1..Len(units),
         \A k \in 1..Len(b) : b[k] <= i /\ units[b[k]].heading = units[i].heading,
         b # <<>> => TokensIn(b) + Tokens[units[i].text] <= ChunkSize
  PROVE  Good(Append(b, i)) /\ Last(Append(b, i)) = i /\ Heading(Append(b, i)) = units[i].heading
<1> DEFINE d == Append(b, i)
<1>1. /\ IsChunk(d) /\ d # <<>> /\ Len(d) = Len(b) + 1 /\ Len(b) \in Nat
      /\ d[Len(b) + 1] = i /\ \A k \in 1..Len(b) : d[k] = b[k]
      /\ (b = <<>> <=> Len(b) = 0)
  <2>1. b \in Seq(1..Len(units))
    BY DEF IsChunk
  <2>2. /\ d \in Seq(1..Len(units)) /\ d # <<>> /\ Len(d) = Len(b) + 1
        /\ d[Len(b) + 1] = i /\ \A k \in 1..Len(b) : d[k] = b[k]
    BY <2>1, AppendIs
  <2>3. Len(b) \in Nat /\ (b = <<>> <=> Len(b) = 0)
    BY <2>1
  <2>4. QED
    BY <2>2, <2>3 DEF IsChunk
<1>2. TokensIn(d) = TokensIn(b) + Tokens[units[i].text]
  BY TokensOfAppend
<1> HIDE DEF d
<1>3. Last(d) = i /\ Heading(d) = units[i].heading
  BY <1>1 DEF Last, Heading
<1>4. \A k \in 1..Len(d) : d[k] <= i /\ units[d[k]].heading = units[i].heading
  <2>1. \A k \in 1..Len(d) : k \in 1..Len(b) \/ k = Len(b) + 1
    BY <1>1
  <2>2. QED
    BY <1>1, <2>1
<1>5. Len(d) > 1 => TokensIn(d) <= ChunkSize
  BY <1>1, <1>2
<1>6. QED
  BY <1>1, <1>3, <1>4, <1>5 DEF Good, d

\* What a full chunk leaves to the next one.
LEMMA HandedOver ==
  ASSUME units \in Seq(Unit), overlap \in Nat, ChunkSize \in Nat, NEW c, Good(c),
         NEW i \in 1..Len(units), i = Last(c) + 1, units[i].heading = Heading(c),
         NEW d, d = Append(Trimmed(OverlapSuffix(c), Tokens[units[i].text]), i)
  PROVE  /\ Good(d) /\ Last(d) = i /\ Heading(d) = units[i].heading
         /\ HandsOn(c, d)
<1> DEFINE S == 1..Len(units)
           tokens == Tokens[units[i].text]
<1>1. c \in Seq(S) /\ c # <<>> /\ Len(c) \in Nat \ {0} /\ tokens \in Nat
  BY UnitTokens DEF Good, IsChunk
<1>2. PICK f \in 1..Len(c) + 1 :
            /\ OverlapSuffix(c) = From(c, f)
            /\ overlap > 0 => f <= Len(c)
            /\ \A k \in f + 1..Len(c) : ~ (TokensIn(From(c, k)) >= overlap)
            /\ overlap = 0 => f = Len(c) + 1
  BY <1>1, OverlapSuffixIsEnd
<1> DEFINE e == From(c, f)
<1>3. /\ e \in Seq(S) /\ Len(e) = Len(c) - f + 1
      /\ (e = <<>> <=> f = Len(c) + 1)
  BY <1>1, FromProperties
<1>4. PICK t \in 1..Len(e) + 1 :
            /\ Trimmed(e, tokens) = From(e, t)
            /\ t <= Len(e) => TokensIn(From(e, t)) + tokens <= ChunkSize
            /\ e # <<>> /\ TokensIn(From(e, Len(e))) + tokens <= ChunkSize => t <= Len(e)
  <2> HIDE DEF e, tokens, S
  <2>1. QED
    BY <1>1, <1>3, TrimmedIsEnd
<1> DEFINE j == f + t - 1
           shared == From(c, j)
<1>5. j \in 1..Len(c) + 1 /\ From(e, t) = shared
  BY <1>1, <1>3, FromFrom
<1>6. /\ IsChunk(shared) /\ Len(shared) = Len(c) - j + 1
      /\ (shared = <<>> <=> j = Len(c) + 1)
      /\ \A k \in 1..Len(shared) : shared[k] = c[j + k - 1] /\ j + k - 1 \in 1..Len(c)
  <2> HIDE DEF j
  <2>1. /\ shared \in Seq(S) /\ Len(shared) = Len(c) - j + 1
        /\ \A k \in 1..Len(c) - j + 1 : shared[k] = c[j + k - 1]
        /\ (shared = <<>> <=> j = Len(c) + 1)
    BY <1>1, <1>5, FromProperties
  <2> HIDE DEF shared
  <2>2. QED
    BY <1>1, <1>5, <2>1 DEF IsChunk
<1>7. d = Append(shared, i)
  BY <1>2, <1>4, <1>5
<1>8. shared # <<>> => TokensIn(shared) + tokens <= ChunkSize
  <2>1. shared # <<>> => t <= Len(e)
    BY <1>1, <1>2, <1>3, <1>4, <1>6
  <2> HIDE DEF j, shared, e, tokens
  <2>2. QED
    BY <2>1, <1>4, <1>5
<1>9. /\ Good(d) /\ Last(d) = i /\ Heading(d) = units[i].heading
  <2>1. \A k \in 1..Len(c) : c[k] <= i /\ units[c[k]].heading = units[i].heading
    <3>1. \A k \in 1..Len(c) : c[k] \in 1..Len(units) /\ c[k] <= Last(c)
                              /\ units[c[k]].heading = Heading(c)
      BY <1>1 DEF Good
    <3>2. Last(c) \in 1..Len(units)
      BY <1>1, <3>1 DEF Last
    <3>3. QED
      BY <3>1, <3>2
  <2> HIDE DEF j, shared
  <2>2. \A k \in 1..Len(shared) : shared[k] <= i /\ units[shared[k]].heading = units[i].heading
    BY <1>6, <2>1
  <2>3. shared # <<>> => TokensIn(shared) + Tokens[units[i].text] <= ChunkSize
    BY <1>8
  <2> DEFINE g == Append(shared, i)
  <2>4. IsChunk(shared)
    BY <1>6
  <2>5. Good(g) /\ Last(g) = i /\ Heading(g) = units[i].heading
    BY <2>2, <2>3, <2>4, ExtendedGood
  <2>6. d = g
    BY <1>7
  <2> HIDE DEF g
  <2>7. QED
    BY <2>5, <2>6
<1>10. shared # <<>> => TokensIn(Tail(shared)) < overlap
  <2>1. CASE shared = <<>>
    BY <2>1
  <2>2. CASE shared # <<>>
    <3>1. j <= Len(c) /\ j + 1 \in 1..Len(c) + 1 /\ overlap > 0
      BY <1>1, <1>2, <1>3, <1>4, <1>5, <1>6, <2>2, SMTT(30)
    <3>2. Tail(shared) = From(c, j + 1)
      <4>1. shared \in Seq(S) /\ Len(shared) > 0
        BY <1>5, <1>6, <2>2 DEF IsChunk
      <4>2. Tail(shared) = From(shared, 2)
        <5> HIDE DEF shared, S
        <5>1. QED
          BY <4>1, <2>2, TailIsSubSeq DEF From
      <4>3. 2 \in 1..Len(shared) + 1
        BY <4>1, <1>6, <1>5, <1>1
      <4>4. From(shared, 2) = From(c, j + 2 - 1)
        <5> HIDE DEF j, S
        <5>1. QED
          BY <4>3, <1>1, <1>5, FromFrom
      <4>5. j + 2 - 1 = j + 1
        BY <1>5
      <4> HIDE DEF j, shared
      <4>6. QED
        BY <4>2, <4>4, <4>5
    <3>3. CASE j + 1 <= Len(c)
      <4>1. j + 1 \in f + 1..Len(c)
        BY <3>3, <1>1, <1>2, <1>3, <1>4
      <4>2. IsChunk(From(c, j + 1))
        BY <1>1, <3>1, FromProperties DEF IsChunk
      <4>3. TokensIn(From(c, j + 1)) \in Nat
        BY <4>2, TokensOfAppend
      <4>4. ~ (TokensIn(From(c, j + 1)) >= overlap)
        BY <4>1, <1>2
      <4>5. TokensIn(From(c, j + 1)) < overlap
        <5> DEFINE n == TokensIn(From(c, j + 1))
        <5>1. n \in Nat /\ ~ (n >= overlap)
          BY <4>3, <4>4
        <5> HIDE DEF n
        <5>2. n < overlap
          BY <5>1
        <5>3. QED
          BY <5>2 DEF n
      <4>6. QED
        BY <3>2, <4>5, Zenon
    <3>4. CASE ~ (j + 1 <= Len(c))
      <4> HIDE DEF j
      <4>1. j + 1 = Len(c) + 1
        BY <3>1, <3>4, <1>1, <1>5
      <4>2. From(c, j + 1) = <<>>
        BY <4>1, <3>1, <1>1, FromProperties
      <4>3. QED
        BY <3>1, <3>2, <4>2, TokensOfNothing
    <3>5. QED
      BY <3>3, <3>4
  <2>3. QED
    BY <2>1, <2>2
<1>11. overlap > 0 /\ TokensIn(<<Last(c), i>>) <= ChunkSize => shared # <<>>
  <2>1. ASSUME overlap > 0, TokensIn(<<Last(c), i>>) <= ChunkSize PROVE shared # <<>>
    <3>1. f <= Len(c) /\ e # <<>> /\ Len(e) \in 1..Len(e)
      BY <2>1, <1>1, <1>2, <1>3
    <3>2. From(e, Len(e)) = <<Last(c)>>
      <4>1. From(e, Len(e)) = From(c, f + Len(e) - 1)
        <5>1. Len(From(c, f)) \in 1..Len(From(c, f)) + 1
          BY <3>1
        <5> HIDE DEF S
        <5>2. QED
          BY <5>1, <1>1, FromFrom
      <4>2. f + Len(e) - 1 = Len(c)
        <5> HIDE DEF e
        <5>1. QED
          BY <1>1, <1>3
      <4>3. /\ From(c, Len(c)) \in Seq(S) /\ Len(From(c, Len(c))) = 1
            /\ From(c, Len(c))[1] = c[Len(c)]
        <5>1. Len(c) \in 1..Len(c) + 1 /\ Len(c) - Len(c) + 1 = 1 /\ Len(c) + 1 - 1 = Len(c)
          BY <1>1
        <5>2. /\ From(c, Len(c)) \in Seq(S) /\ Len(From(c, Len(c))) = Len(c) - Len(c) + 1
              /\ \A k \in 1..Len(c) - Len(c) + 1 : From(c, Len(c))[k] = c[Len(c) + k - 1]
          BY <5>1, <1>1, FromProperties
        <5>3. 1 \in 1..Len(c) - Len(c) + 1
          BY <5>1
        <5> HIDE DEF S
        <5>4. QED
          BY <5>1, <5>2, <5>3
      <4>4. From(c, Len(c)) = <<c[Len(c)]>>
        <5> HIDE DEF S
        <5>1. QED
          BY <4>3, Z3
      <4> HIDE DEF e
      <4>5. QED
        BY <4>1, <4>2, <4>4 DEF Last
    <3>3. Last(c) \in 1..Len(units)
      BY <1>1 DEF Last
    <3>4. TokensIn(<<Last(c)>>) + tokens <= ChunkSize
      BY <2>1, <3>3, TokensOfPair
    <3>5. t <= Len(e)
      BY <1>4, <3>1, <3>2, <3>4
    <3>6. j # Len(c) + 1
      BY <3>5, <1>1, <1>2, <1>3, <1>4
    <3>7. QED
      BY <3>6, <1>6
  <2>2. QED
    BY <2>1
<1>12. IsPrefix(Append(shared, Last(c) + 1), d)
  <2>1. IsChunk(d)
    BY <1>9 DEF Good
  <2>2. Append(shared, Last(c) + 1) = d
    BY <1>7
  <2>3. Len(d) <= Len(d)
    BY <2>1 DEF IsChunk
  <2> HIDE DEF j, shared
  <2>4. QED
    BY <2>2, <2>3 DEF IsPrefix
<1>13. HandsOn(c, d)
  <2> HIDE DEF j, S, tokens
  <2>1. QED
    BY <1>5, <1>10, <1>11, <1>12 DEF HandsOn
<1>14. QED
  BY <1>9, <1>13

------------------------------------------------------------------------------
(* The invariant *)

\* The chunk in the making ends with the unit before the next.
Sound ==
    /\ units \in Seq(Unit) /\ overlap \in Nat
    /\ next \in 1..Len(units) + 1 /\ done \in BOOLEAN /\ (done => next > Len(units))
    /\ chunks \in Seq(Seq(Nat))
    /\ \A k \in 1..Len(chunks) : Good(chunks[k])
    /\ buffer = <<>> => next = 1 /\ chunks = <<>>
    /\ buffer # <<>> => Good(buffer) /\ Last(buffer) = next - 1

\* Every chunk goes further than those before it, and the one in the making
\* further than all.
Rising ==
    /\ \A k \in 1..Len(chunks) : \A j \in 1..k - 1 : Last(chunks[j]) < Last(chunks[k])
    /\ ~done => \A k \in 1..Len(chunks) : Last(chunks[k]) < next - 1

\* The one in the making is left over in the end if it repeats the last chunk.
Repeats == chunks # <<>> /\ Said(buffer) = Said(Last(chunks))

\* Whatever was read is in a chunk or in the one in the making.
Covered ==
    \A i \in 1..next - 1 :
        \/ \E k \in 1..Len(chunks) : i \in Range(chunks[k])
        \/ i \in Range(buffer) /\ (done => Repeats)

\* The chunk in the making has been handed the overlap, too.
Handed ==
    /\ ContextCarried
    /\ ~done /\ chunks # <<>> /\ Heading(Last(chunks)) = Heading(buffer) =>
           HandsOn(Last(chunks), buffer)

ChunkerInv == Sound /\ Rising /\ Covered /\ Handed

LEMMA InitInv ==
  ASSUME Init
  PROVE  ChunkerInv
<1>1. units \in Seq(Unit) /\ Len(units) \in Nat
  <2>1. PICK n \in 0..MaxUnits : units \in [1..n -> Unit]
    BY DEF Init
  <2>2. QED
    BY <2>1
<1>2. overlap \in Nat
  BY SizeAssumption DEF Init
<1>3. chunks = <<>> /\ buffer = <<>> /\ next = 1 /\ done = FALSE /\ Len(chunks) = 0
      /\ chunks \in Seq(Seq(Nat))
  BY DEF Init
<1>4. Sound
  <2>1. next \in 1..Len(units) + 1 /\ done \in BOOLEAN
    <3>1. 1 \in 1..Len(units) + 1
      BY <1>1
    <3>2. QED
      BY <1>3, <3>1, Zenon
  <2>2. \A k \in 1..Len(chunks) : Good(chunks[k])
    BY <1>3
  <2>3. QED
    BY <1>1, <1>2, <1>3, <2>1, <2>2, Zenon DEF Sound
<1>5. Rising /\ Covered /\ Handed
  BY <1>3 DEF Rising, Covered, Handed, ContextCarried
<1>6. QED
  BY <1>4, <1>5 DEF ChunkerInv

\* The list of chunks with one more.
LEMMA OneMore ==
  ASSUME chunks \in Seq(Seq(Nat)), NEW b \in Seq(Nat), chunks' = Append(chunks, b)
  PROVE  /\ chunks' \in Seq(Seq(Nat)) /\ Len(chunks) \in Nat
         /\ Len(chunks') = Len(chunks) + 1
         /\ chunks'[Len(chunks) + 1] = b
         /\ \A k \in 1..Len(chunks) : chunks'[k] = chunks[k]
         /\ \A k \in 1..Len(chunks') : k \in 1..Len(chunks) \/ k = Len(chunks) + 1
         /\ Last(chunks') = b /\ chunks' # <<>>
<1> DEFINE S == Seq(Nat)
<1>1. /\ chunks' \in Seq(S) /\ Len(chunks') = Len(chunks) + 1
      /\ chunks'[Len(chunks) + 1] = b
      /\ \A k \in 1..Len(chunks) : chunks'[k] = chunks[k]
      /\ chunks' # <<>>
  <2> HIDE DEF S
  <2>1. chunks \in Seq(S) /\ b \in S
    BY DEF S
  <2>2. QED
    BY <2>1, AppendIs
<1>2. Len(chunks) \in Nat
  OBVIOUS
<1>3. QED
  BY <1>1, <1>2 DEF Last

\* What is said of a chunk in this state holds of it in the next.
LEMMA OneMoreGood ==
  ASSUME UNCHANGED units, \A k \in 1..Len(chunks) : Good(chunks[k]),
         chunks \in Seq(Seq(Nat)), NEW b \in Seq(Nat), chunks' = Append(chunks, b), Good(b)
  PROVE  (\A k \in 1..Len(chunks) : Good(chunks[k]))'
<1>1. ASSUME NEW k \in 1..Len(chunks') PROVE Good(chunks[k])'
  <2>1. PICK c : c = chunks'[k]
    OBVIOUS
  <2>2. Good(c)
    BY <2>1, OneMore
  <2>3. QED
    BY <2>1, <2>2 DEF Good, IsChunk, Heading, Last, TokensIn
<1>2. QED
  BY <1>1

LEMMA OneMoreHanded ==
  ASSUME UNCHANGED <<units, overlap>>, ContextCarried,
         chunks \in Seq(Seq(Nat)), NEW b \in Seq(Nat), chunks' = Append(chunks, b),
         chunks # <<>> /\ Heading(Last(chunks)) = Heading(b) => HandsOn(Last(chunks), b)
  PROVE  ContextCarried'
<1>1. ASSUME NEW k \in 1..Len(chunks') - 1, Heading(chunks[k])' = Heading(chunks[k + 1])'
      PROVE  HandsOn(chunks[k], chunks[k + 1])'
  <2>1. PICK c, d : c = chunks'[k] /\ d = chunks'[k + 1]
    OBVIOUS
  <2>2. HandsOn(c, d)
    <3>1. Heading(c) = Heading(d)
      BY <1>1, <2>1 DEF Heading, Last
    <3>2. CASE k + 1 \in 1..Len(chunks)
      <4>1. c = chunks[k] /\ d = chunks[k + 1] /\ k \in 1..Len(chunks) - 1
        BY <2>1, <3>2, OneMore
      <4>2. QED
        BY <3>1, <4>1 DEF ContextCarried
    <3>3. CASE k + 1 \notin 1..Len(chunks)
      <4>1. k = Len(chunks) /\ d = b /\ c = chunks[k] /\ chunks # <<>>
        BY <2>1, <3>3, OneMore
      <4>2. c = Last(chunks)
        BY <4>1 DEF Last
      <4>3. QED
        BY <3>1, <4>1, <4>2
    <3>4. QED
      BY <3>2, <3>3
  <2>3. QED
    BY <2>1, <2>2 DEF HandsOn, TokensIn
<1>2. QED
  BY <1>1 DEF ContextCarried

\* What is handed on to a chunk stays when the chunk is extended.
LEMMA ExtendedHanded ==
  ASSUME NEW c \in Seq(Nat), c # <<>>, NEW b \in Seq(Nat), NEW i \in Nat, HandsOn(c, b)
  PROVE  HandsOn(c, Append(b, i))
<1> DEFINE d == Append(b, i)
<1>1. d \in Seq(Nat) /\ Len(d) = Len(b) + 1 /\ Len(b) \in Nat
      /\ \A k \in 1..Len(b) : d[k] = b[k]
  BY AppendIs
<1>2. ASSUME NEW s \in Seq(Nat), IsPrefix(s, b) PROVE IsPrefix(s, d)
  <2>1. Len(s) <= Len(b) /\ SubSeq(s, 1, Len(s)) = SubSeq(b, 1, Len(s)) /\ Len(s) \in Nat
    BY <1>2 DEF IsPrefix
  <2> DEFINE n == Len(s)
             x == SubSeq(b, 1, n)
             y == SubSeq(d, 1, n)
  <2>2. (\A k \in 1..n : b[k] \in Nat) /\ (\A k \in 1..n : d[k] \in Nat)
    BY <1>1, <2>1, SMTT(30)
  <2>3. /\ x \in Seq(Nat) /\ Len(x) = IF 1 <= n THEN n - 1 + 1 ELSE 0
        /\ \A k \in 1..n - 1 + 1 : x[k] = b[1 + k - 1]
    BY <2>1, <2>2, SubSeqProperties
  <2>4. /\ y \in Seq(Nat) /\ Len(y) = IF 1 <= n THEN n - 1 + 1 ELSE 0
        /\ \A k \in 1..n - 1 + 1 : y[k] = d[1 + k - 1]
    <3> HIDE DEF d
    <3>1. QED
      BY <2>1, <2>2, SubSeqProperties
  <2> HIDE DEF d, x, y, n
  <2>5. Len(x) = Len(y) /\ \A k \in 1..Len(x) : x[k] = y[k]
    BY <1>1, <2>1, <2>3, <2>4 DEF n
  <2>6. x = y
    BY <2>3, <2>4, <2>5, SeqEqual
  <2>7. QED
    BY <1>1, <2>1, <2>6 DEF IsPrefix, x, y, n
<1>3. ASSUME NEW j \in 1..Len(c) + 1 PROVE Append(From(c, j), Last(c) + 1) \in Seq(Nat)
  <2>1. From(c, j) \in Seq(Nat)
    BY FromProperties
  <2>2. Last(c) + 1 \in Nat
    BY DEF Last
  <2>3. QED
    BY <2>1, <2>2, AppendIs
<1> HIDE DEF d
<1>4. PICK j \in 1..Len(c) + 1 :
        /\ IsPrefix(Append(From(c, j), Last(c) + 1), b)
        /\ From(c, j) # <<>> => TokensIn(Tail(From(c, j))) < overlap
        /\ overlap > 0 /\ TokensIn(<<Last(c), Last(c) + 1>>) <= ChunkSize => From(c, j) # <<>>
  BY Zenon DEF HandsOn
<1>5. IsPrefix(Append(From(c, j), Last(c) + 1), d)
  BY <1>2, <1>3, <1>4
<1>6. HandsOn(c, d)
  BY <1>4, <1>5, Zenon DEF HandsOn
<1>7. QED
  BY <1>6 DEF d

\* A chunk is finished and another one begun, with the next unit at its end.
LEMMA Closing ==
  ASSUME ChunkerInv, Consume, buffer # <<>>, chunks' = Append(chunks, buffer),
         NEW d, buffer' = d, Good(d), Last(d) = next,
         Heading(d) = Heading(buffer) => HandsOn(buffer, d)
  PROVE  ChunkerInv'
<1> DEFINE n == Len(chunks)
<1>1. /\ units \in Seq(Unit) /\ overlap \in Nat /\ next \in 1..Len(units) /\ Len(units) \in Nat
      /\ chunks \in Seq(Seq(Nat)) /\ Good(buffer) /\ Last(buffer) = next - 1
      /\ buffer \in Seq(Nat) /\ next' = next + 1 /\ UNCHANGED <<units, overlap, done>>
      /\ done = FALSE
  <2>1. /\ units \in Seq(Unit) /\ overlap \in Nat /\ next \in 1..Len(units)
        /\ chunks \in Seq(Seq(Nat)) /\ Good(buffer) /\ Last(buffer) = next - 1
        /\ next' = next + 1 /\ UNCHANGED <<units, overlap, done>> /\ done \in BOOLEAN
        /\ (done => next > Len(units)) /\ next <= Len(units)
    BY DEF ChunkerInv, Sound, Consume
  <2>2. buffer \in Seq(Nat)
    BY <2>1 DEF Good, IsChunk
  <2>3. done = FALSE
    BY <2>1
  <2>4. QED
    BY <2>1, <2>2, <2>3
<1>2. /\ chunks' \in Seq(Seq(Nat)) /\ n \in Nat /\ Len(chunks') = n + 1
      /\ chunks'[n + 1] = buffer /\ \A k \in 1..n : chunks'[k] = chunks[k]
      /\ \A k \in 1..Len(chunks') : k \in 1..n \/ k = n + 1
      /\ Last(chunks') = buffer /\ chunks' # <<>>
  BY <1>1, OneMore
<1> HIDE DEF n
<1>3. Sound'
  <2>1. (\A k \in 1..Len(chunks) : Good(chunks[k]))'
    BY <1>1, OneMoreGood DEF ChunkerInv, Sound
  <2>2. Good(buffer)' /\ Last(buffer)' = next /\ buffer' # <<>>
    BY <1>1 DEF Good, IsChunk, Heading, Last, TokensIn
  <2>3. next' \in 1..Len(units') + 1 /\ next' - 1 = next
    BY <1>1
  <2>4. QED
    BY <1>1, <1>2, <2>1, <2>2, <2>3 DEF Sound
<1>4. Rising'
  <2>1. \A k \in 1..n : Last(chunks[k]) < next - 1
    BY <1>1 DEF n, ChunkerInv, Rising
  <2>2. ASSUME NEW k \in 1..Len(chunks') PROVE Last(chunks[k])' < next
    <3>1. CASE k \in 1..n
      <4>1. Last(chunks[k]) \in Int
        <5>1. chunks[k] \in Seq(Nat) /\ chunks[k] # <<>>
          BY <1>1, <3>1 DEF n, ChunkerInv, Sound, Good
        <5>2. QED
          BY <5>1 DEF Last
      <4>2. Last(chunks[k]) < next - 1
        BY <2>1, <3>1
      <4>3. Last(chunks[k])' = Last(chunks[k])
        BY <1>2, <3>1 DEF Last
      <4>4. QED
        BY <1>1, <4>1, <4>2, <4>3
    <3>2. CASE k = n + 1
      BY <1>1, <1>2, <3>2 DEF Last
    <3>3. QED
      BY <1>2, <3>1, <3>2
  <2>3. ASSUME NEW k \in 1..Len(chunks'), NEW j \in 1..k - 1
        PROVE  Last(chunks[j])' < Last(chunks[k])'
    <3>1. j \in 1..n /\ Last(chunks[j])' = Last(chunks[j])
      BY <1>2 DEF Last
    <3>2. CASE k \in 1..n
      <4>1. Last(chunks[k])' = Last(chunks[k])
        BY <1>2, <3>2 DEF Last
      <4>2. QED
        BY <3>1, <3>2, <4>1 DEF n, ChunkerInv, Rising
    <3>3. CASE k = n + 1
      <4>1. Last(chunks[k])' = next - 1
        BY <1>1, <1>2, <3>3 DEF Last
      <4>2. QED
        BY <2>1, <3>1, <4>1
    <3>4. QED
      BY <1>2, <3>2, <3>3
  <2>4. next' - 1 = next
    BY <1>1
  <2>5. QED
    BY <2>2, <2>3, <2>4 DEF Rising
<1>5. Covered'
  <2>1. ASSUME NEW i \in 1..next
        PROVE  i \in Range(buffer') \/ \E k \in 1..Len(chunks') : i \in Range(chunks'[k])
    <3>1. CASE i = next
      <4>1. Len(d) \in DOMAIN d /\ d[Len(d)] = next
        BY DEF Good, IsChunk, Last
      <4>2. QED
        BY <3>1, <4>1 DEF Range
    <3>2. CASE i # next
      <4>1. i \in 1..next - 1
        BY <1>1, <3>2
      <4>2. CASE i \in Range(buffer)
        <5>1. n + 1 \in 1..Len(chunks')
          BY <1>2
        <5>2. QED
          BY <1>2, <4>2, <5>1
      <4>3. CASE \E k \in 1..n : i \in Range(chunks[k])
        BY <1>2, <4>3
      <4>4. QED
        BY <1>1, <4>1, <4>2, <4>3 DEF n, ChunkerInv, Covered
    <3>3. QED
      BY <3>1, <3>2
  <2>2. next' - 1 = next
    BY <1>1
  <2>3. done' = FALSE
    BY <1>1
  <2>4. QED
    BY <2>1, <2>2, <2>3 DEF Covered
<1>6. Handed'
  <2>1. ContextCarried'
    <3>1. /\ ContextCarried
          /\ chunks # <<>> /\ Heading(Last(chunks)) = Heading(buffer) => HandsOn(Last(chunks), buffer)
      BY <1>1 DEF ChunkerInv, Handed
    <3>2. PICK b : b = buffer
      OBVIOUS
    <3>3. QED
      BY <1>1, <3>1, OneMoreHanded
  <2>2. PICK c : c = buffer
    OBVIOUS
  <2>3. Last(chunks)' = c
    BY <1>2, <2>2 DEF Last
  <2>4. Heading(Last(chunks))' = Heading(c) /\ Heading(buffer)' = Heading(d)
    BY <1>1, <2>3 DEF Heading, Last
  <2>5. ASSUME HandsOn(c, d) PROVE HandsOn(Last(chunks), buffer)'
    BY <1>1, <2>3, <2>5 DEF HandsOn, TokensIn, Last
  <2>6. QED
    BY <2>1, <2>2, <2>4, <2>5 DEF Handed
<1>7. QED
  BY <1>3, <1>4, <1>5, <1>6 DEF ChunkerInv

\* A unit is added to the chunk in the making.
LEMMA ExtendStep ==
  ASSUME ChunkerInv, Extend
  PROVE  ChunkerInv'
<1>1. /\ units \in Seq(Unit) /\ overlap \in Nat /\ next \in 1..Len(units) /\ Len(units) \in Nat
      /\ next' = next + 1 /\ UNCHANGED <<units, overlap, done, chunks>>
      /\ done = FALSE /\ buffer' = Append(buffer, next) /\ IsChunk(buffer)
      /\ (buffer = <<>> => next = 1 /\ chunks = <<>>)
      /\ (buffer # <<>> => Good(buffer) /\ Last(buffer) = next - 1
                            /\ units[next].heading = Heading(buffer))
  <2>1. /\ units \in Seq(Unit) /\ overlap \in Nat /\ next \in 1..Len(units)
        /\ next' = next + 1 /\ UNCHANGED <<units, overlap, done, chunks>> /\ done \in BOOLEAN
        /\ (done => next > Len(units)) /\ next <= Len(units)
        /\ buffer' = Append(buffer, next)
        /\ (buffer = <<>> => next = 1 /\ chunks = <<>>)
        /\ (buffer # <<>> => Good(buffer) /\ Last(buffer) = next - 1
                              /\ units[next].heading = Heading(buffer))
    BY DEF ChunkerInv, Sound, Consume, Extend, Coming
  <2>2. Len(units) \in Nat /\ done = FALSE
    BY <2>1
  <2>3. IsChunk(buffer)
    <3>1. CASE buffer = <<>>
      BY <3>1 DEF IsChunk
    <3>2. CASE buffer # <<>>
      BY <2>1, <3>2, Zenon DEF Good
    <3>3. QED
      BY <3>1, <3>2
  <2>4. QED
    BY <2>1, <2>2, <2>3
<1>2. PICK d : d = buffer'
  OBVIOUS
<1>3. buffer # <<>> => TokensIn(buffer) + Tokens[units[next].text] <= ChunkSize
  <2>1. TokensIn(buffer) \in Nat /\ Tokens[units[next].text] \in Nat
    BY <1>1, TokensOfAppend, UnitTokens
  <2>2. buffer # <<>> => ~ (TokensIn(buffer) + Tokens[units[next].text] > ChunkSize)
    BY DEF Extend, Overflows, Coming
  <2>3. QED
    BY <2>1, <2>2, SizeAssumption
<1>4. \A k \in 1..Len(buffer) : buffer[k] <= next /\ units[buffer[k]].heading = units[next].heading
  <2>1. ASSUME NEW k \in 1..Len(buffer)
        PROVE  buffer[k] <= next /\ units[buffer[k]].heading = units[next].heading
    <3>1. buffer # <<>> /\ buffer[k] \in 1..Len(units)
      BY <1>1 DEF IsChunk
    <3>2. buffer[k] <= Last(buffer) /\ units[buffer[k]].heading = Heading(buffer)
      BY <1>1, <3>1 DEF Good
    <3>3. QED
      BY <1>1, <3>1, <3>2
  <2>2. QED
    BY <2>1
<1>5. Good(d) /\ Last(d) = next /\ Heading(d) = units[next].heading
  <2>1. PICK b, i : b = buffer /\ i = next
    OBVIOUS
  <2>2. Good(Append(b, i)) /\ Last(Append(b, i)) = i /\ Heading(Append(b, i)) = units[i].heading
    <3>1. i \in 1..Len(units) /\ IsChunk(b)
      BY <1>1, <2>1
    <3>2. \A k \in 1..Len(b) : b[k] <= i /\ units[b[k]].heading = units[i].heading
      BY <1>4, <2>1
    <3>3. b # <<>> => TokensIn(b) + Tokens[units[i].text] <= ChunkSize
      BY <1>3, <2>1
    <3>4. units \in Seq(Unit) /\ ChunkSize \in Nat
      BY <1>1, SizeAssumption
    <3>5. QED
      BY <3>1, <3>2, <3>3, <3>4, ExtendedGood
  <2>3. d = Append(b, i)
    BY <1>1, <1>2, <2>1
  <2>4. QED
    BY <2>1, <2>2, <2>3, Zenon
<1>6. d # <<>> /\ d = Append(buffer, next) /\ Range(buffer) \subseteq Range(d) /\ next \in Range(d)
  <2>1. buffer \in Seq(1..Len(units)) /\ next \in 1..Len(units) /\ d = Append(buffer, next)
    BY <1>1, <1>2 DEF IsChunk
  <2>2. /\ d # <<>> /\ Len(d) = Len(buffer) + 1 /\ d[Len(buffer) + 1] = next
        /\ \A k \in 1..Len(buffer) : d[k] = buffer[k]
        /\ d \in Seq(1..Len(units))
    BY <2>1, AppendIs
  <2>3. DOMAIN d = 1..Len(buffer) + 1 /\ DOMAIN buffer = 1..Len(buffer) /\ Len(buffer) \in Nat
    BY <2>1, <2>2
  <2>4. next \in Range(d)
    <3>1. Len(buffer) + 1 \in DOMAIN d
      BY <2>3
    <3>2. QED
      BY <2>2, <3>1, Zenon DEF Range
  <2>5. Range(buffer) \subseteq Range(d)
    <3>1. \A k \in DOMAIN buffer : k \in DOMAIN d /\ d[k] = buffer[k]
      BY <2>2, <2>3
    <3>2. QED
      BY <3>1 DEF Range
  <2>6. QED
    BY <2>1, <2>2, <2>4, <2>5
<1>7. Sound'
  <2>1. Good(buffer)' /\ Last(buffer)' = next /\ buffer' # <<>>
    BY <1>1, <1>2, <1>5, <1>6 DEF Good, IsChunk, Heading, Last, TokensIn
  <2>2. (\A k \in 1..Len(chunks) : Good(chunks[k]))'
    <3>1. \A k \in 1..Len(chunks) : Good(chunks[k])
      BY DEF ChunkerInv, Sound
    <3>2. QED
      BY <1>1, <3>1 DEF Good, IsChunk, Heading, Last, TokensIn
  <2>3. next' \in 1..Len(units') + 1 /\ next' - 1 = next
    BY <1>1
  <2>4. chunks \in Seq(Seq(Nat))
    BY DEF ChunkerInv, Sound
  <2>5. QED
    BY <1>1, <2>1, <2>2, <2>3, <2>4 DEF Sound
<1>8. Rising'
  <2>1. \A k \in 1..Len(chunks) : chunks[k] \in Seq(Nat) /\ chunks[k] # <<>>
    BY DEF ChunkerInv, Sound, Good
  <2>2. \A k \in 1..Len(chunks) : Last(chunks[k]) \in Nat
    BY <2>1 DEF Last
  <2>3. \A k \in 1..Len(chunks) : Last(chunks[k]) < next' - 1
    BY <1>1, <2>2 DEF ChunkerInv, Rising
  <2>4. QED
    BY <1>1, <2>3 DEF ChunkerInv, Rising, Last
<1>9. Covered'
  <2>1. \A i \in 1..next : i \in 1..next - 1 \/ i = next
    BY <1>1
  <2>2. next' - 1 = next
    BY <1>1
  <2>3. \A i \in 1..next - 1 :
            i \in Range(buffer) \/ \E k \in 1..Len(chunks) : i \in Range(chunks[k])
    BY <1>1 DEF ChunkerInv, Covered
  <2>4. QED
    BY <1>1, <1>2, <1>6, <2>1, <2>2, <2>3 DEF Covered
<1>10. Handed'
  <2>1. ContextCarried'
    BY <1>1 DEF ChunkerInv, Handed, ContextCarried, HandsOn, Heading, Last, TokensIn
  <2>2. PICK c, b, i : c = Last(chunks) /\ b = buffer /\ i = next
    OBVIOUS
  <2>3. Last(chunks)' = c /\ Heading(Last(chunks))' = Heading(c) /\ Heading(buffer)' = Heading(d)
    BY <1>1, <1>2, <2>2 DEF Heading, Last
  <2>4. ASSUME chunks # <<>>, Heading(c) = Heading(d) PROVE HandsOn(c, d)
    <3>1. buffer # <<>> /\ Heading(c) = Heading(b)
      BY <1>1, <1>5, <2>2, <2>4
    <3>2. HandsOn(c, b)
      BY <1>1, <2>2, <2>4, <3>1 DEF ChunkerInv, Handed
    <3>3. c \in Seq(Nat) /\ c # <<>>
      BY <2>2, <2>4 DEF ChunkerInv, Sound, Good, Last
    <3>4. b \in Seq(Nat) /\ i \in Nat /\ d = Append(b, i)
      BY <1>1, <1>6, <2>2 DEF IsChunk
    <3>5. QED
      BY <3>2, <3>3, <3>4, ExtendedHanded
  <2>5. ASSUME HandsOn(c, d) PROVE HandsOn(Last(chunks), buffer)'
    BY <1>1, <1>2, <2>3, <2>5 DEF HandsOn, TokensIn, Last
  <2>6. QED
    BY <1>1, <2>1, <2>3, <2>4, <2>5 DEF Handed
<1>11. QED
  BY <1>7, <1>8, <1>9, <1>10 DEF ChunkerInv

LEMMA BeginSectionStep ==
  ASSUME ChunkerInv, BeginSection
  PROVE  ChunkerInv'
<1>1. /\ units \in Seq(Unit) /\ next \in 1..Len(units) /\ buffer # <<>>
      /\ units[next].heading # Heading(buffer)
      /\ Consume /\ chunks' = Append(chunks, buffer) /\ buffer' = <<next>>
  BY DEF ChunkerInv, Sound, BeginSection, Consume, Coming
<1>2. PICK i \in 1..Len(units) : i = next
  BY <1>1
<1>3. IsChunk(<<>>) /\ Len(<<>>) = 0 /\ Append(<<>>, i) = <<i>>
  BY DEF IsChunk
<1>4. Good(<<i>>) /\ Last(<<i>>) = i /\ Heading(<<i>>) = units[i].heading
  <2>1. \A k \in 1..Len(<<>>) : FALSE
    BY <1>3
  <2>2. Good(Append(<<>>, i)) /\ Last(Append(<<>>, i)) = i
        /\ Heading(Append(<<>>, i)) = units[i].heading
    BY <1>1, <1>3, <2>1, SizeAssumption, ExtendedGood
  <2>3. QED
    BY <1>3, <2>2, Zenon
<1>5. QED
  BY <1>1, <1>2, <1>4, Closing

LEMMA BeginChunkStep ==
  ASSUME ChunkerInv, BeginChunk
  PROVE  ChunkerInv'
<1>1. /\ units \in Seq(Unit) /\ overlap \in Nat /\ ChunkSize \in Nat
      /\ next \in 1..Len(units) /\ buffer # <<>>
      /\ units[next].heading = Heading(buffer) /\ Good(buffer) /\ Last(buffer) = next - 1
      /\ Consume /\ chunks' = Append(chunks, buffer)
      /\ buffer' = Append(Trimmed(OverlapSuffix(buffer), Tokens[units[next].text]), next)
  BY SizeAssumption DEF ChunkerInv, Sound, BeginChunk, Consume, Coming
<1>2. PICK c, d, i : c = buffer /\ d = buffer' /\ i = next
  OBVIOUS
<1>3. Good(d) /\ Last(d) = i /\ HandsOn(c, d)
  <2>1. Good(c) /\ i \in 1..Len(units) /\ i = Last(c) + 1 /\ units[i].heading = Heading(c)
    BY <1>1, <1>2
  <2>2. d = Append(Trimmed(OverlapSuffix(c), Tokens[units[i].text]), i)
    BY <1>1, <1>2, Zenon
  <2>3. QED
    BY <1>1, <2>1, <2>2, HandedOver
<1>4. QED
  BY <1>1, <1>2, <1>3, Closing

\* The end: what is left over is a chunk, unless it repeats the words of the
\* last one.
LEMMA FinishStep ==
  ASSUME ChunkerInv, Finish
  PROVE  ChunkerInv'
<1> DEFINE n == Len(chunks)
<1>1. /\ units \in Seq(Unit) /\ Len(units) \in Nat /\ next = Len(units) + 1
      /\ chunks \in Seq(Seq(Nat)) /\ n \in Nat
      /\ UNCHANGED <<units, overlap, next, buffer>> /\ done = FALSE /\ done' = TRUE
      /\ (buffer # <<>> => Good(buffer) /\ Last(buffer) = next - 1 /\ buffer \in Seq(Nat))
      /\ (buffer = <<>> => next = 1 /\ chunks = <<>>)
  <2>1. /\ units \in Seq(Unit) /\ next \in 1..Len(units) + 1 /\ next > Len(units)
        /\ chunks \in Seq(Seq(Nat))
        /\ UNCHANGED <<units, overlap, next, buffer>> /\ done \in BOOLEAN /\ ~done /\ done' = TRUE
        /\ (buffer # <<>> => Good(buffer) /\ Last(buffer) = next - 1)
        /\ (buffer = <<>> => next = 1 /\ chunks = <<>>)
    BY DEF ChunkerInv, Sound, Finish
  <2>2. buffer # <<>> => buffer \in Seq(Nat)
    BY <2>1 DEF Good, IsChunk
  <2>3. Len(units) \in Nat /\ n \in Nat
    BY <2>1
  <2>4. next = Len(units) + 1
    BY <2>1, <2>3
  <2>5. QED
    BY <2>1, <2>2, <2>3, <2>4
<1>2. \A k \in 1..n : Good(chunks[k]) /\ chunks[k] \in Seq(Nat) /\ chunks[k] # <<>>
  BY <1>1 DEF ChunkerInv, Sound, Good
<1>3. \A k \in 1..n : Last(chunks[k]) \in Nat /\ Last(chunks[k]) < next - 1
  <2>1. \A k \in 1..n : Last(chunks[k]) \in Nat
    BY <1>2 DEF Last
  <2>2. QED
    BY <1>1, <2>1 DEF ChunkerInv, Rising
<1>4. CASE buffer # <<>> /\ (chunks = <<>> \/ Said(buffer) # Said(Last(chunks)))
  <2>1. chunks' = Append(chunks, buffer)
    BY <1>4 DEF Finish
  <2>2. /\ chunks' \in Seq(Seq(Nat)) /\ Len(chunks') = n + 1
        /\ chunks'[n + 1] = buffer /\ \A k \in 1..n : chunks'[k] = chunks[k]
        /\ \A k \in 1..Len(chunks') : k \in 1..n \/ k = n + 1
        /\ Last(chunks') = buffer /\ chunks' # <<>>
    BY <1>1, <1>4, <2>1, OneMore
  <2> HIDE DEF n
  <2>3. Sound'
    <3>1. (\A k \in 1..Len(chunks) : Good(chunks[k]))'
      BY <1>1, <1>2, <1>4, <2>1, OneMoreGood DEF n
    <3>2. Good(buffer)' /\ Last(buffer)' = Last(buffer)
      BY <1>1, <1>4 DEF Good, IsChunk, Heading, Last, TokensIn
    <3>3. overlap \in Nat /\ next \in 1..Len(units) + 1 /\ next > Len(units)
      BY <1>1 DEF ChunkerInv, Sound
    <3>4. QED
      BY <1>1, <1>4, <2>2, <3>1, <3>2, <3>3 DEF Sound
  <2>4. Rising'
    <3>1. ASSUME NEW k \in 1..Len(chunks'), NEW j \in 1..k - 1
          PROVE  Last(chunks[j])' < Last(chunks[k])'
      <4>1. j \in 1..n /\ Last(chunks[j])' = Last(chunks[j])
        BY <1>1, <2>2 DEF Last
      <4>2. CASE k \in 1..n
        <5>1. Last(chunks[k])' = Last(chunks[k])
          BY <2>2, <4>2 DEF Last
        <5>2. QED
          BY <4>1, <4>2, <5>1 DEF n, ChunkerInv, Rising
      <4>3. CASE k = n + 1
        <5>1. Last(chunks[k])' = next - 1
          BY <1>1, <1>4, <2>2, <4>3 DEF Last
        <5>2. QED
          BY <1>3, <4>1, <5>1
      <4>4. QED
        BY <2>2, <4>2, <4>3
    <3>2. QED
      BY <1>1, <3>1 DEF Rising
  <2>5. ContextCarried'
    <3>1. /\ ContextCarried
          /\ chunks # <<>> /\ Heading(Last(chunks)) = Heading(buffer) => HandsOn(Last(chunks), buffer)
      BY <1>1 DEF ChunkerInv, Handed
    <3>2. UNCHANGED <<units, overlap>>
      BY <1>1
    <3>3. QED
      BY <1>1, <1>4, <2>1, <3>1, <3>2, OneMoreHanded
  <2>6. Covered'
    <3>1. ASSUME NEW i \in 1..next - 1
          PROVE  \E k \in 1..Len(chunks') : i \in Range(chunks'[k])
      <4>1. CASE i \in Range(buffer)
        <5>1. n + 1 \in 1..Len(chunks')
          BY <1>1, <2>2
        <5>2. QED
          BY <2>2, <4>1, <5>1
      <4>2. CASE \E k \in 1..n : i \in Range(chunks[k])
        <5>1. 1..n \subseteq 1..Len(chunks')
          BY <1>1, <2>2
        <5>2. QED
          BY <2>2, <4>2, <5>1
      <4>3. QED
        BY <4>1, <4>2 DEF n, ChunkerInv, Covered
    <3>2. QED
      BY <1>1, <3>1 DEF Covered
  <2>7. QED
    BY <1>1, <2>3, <2>4, <2>5, <2>6 DEF ChunkerInv, Handed
<1>5. CASE ~ (buffer # <<>> /\ (chunks = <<>> \/ Said(buffer) # Said(Last(chunks))))
  <2>1. chunks' = chunks
    BY <1>5 DEF Finish
  <2>2. Sound'
    <3>1. (\A k \in 1..Len(chunks) : Good(chunks[k]))'
      BY <1>1, <1>2, <2>1 DEF n, Good, IsChunk, Heading, Last, TokensIn
    <3>2. buffer # <<>> => Good(buffer)' /\ Last(buffer)' = Last(buffer)
      BY <1>1 DEF Good, IsChunk, Heading, Last, TokensIn
    <3>3. overlap \in Nat /\ next \in 1..Len(units) + 1 /\ next > Len(units)
      BY <1>1 DEF ChunkerInv, Sound
    <3>4. QED
      BY <1>1, <2>1, <3>1, <3>2, <3>3 DEF Sound
  <2>3. Rising'
    BY <1>1, <2>1 DEF ChunkerInv, Rising, Last
  <2>4. Covered'
    <3>1. buffer # <<>> => Repeats'
      BY <1>1, <1>5, <2>1 DEF Repeats, Said, Last
    <3>2. buffer = <<>> => next - 1 = 0
      BY <1>1
    <3>3. QED
      BY <1>1, <2>1, <3>1, <3>2 DEF ChunkerInv, Covered
  <2>5. ContextCarried'
    BY <1>1, <2>1 DEF ChunkerInv, Handed, ContextCarried, HandsOn, Heading, Last, TokensIn
  <2>6. QED
    BY <1>1, <2>2, <2>3, <2>4, <2>5 DEF ChunkerInv, Handed
<1>6. QED
  BY <1>4, <1>5

------------------------------------------------------------------------------
(* Theorems *)

\* Chunks are made as they should be, whatever the document: chunk_paragraphs,
\* its loop and its end.
THEOREM ChunkerInvariant == Spec => []ChunkerInv
<1>1. ASSUME ChunkerInv, [Next]_vars PROVE ChunkerInv'
  <2>1. CASE UNCHANGED vars
    <3>1. Sound'
      <4>1. (\A k \in 1..Len(chunks) : Good(chunks[k]))'
        BY <1>1, <2>1 DEF vars, ChunkerInv, Sound, Good, IsChunk, Heading, Last, TokensIn
      <4>2. buffer # <<>> => Good(buffer)' /\ Last(buffer)' = Last(buffer)
        BY <1>1, <2>1 DEF vars, ChunkerInv, Sound, Good, IsChunk, Heading, Last, TokensIn
      <4>3. QED
        BY <1>1, <2>1, <4>1, <4>2 DEF vars, ChunkerInv, Sound
    <3>2. Rising'
      BY <1>1, <2>1 DEF vars, ChunkerInv, Rising, Last
    <3>3. Covered'
      BY <1>1, <2>1 DEF vars, ChunkerInv, Covered, Repeats, Said, Last
    <3>4. ContextCarried'
      BY <1>1, <2>1
      DEF vars, ChunkerInv, Handed, ContextCarried, HandsOn, Heading, Last, TokensIn
    <3>5. (~done /\ chunks # <<>> /\ Heading(Last(chunks)) = Heading(buffer) =>
             HandsOn(Last(chunks), buffer))'
      BY <1>1, <2>1 DEF vars, ChunkerInv, Handed, HandsOn, Heading, Last, TokensIn
    <3>6. QED
      BY <3>1, <3>2, <3>3, <3>4, <3>5 DEF ChunkerInv, Handed
  <2>2. QED
    BY <1>1, <2>1, BeginSectionStep, BeginChunkStep, ExtendStep, FinishStep DEF Next
<1>2. QED
  BY <1>1, InitInv, PTL DEF Spec

LEMMA AllGood ==
  ASSUME ChunkerInv
  PROVE  \A c \in Range(chunks) \cup {buffer} : c = <<>> \/ Good(c)
<1>1. ASSUME NEW c \in Range(chunks) PROVE Good(c)
  <2>1. PICK k \in DOMAIN chunks : c = chunks[k]
    BY DEF Range
  <2>2. k \in 1..Len(chunks)
    BY DEF ChunkerInv, Sound
  <2>3. QED
    BY <2>1, <2>2, Zenon DEF ChunkerInv, Sound
<1>2. buffer = <<>> \/ Good(buffer)
  BY Zenon DEF ChunkerInv, Sound
<1>3. QED
  BY <1>1, <1>2

\* What Good says of a chunk, it says of every pair of its units.
LEMMA SectionsOfGood == ChunkerInv => SectionsApart
<1> SUFFICES ASSUME ChunkerInv, NEW c \in Range(chunks) \cup {buffer},
                    NEW i \in Range(c), NEW j \in Range(c)
             PROVE  units[i].heading = units[j].heading
  BY DEF SectionsApart
<1>1. c = <<>> \/ Good(c)
  BY AllGood
<1>2. DOMAIN c = 1..Len(c)
  BY <1>1 DEF Good, IsChunk
<1>3. PICK k \in DOMAIN c, l \in DOMAIN c : i = c[k] /\ j = c[l]
  BY DEF Range
<1>4. Good(c)
  BY <1>1, <1>2, <1>3
<1>5. QED
  BY <1>2, <1>3, <1>4 DEF Good

\* No chunk holds text of two sections, for every document: the guard on the
\* heading comes before the overlap (ingestion/chunker.py:43-46).
THEOREM SectionsStayApart == Spec => []SectionsApart
<1>1. QED
  BY ChunkerInvariant, SectionsOfGood, PTL

LEMMA SizeOfGood == ChunkerInv => SizeKept
<1> SUFFICES ASSUME ChunkerInv, NEW c \in Range(chunks) \cup {buffer}, Len(c) > 1
             PROVE  TokensIn(c) <= ChunkSize
  BY DEF SizeKept
<1>1. c = <<>> \/ Good(c)
  BY AllGood
<1>2. QED
  BY <1>1 DEF Good

\* A chunk of several units keeps to the size: what is carried over is shortened
\* until the next unit fits (ingestion/chunker.py:47-53).
THEOREM ChunksKeepToSize == Spec => []SizeKept
<1>1. QED
  BY ChunkerInvariant, SizeOfGood, PTL

LEMMA LostOfCovered == ChunkerInv => NothingLost
<1> SUFFICES ASSUME ChunkerInv, done PROVE NothingLost
  BY DEF NothingLost
<1> DEFINE kept == UNION {Range(c) : c \in Range(chunks)}
           lost == (1..Len(units)) \ kept
<1>1. DOMAIN chunks = 1..Len(chunks) /\ Len(units) \in Nat /\ next = Len(units) + 1
  BY DEF ChunkerInv, Sound
<1>2. ASSUME NEW i \in lost PROVE i \in Range(buffer) /\ Repeats
  <2>1. i \in 1..next - 1
    BY <1>1
  <2>2. ASSUME NEW k \in 1..Len(chunks), i \in Range(chunks[k]) PROVE FALSE
    <3>1. chunks[k] \in Range(chunks)
      BY <1>1 DEF Range
    <3>2. QED
      BY <2>2, <3>1
  <2>3. QED
    BY <2>1, <2>2 DEF ChunkerInv, Covered
<1>3. lost # {} => chunks # <<>> /\ lost \subseteq Range(buffer) /\ Said(buffer) = Said(Last(chunks))
  <2> HIDE DEF lost
  <2>1. QED
    BY <1>2 DEF Repeats
<1>4. ASSUME NEW k \in DOMAIN chunks,
             Range(chunks[k]) \subseteq UNION {Range(chunks[j]) : j \in 1..k - 1}
      PROVE  FALSE
  <2>1. Good(chunks[k]) /\ \A j \in 1..k - 1 : Good(chunks[j]) /\ j \in 1..Len(chunks)
    BY <1>1 DEF ChunkerInv, Sound
  <2>2. Last(chunks[k]) \in Range(chunks[k]) /\ Last(chunks[k]) \in Nat
    BY <2>1 DEF Good, IsChunk, Last, Range
  <2>3. PICK j \in 1..k - 1 : Last(chunks[k]) \in Range(chunks[j])
    BY <1>4, <2>2
  <2>4. PICK l \in 1..Len(chunks[j]) : Last(chunks[k]) = chunks[j][l]
    BY <2>1, <2>3 DEF Good, IsChunk, Range
  <2>5. Last(chunks[k]) <= Last(chunks[j])
    BY <2>1, <2>4 DEF Good
  <2>6. Last(chunks[j]) \in Nat
    BY <2>1 DEF Good, IsChunk, Last
  <2>7. Last(chunks[j]) < Last(chunks[k])
    BY <1>1 DEF ChunkerInv, Rising
  <2>8. QED
    BY <2>2, <2>5, <2>6, <2>7
<1>5. QED
  BY <1>3, <1>4 DEF NothingLost

\* In the end every unit is in a chunk, except those of a last chunk that repeats
\* the one before, and no chunk repeats only what others hold
\* (ingestion/chunker.py:57-60).
THEOREM NothingIsLost == Spec => []NothingLost
<1>1. QED
  BY ChunkerInvariant, LostOfCovered, PTL

\* Every chunk is handed the overlap of the one before it in its section, no
\* more and no less than asked for (ingestion/chunker.py:49-53, 75-87).
THEOREM ContextIsCarried == Spec => []ContextCarried
<1>1. ChunkerInv => ContextCarried
  BY DEF ChunkerInv, Handed
<1>2. QED
  BY <1>1, ChunkerInvariant, PTL
==============================================================================
