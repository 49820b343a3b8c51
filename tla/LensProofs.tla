----------------------------- MODULE LensProofs -----------------------------
(***************************************************************************)
(* What TLAPS proves of the lens handler, for all tables, requests, limits *)
(* and writes of the other daemon that LensAssumption and SearchAssumption *)
(* allow.                                                                  *)
(*                                                                         *)
(* First the lists that ORDER BY and LIMIT make, then the numbers of the   *)
(* engine, then what each query returns, then what the other daemon may    *)
(* disturb.  The invariants follow: History (what was written), Reading    *)
(* (the state of the loops), Outcome (the card), and upon them one for     *)
(* each property: Grounded, Bound, Related, Recalled, Complete, Distinct   *)
(* and Undisturbed.                                                        *)
(***************************************************************************)
EXTENDS LensHarness, FiniteSetTheorems, SequenceTheorems, TLAPS

\* A strict total order of S.
Orders(before, S) ==
  /\ \A x \in S : <<x, x>> \notin before
  /\ \A x, y, z \in S : <<x, y>> \in before /\ <<y, z>> \in before => <<x, z>> \in before
  /\ \A x, y \in S : x = y \/ <<x, y>> \in before \/ <<y, x>> \in before

Rank(x, S, before) == Cardinality({y \in S : <<y, x>> \in before})

\* The ranks in a finite set are the numbers below its cardinality, each once.
LEMMA RanksAreOneToOne ==
    ASSUME NEW S, IsFiniteSet(S), NEW before, Orders(before, S)
    PROVE  /\ \A x \in S : Rank(x, S, before) \in 0 .. Cardinality(S) - 1
           /\ \A x, y \in S : Rank(x, S, before) = Rank(y, S, before) => x = y
           /\ \A k \in 0 .. Cardinality(S) - 1 : \E x \in S : Rank(x, S, before) = k
<1> DEFINE Below(x) == {y \in S : <<y, x>> \in before}
           n == Cardinality(S)
<1>1. n \in Nat
  BY FS_CardinalityType
<1>2. ASSUME NEW x \in S
      PROVE  IsFiniteSet(Below(x)) /\ Cardinality(Below(x)) \in 0 .. n - 1
  <2>1. Below(x) \in SUBSET S /\ Below(x) # S
    BY DEF Orders
  <2>. HIDE DEF Below
  <2>2. IsFiniteSet(Below(x)) /\ Cardinality(Below(x)) <= n /\ Cardinality(Below(x)) # n
    BY <2>1, FS_Subset
  <2>3. Cardinality(Below(x)) \in Nat
    BY <2>2, FS_CardinalityType
  <2>. QED
    BY <1>1, <2>2, <2>3
<1>3. ASSUME NEW x \in S, NEW y \in S, <<x, y>> \in before
      PROVE  Cardinality(Below(x)) < Cardinality(Below(y))
  <2>1. Below(x) \in SUBSET Below(y) /\ Below(x) # Below(y)
    BY <1>3 DEF Orders
  <2>. HIDE DEF Below
  <2>2. Cardinality(Below(x)) <= Cardinality(Below(y)) /\ Cardinality(Below(x)) # Cardinality(Below(y))
    BY <1>2, <2>1, FS_Subset
  <2>. QED
    BY <1>1, <1>2, <2>2
<1>4. \A x \in S : Rank(x, S, before) = Cardinality(Below(x))
  BY DEF Rank
<1>5. \A x, y \in S : Cardinality(Below(x)) = Cardinality(Below(y)) => x = y
  <2>1. \A x \in S : Cardinality(Below(x)) \in 0 .. n - 1
    BY <1>2
  <2>. HIDE DEF Below
  <2>2. SUFFICES ASSUME NEW x \in S, NEW y \in S, x # y, Cardinality(Below(x)) = Cardinality(Below(y))
                 PROVE  FALSE
    OBVIOUS
  <2>3. <<x, y>> \in before \/ <<y, x>> \in before
    BY <2>2 DEF Orders
  <2>4. Cardinality(Below(x)) < Cardinality(Below(y)) \/ Cardinality(Below(y)) < Cardinality(Below(x))
    BY <1>3, <2>3
  <2>. QED
    BY <1>1, <2>1, <2>2, <2>4
<1> HIDE DEF Below
<1>6. \A k \in 0 .. n - 1 : \E x \in S : Cardinality(Below(x)) = k
  <2> DEFINE T == 0 .. n - 1
             f == [x \in S |-> Cardinality(Below(x))]
  <2>1. f \in [S -> T] /\ \A x, y \in S : f[x] = f[y] => x = y
    BY <1>2, <1>5
  <2>2. IsFiniteSet(T) /\ Cardinality(T) = n
    BY <1>1, FS_Interval
  <2>3. \A x \in S : f[x] = Cardinality(Below(x))
    OBVIOUS
  <2>. HIDE DEF f, T
  <2>4. f \in Injection(S, T)
    BY <2>1 DEF Injection, IsInjective
  <2>5. f \in Surjection(S, T)
    BY <2>2, <2>4, FS_Injection
  <2>6. \A k \in T : \E x \in S : f[x] = k
    BY <2>5 DEF Surjection
  <2>. QED
    BY <2>3, <2>6 DEF T
<1>. QED
  BY <1>2, <1>4, <1>5, <1>6

\* Ranking a finite set in a strict total order lists its members, each once.
LEMMA RankedMembers ==
    ASSUME NEW S, IsFiniteSet(S), NEW before, Orders(before, S)
    PROVE  /\ Ranked(S, before) \in Seq(S)
           /\ Len(Ranked(S, before)) = Cardinality(S)
           /\ ToSet(Ranked(S, before)) = S
           /\ IsInjective(Ranked(S, before))
<1> DEFINE n == Cardinality(S)
           f == [i \in 1 .. n |-> CHOOSE x \in S : Rank(x, S, before) = i - 1]
<1>1. n \in Nat
  BY FS_CardinalityType
<1>2. Ranked(S, before) = f
  BY DEF Ranked, Rank
<1>3. /\ \A x \in S : Rank(x, S, before) \in 0 .. n - 1
      /\ \A x, y \in S : Rank(x, S, before) = Rank(y, S, before) => x = y
      /\ \A k \in 0 .. n - 1 : \E x \in S : Rank(x, S, before) = k
  BY RanksAreOneToOne
<1>4. \A i \in 1 .. n : f[i] \in S /\ Rank(f[i], S, before) = i - 1
  BY <1>1, <1>3
<1>5. DOMAIN f = 1 .. n
  OBVIOUS
<1>6. ASSUME NEW x \in S PROVE \E i \in 1 .. n : f[i] = x
  <2>1. Rank(x, S, before) + 1 \in 1 .. n /\ (Rank(x, S, before) + 1) - 1 = Rank(x, S, before)
    BY <1>1, <1>3
  <2>. QED
    BY <1>3, <1>4, <2>1
<1>7. f \in [1 .. n -> S]
  BY <1>4
<1>. HIDE DEF f
<1>8. f \in Seq(S) /\ Len(f) = n
  BY <1>1, <1>7
<1>9. ToSet(f) = S
  BY <1>4, <1>5, <1>6 DEF ToSet
<1>10. IsInjective(f)
  <2>1. SUFFICES ASSUME NEW i \in 1 .. n, NEW j \in 1 .. n, f[i] = f[j] PROVE i = j
    BY <1>5 DEF IsInjective
  <2>2. i - 1 = j - 1
    BY <1>4, <2>1
  <2>. QED
    BY <1>1, <2>2
<1>. QED
  BY <1>2, <1>8, <1>9, <1>10

\* What a LIMIT leaves of a list.
LEMMA FirstMembers ==
    ASSUME NEW T, NEW s \in Seq(T), NEW n \in Nat \ {0}
    PROVE  /\ First(n, s) \in Seq(T)
           /\ ToSet(First(n, s)) \subseteq ToSet(s)
           /\ s # <<>> => ToSet(First(n, s)) # {}
           /\ Len(s) <= n => ToSet(First(n, s)) = ToSet(s)
           /\ IsInjective(s) => IsInjective(First(n, s))
<1> DEFINE m == Least(n, Len(s))
<1>1. m \in Nat /\ m <= Len(s) /\ (s # <<>> => 1 <= m) /\ (Len(s) <= n => m = Len(s))
  BY DEF Least
<1>2. First(n, s) = SubSeq(s, 1, m)
  BY DEF First
<1> HIDE DEF m
<1>3. /\ SubSeq(s, 1, m) \in Seq(T) /\ DOMAIN SubSeq(s, 1, m) = 1 .. m
      /\ \A i \in 1 .. m : SubSeq(s, 1, m)[i] = s[i]
  BY <1>1
<1>4. DOMAIN s = 1 .. Len(s)
  OBVIOUS
<1>5. ToSet(SubSeq(s, 1, m)) = {s[i] : i \in 1 .. m} /\ ToSet(s) = {s[i] : i \in 1 .. Len(s)}
  BY <1>3, <1>4 DEF ToSet
<1>6. 1 .. m \subseteq 1 .. Len(s) /\ (s # <<>> => 1 \in 1 .. m)
  BY <1>1
<1>7. /\ {s[i] : i \in 1 .. m} \subseteq {s[i] : i \in 1 .. Len(s)}
      /\ s # <<>> => {s[i] : i \in 1 .. m} # {}
  BY <1>6
<1>8. Len(s) <= n => {s[i] : i \in 1 .. m} = {s[i] : i \in 1 .. Len(s)}
  BY <1>1
<1>9. IsInjective(s) => IsInjective(SubSeq(s, 1, m))
  BY <1>3, <1>4, <1>6 DEF IsInjective
<1>. QED
  BY <1>2, <1>3, <1>5, <1>7, <1>8, <1>9

\* Rows that have times of their own.
Timed(S, time) == /\ \A x \in S : time[x] \in Nat
                  /\ \A x, y \in S : time[x] = time[y] => x = y

\* So does ORDER BY a time that no two rows share.
LEMMA ByTimeMembers ==
    ASSUME NEW S, IsFiniteSet(S), NEW time, Timed(S, time)
    PROVE  /\ ByTime(S, time) \in Seq(S)
           /\ Len(ByTime(S, time)) = Cardinality(S)
           /\ ToSet(ByTime(S, time)) = S
<1> DEFINE before == {p \in S \X S : time[p[1]] < time[p[2]]}
<1>1. Orders(before, S)
  BY DEF Orders, Timed
<1>2. ByTime(S, time) = Ranked(S, before)
  BY DEF ByTime
<1>. HIDE DEF before
<1>. QED
  BY <1>1, <1>2, RankedMembers

\* LIMIT keeps what is there, something if there is anything, and everything if there is
\* no more than that.
LEMMA NoneFirst ==
    ASSUME NEW S, IsFiniteSet(S), NEW s \in Seq(S), ToSet(s) = S, Len(s) = Cardinality(S),
           NEW n \in Nat \ {0}
    PROVE  /\ First(n, s) \in Seq(S)
           /\ ToSet(First(n, s)) \subseteq S
           /\ S # {} => ToSet(First(n, s)) # {}
           /\ Cardinality(S) <= n => ToSet(First(n, s)) = S
<1>1. s = <<>> => ToSet(s) = {}
  BY DEF ToSet
<1>. QED
  BY <1>1, FirstMembers

\* The same of ORDER BY with LIMIT.
LEMMA OldestMembers ==
    ASSUME NEW S, IsFiniteSet(S), NEW time, Timed(S, time), NEW n \in Nat \ {0}
    PROVE  /\ Oldest(n, S, time) \subseteq S
           /\ S # {} => Oldest(n, S, time) # {}
           /\ Cardinality(S) <= n => Oldest(n, S, time) = S
BY ByTimeMembers, NoneFirst DEF Oldest

-----------------------------------------------------------------------------
\* The members of a list are its head and the members of its tail.
LEMMA Elements ==
    ASSUME NEW T, NEW s \in Seq(T)
    PROVE  /\ ToSet(s) \subseteq T
           /\ s = <<>> <=> ToSet(s) = {}
           /\ s # <<>> => /\ Head(s) \in T /\ Head(s) \in ToSet(s) /\ Tail(s) \in Seq(T)
                          /\ ToSet(s) = {Head(s)} \cup ToSet(Tail(s))
<1>1. DOMAIN s = 1 .. Len(s) /\ Len(s) \in Nat
  OBVIOUS
<1>2. ToSet(s) \subseteq T
  BY DEF ToSet
<1>3. s = <<>> <=> ToSet(s) = {}
  <2>1. s = <<>> <=> DOMAIN s = {}
    BY <1>1, EmptySeq
  <2>. QED
    BY <2>1 DEF ToSet
<1>4. ASSUME s # <<>>
      PROVE  /\ Head(s) \in T /\ Head(s) \in ToSet(s) /\ Tail(s) \in Seq(T)
             /\ ToSet(s) = {Head(s)} \cup ToSet(Tail(s))
  <2> DEFINE t == Tail(s)
  <2>1. /\ Head(s) = s[1] /\ 1 \in DOMAIN s /\ t \in Seq(T) /\ Len(t) = Len(s) - 1
        /\ DOMAIN t = 1 .. Len(t)
        /\ \A i \in 1 .. Len(t) : t[i] = s[i + 1]
    BY <1>4
  <2>. HIDE DEF t
  <2>2. ToSet(t) \subseteq ToSet(s)
    BY <1>1, <2>1 DEF ToSet
  <2>3. \A i \in DOMAIN s : i = 1 \/ (i - 1 \in DOMAIN t /\ t[i - 1] = s[i])
    BY <1>1, <2>1
  <2>4. ToSet(s) \subseteq {Head(s)} \cup ToSet(t)
    BY <2>1, <2>3 DEF ToSet
  <2>. QED
    BY <2>1, <2>2, <2>4 DEF ToSet, t
<1>. QED
  BY <1>2, <1>3, <1>4

\* A list without repetitions does not name its head again.
LEMMA OnceEach ==
    ASSUME NEW T, NEW s \in Seq(T), s # <<>>, IsInjective(s)
    PROVE  IsInjective(Tail(s)) /\ Head(s) \notin ToSet(Tail(s))
<1> DEFINE t == Tail(s)
<1>1. /\ Head(s) = s[1] /\ DOMAIN s = 1 .. Len(s) /\ Len(s) \in Nat /\ Len(s) >= 1
      /\ DOMAIN t = 1 .. Len(s) - 1 /\ \A i \in 1 .. Len(s) - 1 : t[i] = s[i + 1]
  OBVIOUS
<1>. HIDE DEF t
<1>2. \A i \in DOMAIN t : i + 1 \in DOMAIN s /\ i + 1 # 1 /\ t[i] = s[i + 1]
  BY <1>1
<1>3. Head(s) \notin ToSet(t)
  BY <1>1, <1>2 DEF IsInjective, ToSet
<1>4. \A i, j \in DOMAIN t : t[i] = t[j] => i + 1 = j + 1
  BY <1>2 DEF IsInjective
<1>5. IsInjective(t)
  BY <1>1, <1>4 DEF IsInjective
<1>. QED
  BY <1>3, <1>5 DEF t

\* Appending adds one member.
LEMMA Appended ==
    ASSUME NEW T, NEW s \in Seq(T), NEW x \in T
    PROVE  Append(s, x) \in Seq(T) /\ ToSet(Append(s, x)) = ToSet(s) \cup {x}
<1> DEFINE t == Append(s, x)
<1>1. /\ t \in Seq(T) /\ Len(t) = Len(s) + 1 /\ DOMAIN t = 1 .. Len(t)
      /\ DOMAIN s = 1 .. Len(s) /\ Len(s) \in Nat
      /\ t[Len(s) + 1] = x /\ \A i \in 1 .. Len(s) : t[i] = s[i]
  OBVIOUS
<1>. HIDE DEF t
<1>2. ToSet(s) \cup {x} \subseteq ToSet(t)
  BY <1>1 DEF ToSet
<1>3. \A i \in DOMAIN t : i \in DOMAIN s \/ i = Len(s) + 1
  BY <1>1
<1>4. ToSet(t) \subseteq ToSet(s) \cup {x}
  BY <1>1, <1>3 DEF ToSet
<1>. QED
  BY <1>1, <1>2, <1>4 DEF t

\* Concatenating adds the members of the other list.
LEMMA Concatenated ==
    ASSUME NEW T, NEW s \in Seq(T), NEW u \in Seq(T)
    PROVE  s \o u \in Seq(T) /\ ToSet(s \o u) = ToSet(s) \cup ToSet(u)
<1> DEFINE t == s \o u
<1>1. /\ t \in Seq(T) /\ Len(t) = Len(s) + Len(u) /\ DOMAIN t = 1 .. Len(t)
      /\ DOMAIN s = 1 .. Len(s) /\ Len(s) \in Nat /\ DOMAIN u = 1 .. Len(u) /\ Len(u) \in Nat
      /\ \A i \in 1 .. Len(t) : t[i] = IF i <= Len(s) THEN s[i] ELSE u[i - Len(s)]
  OBVIOUS
<1>. HIDE DEF t
<1>2. \A i \in DOMAIN s : i \in DOMAIN t /\ t[i] = s[i]
  BY <1>1
<1>3. \A i \in DOMAIN u : i + Len(s) \in DOMAIN t /\ t[i + Len(s)] = u[i]
  BY <1>1
<1>4. \A i \in DOMAIN t : \/ i \in DOMAIN s /\ t[i] = s[i]
                          \/ i - Len(s) \in DOMAIN u /\ t[i] = u[i - Len(s)]
  BY <1>1
<1>5. ToSet(s) \cup ToSet(u) \subseteq ToSet(t)
  BY <1>2, <1>3 DEF ToSet
<1>6. ToSet(t) \subseteq ToSet(s) \cup ToSet(u)
  BY <1>4 DEF ToSet
<1>. QED
  BY <1>1, <1>5, <1>6 DEF t

\* Rows and their ids.
IdsOf(rows) == {c.id : c \in ToSet(rows)}

\* The ids of a list of rows are those of its members.
LEMMA IdsAreIds ==
    ASSUME NEW T, NEW rows \in Seq(T), NEW N, \A c \in ToSet(rows) : c.id \in N
    PROVE  Ids(rows) \in Seq(N) /\ ToSet(Ids(rows)) = IdsOf(rows)
<1>1. DOMAIN rows = 1 .. Len(rows) /\ Len(rows) \in Nat
  OBVIOUS
<1>2. \A i \in DOMAIN rows : rows[i] \in ToSet(rows)
  BY DEF ToSet
<1>3. DOMAIN Ids(rows) = DOMAIN rows /\ \A i \in DOMAIN rows : Ids(rows)[i] = rows[i].id
  BY DEF Ids
<1>4. Ids(rows) = [i \in 1 .. Len(rows) |-> rows[i].id] /\ \A i \in 1 .. Len(rows) : rows[i].id \in N
  BY <1>1, <1>2 DEF Ids
<1>5. Ids(rows) \in Seq(N)
  BY <1>1, <1>4
<1>. QED
  BY <1>3, <1>5 DEF ToSet, IdsOf

-----------------------------------------------------------------------------
\* The engine.
\* y is percent p of x, rounded down.
IsPercent(x, p, y) == y \in Nat /\ 100 * y <= x * p /\ x * p < 100 * y + 100

\* Scaling by a percentage rounds down.
LEMMA Scaling ==
    ASSUME NEW x \in Nat, NEW p \in Nat
    PROVE  IsPercent(x, p, Scale(x, p))
<1> DEFINE y == x * p
<1>1. y \in Nat
  OBVIOUS
<1>2. Scale(x, p) = y \div 100
  BY DEF Scale
<1>. HIDE DEF y
<1>3. y \div 100 \in Nat /\ 100 * (y \div 100) <= y /\ y < 100 * (y \div 100) + 100
  BY <1>1
<1>. QED
  BY <1>2, <1>3 DEF y, IsPercent

\* How often the query's tokens are found is at most how many there are.
LEMMA TokensCounted ==
    ASSUME IsRequest(request), NEW c
    PROVE  LET tokens == QueryTokens(request)
               hits == Cardinality(tokens \cap c.tokens)
           IN /\ IsFiniteSet(tokens) /\ Cardinality(tokens) \in Nat /\ hits \in Nat
              /\ hits <= Cardinality(tokens)
              /\ Cardinality(tokens) <= Len(request.tokens)
              /\ tokens # {} => Cardinality(tokens) > 0
<1> DEFINE s == request.tokens
           tokens == QueryTokens(request)
<1>1. s \in Seq(Token) /\ Len(s) \in Nat /\ DOMAIN s = 1 .. Len(s)
  BY DEF IsRequest
<1>2. tokens = ToSet(s)
  BY DEF QueryTokens
<1>. HIDE DEF s, tokens
<1>3. s \in Surjection(1 .. Len(s), ToSet(s))
  BY <1>1 DEF Surjection, ToSet
<1>4. IsFiniteSet(1 .. Len(s)) /\ Cardinality(1 .. Len(s)) = Len(s)
  BY <1>1, FS_Interval
<1>5. IsFiniteSet(tokens) /\ Cardinality(tokens) <= Len(s)
  BY <1>2, <1>3, <1>4, FS_Surjection
<1>6. /\ IsFiniteSet(tokens \cap c.tokens)
      /\ Cardinality(tokens \cap c.tokens) <= Cardinality(tokens)
  BY <1>5, FS_Intersection
<1>7. Cardinality(tokens) \in Nat /\ Cardinality(tokens \cap c.tokens) \in Nat
  BY <1>5, <1>6, FS_CardinalityType
<1>8. tokens # {} => Cardinality(tokens) # 0
  BY <1>5, FS_EmptySet
<1>. QED
  BY <1>5, <1>6, <1>7, <1>8 DEF s, tokens

\* A share of k of them.
LEMMA Quotient ==
    ASSUME NEW k \in Nat, NEW h \in Nat, NEW n \in Nat, n > 0, h <= n
    PROVE  (k * h) \div n \in Nat /\ (k * h) \div n <= k
<1> DEFINE m == k * h
           q == m \div n
<1>1. m \in Nat
  OBVIOUS
<1>2. m <= k * n
  <2>1. n = h + (n - h) /\ n - h \in Nat
    OBVIOUS
  <2>2. k * n = k * h + k * (n - h) /\ k * (n - h) \in Nat
    BY <2>1
  <2>. QED
    BY <2>2
<1>. HIDE DEF m
<1>3. q \in Int /\ n * q <= m /\ m < n * q + n
  BY <1>1
<1>. HIDE DEF q
<1>4. q >= 0
  <2>1. SUFFICES ASSUME q + 1 <= 0 PROVE FALSE
    BY <1>3
  <2>2. n * (q + 1) <= 0
    BY <1>3, <2>1
  <2>. QED
    BY <1>1, <1>3, <2>2
<1>5. q <= k
  <2>1. SUFFICES ASSUME k + 1 <= q PROVE FALSE
    BY <1>3
  <2>2. n * (k + 1) <= n * q
    BY <1>3, <2>1
  <2>3. n * (k + 1) = k * n + n /\ k * n \in Nat /\ n * q \in Int
    BY <1>3
  <2> DEFINE kn == k * n
             nq == n * q
  <2>4. kn + n <= nq /\ nq <= m /\ m <= kn /\ kn \in Nat /\ nq \in Int
    BY <1>2, <1>3, <2>2, <2>3
  <2>. HIDE DEF kn, nq
  <2>. QED
    BY <1>1, <2>4
<1>. QED
  BY <1>3, <1>4, <1>5 DEF m, q

\* A match with the query is nothing, or at least a half and at most the whole.
LEMMA Semantic ==
    ASSUME IsRequest(request), NEW c, c.phrase \in BOOLEAN
    PROVE  /\ SemanticMatch(c, request) \in Nat /\ SemanticMatch(c, request) <= One
           /\ SemanticMatch(c, request) > 0 => SemanticMatch(c, request) >= 500000
<1> DEFINE tokens == QueryTokens(request)
           n == Cardinality(tokens)
           hits == Cardinality(tokens \cap c.tokens)
           share == (400000 * hits) \div n
<1>1. n \in Nat /\ hits \in Nat /\ hits <= n /\ (tokens # {} => n > 0)
  BY TokensCounted
<1>2. n > 0 => share \in Nat /\ share <= 400000
  BY <1>1, Quotient
<1>3. request.blank \in BOOLEAN /\ request.wild \in BOOLEAN
  BY DEF IsRequest
<1>4. SemanticMatch(c, request) \in {0, One, 500000 + share}
      /\ (SemanticMatch(c, request) = 500000 + share => tokens # {} \/ SemanticMatch(c, request) \in {0, One})
  BY <1>3 DEF SemanticMatch
<1>. HIDE DEF share, n, hits, tokens
<1>. QED
  BY <1>1, <1>2, <1>4 DEF One


\* What horizon, perspective and confidence make of x, and what w then is: between
\* 80 and 95 percent of u / 10000 of x.
Weighed(x, h, p, q) == Scale(Scale(Scale(x, h), p), q)

IsWeighed(w, u, x) == /\ w \in Nat /\ u \in Nat /\ u >= 8550
                      /\ 1000000 * w <= 95 * (u * x)
                      /\ 80 * (u * x) <= 1000000 * w + 3000000

\* Three scalings in turn lose little to rounding.
LEMMA Weighing ==
    ASSUME NEW x \in Nat, NEW h \in {90, 100}, NEW p \in {95, 100, 110, 115}, NEW q \in {80, 95}
    PROVE  IsWeighed(Weighed(x, h, p, q), h * p, x)
<1> DEFINE x1 == Scale(x, h)
           x2 == Scale(x1, p)
           x3 == Scale(x2, q)
<1>0. h \in Nat /\ p \in Nat /\ q \in Nat
  OBVIOUS
<1>1. IsPercent(x, h, x1)
  BY <1>0, Scaling
<1>. HIDE DEF x1
<1>a. x1 \in Nat
  BY <1>1 DEF IsPercent
<1>2. IsPercent(x1, p, x2)
  BY <1>0, <1>a, Scaling
<1>. HIDE DEF x2
<1>b. x2 \in Nat
  BY <1>2 DEF IsPercent
<1>3. IsPercent(x2, q, x3)
  BY <1>0, <1>b, Scaling
<1>. HIDE DEF x3
<1>4. Weighed(x, h, p, q) = x3
  BY DEF Weighed, x1, x2, x3
<1>5. /\ 10000 * x2 <= (x * h) * p /\ (x * h) * p < 10000 * x2 + 100 * p + 10000
  BY <1>1, <1>2 DEF IsPercent
<1>6. (x * h) * p = (h * p) * x /\ h * p \in Nat /\ h * p >= 8550
  OBVIOUS
<1> DEFINE y == (h * p) * x
<1>7. y \in Nat /\ 10000 * x2 <= y /\ y < 10000 * x2 + 100 * p + 10000
  BY <1>5, <1>6
<1>. HIDE DEF y
<1>8. 1000000 * x3 <= 95 * y /\ 80 * y <= 1000000 * x3 + 3000000
  BY <1>2, <1>3, <1>7 DEF IsPercent
<1>. QED
  BY <1>3, <1>4, <1>6, <1>8 DEF y, IsPercent, IsWeighed


\* A deferred continuation presses at most 7/20 of an active one of its type.
LEMMA Pressing ==
    ASSUME NEW c \in Continuation
    PROVE  LET k == Pressure(c) \div 1000
               b == BasePressure[c.type] \div 1000
           IN /\ k \in Nat /\ b \in Nat /\ b >= 400
              /\ c.status = "active" => k = b
              /\ c.status = "deferred" => 20 * k <= 7 * b /\ k >= 140
<1>1. c.type \in ContinuationType /\ c.status \in ContinuationStatus
  BY DEF Continuation
<1> DEFINE y == BasePressure[c.type]
           s == StatusPercent[c.status]
<1>2. y \in {950000, 900000, 750000, 650000, 600000, 550000, 400000}
  BY <1>1 DEF ContinuationType, BasePressure
<1>3. /\ s \in {0, 35, 60, 100}
      /\ c.status = "active" => s = 100
      /\ c.status = "deferred" => s = 35
  BY <1>1 DEF ContinuationStatus, StatusPercent
<1>4. Pressure(c) = (y * s) \div 100
  BY DEF Pressure, Scale
<1>. HIDE DEF y, s
<1>5. /\ y \div 1000 \in Nat /\ y \div 1000 >= 400
      /\ ((y * s) \div 100) \div 1000 \in Nat
      /\ s = 100 => ((y * s) \div 100) \div 1000 = y \div 1000
      /\ s = 35 => /\ 20 * (((y * s) \div 100) \div 1000) <= 7 * (y \div 1000)
                   /\ ((y * s) \div 100) \div 1000 >= 140
  BY <1>2, <1>3
<1>. QED
  BY <1>3, <1>4, <1>5 DEF y

\* The percentages that an activation is scaled by.
LEMMA Percentages ==
    ASSUME IsRequest(request), NEW c \in Continuation
    PROVE  /\ HorizonPercent(request) \in {90, 100}
           /\ PerspectivePercent(c, request) \in {95, 100, 110, 115}
           /\ ConfidencePercent(c) \in {80, 95}
<1>1. request.perspective \in BOOLEAN
  BY DEF IsRequest
<1>. QED
  BY <1>1 DEF HorizonPercent, PerspectivePercent, ConfidencePercent

\* How an activation comes about: m tells how well the query and the index match c,
\* w is the part that is weighed, and where both match up to a twentieth is added.
Explained(a, c, strength) ==
  LET semantic == SemanticMatch(c, request)
      k == Pressure(c) \div 1000
      u == HorizonPercent(request) * PerspectivePercent(c, request)
  IN \E m \in Nat, w \in Nat :
       /\ m <= 1000
       /\ semantic > 0 => m >= 500
       /\ semantic > 0 \/ strength > 0 => m >= 350
       /\ IsWeighed(w, u, m * k)
       /\ w <= a /\ a \in Nat /\ 20 * a <= 21 * w

\* An activation is explained by the better of its two matches, by the pressure of its
\* continuation and by those percentages.
LEMMA Activating ==
    ASSUME IsRequest(request), NEW c \in Continuation, NEW strength \in 0 .. 100
    PROVE  Explained(Activation(c, request, strength), c, strength)
<1> DEFINE semantic == SemanticMatch(c, request)
           v == VectorMatch(strength)
           match == IF semantic >= v THEN semantic ELSE v
           m == match \div 1000
           k == Pressure(c) \div 1000
           w == Weighed(m * k, HorizonPercent(request), PerspectivePercent(c, request),
                        ConfidencePercent(c))
           both == IF semantic > 0 /\ v > 0 THEN strength ELSE 0
           u == HorizonPercent(request) * PerspectivePercent(c, request)
<1>1. /\ semantic \in Nat /\ semantic <= One
      /\ semantic > 0 => semantic >= 500000
  BY Semantic DEF Continuation
<1>2. v \in Nat /\ v <= 450000 /\ (strength > 0 => v >= 350000)
  BY DEF VectorMatch
<1>3. k \in Nat
  BY Pressing
<1>4. Activation(c, request, strength) = w + (w * 5 * both) \div 10000
  BY DEF Activation, Weighed
<1>. HIDE DEF semantic, v, k
<1>5. /\ m \in Nat /\ m <= 1000 /\ (semantic > 0 => m >= 500)
      /\ semantic > 0 \/ strength > 0 => m >= 350
  BY <1>1, <1>2 DEF One
<1>. HIDE DEF m
<1>6. m * k \in Nat
  BY <1>3, <1>5
<1>7. IsWeighed(w, u, m * k)
  BY <1>6, Weighing, Percentages
<1>a. w \in Nat
  BY <1>7 DEF IsWeighed
<1>8. both \in Nat /\ both <= 100
  OBVIOUS
<1>. HIDE DEF w, both, u
<1> DEFINE extra == (w * 5 * both) \div 10000
<1>9. extra \in Nat /\ 20 * extra <= w
  <2> DEFINE y == w * 5 * both
  <2>1. y \in Nat /\ y <= w * 500
    BY <1>a, <1>8
  <2>. HIDE DEF y
  <2>2. y \div 10000 \in Nat /\ 10000 * (y \div 10000) <= y
    BY <2>1
  <2>3. 20 * (y \div 10000) <= w
    BY <1>a, <2>1, <2>2
  <2>. QED
    BY <2>2, <2>3 DEF y
<1>. HIDE DEF extra
<1>10. Activation(c, request, strength) = w + extra
  BY <1>4 DEF extra
<1>. QED
  BY <1>5, <1>7, <1>a, <1>9, <1>10 DEF u, k, semantic, Explained

\* What is living and matched, by its text or by the index, presses.
LEMMA Pressed ==
    ASSUME IsRequest(request), NEW c \in Continuation, NEW strength \in 0 .. 100,
           Living(c.status), SemanticMatch(c, request) > 0 \/ strength > 0
    PROVE  Activation(c, request, strength) > 0
<1> DEFINE a == Activation(c, request, strength)
           k == Pressure(c) \div 1000
           u == HorizonPercent(request) * PerspectivePercent(c, request)
<1>1. PICK m \in Nat, w \in Nat :
        m >= 350 /\ IsWeighed(w, u, m * k) /\ w <= a /\ a \in Nat
  <2>1. Explained(a, c, strength)
    BY Activating
  <2>. HIDE DEF a
  <2>. QED
    BY <2>1 DEF Explained
<1>2. k \in Nat /\ k >= 140
  BY Pressing DEF Living
<1>. HIDE DEF a, k, u
<1> DEFINE y == m * k
<1>3. y \in Nat /\ y >= 49000
  BY <1>1, <1>2
<1>4. IsWeighed(w, u, y)
  BY <1>1
<1>. HIDE DEF y
<1>5. u \in Nat /\ u >= 8550 /\ 80 * (u * y) <= 1000000 * w + 3000000
  BY <1>4 DEF IsWeighed
<1>6. u * y \in Nat /\ u * y >= 49000
  BY <1>3, <1>5
<1>7. w > 0
  <2> DEFINE z == u * y
  <2>1. z \in Nat /\ z >= 49000 /\ 80 * z <= 1000000 * w + 3000000
    BY <1>5, <1>6
  <2>. HIDE DEF z
  <2>. QED
    BY <1>1, <2>1
<1>. QED
  BY <1>1, <1>7 DEF a

\* The query in the text of both, a deferred one presses less than an active one of
\* its type: 1.05 of 95 percent of 1 times 7/20 is less than 80 percent of 1/2.
LEMMA DeferredPressesLess ==
    ASSUME IsRequest(request), NEW c \in Continuation, NEW d \in Continuation,
           NEW s \in 0 .. 100, NEW t \in 0 .. 100,
           c.type = d.type, c.status = "deferred", d.status = "active",
           SemanticMatch(c, request) > 0, SemanticMatch(d, request) > 0
    PROVE  /\ Activation(c, request, s) \in Nat /\ Activation(d, request, t) \in Nat
           /\ Activation(c, request, s) < Activation(d, request, t)
<1> DEFINE ac == Activation(c, request, s)
           ad == Activation(d, request, t)
           kc == Pressure(c) \div 1000
           kd == Pressure(d) \div 1000
           u == HorizonPercent(request) * PerspectivePercent(c, request)
<1>1. PICK mc \in Nat, wc \in Nat :
        mc <= 1000 /\ IsWeighed(wc, u, mc * kc) /\ ac \in Nat /\ 20 * ac <= 21 * wc
  <2>1. Explained(ac, c, s)
    BY Activating
  <2>. HIDE DEF ac
  <2>. QED
    BY <2>1 DEF Explained
<1>2. u = HorizonPercent(request) * PerspectivePercent(d, request)
  BY DEF PerspectivePercent
<1>3. PICK md \in Nat, wd \in Nat :
        md >= 500 /\ IsWeighed(wd, u, md * kd) /\ ad \in Nat /\ wd <= ad
  <2>1. Explained(ad, d, t)
    BY Activating
  <2>. HIDE DEF ad
  <2>. QED
    BY <1>2, <2>1 DEF Explained
<1>4. kc \in Nat /\ kd \in Nat /\ kd >= 400 /\ 20 * kc <= 7 * kd
  BY Pressing
<1>. HIDE DEF ac, ad, kc, kd, u
<1>5. u \in Nat /\ u >= 8550 /\ 1000000 * wc <= 95 * (u * (mc * kc))
      /\ 80 * (u * (md * kd)) <= 1000000 * wd + 3000000
  BY <1>1, <1>3 DEF IsWeighed
<1> DEFINE x == u * kc
           y == u * kd
<1>6. x \in Nat /\ y \in Nat /\ y >= 400 * 8550
  BY <1>4, <1>5
<1>7. 20 * x <= 7 * y
  <2>1. 7 * kd - 20 * kc \in Nat
    BY <1>4
  <2>2. u * (7 * kd - 20 * kc) >= 0
    BY <1>5, <2>1
  <2>. QED
    BY <1>4, <1>5, <2>2
<1>8. u * (mc * kc) = mc * x /\ u * (md * kd) = md * y
  BY <1>1, <1>3, <1>4, <1>5
<1>. HIDE DEF x, y
<1>9. mc * x \in Nat /\ md * y \in Nat /\ mc * x <= 1000 * x /\ md * y >= 500 * y
  BY <1>1, <1>3, <1>6
<1> DEFINE xx == mc * x
           yy == md * y
<1>10. xx \in Nat /\ yy \in Nat /\ xx <= 1000 * x /\ yy >= 500 * y
       /\ 1000000 * wc <= 95 * xx /\ 80 * yy <= 1000000 * wd + 3000000
  BY <1>5, <1>8, <1>9
<1>. HIDE DEF xx, yy
<1>11. ac < ad
  BY <1>1, <1>3, <1>6, <1>7, <1>10
<1>. QED
  BY <1>1, <1>3, <1>11 DEF ac, ad

\* An activation no edge touches.
LEMMA NoRelations ==
    ASSUME NEW x, NEW id, NEW es, \A e \in es : id \notin {e.from, e.to}
    PROVE  ScaledByRelations(x, id, es) = x
<1>1. {e \in es : id \in {e.from, e.to}} = {}
  OBVIOUS
<1>. QED
  BY <1>1 DEF ScaledByRelations, FoldSet, MapThenFoldSet

\* A rule's weight is 100 percent and more.
LEMMA RuleScaling ==
    ASSUME NEW x \in Nat, NEW p \in {"needs_review", "path_choice", "risk_marker", "timing_attention"}
    PROVE  Scale(x, RulePercent[p]) \in Nat /\ Scale(x, RulePercent[p]) >= x
<1> DEFINE q == RulePercent[p]
           y == Scale(x, q)
<1>1. q \in Nat /\ q >= 100
  BY DEF RulePercent
<1>. HIDE DEF q
<1>2. IsPercent(x, q, y)
  BY <1>1, Scaling
<1>. HIDE DEF y
<1>3. x * q >= 100 * x
  BY <1>1
<1>4. y \in Nat /\ x * q < 100 * y + 100 /\ x * q \in Nat
  BY <1>1, <1>2 DEF IsPercent
<1> DEFINE z == x * q
<1>5. z \in Nat /\ z >= 100 * x /\ z < 100 * y + 100
  BY <1>3, <1>4
<1>. HIDE DEF z
<1>6. y >= x
  BY <1>4, <1>5
<1>. QED
  BY <1>4, <1>6 DEF y, q

\* Rules never lower an activation, and leave that of an id alone they say nothing of.
LEMMA RulesRaise ==
    ASSUME NEW x \in Nat, NEW id, NEW facts
    PROVE  /\ ScaledByRules(x, id, facts) \in Nat
           /\ ScaledByRules(x, id, facts) >= x
           /\ (\A f \in facts : f.id # id) => ScaledByRules(x, id, facts) = x
<1> DEFINE By(y, p) == IF [predicate |-> p, id |-> id] \in facts
                       THEN Scale(y, RulePercent[p]) ELSE y
           P == {"needs_review", "path_choice", "risk_marker", "timing_attention"}
           x1 == By(x, "needs_review")
           x2 == By(x1, "path_choice")
           x3 == By(x2, "risk_marker")
           x4 == By(x3, "timing_attention")
<1>1. ASSUME NEW y \in Nat, NEW p \in P
      PROVE  /\ By(y, p) \in Nat /\ By(y, p) >= y
             /\ (\A f \in facts : f.id # id) => By(y, p) = y
  BY RuleScaling
<1>2. ScaledByRules(x, id, facts) = x4
  BY DEF ScaledByRules
<1>. HIDE DEF By
<1>3. x1 \in Nat /\ x1 >= x /\ ((\A f \in facts : f.id # id) => x1 = x)
  BY <1>1
<1>. HIDE DEF x1
<1>4. x2 \in Nat /\ x2 >= x /\ ((\A f \in facts : f.id # id) => x2 = x)
  BY <1>1, <1>3
<1>. HIDE DEF x2
<1>5. x3 \in Nat /\ x3 >= x /\ ((\A f \in facts : f.id # id) => x3 = x)
  BY <1>1, <1>4
<1>. HIDE DEF x3
<1>6. x4 \in Nat /\ x4 >= x /\ ((\A f \in facts : f.id # id) => x4 = x)
  BY <1>1, <1>5
<1>. QED
  BY <1>2, <1>6

\* The engine's card: its continuations are ActiveOf, whatever card it is; and a
\* boundary between them makes it one that verifies and prefers no action.
LEMMA Generated ==
    ASSUME NEW given, NEW es, NEW facts, NEW influenced, NEW n
    PROVE  LET made == Generate(request, given, es, facts, influenced, n)
               active == ActiveOf(given, request, es, facts, influenced)
           IN /\ made.active = active
              /\ RelationBoundaries(active, es) # {} /\ active # {} =>
                   made.preferred = Nothing /\ made.stance = "verify"
BY DEF Generate, RawOrEmptyCard, CardOfFirst, Card

\* The least of two numbers is one of them.
LEMMA LeastIs ==
    ASSUME NEW m \in Nat, NEW n \in Nat
    PROVE  /\ Least(m, n) \in {m, n} /\ Least(m, n) <= m /\ Least(m, n) <= n
BY DEF Least

\* The query finds a row c, by the searches' own tests.
Finds(c) ==
  LET tokens == SearchedTokens(request)
  IN \/ c.phrase
     \/ tokens # <<>> /\ Cardinality(c.tokens \cap ToSet(tokens)) >= Least(Len(tokens), 2)

\* The tokens searched for are tokens of the query, one of them only if it has no more.
LEMMA Searched ==
    ASSUME IsRequest(request)
    PROVE  LET tokens == SearchedTokens(request)
           IN /\ tokens \in Seq(Token) /\ Len(tokens) \in Nat
              /\ ToSet(tokens) \subseteq QueryTokens(request)
              /\ tokens # <<>> => /\ ~request.wild /\ Len(tokens) >= 1
                                  /\ Len(tokens) = 1 => Len(request.tokens) = 1
<1> DEFINE s == request.tokens
           m == Least(TokenLimit, Len(s))
<1>1. s \in Seq(Token) /\ Len(s) \in Nat
  BY DEF IsRequest
<1>2. TokenLimit \in Nat /\ TokenLimit >= 2
  BY SearchAssumption
<1>. HIDE DEF s
<1>3. m \in Nat /\ m <= Len(s) /\ (m = 1 => Len(s) = 1)
  BY <1>1, <1>2 DEF Least
<1>. HIDE DEF m
<1>4. SubSeq(s, 1, m) \in Seq(Token) /\ Len(SubSeq(s, 1, m)) = m
  BY <1>1, <1>3
<1>5. ToSet(First(TokenLimit, s)) \subseteq ToSet(s)
  BY <1>1, <1>2, FirstMembers
<1>6. First(TokenLimit, s) = SubSeq(s, 1, m)
  BY DEF First, m
<1>7. <<>> \in Seq(Token) /\ ToSet(<<>>) = {} /\ Len(<<>>) = 0
  BY DEF ToSet
<1>8. SearchedTokens(request) = IF request.wild THEN <<>> ELSE First(TokenLimit, s)
  BY DEF SearchedTokens, s
<1>9. First(TokenLimit, s) # <<>> => m >= 1
  BY <1>3, <1>4, <1>6
<1>. QED
  BY <1>1, <1>3, <1>4, <1>5, <1>6, <1>7, <1>8, <1>9 DEF QueryTokens, s

\* What a search finds the engine finds.
LEMMA FoundMatches ==
    ASSUME IsRequest(request), ~request.blank, NEW c \in Continuation, Finds(c)
    PROVE  SemanticMatch(c, request) > 0
<1> DEFINE tokens == QueryTokens(request)
           n == Cardinality(tokens)
           hits == Cardinality(tokens \cap c.tokens)
           sought == SearchedTokens(request)
           share == (400000 * hits) \div n
<1>1. CASE c.phrase
  BY <1>1 DEF SemanticMatch, One
<1>2. CASE ~c.phrase
  <2>1. /\ sought # <<>> /\ Cardinality(c.tokens \cap ToSet(sought)) >= Least(Len(sought), 2)
        /\ Len(sought) \in Nat /\ ToSet(sought) \subseteq tokens
        /\ ~request.wild /\ Len(sought) >= 1 /\ (Len(sought) = 1 => Len(request.tokens) = 1)
        /\ sought \in Seq(Token)
    BY <1>2, Searched DEF Finds
  <2>2. /\ IsFiniteSet(tokens) /\ n \in Nat /\ hits \in Nat /\ hits <= n
        /\ n <= Len(request.tokens) /\ (tokens # {} => n > 0)
    BY TokensCounted
  <2>3. tokens # {}
    BY <2>1, Elements
  <2>. HIDE DEF tokens, sought
  <2>4. /\ IsFiniteSet(tokens \cap c.tokens) /\ c.tokens \cap ToSet(sought) \in SUBSET (tokens \cap c.tokens)
    BY <2>1, <2>2, FS_Intersection
  <2>5. /\ IsFiniteSet(c.tokens \cap ToSet(sought))
        /\ Cardinality(c.tokens \cap ToSet(sought)) <= hits
    BY <2>4, FS_Subset
  <2>6. Cardinality(c.tokens \cap ToSet(sought)) \in Nat
    BY <2>5, FS_CardinalityType
  <2>. HIDE DEF n, hits
  <2>7. ~ (hits < Least(n, 2))
    <3>1. Len(sought) = 1 => n <= 1
      BY <2>1, <2>2
    <3>a. Len(sought) \in Nat /\ Len(sought) >= 1
      BY <2>1
    <3>2. Least(n, 2) \in {n, 2} /\ Least(n, 2) <= n /\ Least(n, 2) <= 2
      BY <2>2, LeastIs
    <3>3. Least(Len(sought), 2) \in {Len(sought), 2} /\ Least(Len(sought), 2) <= Len(sought)
      BY <3>a, LeastIs
    <3>4. hits >= Least(Len(sought), 2)
      <4> DEFINE k == Cardinality(c.tokens \cap ToSet(sought))
                 l == Least(Len(sought), 2)
      <4>1. k >= l /\ k <= hits /\ k \in Nat /\ hits \in Nat /\ l \in Nat
        BY <2>1, <2>2, <2>5, <2>6, <3>a, <3>3
      <4>. HIDE DEF k, l
      <4>2. hits >= l
        BY <4>1
      <4>. QED
        BY <4>2 DEF l
    <3>. QED
      <4> DEFINE i == Len(sought)
                 l == Least(Len(sought), 2)
                 a == Least(n, 2)
      <4>1. i \in Nat /\ i >= 1 /\ (i = 1 => n <= 1) /\ l \in {i, 2} /\ hits >= l
        BY <3>a, <3>1, <3>3, <3>4
      <4>2. n \in Nat /\ hits \in Nat /\ a \in {n, 2} /\ a <= n /\ a <= 2
        BY <2>2, <3>2
      <4>. HIDE DEF a, i, l
      <4>3. ~ (hits < a)
        BY <4>1, <4>2
      <4>. QED
        BY <4>3 DEF a
  <2>8. share \in Nat
    BY <2>2, <2>3, Quotient
  <2>9. SemanticMatch(c, request) = 500000 + share
    BY <1>2, <2>1, <2>3, <2>7 DEF SemanticMatch, tokens, n, hits
  <2>. HIDE DEF share
  <2>. QED
    BY <2>8, <2>9
<1>. QED
  BY <1>1, <1>2 DEF Continuation

-----------------------------------------------------------------------------
\* The searches.

\* The rows of well-formed tables are finitely many, are under their ids, and have been
\* written at different times.
LEMMA TablesAre ==
    ASSUME NEW t, WellFormed(t)
    PROVE  /\ IsFiniteSet(DOMAIN t.row)
           /\ \A id \in DOMAIN t.row : t.row[id] \in Continuation /\ t.row[id].id = id
           /\ \A S \in SUBSET DOMAIN t.row : IsFiniteSet(S) /\ Timed(S, t.at)
BY FS_Subset DEF WellFormed, Timed

\* The rows of one token.
Holders(t, token, l) == {id \in Searchable(t, l) : token \in t.row[id].tokens}

\* A token query returns rows that hold the token and enough others, and below its limit
\* all of them.
LEMMA TokenRows ==
    ASSUME NEW t, WellFormed(t), NEW l \in BOOLEAN, NEW token, NEW tokens
    PROVE  LET made == TokenCandidates(t, token, tokens, l)
               holders == Holders(t, token, l)
           IN /\ made \subseteq {id \in holders : TokenHits(t, id, tokens) >= Least(Len(tokens), 2)}
              /\ Cardinality(holders) <= TokenCandidateLimit =>
                   made = {id \in holders : TokenHits(t, id, tokens) >= Least(Len(tokens), 2)}
<1> DEFINE holders == Holders(t, token, l)
<1>1. holders \in SUBSET DOMAIN t.row
  BY DEF Holders, Searchable
<1>2. IsFiniteSet(holders) /\ Timed(holders, t.at)
  BY <1>1, TablesAre
<1>3. TokenCandidates(t, token, tokens, l) =
        {id \in Oldest(TokenCandidateLimit, holders, t.at) :
           TokenHits(t, id, tokens) >= Least(Len(tokens), 2)}
  BY DEF TokenCandidates, Holders
<1>4. TokenCandidateLimit \in Nat \ {0}
  BY SearchAssumption
<1>. HIDE DEF holders
<1>5. /\ Oldest(TokenCandidateLimit, holders, t.at) \subseteq holders
      /\ Cardinality(holders) <= TokenCandidateLimit =>
           Oldest(TokenCandidateLimit, holders, t.at) = holders
  BY <1>2, <1>4, OldestMembers
<1>. QED
  BY <1>3, <1>5 DEF holders

\* The rows whose text has the query.
Phrased(t, l) == {id \in Searchable(t, l) : t.row[id].phrase}

\* The literal query returns rows with the query in them, something if there is one, and
\* below its limit all of them.
LEMMA LiteralRows ==
    ASSUME NEW t, WellFormed(t), NEW l \in BOOLEAN
    PROVE  /\ LiteralCandidates(t, l) \subseteq Phrased(t, l)
           /\ Phrased(t, l) # {} => LiteralCandidates(t, l) # {}
           /\ Cardinality(Phrased(t, l)) <= ResultLimit => LiteralCandidates(t, l) = Phrased(t, l)
<1>1. Phrased(t, l) \in SUBSET DOMAIN t.row
  BY DEF Phrased, Searchable
<1>2. IsFiniteSet(Phrased(t, l)) /\ Timed(Phrased(t, l), t.at)
  BY <1>1, TablesAre
<1>3. LiteralCandidates(t, l) = Oldest(ResultLimit, Phrased(t, l), t.at)
  BY DEF LiteralCandidates, Phrased
<1>4. ResultLimit \in Nat \ {0}
  BY SearchAssumption
<1>. QED
  BY <1>2, <1>3, <1>4, OldestMembers

\* What all queries of a search find.
Found(t, l) ==
  LiteralCandidates(t, l)
    \cup UNION {TokenCandidates(t, SearchedTokens(request)[i], SearchedTokens(request), l) :
                  i \in DOMAIN SearchedTokens(request)}

Matching(t, l) == {id \in Searchable(t, l) : Finds(t.row[id])}

\* The queries of a search together find only rows that match, and below their limits all.
LEMMA FoundRows ==
    ASSUME NEW t, WellFormed(t), NEW l \in BOOLEAN, IsRequest(request)
    PROVE  /\ Found(t, l) \subseteq Matching(t, l)
           /\ Phrased(t, l) # {} => Found(t, l) # {}
           /\ /\ Cardinality(Matching(t, l)) <= ResultLimit
              /\ \A token \in ToSet(SearchedTokens(request)) :
                   Cardinality(Holders(t, token, l)) <= TokenCandidateLimit
              => Found(t, l) = Matching(t, l)
<1> DEFINE tokens == SearchedTokens(request)
<1>1. tokens \in Seq(Token) /\ DOMAIN tokens = 1 .. Len(tokens) /\ Len(tokens) \in Nat
  BY Searched
<1>2. \A i \in DOMAIN tokens :
        TokenCandidates(t, tokens[i], tokens, l) \subseteq
          {id \in Holders(t, tokens[i], l) : TokenHits(t, id, tokens) >= Least(Len(tokens), 2)}
  BY TokenRows
<1>3. Matching(t, l) = {id \in Searchable(t, l) :
                          \/ t.row[id].phrase
                          \/ tokens # <<>> /\ TokenHits(t, id, tokens) >= Least(Len(tokens), 2)}
  BY DEF Matching, Finds, TokenHits
<1>4. Found(t, l) = LiteralCandidates(t, l)
                      \cup UNION {TokenCandidates(t, tokens[i], tokens, l) : i \in DOMAIN tokens}
  BY DEF Found
<1>5. \A i \in DOMAIN tokens : tokens # <<>>
  BY <1>1
<1>. HIDE DEF tokens
<1>6. Found(t, l) \subseteq Matching(t, l)
  <2>1. LiteralCandidates(t, l) \subseteq Matching(t, l)
    BY <1>3, LiteralRows DEF Phrased
  <2>2. \A i \in DOMAIN tokens : TokenCandidates(t, tokens[i], tokens, l) \subseteq Matching(t, l)
    BY <1>2, <1>3, <1>5 DEF Holders
  <2>. QED
    BY <1>4, <2>1, <2>2
<1>7. Phrased(t, l) # {} => Found(t, l) # {}
  BY <1>4, LiteralRows
<1>8. ASSUME Cardinality(Matching(t, l)) <= ResultLimit,
             \A token \in ToSet(tokens) : Cardinality(Holders(t, token, l)) <= TokenCandidateLimit,
             NEW id \in Matching(t, l)
      PROVE  id \in Found(t, l)
  <2>1. CASE t.row[id].phrase
    <3>1. Phrased(t, l) \in SUBSET Matching(t, l)
      BY <1>3 DEF Phrased
    <3>2. Matching(t, l) \in SUBSET DOMAIN t.row
      BY <1>3 DEF Searchable
    <3>3. IsFiniteSet(Matching(t, l))
      BY <3>2, TablesAre
    <3>4. Cardinality(Phrased(t, l)) <= Cardinality(Matching(t, l)) /\ IsFiniteSet(Phrased(t, l))
      BY <3>1, <3>3, FS_Subset
    <3>5. Cardinality(Phrased(t, l)) \in Nat /\ Cardinality(Matching(t, l)) \in Nat
      BY <3>3, <3>4, FS_CardinalityType
    <3>6. Cardinality(Phrased(t, l)) <= ResultLimit
      BY <1>8, <3>4, <3>5, SearchAssumption
    <3>7. id \in Phrased(t, l)
      BY <1>3, <1>8, <2>1 DEF Phrased
    <3>. QED
      BY <1>4, <3>6, <3>7, LiteralRows
  <2>2. CASE ~t.row[id].phrase
    <3>1. tokens # <<>> /\ TokenHits(t, id, tokens) >= Least(Len(tokens), 2) /\ id \in Searchable(t, l)
      BY <1>3, <1>8, <2>2
    <3>2. Len(tokens) >= 1
      BY <1>1, <3>1
    <3>3. Least(Len(tokens), 2) >= 1
      BY <1>1, <3>2 DEF Least
    <3>4. t.row[id].tokens \cap ToSet(tokens) # {}
      <4>1. SUFFICES ASSUME t.row[id].tokens \cap ToSet(tokens) = {} PROVE FALSE
        OBVIOUS
      <4>2. TokenHits(t, id, tokens) = 0
        BY <4>1, FS_EmptySet DEF TokenHits
      <4>3. Least(Len(tokens), 2) \in Nat
        BY <1>1 DEF Least
      <4>. QED
        BY <3>1, <3>3, <4>2, <4>3
    <3>5. PICK i \in DOMAIN tokens : tokens[i] \in t.row[id].tokens
      BY <3>4 DEF ToSet
    <3>6. tokens[i] \in ToSet(tokens)
      BY DEF ToSet
    <3>7. Cardinality(Holders(t, tokens[i], l)) <= TokenCandidateLimit
      BY <1>8, <3>6
    <3>8. TokenCandidates(t, tokens[i], tokens, l) =
            {x \in Holders(t, tokens[i], l) : TokenHits(t, x, tokens) >= Least(Len(tokens), 2)}
      BY <3>7, TokenRows
    <3>9. id \in TokenCandidates(t, tokens[i], tokens, l)
      BY <3>1, <3>5, <3>8 DEF Holders
    <3>. QED
      BY <1>4, <3>9
  <2>. QED
    BY <2>1, <2>2, TablesAre
<1>. QED
  BY <1>6, <1>7, <1>8 DEF tokens

\* The search for continuations: what it returns the query finds, it returns something
\* if the query is in a row's text, and everything below its limits.
LEMMA SearchFinds ==
    ASSUME NEW t, WellFormed(t), NEW l \in BOOLEAN, IsRequest(request)
    PROVE  LET hits == SearchHits(t, request, l)
           IN /\ hits \in Seq(DOMAIN t.row)
              /\ ToSet(hits) \subseteq Matching(t, l)
              /\ IsInjective(hits)
              /\ request.blank => hits = <<>>
              /\ ~request.blank /\ Phrased(t, l) # {} => ToSet(hits) # {}
              /\ /\ ~request.blank
                 /\ Cardinality(Matching(t, l)) <= ResultLimit
                 /\ \A token \in ToSet(SearchedTokens(request)) :
                      Cardinality(Holders(t, token, l)) <= TokenCandidateLimit
                 => ToSet(hits) = Matching(t, l)
<1> DEFINE literal == LiteralCandidates(t, l)
           tokens  == SearchedTokens(request)
           byToken == [i \in DOMAIN tokens |-> TokenCandidates(t, tokens[i], tokens, l)]
           found   == literal \cup UNION {byToken[i] : i \in DOMAIN tokens}
           Phrase(id) == IF id \in literal THEN 1 ELSE 0
           InTokens(id) == IF \E i \in DOMAIN tokens : id \in byToken[i]
                       THEN TokenHits(t, id, tokens) ELSE 0
           Queries(id) == IF id \in literal THEN 0
                          ELSE Cardinality({i \in DOMAIN tokens :
                                              \A j \in 1 .. i : id \notin byToken[j]})
           Before(a, b) ==
             \/ Phrase(a) > Phrase(b)
             \/ Phrase(a) = Phrase(b) /\ InTokens(a) > InTokens(b)
             \/ Phrase(a) = Phrase(b) /\ InTokens(a) = InTokens(b) /\ Queries(a) < Queries(b)
             \/ /\ Phrase(a) = Phrase(b) /\ InTokens(a) = InTokens(b) /\ Queries(a) = Queries(b)
                /\ t.at[a] < t.at[b]
           before == {p \in found \X found : Before(p[1], p[2])}
           hits == SearchHits(t, request, l)
<1>1. hits = IF request.blank THEN <<>> ELSE First(ResultLimit, Ranked(found, before))
  BY Zenon DEF SearchHits, InOrder
<1>2. found = Found(t, l)
  BY DEF Found
<1>3. tokens \in Seq(Token) /\ DOMAIN tokens = 1 .. Len(tokens) /\ Len(tokens) \in Nat
  BY Searched
<1>4. Found(t, l) \subseteq DOMAIN t.row
  BY FoundRows DEF Matching, Searchable
<1>5. IsFiniteSet(found) /\ Timed(found, t.at)
  BY <1>2, <1>4, TablesAre
<1>6. IsFiniteSet(ToSet(tokens)) /\ IsFiniteSet(DOMAIN tokens)
  <2>1. IsFiniteSet(1 .. Len(tokens))
    BY <1>3, FS_Interval
  <2>2. tokens \in Surjection(1 .. Len(tokens), ToSet(tokens))
    BY <1>3 DEF Surjection, ToSet
  <2>. HIDE DEF tokens
  <2>. QED
    BY <1>3, <2>1, <2>2, FS_Surjection
<1>7. \A id \in found : Phrase(id) \in Nat
  OBVIOUS
<1>. HIDE DEF tokens, byToken, literal
<1>8. \A id \in found : InTokens(id) \in Nat
  <2>1. ASSUME NEW id \in found PROVE TokenHits(t, id, tokens) \in Nat
    <3> DEFINE both == t.row[id].tokens \cap ToSet(tokens)
    <3>1. both \in SUBSET ToSet(tokens)
      OBVIOUS
    <3>. HIDE DEF both
    <3>2. IsFiniteSet(both)
      BY <1>6, <3>1, FS_Subset
    <3>3. Cardinality(both) \in Nat
      BY <3>2, FS_CardinalityType
    <3>. QED
      BY <3>3 DEF both, TokenHits
  <2>. QED
    BY <2>1
<1>9. \A id \in found : Queries(id) \in Nat
  <2>1. ASSUME NEW id \in found
        PROVE  Cardinality({i \in DOMAIN tokens : \A j \in 1 .. i : id \notin byToken[j]}) \in Nat
    <3> DEFINE before1 == {i \in DOMAIN tokens : \A j \in 1 .. i : id \notin byToken[j]}
    <3>1. before1 \in SUBSET DOMAIN tokens
      OBVIOUS
    <3>. HIDE DEF before1
    <3>2. IsFiniteSet(before1)
      BY <1>6, <3>1, FS_Subset
    <3>3. Cardinality(before1) \in Nat
      BY <3>2, FS_CardinalityType
    <3>. QED
      BY <3>3 DEF before1
  <2>. QED
    BY <2>1
<1>. HIDE DEF Phrase, InTokens, Queries, found
<1>10. Orders(before, found)
  <2>1. \A a, b \in found : <<a, b>> \in before <=> Before(a, b)
    OBVIOUS
  <2>2. \A a \in found : t.at[a] \in Nat
    BY <1>5 DEF Timed
  <2>3. \A a, b \in found : t.at[a] = t.at[b] => a = b
    BY <1>5 DEF Timed
  <2>4. \A a \in found : ~ Before(a, a)
    BY <1>7, <1>8, <1>9, <2>2
  <2>5. \A a, b, c \in found : Before(a, b) /\ Before(b, c) => Before(a, c)
    BY <1>7, <1>8, <1>9, <2>2
  <2>6. \A a, b \in found : a = b \/ Before(a, b) \/ Before(b, a)
    BY <1>7, <1>8, <1>9, <2>2, <2>3
  <2>. HIDE DEF Before, before
  <2>. QED
    BY <2>1, <2>4, <2>5, <2>6 DEF Orders
<1>. HIDE DEF before, hits
<1> DEFINE all == Ranked(found, before)
<1>11. /\ all \in Seq(found) /\ ToSet(all) = found /\ Len(all) = Cardinality(found)
       /\ IsInjective(all)
  BY <1>5, <1>10, RankedMembers
<1>. HIDE DEF all
<1>12. /\ First(ResultLimit, all) \in Seq(found)
       /\ ToSet(First(ResultLimit, all)) \subseteq found
       /\ found # {} => ToSet(First(ResultLimit, all)) # {}
       /\ Cardinality(found) <= ResultLimit => ToSet(First(ResultLimit, all)) = found
  BY <1>5, <1>11, NoneFirst, SearchAssumption
<1>i. IsInjective(First(ResultLimit, all)) /\ IsInjective(<<>>)
  <2>1. IsInjective(First(ResultLimit, all))
    BY <1>11, FirstMembers, SearchAssumption
  <2>2. IsInjective(<<>>)
    BY DEF IsInjective
  <2>. QED
    BY <2>1, <2>2
<1>13. hits = IF request.blank THEN <<>> ELSE First(ResultLimit, all)
  BY <1>1 DEF all
<1>14. /\ First(ResultLimit, all) \in Seq(DOMAIN t.row)
       /\ <<>> \in Seq(DOMAIN t.row) /\ ToSet(<<>>) = {}
  BY <1>2, <1>4, <1>12 DEF ToSet
<1>15. /\ found \subseteq Matching(t, l)
       /\ Phrased(t, l) # {} => found # {}
       /\ /\ Cardinality(Matching(t, l)) <= ResultLimit
          /\ \A token \in ToSet(tokens) : Cardinality(Holders(t, token, l)) <= TokenCandidateLimit
          => found = Matching(t, l)
  BY <1>2, FoundRows DEF tokens
<1>. QED
  BY <1>i, <1>12, <1>13, <1>14, <1>15 DEF hits, tokens

\* The search for commitments.
LEMMA CommitmentsFound ==
    ASSUME NEW t, WellFormed(t)
    PROVE  LET hits == SearchCommitments(t, request)
           IN /\ hits \in Seq(DOMAIN t.row)
              /\ \A id \in ToSet(hits) : ~request.blank /\ Constrains(t, id) /\ t.row[id].phrase
<1> DEFINE found == {id \in DOMAIN t.row : Constrains(t, id) /\ t.row[id].phrase}
           all == ByTime(found, t.age)
<1>1. IsFiniteSet(found)
  <2>1. found \in SUBSET DOMAIN t.row
    OBVIOUS
  <2>. HIDE DEF found
  <2>. QED
    BY <2>1, TablesAre
<1>2. Timed(found, t.age)
  <2>1. \A id \in found : t.age[id] \in Nat /\ t.age[id] # 0
    BY DEF WellFormed, Constrains
  <2>2. \A i, j \in found : t.age[i] = t.age[j] => i = j
    BY <2>1 DEF WellFormed
  <2>. QED
    BY <2>1, <2>2 DEF Timed
<1>3. SearchCommitments(t, request) = IF request.blank THEN <<>> ELSE First(ResultLimit, all)
  BY DEF SearchCommitments
<1>4. found \subseteq DOMAIN t.row /\ \A id \in found : Constrains(t, id) /\ t.row[id].phrase
  OBVIOUS
<1>. HIDE DEF found
<1>5. all \in Seq(found) /\ ToSet(all) = found /\ Len(all) = Cardinality(found)
  BY <1>1, <1>2, ByTimeMembers
<1>. HIDE DEF all
<1>6. /\ First(ResultLimit, all) \in Seq(found)
      /\ ToSet(First(ResultLimit, all)) \subseteq found
  BY <1>1, <1>5, NoneFirst, SearchAssumption
<1>7. /\ First(ResultLimit, all) \in Seq(DOMAIN t.row)
      /\ <<>> \in Seq(DOMAIN t.row) /\ ToSet(<<>>) = {}
  BY <1>4, <1>6 DEF ToSet
<1>. QED
  BY <1>3, <1>4, <1>6, <1>7

\* The continuations linked to an event.
LEMMA LinkedFound ==
    ASSUME NEW t, WellFormed(t), NEW event
    PROVE  /\ LinkedTo(t, event) \in Seq(DOMAIN t.row)
           /\ ToSet(LinkedTo(t, event)) =
                {id \in DOMAIN t.row : t.row[id].status = "active" /\ t.row[id].event = event}
<1> DEFINE found == {id \in DOMAIN t.row : t.row[id].status = "active" /\ t.row[id].event = event}
<1>1. found \in SUBSET DOMAIN t.row
  OBVIOUS
<1>2. LinkedTo(t, event) = ByTime(found, t.at)
  BY DEF LinkedTo
<1>. HIDE DEF found
<1>3. IsFiniteSet(found) /\ Timed(found, t.at)
  BY <1>1, TablesAre
<1>4. ByTime(found, t.at) \in Seq(found) /\ ToSet(ByTime(found, t.at)) = found
  BY <1>3, ByTimeMembers
<1>5. ByTime(found, t.at) \in Seq(DOMAIN t.row)
  BY <1>1, <1>4
<1>. QED
  BY <1>2, <1>4, <1>5 DEF found

\* The rows that are linked to one of the events of es.
LinkedRows(t, es) == {id \in DOMAIN t.row : t.row[id].status = "active" /\ t.row[id].event \in es}

\* Raw event hits.
LEMMA EventsFound ==
    ASSUME NEW t, WellFormed(t)
    PROVE  /\ SearchRawEvents(t, request) \in Seq(Event)
           /\ IsInjective(SearchRawEvents(t, request))
           /\ request.blank => SearchRawEvents(t, request) = <<>>
<1>1. t.events \in Seq(Event) /\ IsInjective(t.events) /\ ResultLimit \in Nat \ {0}
  BY SearchAssumption DEF WellFormed
<1>2. First(ResultLimit, t.events) \in Seq(Event) /\ IsInjective(First(ResultLimit, t.events))
  BY <1>1, FirstMembers
<1>3. IsInjective(<<>>)
  BY DEF IsInjective
<1>. QED
  BY <1>2, <1>3 DEF SearchRawEvents

\* An answer of the vector index, its hits in their order.
LEMMA NearestFound ==
    ASSUME NEW t, WellFormed(t), NEW v \in t.index
    PROVE  /\ DOMAIN v \subseteq DOMAIN t.row
           /\ \A id \in DOMAIN v : v[id] \in 1 .. 100
           /\ Nearest(v) \in Seq(DOMAIN t.row)
           /\ ToSet(Nearest(v)) = DOMAIN v
<1> DEFINE ids == DOMAIN v
           before == {p \in ids \X ids : \/ v[p[1]] > v[p[2]]
                                         \/ v[p[1]] = v[p[2]] /\ p[1] < p[2]}
<1>1. ids \in SUBSET DOMAIN t.row /\ \A id \in ids : v[id] \in 1 .. 100
  <2>1. DOMAIN v \subseteq DOMAIN t.row /\ v \in [DOMAIN v -> 1 .. 100]
    BY Zenon DEF WellFormed
  <2>. QED
    BY <2>1
<1>2. IsFiniteSet(ids)
  BY <1>1, TablesAre
<1>3. \A id \in ids : id \in Nat
  BY <1>1, TablesAre DEF Continuation
<1>4. Orders(before, ids)
  BY <1>1, <1>3 DEF Orders
<1>5. Nearest(v) = Ranked(ids, before)
  BY DEF Nearest
<1>. HIDE DEF ids, before
<1>6. Ranked(ids, before) \in Seq(ids) /\ ToSet(Ranked(ids, before)) = ids
  BY <1>2, <1>4, RankedMembers
<1>7. Ranked(ids, before) \in Seq(DOMAIN t.row)
  BY <1>1, <1>6
<1>. QED
  BY <1>1, <1>5, <1>6, <1>7 DEF ids

-----------------------------------------------------------------------------
\* The writes of the other daemon.

\* What any of them leaves as it is: the handler, and of the tables all of a row but
\* its status; all of an untouched row; what is released; and what is there.
Disturbed ==
  /\ UNCHANGED <<request, start, handlerVars>>
  /\ pc # "answered"
  /\ touched \subseteq touched' /\ touched' # {}
  /\ DOMAIN db.row \subseteq DOMAIN db'.row
  /\ \A id \in DOMAIN db.row :
       /\ db'.row[id] = [db.row[id] EXCEPT !.status = db'.row[id].status]
       /\ id \notin touched' => db'.row[id] = db.row[id] /\ db'.pact[id] = db.pact[id]
       /\ db.pact[id] = "released" => db'.pact[id] = "released"
  /\ db.edges \subseteq db'.edges /\ db'.events = db.events /\ db'.index = db.index

\* A delta of another daemon keeps the tables well formed and disturbs only its own row.
LEMMA AssimilateDisturbs ==
    ASSUME WellFormed(db), NEW id \in DOMAIN db.row, NEW status \in Deltas, Assimilate(id, status)
    PROVE  WellFormed(db') /\ Disturbed
<1> DEFINE pact == IF status \in {"closed", "retired"} /\ db.pact[id] = "active"
                   THEN "released" ELSE db.pact[id]
           t == [row |-> [db.row EXCEPT ![id].status = status],
                 at |-> [db.at EXCEPT ![id] = db.now], pact |-> [db.pact EXCEPT ![id] = pact],
                 age |-> db.age, edges |-> db.edges, events |-> db.events,
                 index |-> db.index, now |-> db.now + 1]
<1>1. db = [row |-> db.row, at |-> db.at, pact |-> db.pact, age |-> db.age, edges |-> db.edges,
            events |-> db.events, index |-> db.index, now |-> db.now]
  BY DEF WellFormed
<1>2. db' = t
  BY <1>1 DEF Assimilate
<1>3. status \in ContinuationStatus
  BY LensAssumption
<1>4. t.row \in [DOMAIN db.row -> Continuation] /\ \A i \in DOMAIN db.row : t.row[i].id = i
  <2> DEFINE written == [db.row[id] EXCEPT !.status = status]
  <2>1. db.row \in [DOMAIN db.row -> Continuation] /\ \A i \in DOMAIN db.row : db.row[i].id = i
    BY Zenon DEF WellFormed
  <2>2. written \in Continuation /\ written.id = id
    BY <1>3, <2>1 DEF Continuation
  <2>3. t.row = [db.row EXCEPT ![id] = written]
    OBVIOUS
  <2>. HIDE DEF written, t
  <2>. QED
    BY <2>1, <2>2, <2>3
<1>5. t.pact \in [DOMAIN db.row -> {"none", "active", "released"}]
  BY DEF WellFormed
<1>6. /\ t.at \in [DOMAIN db.row -> Nat]
      /\ \A i, j \in DOMAIN db.row : t.at[i] = t.at[j] => i = j
      /\ \A i \in DOMAIN db.row : t.at[i] < t.now /\ t.at[i] # 0
  BY DEF WellFormed
<1>7. /\ t.age \in [DOMAIN db.row -> Nat]
      /\ \A i, j \in DOMAIN db.row : t.age[i] = t.age[j] /\ t.age[i] # 0 => i = j
      /\ \A i \in DOMAIN db.row : t.age[i] < t.now
      /\ \A i \in DOMAIN db.row : t.pact[i] # "none" => t.age[i] # 0
  BY DEF WellFormed
<1>8. DOMAIN t.row = DOMAIN db.row
  OBVIOUS
<1>9. WellFormed(t)
  BY <1>4, <1>5, <1>6, <1>7, <1>8 DEF WellFormed
<1>10. Disturbed
  <2>1. \A i \in DOMAIN db.row :
          /\ t.row[i] = [db.row[i] EXCEPT !.status = t.row[i].status]
          /\ i # id => t.row[i] = db.row[i] /\ t.pact[i] = db.pact[i]
          /\ db.pact[i] = "released" => t.pact[i] = "released"
    <3>1. \A i \in DOMAIN db.row : db.row[i] = [db.row[i] EXCEPT !.status = db.row[i].status]
      BY DEF WellFormed, Continuation
    <3>2. t.row[id].status = status /\ t.row[id] = [db.row[id] EXCEPT !.status = status]
      BY DEF WellFormed, Continuation
    <3>3. \A i \in DOMAIN db.row : i # id => t.row[i] = db.row[i] /\ t.pact[i] = db.pact[i]
      BY DEF WellFormed
    <3>4. db.pact[id] = "released" => t.pact[id] = "released"
      BY DEF WellFormed
    <3>. HIDE DEF t
    <3>. QED
      BY <3>1, <3>2, <3>3, <3>4
  <2>2. touched' = touched \cup {id}
    BY DEF Assimilate, Write
  <2>. QED
    BY <1>2, <1>8, <2>1, <2>2 DEF Assimilate, Write, Disturbed
<1>. QED
  BY <1>2, <1>9, <1>10

\* A continuation it creates is well formed and disturbs no other row.
LEMMA CreateDisturbs ==
    ASSUME WellFormed(db), NEW id \in DOMAIN NewRow, CreateContinuation(id)
    PROVE  WellFormed(db') /\ Disturbed
<1> DEFINE ids == DOMAIN db.row \cup {id}
           t == [row |-> Grown(db.row, id, NewRow[id]), at |-> Grown(db.at, id, db.now),
                 pact |-> Grown(db.pact, id, "none"), age |-> Grown(db.age, id, 0),
                 edges |-> db.edges, events |-> db.events,
                 index |-> db.index, now |-> db.now + 1]
<1>1. db = [row |-> db.row, at |-> db.at, pact |-> db.pact, age |-> db.age, edges |-> db.edges,
            events |-> db.events, index |-> db.index, now |-> db.now]
  BY DEF WellFormed
<1>2. db' = t
  BY <1>1 DEF CreateContinuation
<1>3. NewRow[id] \in Continuation /\ NewRow[id].id = id
  BY LensAssumption
<1>4. /\ DOMAIN db.row = DOMAIN db.at /\ DOMAIN db.row = DOMAIN db.pact
      /\ DOMAIN db.row = DOMAIN db.age /\ id \notin DOMAIN db.row
  BY DEF WellFormed, CreateContinuation
<1>5. IsFiniteSet(ids)
  BY FS_AddElement DEF WellFormed
<1>6. /\ t.row \in [ids -> Continuation] /\ \A i \in ids : t.row[i].id = i
      /\ \A i \in DOMAIN db.row : t.row[i] = db.row[i]
  BY <1>3, <1>4 DEF WellFormed, Grown
<1>7. /\ t.pact \in [ids -> {"none", "active", "released"}] /\ t.pact[id] = "none"
      /\ \A i \in DOMAIN db.row : t.pact[i] = db.pact[i]
  BY <1>4 DEF WellFormed, Grown
<1>8. /\ t.at = [i \in ids |-> IF i = id THEN db.now ELSE db.at[i]]
      /\ t.age = [i \in ids |-> IF i = id THEN 0 ELSE db.age[i]]
  BY <1>4 DEF Grown
<1>9. /\ t.at \in [ids -> Nat]
      /\ \A i, j \in ids : t.at[i] = t.at[j] => i = j
      /\ \A i \in ids : t.at[i] < t.now /\ t.at[i] # 0
  BY <1>8 DEF WellFormed
<1>10. /\ t.age \in [ids -> Nat]
       /\ \A i, j \in ids : t.age[i] = t.age[j] /\ t.age[i] # 0 => i = j
       /\ \A i \in ids : t.age[i] < t.now
       /\ \A i \in ids : t.pact[i] # "none" => t.age[i] # 0
  BY <1>7, <1>8 DEF WellFormed
<1>11. DOMAIN t.row = ids
  BY <1>6
<1>12. \A e \in t.edges : {e.from, e.to} \subseteq ids
  BY DEF WellFormed
<1>13. t.events \in Seq(Event) /\ IsInjective(t.events) /\ t.now \in Nat \ {0}
       /\ \A v \in t.index : DOMAIN v \subseteq ids /\ v \in [DOMAIN v -> 1 .. 100]
  BY DEF WellFormed
<1>14. t = [row |-> t.row, at |-> t.at, pact |-> t.pact, age |-> t.age, edges |-> t.edges,
            events |-> t.events, index |-> t.index, now |-> t.now]
  OBVIOUS
<1>15. Disturbed
  <2>1. \A i \in DOMAIN db.row : db.row[i] = [db.row[i] EXCEPT !.status = db.row[i].status]
    BY DEF WellFormed, Continuation
  <2>2. DOMAIN db.row \subseteq DOMAIN t.row
    BY <1>11
  <2>3. touched' = touched \cup {id} /\ UNCHANGED <<request, start, handlerVars>> /\ pc # "answered"
    BY DEF CreateContinuation, Write
  <2>4. t.edges = db.edges /\ t.events = db.events /\ t.index = db.index
    OBVIOUS
  <2>. HIDE DEF t
  <2>. QED
    BY <1>2, <1>6, <1>7, <2>1, <2>2, <2>3, <2>4 DEF Disturbed
<1>. HIDE DEF t, ids
<1>16. WellFormed(t)
  BY <1>5, <1>6, <1>7, <1>9, <1>10, <1>11, <1>12, <1>13, <1>14 DEF WellFormed
<1>. QED
  BY <1>2, <1>15, <1>16

\* A commitment it creates disturbs only the row that it is on.
LEMMA CommitDisturbs ==
    ASSUME WellFormed(db), NEW id \in DOMAIN db.row, CreateCommitment(id)
    PROVE  WellFormed(db') /\ Disturbed
<1> DEFINE t == [row |-> db.row, at |-> db.at, pact |-> [db.pact EXCEPT ![id] = "active"],
                 age |-> [db.age EXCEPT ![id] = db.now], edges |-> db.edges,
                 events |-> db.events, index |-> db.index, now |-> db.now + 1]
<1>1. db = [row |-> db.row, at |-> db.at, pact |-> db.pact, age |-> db.age, edges |-> db.edges,
            events |-> db.events, index |-> db.index, now |-> db.now]
  BY DEF WellFormed
<1>2. db' = t /\ db.pact[id] = "none"
  BY <1>1 DEF CreateCommitment
<1>3. t.pact \in [DOMAIN db.row -> {"none", "active", "released"}]
  BY DEF WellFormed
<1>4. /\ t.at \in [DOMAIN db.row -> Nat]
      /\ \A i, j \in DOMAIN db.row : t.at[i] = t.at[j] => i = j
      /\ \A i \in DOMAIN db.row : t.at[i] < t.now /\ t.at[i] # 0
  BY DEF WellFormed
<1>5. /\ t.age \in [DOMAIN db.row -> Nat]
      /\ \A i, j \in DOMAIN db.row : t.age[i] = t.age[j] /\ t.age[i] # 0 => i = j
      /\ \A i \in DOMAIN db.row : t.age[i] < t.now
      /\ \A i \in DOMAIN db.row : t.pact[i] # "none" => t.age[i] # 0
  BY DEF WellFormed
<1>6. WellFormed(t)
  BY <1>3, <1>4, <1>5 DEF WellFormed
<1>7. Disturbed
  <2>1. \A i \in DOMAIN db.row : db.row[i] = [db.row[i] EXCEPT !.status = db.row[i].status]
    BY DEF WellFormed, Continuation
  <2>2. /\ \A i \in DOMAIN db.row : i # id => t.pact[i] = db.pact[i]
        /\ \A i \in DOMAIN db.row : db.pact[i] = "released" => t.pact[i] = "released"
    BY <1>2 DEF WellFormed
  <2>3. touched' = touched \cup {id} /\ UNCHANGED <<request, start, handlerVars>> /\ pc # "answered"
    BY DEF CreateCommitment, Write
  <2>4. t.row = db.row /\ t.edges = db.edges /\ t.events = db.events /\ t.index = db.index
    OBVIOUS
  <2>. HIDE DEF t
  <2>. QED
    BY <1>2, <2>1, <2>2, <2>3, <2>4 DEF Disturbed
<1>. QED
  BY <1>2, <1>6, <1>7

\* A relation it creates disturbs only the rows at its ends.
LEMMA RelateDisturbs ==
    ASSUME WellFormed(db), NEW e, Relate(e)
    PROVE  WellFormed(db') /\ Disturbed
<1> DEFINE t == [row |-> db.row, at |-> db.at, pact |-> db.pact, age |-> db.age,
                 edges |-> db.edges \cup {e}, events |-> db.events,
                 index |-> db.index, now |-> db.now]
<1>1. db = [row |-> db.row, at |-> db.at, pact |-> db.pact, age |-> db.age, edges |-> db.edges,
            events |-> db.events, index |-> db.index, now |-> db.now]
  BY DEF WellFormed
<1>2. db' = t
  BY <1>1 DEF Relate
<1>3. {e.from, e.to} \subseteq DOMAIN db.row
  BY DEF Relate
<1>4. WellFormed(t)
  BY <1>3 DEF WellFormed
<1>5. Disturbed
  <2>1. \A i \in DOMAIN db.row : db.row[i] = [db.row[i] EXCEPT !.status = db.row[i].status]
    BY DEF WellFormed, Continuation
  <2>2. /\ touched' = touched \cup {e.from, e.to}
        /\ UNCHANGED <<request, start, handlerVars>> /\ pc # "answered"
    BY DEF Relate, Write
  <2>3. t.row = db.row /\ t.pact = db.pact /\ db.edges \subseteq t.edges
        /\ t.events = db.events /\ t.index = db.index
    OBVIOUS
  <2>. HIDE DEF t
  <2>. QED
    BY <1>2, <2>1, <2>2, <2>3 DEF Disturbed
<1>. QED
  BY <1>2, <1>4, <1>5

\* Every step of another daemon keeps the tables well formed and disturbs what it writes.
LEMMA Disturbing ==
    ASSUME WellFormed(db), OtherDaemon
    PROVE  WellFormed(db') /\ Disturbed
BY AssimilateDisturbs, CreateDisturbs, CommitDisturbs, RelateDisturbs DEF OtherDaemon

-----------------------------------------------------------------------------
\* What was written since the request came: nothing of an untouched row.
History ==
  /\ WellFormed(db) /\ WellFormed(start) /\ IsRequest(request)
  /\ DOMAIN start.row \subseteq DOMAIN db.row
  /\ \A id \in DOMAIN start.row :
       /\ id \notin touched => db.row[id] = start.row[id] /\ db.pact[id] = start.pact[id]
       /\ start.pact[id] = "released" => db.pact[id] = "released"
  /\ start.edges \subseteq db.edges
  /\ touched = {} => db = start

\* The tables stay well formed, and an untouched row is what it was.
LEMMA HistoryHolds == LensSpec => []History
<1>1. LensInit => History
  BY LensAssumption DEF LensInit, History
<1>2. ASSUME History, [LensNext]_lensVars PROVE History'
  <2>1. CASE HandlerStep /\ Read
    <3>1. UNCHANGED <<db, request, touched, start>>
      BY <2>1 DEF Read
    <3>. QED
      BY <1>2, <3>1 DEF History
  <2>2. CASE OtherDaemon
    <3>1. WellFormed(db') /\ Disturbed
      BY <1>2, <2>2, Disturbing DEF History
    <3>2. request' = request /\ start' = start /\ touched \subseteq touched' /\ touched' # {}
      BY <3>1 DEF Disturbed
    <3>3. \A id \in DOMAIN start.row :
            /\ id \notin touched' => db'.row[id] = start.row[id] /\ db'.pact[id] = start.pact[id]
            /\ start.pact[id] = "released" => db'.pact[id] = "released"
      BY <1>2, <3>1, <3>2 DEF History, Disturbed
    <3>4. DOMAIN start.row \subseteq DOMAIN db'.row /\ start.edges \subseteq db'.edges
      BY <1>2, <3>1 DEF History, Disturbed
    <3>. QED
      BY <1>2, <3>1, <3>2, <3>3, <3>4 DEF History
  <2>3. CASE UNCHANGED lensVars
    BY <1>2, <2>3 DEF History, lensVars
  <2>. QED
    BY <1>2, <2>1, <2>2, <2>3 DEF LensNext
<1>. QED
  BY <1>1, <1>2, PTL DEF LensSpec

\* A step of another daemon, and what it means to the handler's invariants.
LEMMA StepCases ==
    ASSUME History, [LensNext]_lensVars
    PROVE  \/ HandlerStep /\ UNCHANGED <<db, request, touched, start>>
           \/ Disturbed
           \/ UNCHANGED lensVars
BY Disturbing DEF LensNext, Read, History

\* What the handler has read are stored continuations, and what it has still to read
\* are ids, or events.
Reading ==
  /\ pc \in {"search", "get", "vector", "commitments", "pledges", "relations", "linked", "answered"}
  /\ picked \in Seq(Continuation) /\ IdsOf(picked) \subseteq DOMAIN db.row
  /\ pc # "linked" => todo \in Seq(DOMAIN db.row)
  /\ pc = "linked" => todo \in Seq(Event) /\ ToSet(todo) \subseteq ToSet(events) /\ promoted = {}
  /\ \A id \in DOMAIN vector : vector[id] \in 1 .. 100
  /\ influence \subseteq DOMAIN vector
  /\ events \in Seq(Event) /\ (events # <<>> => ~request.blank)
  /\ pc \in {"search", "get", "vector", "pledges"} => events = <<>> /\ promoted = {}
  /\ pc \in {"commitments", "relations"} => promoted = ToSet(events)
  /\ pc = "commitments" /\ promoted # {} => picked # <<>>
  /\ pc = "relations" => picked # <<>>
  /\ pc = "search" => picked = <<>> /\ influence = {}
  /\ pc = "get" => influence = {}
  /\ pc = "vector" /\ todo # <<>> => ToSet(todo) \subseteq DOMAIN vector

\* Appending a stored row to those read, with or without looking for it first.
LEMMA WithRow ==
    ASSUME WellFormed(db), picked \in Seq(Continuation), NEW id \in DOMAIN db.row
    PROVE  /\ Append(picked, db.row[id]) \in Seq(Continuation)
           /\ ToSet(Append(picked, db.row[id])) = ToSet(picked) \cup {db.row[id]}
           /\ IdsOf(Append(picked, db.row[id])) = IdsOf(picked) \cup {id}
           /\ With(picked, id) \in Seq(Continuation)
           /\ id \in IdsOf(picked) => With(picked, id) = picked
           /\ id \notin IdsOf(picked) => With(picked, id) = Append(picked, db.row[id])
           /\ IdsOf(With(picked, id)) = IdsOf(picked) \cup {id}
           /\ ToSet(With(picked, id)) \subseteq ToSet(picked) \cup {db.row[id]}
           /\ ToSet(picked) \subseteq ToSet(With(picked, id))
<1>1. db.row[id] \in Continuation /\ db.row[id].id = id
  BY TablesAre
<1>2. /\ Append(picked, db.row[id]) \in Seq(Continuation)
      /\ ToSet(Append(picked, db.row[id])) = ToSet(picked) \cup {db.row[id]}
  BY <1>1, Appended
<1>3. IdsOf(Append(picked, db.row[id])) = IdsOf(picked) \cup {id}
  BY <1>1, <1>2 DEF IdsOf
<1>4. ToSet(picked) \subseteq Continuation
  BY Elements
<1>5. Ids(picked) \in Seq(Nat) /\ ToSet(Ids(picked)) = IdsOf(picked)
  BY <1>4, IdsAreIds DEF Continuation
<1>6. Contains(Ids(picked), id) <=> id \in IdsOf(picked)
  <2>1. DOMAIN Ids(picked) = 1 .. Len(Ids(picked))
    BY <1>5
  <2>. QED
    BY <1>5, <2>1 DEF Contains, ToSet
<1>7. With(picked, id) = IF id \in IdsOf(picked) THEN picked ELSE Append(picked, db.row[id])
  BY <1>6 DEF With
<1>. QED
  BY <1>1, <1>2, <1>3, <1>7

\* A loop over what was read runs over ids of stored continuations.
LEMMA IdsRead ==
    ASSUME Reading
    PROVE  Ids(picked) \in Seq(DOMAIN db.row) /\ ToSet(Ids(picked)) = IdsOf(picked)
<1>1. \A c \in ToSet(picked) : c.id \in DOMAIN db.row
  BY DEF Reading, IdsOf
<1>. QED
  BY <1>1, IdsAreIds DEF Reading

\* Loading what is linked to an event adds the active continuations linked to it.
LEMMA LinkedRead ==
    ASSUME WellFormed(db), picked \in Seq(Continuation), LoadLinked
    PROVE  LET linked == LinkedRows(db, {Head(todo)})
           IN /\ picked' \in Seq(Continuation)
              /\ ToSet(picked') = ToSet(picked) \cup {db.row[id] : id \in linked}
              /\ IdsOf(picked') = IdsOf(picked) \cup linked
<1> DEFINE ids == LinkedTo(db, Head(todo))
           linked == LinkedRows(db, {Head(todo)})
           rows == [i \in DOMAIN ids |-> db.row[ids[i]]]
<1>1. ids \in Seq(DOMAIN db.row) /\ ToSet(ids) = linked
  BY LinkedFound DEF LinkedRows
<1>2. picked' = picked \o rows
  BY DEF LoadLinked
<1>3. linked \subseteq DOMAIN db.row
  BY DEF LinkedRows
<1>. HIDE DEF ids, linked
<1>4. \A id \in linked : db.row[id] \in Continuation /\ db.row[id].id = id
  BY <1>3, TablesAre
<1>5. DOMAIN ids = 1 .. Len(ids) /\ Len(ids) \in Nat /\ \A i \in DOMAIN ids : ids[i] \in linked
  BY <1>1 DEF ToSet
<1>6. rows = [i \in 1 .. Len(ids) |-> db.row[ids[i]]]
  BY <1>5
<1>7. rows \in Seq(Continuation)
  BY <1>4, <1>5, <1>6
<1>8. ToSet(rows) = {db.row[id] : id \in linked}
  BY <1>1 DEF ToSet
<1>. HIDE DEF rows
<1>9. picked' \in Seq(Continuation) /\ ToSet(picked') = ToSet(picked) \cup ToSet(rows)
  BY <1>2, <1>7, Concatenated
<1>10. IdsOf(picked') = IdsOf(picked) \cup linked
  BY <1>4, <1>8, <1>9 DEF IdsOf
<1>. QED
  BY <1>8, <1>9, <1>10 DEF linked

\* The handler reads only stored continuations, in the order of its queries.
LEMMA ReadingHolds == LensSpec => []Reading
<1>1. LensInit => Reading
  <2>1. /\ <<>> \in Seq(Continuation) /\ ToSet(<<>>) = {} /\ DOMAIN <<>> = {}
        /\ \A S : <<>> \in Seq(S)
    BY DEF ToSet
  <2>. QED
    BY <2>1 DEF LensInit, Reading, IdsOf
<1>2. ASSUME History, Reading, [LensNext]_lensVars PROVE Reading'
  <2>1. CASE HandlerStep /\ UNCHANGED <<db, request, touched, start>>
    <3>a. WellFormed(db) /\ IsRequest(request) /\ UNCHANGED <<db, request>>
      BY <1>2, <2>1 DEF History
    <3>b. /\ ToSet(<<>>) = {} /\ \A S : <<>> \in Seq(S)
      BY DEF ToSet
    <3>1. CASE SearchLiving
      <4>1. todo' \in Seq(DOMAIN db.row)
        BY <3>a, <3>1, SearchFinds DEF SearchLiving
      <4>. QED
        BY <1>2, <3>a, <3>1, <4>1 DEF SearchLiving, Reading, IdsOf
    <3>2. CASE GetContinuation
      <4>1. Head(todo) \in DOMAIN db.row /\ Tail(todo) \in Seq(DOMAIN db.row)
        BY <1>2, <3>2, Elements DEF GetContinuation, Reading
      <4>2. picked' \in Seq(Continuation) /\ IdsOf(picked') \subseteq DOMAIN db.row
        BY <1>2, <3>a, <3>2, <4>1, WithRow DEF GetContinuation, Reading
      <4>. QED
        BY <1>2, <3>a, <3>2, <4>1, <4>2 DEF GetContinuation, Reading
    <3>3. CASE AskVectorIndex
      <4>1. /\ Nearest(vector') \in Seq(DOMAIN db.row) /\ ToSet(Nearest(vector')) = DOMAIN vector'
            /\ \A id \in DOMAIN vector' : vector'[id] \in 1 .. 100
        BY <3>a, <3>3, NearestFound DEF AskVectorIndex
      <4>2. todo' \in Seq(DOMAIN db.row) /\ ToSet(todo') \subseteq DOMAIN vector'
        BY <3>3, <3>b, <4>1 DEF AskVectorIndex
      <4>. QED
        BY <1>2, <3>a, <3>3, <4>1, <4>2 DEF AskVectorIndex, Reading, IdsOf
    <3>4. CASE LoadVectorHit
      <4>1. /\ Head(todo) \in DOMAIN db.row /\ Tail(todo) \in Seq(DOMAIN db.row)
            /\ Head(todo) \in DOMAIN vector /\ ToSet(Tail(todo)) \subseteq DOMAIN vector
        BY <1>2, <3>4, Elements DEF LoadVectorHit, Reading
      <4>2. picked' \in Seq(Continuation) /\ IdsOf(picked') \subseteq DOMAIN db.row
        BY <1>2, <3>a, <3>4, <4>1, WithRow DEF LoadVectorHit, Reading
      <4>. QED
        BY <1>2, <3>a, <3>4, <4>1, <4>2 DEF LoadVectorHit, Reading
    <3>5. CASE BeginCommitments
      BY <1>2, <3>a, <3>b, <3>5, IdsRead DEF BeginCommitments, Reading, IdsOf
    <3>6. CASE CollectCommitments
      <4>1. Tail(todo) \in Seq(DOMAIN db.row)
        BY <1>2, <3>6, Elements DEF CollectCommitments, Reading
      <4>. QED
        BY <1>2, <3>a, <3>6, <4>1 DEF CollectCommitments, Reading, IdsOf
    <3>7. CASE SearchForCommitments
      <4>1. todo' \in Seq(DOMAIN db.row)
        BY <3>a, <3>7, CommitmentsFound DEF SearchForCommitments
      <4>2. events = <<>>
        BY <1>2, <3>7, Elements DEF SearchForCommitments, Reading
      <4>. QED
        BY <1>2, <3>a, <3>7, <4>1, <4>2 DEF SearchForCommitments, Reading, IdsOf
    <3>8. CASE TakePledge
      <4>1. Head(todo) \in DOMAIN db.row /\ Tail(todo) \in Seq(DOMAIN db.row)
        BY <1>2, <3>8, Elements DEF TakePledge, Reading
      <4>2. picked' \in Seq(Continuation) /\ IdsOf(picked') \subseteq DOMAIN db.row
        BY <1>2, <3>a, <3>8, <4>1, WithRow DEF TakePledge, Reading
      <4>. QED
        BY <1>2, <3>a, <3>8, <4>1, <4>2 DEF TakePledge, Reading
    <3>9. CASE BeginRelations
      BY <1>2, <3>a, <3>b, <3>9, IdsRead DEF BeginRelations, Reading, IdsOf
    <3>10. CASE CollectRelations
      <4>1. Tail(todo) \in Seq(DOMAIN db.row)
        BY <1>2, <3>10, Elements DEF CollectRelations, Reading
      <4>. QED
        BY <1>2, <3>a, <3>10, <4>1 DEF CollectRelations, Reading, IdsOf
    <3>11. CASE SearchRaw
      <4>1. events' \in Seq(Event) /\ (events' # <<>> => ~request.blank)
        BY <3>a, <3>11, EventsFound DEF SearchRaw
      <4>. QED
        BY <1>2, <3>a, <3>11, <4>1 DEF SearchRaw, Reading, IdsOf
    <3>12. CASE LoadLinked
      <4>1. Tail(todo) \in Seq(Event) /\ ToSet(Tail(todo)) \subseteq ToSet(events)
        BY <1>2, <3>12, Elements DEF LoadLinked, Reading
      <4>2. picked' \in Seq(Continuation) /\ IdsOf(picked') \subseteq DOMAIN db.row
        BY <1>2, <3>a, <3>12, LinkedRead DEF Reading, LinkedRows
      <4>. QED
        BY <1>2, <3>a, <3>12, <4>1, <4>2 DEF LoadLinked, Reading
    <3>13. CASE Promote
      BY <1>2, <3>a, <3>b, <3>13, IdsRead DEF Promote, Reading, IdsOf
    <3>14. CASE AnswerWithCard
      BY <1>2, <3>a, <3>b, <3>14 DEF AnswerWithCard, Reading, IdsOf
    <3>15. CASE AnswerWithEvents
      BY <1>2, <3>a, <3>b, <3>15 DEF AnswerWithEvents, Reading, IdsOf
    <3>. QED
      BY <2>1, <3>1, <3>2, <3>3, <3>4, <3>5, <3>6, <3>7, <3>8, <3>9, <3>10, <3>11, <3>12,
         <3>13, <3>14, <3>15 DEF HandlerStep
  <2>2. CASE Disturbed
    <3>1. UNCHANGED <<request, handlerVars>> /\ DOMAIN db.row \subseteq DOMAIN db'.row
      BY <2>2 DEF Disturbed
    <3>. QED
      BY <1>2, <3>1 DEF Reading, handlerVars, IdsOf
  <2>3. CASE UNCHANGED lensVars
    BY <1>2, <2>3 DEF Reading, lensVars, handlerVars, IdsOf
  <2>. QED
    BY <1>2, <2>1, <2>2, <2>3, StepCases
<1>. QED
  BY <1>1, <1>2, HistoryHolds, PTL DEF LensSpec

\* What the engine is given of what was read, and of the vector index's answer.
Given == {Projection(c) : c \in ToSet(picked)}
Strengths == [c \in {g.id : g \in Given} |-> IF c \in influence THEN vector[c] ELSE 0]

\* The answer is the card of what was read, or of raw events if that is nothing.
Outcome ==
  pc = "answered" =>
    \/ /\ picked # <<>> /\ promoted = ToSet(events)
       /\ card = Generate(request, Given, edges, RuleFacts(Given, request), Strengths, 0)
       /\ provenance.continuations = {g.id : g \in Given}
    \/ /\ picked = <<>>
       /\ card = RawOrEmptyCard(Len(events))
       /\ provenance.continuations = {} /\ provenance.events = ToSet(events)

\* An answer is the card of what was read.
LEMMA OutcomeHolds == LensSpec => []Outcome
<1>1. LensInit => Outcome
  BY DEF LensInit, Outcome
<1>2. ASSUME History, Reading, Outcome, [LensNext]_lensVars PROVE Outcome'
  <2>1. CASE HandlerStep /\ UNCHANGED <<db, request, touched, start>>
    <3>1. CASE pc' # "answered"
      BY <3>1 DEF Outcome
    <3>2. CASE AnswerWithCard
      <4>1. promoted = ToSet(events) /\ picked # <<>>
        BY <1>2, <3>2 DEF AnswerWithCard, Reading
      <4>2. UNCHANGED <<request, picked, edges, vector, influence, events, promoted>>
        BY <2>1, <3>2 DEF AnswerWithCard
      <4>3. Given' = Given /\ Strengths' = Strengths
        BY <4>2 DEF Given, Strengths, Projection
      <4>4. /\ card' = Generate(request, Given, edges, RuleFacts(Given, request), Strengths, 0)
            /\ provenance'.continuations = {g.id : g \in Given}
        BY <3>2 DEF AnswerWithCard, Given, Strengths
      <4>. QED
        BY <4>1, <4>2, <4>3, <4>4 DEF Outcome
    <3>3. CASE AnswerWithEvents
      BY <3>3 DEF AnswerWithEvents, Outcome, NoProvenance
    <3>4. pc' = "answered" => AnswerWithCard \/ AnswerWithEvents
      <4>1. pc # "answered"
        BY <2>1 DEF HandlerStep, SearchLiving, GetContinuation, AskVectorIndex, LoadVectorHit,
              BeginCommitments, CollectCommitments, SearchForCommitments, TakePledge,
              BeginRelations, CollectRelations, SearchRaw, LoadLinked, Promote,
              AnswerWithCard, AnswerWithEvents
      <4>. QED
        BY <2>1, <4>1 DEF HandlerStep, SearchLiving, GetContinuation, AskVectorIndex, LoadVectorHit,
              BeginCommitments, CollectCommitments, SearchForCommitments, TakePledge,
              BeginRelations, CollectRelations, SearchRaw, LoadLinked, Promote
    <3>. QED
      BY <3>1, <3>2, <3>3, <3>4
  <2>2. CASE Disturbed
    BY <2>2 DEF Disturbed, Outcome, handlerVars
  <2>3. CASE UNCHANGED lensVars
    <3>1. UNCHANGED <<request, pc, picked, edges, vector, influence, events, promoted, card, provenance>>
      BY <2>3 DEF lensVars, handlerVars
    <3>2. Given' = Given /\ Strengths' = Strengths
      BY <3>1 DEF Given, Strengths, Projection
    <3>. QED
      BY <1>2, <3>1, <3>2 DEF Outcome
  <2>. QED
    BY <1>2, <2>1, <2>2, <2>3, StepCases
<1>. QED
  BY <1>1, <1>2, HistoryHolds, ReadingHolds, PTL DEF LensSpec

-----------------------------------------------------------------------------
\* Every untouched continuation was read as it was, and for a reason: the query finds
\* it, the vector index names it, or it is linked to an event.
Grounded ==
  /\ \A c \in ToSet(picked) : Untouched(c.id) =>
       /\ c = start.row[c.id]
       /\ \/ ~request.blank /\ Finds(c)
          \/ c.id \in influence
          \/ c.event \in ToSet(events)
  /\ pc \in {"get", "pledges"} =>
       \A id \in ToSet(todo) : Untouched(id) => ~request.blank /\ Finds(start.row[id])

\* What was read and not written meanwhile was found for a reason.
LEMMA GroundedHolds == LensSpec => []Grounded
<1>1. LensInit => Grounded
  BY DEF LensInit, Grounded, ToSet
<1>2. ASSUME History, Reading, Grounded, [LensNext]_lensVars PROVE Grounded'
  <2>1. CASE HandlerStep /\ UNCHANGED <<db, request, touched, start>>
    <3>a. WellFormed(db) /\ IsRequest(request) /\ UNCHANGED <<db, request, touched, start>>
      BY <1>2, <2>1 DEF History
    <3>c. \A id : Untouched(id) => id \in DOMAIN db.row /\ db.row[id] = start.row[id]
      BY <1>2 DEF History, Untouched
    <3>d. picked \in Seq(Continuation)
      BY <1>2 DEF Reading
    <3>e. \A id \in DOMAIN db.row : db.row[id].id = id
      BY <3>a, TablesAre
    <3>f. \A id : Untouched(id) => id \notin touched /\ id \in DOMAIN start.row
      BY DEF Untouched
    <3>g. SUFFICES
            /\ \A c \in ToSet(picked') : Untouched(c.id) =>
                 /\ c = start.row[c.id]
                 /\ \/ ~request.blank /\ Finds(c)
                    \/ c.id \in influence'
                    \/ c.event \in ToSet(events')
            /\ pc' \in {"get", "pledges"} =>
                 \A id \in ToSet(todo') : Untouched(id) => ~request.blank /\ Finds(start.row[id])
      BY <3>a DEF Grounded, Untouched, Finds
    <3>1. CASE SearchLiving
      <4>0. ToSet(<<>>) = {}
        BY DEF ToSet
      <4>1. ~request.blank \/ ToSet(todo') = {}
        BY <3>a, <3>1, <4>0, SearchFinds DEF SearchLiving
      <4>2. ToSet(todo') \subseteq Matching(db, TRUE)
        BY <3>a, <3>1, SearchFinds DEF SearchLiving
      <4>3. \A id \in ToSet(todo') : ~request.blank /\ Finds(db.row[id])
        BY <4>1, <4>2 DEF Matching
      <4>. QED
        BY <1>2, <3>a, <3>c, <3>1, <4>3 DEF SearchLiving, Grounded
    <3>2. CASE GetContinuation
      <4>1. /\ Head(todo) \in DOMAIN db.row /\ Head(todo) \in ToSet(todo)
            /\ ToSet(Tail(todo)) \subseteq ToSet(todo)
        BY <1>2, <3>2, Elements DEF GetContinuation, Reading
      <4>2. ToSet(picked') = ToSet(picked) \cup {db.row[Head(todo)]}
        BY <3>a, <3>d, <3>2, <4>1, WithRow DEF GetContinuation
      <4>. QED
        BY <1>2, <3>a, <3>c, <3>e, <3>2, <4>1, <4>2 DEF GetContinuation, Grounded
    <3>3. CASE AskVectorIndex
      BY <1>2, <3>a, <3>3 DEF AskVectorIndex, Grounded
    <3>4. CASE LoadVectorHit
      <4>1. Head(todo) \in DOMAIN db.row
        BY <1>2, <3>4, Elements DEF LoadVectorHit, Reading
      <4>2. CASE db.row[Head(todo)].status = "active"
        <5>1. ToSet(picked') \subseteq ToSet(picked) \cup {db.row[Head(todo)]}
              /\ influence' = influence \cup {Head(todo)}
          BY <3>a, <3>d, <3>4, <4>1, <4>2, WithRow DEF LoadVectorHit
        <5>. QED
          BY <1>2, <3>a, <3>c, <3>e, <3>4, <4>1, <5>1 DEF LoadVectorHit, Grounded
      <4>3. CASE db.row[Head(todo)].status # "active"
        BY <1>2, <3>a, <3>4, <4>3 DEF LoadVectorHit, Grounded
      <4>. QED
        BY <4>2, <4>3
    <3>5. CASE BeginCommitments
      BY <1>2, <3>a, <3>5 DEF BeginCommitments, Grounded
    <3>6. CASE CollectCommitments
      BY <1>2, <3>a, <3>6 DEF CollectCommitments, Grounded
    <3>7. CASE SearchForCommitments
      <4>1. \A id \in ToSet(todo') : ~request.blank /\ Finds(db.row[id])
        BY <3>a, <3>7, CommitmentsFound DEF SearchForCommitments, Finds
      <4>. QED
        BY <1>2, <3>a, <3>c, <3>7, <4>1 DEF SearchForCommitments, Grounded
    <3>8. CASE TakePledge
      <4>1. /\ Head(todo) \in DOMAIN db.row /\ Head(todo) \in ToSet(todo)
            /\ ToSet(Tail(todo)) \subseteq ToSet(todo)
        BY <1>2, <3>8, Elements DEF TakePledge, Reading
      <4>2. ToSet(picked') \subseteq ToSet(picked) \cup {db.row[Head(todo)]}
        BY <3>a, <3>d, <3>8, <4>1, WithRow DEF TakePledge
      <4>. QED
        BY <1>2, <3>a, <3>c, <3>e, <3>8, <4>1, <4>2 DEF TakePledge, Grounded
    <3>9. CASE BeginRelations
      BY <1>2, <3>a, <3>9 DEF BeginRelations, Grounded
    <3>10. CASE CollectRelations
      BY <1>2, <3>a, <3>10 DEF CollectRelations, Grounded
    <3>11. CASE SearchRaw
      BY <1>2, <3>a, <3>11 DEF SearchRaw, Grounded, ToSet
    <3>12. CASE LoadLinked
      <4>1. ToSet(picked') = ToSet(picked) \cup {db.row[id] : id \in LinkedRows(db, {Head(todo)})}
        BY <3>a, <3>d, <3>12, LinkedRead
      <4>2. Head(todo) \in ToSet(events)
        BY <1>2, <3>12, Elements DEF LoadLinked, Reading
      <4>. QED
        BY <1>2, <3>a, <3>c, <3>e, <3>12, <4>1, <4>2
           DEF LoadLinked, Grounded, LinkedRows
    <3>13. CASE Promote
      BY <1>2, <3>a, <3>13 DEF Promote, Grounded
    <3>14. CASE AnswerWithCard
      BY <1>2, <3>a, <3>14 DEF AnswerWithCard, Grounded
    <3>15. CASE AnswerWithEvents
      BY <1>2, <3>a, <3>15 DEF AnswerWithEvents, Grounded
    <3>. QED
      BY <2>1, <3>1, <3>2, <3>3, <3>4, <3>5, <3>6, <3>7, <3>8, <3>9, <3>10, <3>11, <3>12,
         <3>13, <3>14, <3>15 DEF HandlerStep
  <2>2. CASE Disturbed
    BY <1>2, <2>2 DEF Disturbed, Grounded, handlerVars, Untouched, Finds
  <2>3. CASE UNCHANGED lensVars
    BY <1>2, <2>3 DEF Grounded, lensVars, handlerVars, Untouched, Finds
  <2>. QED
    BY <1>2, <2>1, <2>2, <2>3, StepCases
<1>. QED
  BY <1>1, <1>2, HistoryHolds, ReadingHolds, PTL DEF LensSpec

-----------------------------------------------------------------------------
\* What the card of an answer shows.

\* The projection of a row has its id, its type and its status, and the query in it.
LEMMA Projecting ==
    ASSUME NEW c \in Continuation
    PROVE  LET g == Projection(c)
           IN /\ g \in Continuation
              /\ g.id = c.id /\ g.type = c.type /\ g.status = c.status /\ g.tokens = c.tokens
              /\ c.phrase => g.phrase
              /\ c.event \in promoted => g.phrase
BY DEF Projection, Continuation

\* The card shows only what was read, and of that everything that is not closed and has
\* an activation.
LEMMA CardShows ==
    ASSUME Reading, Outcome, Answered
    PROVE  LET facts == RuleFacts(Given, request) IN
           /\ provenance.continuations = IdsOf(picked)
           /\ \A a \in card.active : \E c \in ToSet(picked) :
                /\ ~IsClosed(c.status)
                /\ a = ActiveFor(Projection(c), request, edges, facts, Strengths[c.id])
           /\ \A c \in ToSet(picked) :
                ~IsClosed(c.status) /\ Activation(Projection(c), request, Strengths[c.id]) > 0 =>
                  c.id \in Shown
           /\ Shown \subseteq IdsOf(picked)
<1> DEFINE facts == RuleFacts(Given, request)
           active == ActiveOf(Given, request, edges, facts, Strengths)
<1>1. \A c \in ToSet(picked) : c \in Continuation
  BY Elements DEF Reading
<1>2. \A c \in ToSet(picked) : Projection(c).id = c.id /\ Projection(c).status = c.status
  BY <1>1, Projecting
<1>3. {g.id : g \in Given} = IdsOf(picked)
  BY <1>2 DEF Given, IdsOf
<1>4. card.active = active
  <2>1. CASE picked # <<>>
    <3>1. card = Generate(request, Given, edges, facts, Strengths, 0)
      BY <2>1 DEF Outcome, Answered
    <3>. QED
      BY <3>1, Generated
  <2>2. CASE picked = <<>>
    <3>1. card.active = {}
      BY <2>2 DEF Outcome, Answered, RawOrEmptyCard, Card
    <3>2. Given = {}
      BY <2>2 DEF Given, ToSet
    <3>3. active = {}
      BY <3>2 DEF ActiveOf
    <3>. QED
      BY <3>1, <3>3
  <2>. QED
    BY <2>1, <2>2
<1>5. provenance.continuations = IdsOf(picked)
  <2>1. picked = <<>> => IdsOf(picked) = {}
    BY DEF IdsOf, ToSet
  <2>. QED
    BY <1>3, <2>1 DEF Outcome, Answered
<1>. HIDE DEF facts
<1>6. \A a \in active : \E c \in ToSet(picked) :
        /\ ~IsClosed(c.status)
        /\ a = ActiveFor(Projection(c), request, edges, facts, Strengths[c.id])
  BY <1>2 DEF ActiveOf, Given
<1>7. \A c \in ToSet(picked) :
        ~IsClosed(c.status) /\ Activation(Projection(c), request, Strengths[c.id]) > 0 =>
          \E a \in active : a = ActiveFor(Projection(c), request, edges, facts, Strengths[c.id])
  BY <1>2 DEF ActiveOf, Given
<1>. HIDE DEF active
<1>8. \A c \in ToSet(picked) :
        ActiveFor(Projection(c), request, edges, facts, Strengths[c.id]).id = c.id
  BY <1>2 DEF ActiveFor
<1>9. Shown \subseteq IdsOf(picked)
  BY <1>4, <1>6, <1>8 DEF Shown, IdsOf
<1>10. \A c \in ToSet(picked) :
         ~IsClosed(c.status) /\ Activation(Projection(c), request, Strengths[c.id]) > 0 =>
           c.id \in Shown
  BY <1>4, <1>7, <1>8 DEF Shown
<1>. QED
  BY <1>4, <1>5, <1>6, <1>9, <1>10 DEF facts

\* The strength the engine is given of a continuation that was read.
LEMMA StrengthsAre ==
    ASSUME Reading, NEW c \in ToSet(picked)
    PROVE  Strengths[c.id] \in 0 .. 100 /\ (c.id \in influence => Strengths[c.id] > 0)
<1>1. \A k \in ToSet(picked) : k \in Continuation
  BY Elements DEF Reading
<1>2. \E g \in Given : g.id = c.id
  BY <1>1, Projecting DEF Given
<1>3. Strengths[c.id] = IF c.id \in influence THEN vector[c.id] ELSE 0
  BY <1>2 DEF Strengths
<1>4. c.id \in influence => vector[c.id] \in 1 .. 100
  BY Zenon DEF Reading
<1>. QED
  BY <1>3, <1>4

\* What is named, untouched and living is shown: the engine finds it, as the selection
\* did, or has its strength from the index, or the query was appended to it.
LEMMA NamedIsShown ==
    ASSUME History, Reading, Outcome, Grounded, Answered,
           NEW id \in IdsOf(picked), Untouched(id), Living(db.row[id].status)
    PROVE  id \in Shown
<1>1. PICK c \in ToSet(picked) : c.id = id
  BY DEF IdsOf
<1>2. c \in Continuation /\ picked # <<>>
  BY Elements DEF Reading, ToSet
<1>3. c = db.row[id] /\ Living(c.status)
  BY <1>1 DEF Grounded, History, Untouched
<1> DEFINE g == Projection(c)
           s == Strengths[c.id]
<1>4. /\ g \in Continuation /\ g.status = c.status /\ g.tokens = c.tokens
      /\ c.phrase => g.phrase
      /\ c.event \in promoted => g.phrase
  BY <1>2, Projecting
<1>5. s \in 0 .. 100 /\ (c.id \in influence => s > 0)
  BY StrengthsAre
<1>6. IsRequest(request) /\ promoted = ToSet(events) /\ (ToSet(events) # {} => ~request.blank)
  <2>1. events = <<>> => ToSet(events) = {}
    BY DEF ToSet
  <2>. QED
    BY <1>2, <2>1 DEF History, Outcome, Answered, Reading
<1>. HIDE DEF g, s
<1>7. SemanticMatch(g, request) > 0 \/ s > 0
  <2>1. CASE ~request.blank /\ Finds(c)
    <3>1. Finds(g)
      BY <1>4, <2>1 DEF Finds
    <3>. QED
      BY <1>4, <1>6, <2>1, <3>1, FoundMatches
  <2>2. CASE c.id \in influence
    BY <1>5, <2>2
  <2>3. CASE c.event \in ToSet(events)
    <3>1. Finds(g) /\ ~request.blank
      BY <1>4, <1>6, <2>3 DEF Finds
    <3>. QED
      BY <1>4, <1>6, <3>1, FoundMatches
  <2>. QED
    BY <1>1, <2>1, <2>2, <2>3 DEF Grounded
<1>8. Activation(g, request, s) > 0
  BY <1>3, <1>4, <1>5, <1>6, <1>7, Pressed
<1>9. ~IsClosed(c.status)
  BY <1>3 DEF Living, IsClosed
<1>. QED
  BY <1>1, <1>8, <1>9, CardShows DEF g, s

\* What the card shows is named as its provenance, and what is named is shown if it is
\* living and was not written meanwhile: however the handler's five ways of reading a
\* continuation come to it, the engine's own match finds a reason to show it too.
THEOREM AnswerGrounded == LensSpec => []AnswerIsGrounded
<1>1. ASSUME History, Reading, Outcome, Grounded PROVE AnswerIsGrounded
  <2>1. Answered => Shown \subseteq provenance.continuations /\ provenance.continuations = IdsOf(picked)
    BY <1>1, CardShows
  <2>. QED
    BY <1>1, <2>1, NamedIsShown DEF AnswerIsGrounded
<1>. QED
  BY <1>1, HistoryHolds, ReadingHolds, OutcomeHolds, GroundedHolds, PTL

-----------------------------------------------------------------------------
\* The constraints read so far were not released before the request, are about what was
\* read, and lack none that was active all the time except what is still to be read.
Bound ==
  /\ \A c \in constraints : c \in DOMAIN start.row => start.pact[c] # "released"
  /\ pc = "pledges" =>
       \A c \in ToSet(todo) : c \in DOMAIN start.row => start.pact[c] # "released"
  /\ constraints \subseteq IdsOf(picked)
  /\ pc = "commitments" => ToSet(todo) \subseteq IdsOf(picked)
  /\ \A id \in IdsOf(picked) : Untouched(id) /\ Constrains(start, id) =>
       /\ pc = "commitments" => id \in constraints \cup ToSet(todo)
       /\ pc \in {"pledges", "relations", "answered"} => id \in constraints

\* No commitment is missed, and none that was released is read, at any query.
LEMMA BoundHolds == LensSpec => []Bound
<1>1. LensInit => Bound
  BY DEF LensInit, Bound, IdsOf, ToSet
<1>2. ASSUME History, Reading, Bound, [LensNext]_lensVars PROVE Bound'
  <2>1. CASE HandlerStep /\ UNCHANGED <<db, request, touched, start>>
    <3>a. WellFormed(db) /\ UNCHANGED <<db, request, touched, start>>
      BY <1>2, <2>1 DEF History
    <3>b. \A id : /\ Untouched(id) /\ Constrains(start, id) => Constrains(db, id)
                  /\ Constrains(db, id) /\ id \in DOMAIN start.row => start.pact[id] # "released"
      BY <1>2 DEF History, Untouched, Constrains
    <3>c. picked \in Seq(Continuation) /\ (picked = <<>> => IdsOf(picked) = {})
      BY <1>2 DEF Reading, IdsOf, ToSet
    <3>d. todo = <<>> => ToSet(todo) = {}
      BY DEF ToSet
    <3>e. todo # <<>> /\ pc # "linked" =>
            /\ Head(todo) \in DOMAIN db.row /\ Head(todo) \in ToSet(todo)
            /\ ToSet(todo) = {Head(todo)} \cup ToSet(Tail(todo))
      BY <1>2, Elements DEF Reading
    <3>f. SUFFICES
            /\ \A c \in constraints' : c \in DOMAIN start.row => start.pact[c] # "released"
            /\ pc' = "pledges" =>
                 \A c \in ToSet(todo') : c \in DOMAIN start.row => start.pact[c] # "released"
            /\ constraints' \subseteq IdsOf(picked')
            /\ pc' = "commitments" => ToSet(todo') \subseteq IdsOf(picked')
            /\ \A id \in IdsOf(picked') : Untouched(id) /\ Constrains(start, id) =>
                 /\ pc' = "commitments" => id \in constraints' \cup ToSet(todo')
                 /\ pc' \in {"pledges", "relations", "answered"} => id \in constraints'
      BY <3>a DEF Bound, Untouched, Constrains, IdsOf
    <3>g. picked' = picked => IdsOf(picked') = IdsOf(picked)
      OBVIOUS
    <3>1. CASE SearchLiving
      BY <1>2, <3>1, <3>g DEF SearchLiving, Bound
    <3>2. CASE GetContinuation
      <4>1. IdsOf(picked') = IdsOf(picked) \cup {Head(todo)}
        BY <3>a, <3>c, <3>e, <3>2, WithRow DEF GetContinuation
      <4>. QED
        BY <1>2, <3>2, <4>1 DEF GetContinuation, Bound
    <3>3. CASE AskVectorIndex
      BY <1>2, <3>3, <3>g DEF AskVectorIndex, Bound
    <3>4. CASE LoadVectorHit
      <4>1. IdsOf(picked) \subseteq IdsOf(picked')
        BY <3>a, <3>c, <3>e, <3>4, <3>g, WithRow DEF LoadVectorHit
      <4>. QED
        BY <1>2, <3>4, <4>1 DEF LoadVectorHit, Bound
    <3>5. CASE BeginCommitments
      BY <1>2, <3>5, <3>g, IdsRead DEF BeginCommitments, Bound
    <3>6. CASE CollectCommitments
      <4>1. constraints' = constraints \cup {c \in {Head(todo)} : Constrains(db, c)}
        BY <3>6 DEF CollectCommitments, CommitmentsOf
      <4>. QED
        BY <1>2, <3>b, <3>e, <3>6, <3>g, <4>1 DEF CollectCommitments, Bound
    <3>7. CASE SearchForCommitments
      <4>1. \A id \in ToSet(todo') : Constrains(db, id)
        BY <3>a, <3>7, CommitmentsFound DEF SearchForCommitments
      <4>. QED
        BY <1>2, <3>b, <3>d, <3>7, <3>g, <4>1 DEF SearchForCommitments, Bound
    <3>8. CASE TakePledge
      <4>1. CASE Head(todo) \in constraints
        BY <1>2, <3>e, <3>8, <3>g, <4>1 DEF TakePledge, Bound
      <4>2. CASE Head(todo) \notin constraints
        <5>1. IdsOf(picked') = IdsOf(picked) \cup {Head(todo)}
          BY <3>a, <3>c, <3>e, <3>8, <4>2, WithRow DEF TakePledge
        <5>. QED
          BY <1>2, <3>e, <3>8, <4>2, <5>1 DEF TakePledge, Bound
      <4>. QED
        BY <4>1, <4>2
    <3>9. CASE BeginRelations
      BY <1>2, <3>d, <3>9, <3>g DEF BeginRelations, Bound
    <3>10. CASE CollectRelations
      BY <1>2, <3>10, <3>g DEF CollectRelations, Bound
    <3>11. CASE SearchRaw
      BY <1>2, <3>11, <3>g DEF SearchRaw, Bound
    <3>12. CASE LoadLinked
      <4>1. IdsOf(picked) \subseteq IdsOf(picked')
        BY <3>a, <3>c, <3>12, LinkedRead
      <4>. QED
        BY <1>2, <3>12, <4>1 DEF LoadLinked, Bound
    <3>13. CASE Promote
      BY <1>2, <3>13, <3>g, IdsRead DEF Promote, Bound
    <3>14. CASE AnswerWithCard
      BY <1>2, <3>14, <3>g DEF AnswerWithCard, Bound
    <3>15. CASE AnswerWithEvents
      BY <1>2, <3>c, <3>15, <3>g DEF AnswerWithEvents, Bound
    <3>. QED
      BY <2>1, <3>1, <3>2, <3>3, <3>4, <3>5, <3>6, <3>7, <3>8, <3>9, <3>10, <3>11, <3>12,
         <3>13, <3>14, <3>15 DEF HandlerStep
  <2>2. CASE Disturbed
    <3>1. UNCHANGED <<start, pc, todo, picked, constraints>> /\ touched \subseteq touched'
      BY <2>2 DEF Disturbed, handlerVars
    <3>2. \A id : Untouched(id)' => Untouched(id)
      BY <3>1 DEF Untouched
    <3>3. \A id : Constrains(start, id)' <=> Constrains(start, id)
      BY <3>1 DEF Constrains
    <3>. QED
      BY <1>2, <3>1, <3>2, <3>3 DEF Bound, IdsOf
  <2>3. CASE UNCHANGED lensVars
    BY <1>2, <2>3 DEF Bound, lensVars, handlerVars, Untouched, Constrains, IdsOf
  <2>. QED
    BY <1>2, <2>1, <2>2, <2>3, StepCases
<1>. QED
  BY <1>1, <1>2, HistoryHolds, ReadingHolds, PTL DEF LensSpec

\* Commitments bind the lens exactly while they hold, though they are read one
\* continuation after the other in no transaction, and then searched for once more.
THEOREM CommitmentsBind == LensSpec => []ConstraintsHold
<1>1. ASSUME History, Reading, Outcome, Bound PROVE ConstraintsHold
  <2>1. Answered => Shown \subseteq IdsOf(picked) /\ provenance.continuations = IdsOf(picked)
    BY <1>1, CardShows
  <2>2. \A id : Untouched(id) /\ Constrains(db, id) => Constrains(start, id)
    BY <1>1 DEF History, Untouched, Constrains
  <2>. QED
    BY <1>1, <2>1, <2>2 DEF ConstraintsHold, Bound, Answered
<1>. QED
  BY <1>1, HistoryHolds, ReadingHolds, OutcomeHolds, BoundHolds, PTL

-----------------------------------------------------------------------------
\* An edge of the start whose ends nobody wrote, and which were active.
Standing(e) ==
  /\ e \in start.edges
  /\ \A id \in {e.from, e.to} : Untouched(id) /\ start.row[id].status = "active"

\* Every such edge of a continuation that was read is read as well, or still to be.
Related ==
  pc \in {"relations", "answered"} =>
    \A e \in start.edges : Standing(e) /\ {e.from, e.to} \cap IdsOf(picked) # {} =>
      e \in edges \/ (pc = "relations" /\ {e.from, e.to} \cap ToSet(todo) # {})

\* No standing relation of what was read is missed.
LEMMA RelatedHolds == LensSpec => []Related
<1>1. LensInit => Related
  BY DEF LensInit, Related
<1>2. ASSUME History, Reading, Related, [LensNext]_lensVars PROVE Related'
  <2>1. CASE HandlerStep /\ UNCHANGED <<db, request, touched, start>>
    <3>a. \A e : Standing(e)' <=> Standing(e)
      BY <2>1 DEF Standing, Untouched
    <3>b. start' = start
      BY <2>1
    <3>c. picked' = picked => IdsOf(picked') = IdsOf(picked)
      OBVIOUS
    <3>1. CASE BeginRelations
      <4>1. pc' = "relations" /\ picked' = picked /\ ToSet(todo') = IdsOf(picked)
        BY <1>2, <3>1, IdsRead DEF BeginRelations
      <4>. QED
        BY <3>a, <3>b, <3>c, <4>1 DEF Related, IdsOf
    <3>2. CASE CollectRelations
      <4>1. /\ pc = "relations" /\ pc' = "relations" /\ picked' = picked /\ todo' = Tail(todo)
            /\ edges' = edges \cup RelationsOf(db, Head(todo))
        BY <3>2 DEF CollectRelations
      <4>2. ToSet(todo) = {Head(todo)} \cup ToSet(todo')
        BY <1>2, <3>2, <4>1, Elements DEF CollectRelations, Reading
      <4>3. ASSUME NEW e \in start.edges, Standing(e), Head(todo) \in {e.from, e.to}
            PROVE  e \in RelationsOf(db, Head(todo))
        BY <1>2, <4>3 DEF Standing, Untouched, History, RelationsOf
      <4>4. \A e \in start.edges : Standing(e) /\ {e.from, e.to} \cap IdsOf(picked) # {} =>
              e \in edges' \/ {e.from, e.to} \cap ToSet(todo') # {}
        BY <1>2, <4>1, <4>2, <4>3 DEF Related
      <4>. QED
        BY <3>a, <3>b, <3>c, <4>1, <4>4 DEF Related, IdsOf
    <3>3. CASE AnswerWithCard
      <4>1. UNCHANGED <<picked, edges>> /\ ToSet(todo) = {} /\ pc = "relations"
        BY <3>3 DEF AnswerWithCard, ToSet
      <4>. QED
        BY <1>2, <3>a, <3>b, <3>c, <4>1 DEF Related, IdsOf
    <3>4. CASE AnswerWithEvents
      <4>1. IdsOf(picked') = {}
        BY <3>4 DEF AnswerWithEvents, IdsOf, ToSet
      <4>. QED
        BY <4>1 DEF Related, IdsOf
    <3>5. CASE pc' \notin {"relations", "answered"}
      BY <3>5 DEF Related
    <3>6. pc' \in {"relations", "answered"} =>
            BeginRelations \/ CollectRelations \/ AnswerWithCard \/ AnswerWithEvents
      BY <2>1 DEF HandlerStep, SearchLiving, GetContinuation, AskVectorIndex, LoadVectorHit,
            BeginCommitments, CollectCommitments, SearchForCommitments, TakePledge,
            SearchRaw, LoadLinked, Promote
    <3>. QED
      BY <3>1, <3>2, <3>3, <3>4, <3>5, <3>6
  <2>2. CASE Disturbed
    <3>1. UNCHANGED <<start, pc, todo, picked, edges>> /\ touched \subseteq touched'
      BY <2>2 DEF Disturbed, handlerVars
    <3>2. \A e : Standing(e)' => Standing(e)
      BY <3>1 DEF Standing, Untouched
    <3>. QED
      BY <1>2, <3>1, <3>2 DEF Related, IdsOf
  <2>3. CASE UNCHANGED lensVars
    BY <1>2, <2>3 DEF Related, lensVars, handlerVars, Standing, Untouched, IdsOf
  <2>. QED
    BY <1>2, <2>1, <2>2, <2>3, StepCases
<1>. QED
  BY <1>1, <1>2, HistoryHolds, ReadingHolds, PTL DEF LensSpec

\* A continuation that is blocked or in conflict all the time of the request is not
\* advanced, however the edges were read while other relations were being made.
THEOREM BlockedIsVerified == LensSpec => []BlockedNotAdvanced
<1>1. ASSUME History, Reading, Outcome, Related PROVE BlockedNotAdvanced
  <2>1. SUFFICES
          ASSUME Answered, NEW e \in start.edges,
                 \A id \in {e.from, e.to} : Untouched(id) /\ db.row[id].status = "active",
                 \/ e.kind = "conflicts" /\ {e.from, e.to} \cap Shown # {}
                 \/ e.kind = "blocks" /\ e.to \in Shown
          PROVE  card.preferred = Nothing /\ card.stance = "verify"
    BY DEF BlockedNotAdvanced
  <2>2. Shown \subseteq IdsOf(picked)
    BY <1>1, <2>1, CardShows
  <2>3. Standing(e)
    BY <1>1, <2>1 DEF Standing, History, Untouched
  <2>4. e \in edges
    BY <1>1, <2>1, <2>2, <2>3 DEF Related, Answered
  <2>5. card.active # {} /\ RelationBoundaries(card.active, edges) # {}
    BY <2>1, <2>4 DEF RelationBoundaries, Shown
  <2>6. card = Generate(request, Given, edges, RuleFacts(Given, request), Strengths, 0)
    <3>1. RawOrEmptyCard(Len(events)).active = {}
      BY DEF RawOrEmptyCard, Card
    <3>. QED
      BY <1>1, <2>1, <2>5, <3>1 DEF Outcome, Answered
  <2>. QED
    BY <2>5, <2>6, Generated
<1>. QED
  BY <1>1, HistoryHolds, ReadingHolds, OutcomeHolds, RelatedHolds, PTL

-----------------------------------------------------------------------------
\* Nothing that was read is dropped.
LEMMA PickedGrows ==
    ASSUME History, Reading, HandlerStep
    PROVE  /\ IdsOf(picked) \subseteq IdsOf(picked')
           /\ GetContinuation => IdsOf(picked') = IdsOf(picked) \cup {Head(todo)}
<1>1. WellFormed(db) /\ picked \in Seq(Continuation)
  BY DEF History, Reading
<1>2. todo # <<>> /\ pc # "linked" => Head(todo) \in DOMAIN db.row
  BY Elements DEF Reading
<1>3. picked' = picked => IdsOf(picked') = IdsOf(picked)
  OBVIOUS
<1>4. GetContinuation => IdsOf(picked') = IdsOf(picked) \cup {Head(todo)}
  BY <1>1, <1>2, WithRow DEF GetContinuation
<1>5. LoadVectorHit => IdsOf(picked) \subseteq IdsOf(picked')
  BY <1>1, <1>2, <1>3, WithRow DEF LoadVectorHit
<1>6. TakePledge => IdsOf(picked) \subseteq IdsOf(picked')
  BY <1>1, <1>2, <1>3, WithRow DEF TakePledge
<1>7. LoadLinked => IdsOf(picked) \subseteq IdsOf(picked')
  BY <1>1, LinkedRead
<1>8. GetContinuation \/ LoadVectorHit \/ TakePledge \/ LoadLinked \/ picked' = picked
  BY DEF HandlerStep, SearchLiving, AskVectorIndex, BeginCommitments, CollectCommitments,
     SearchForCommitments, BeginRelations, CollectRelations, SearchRaw, Promote,
     AnswerWithCard, AnswerWithEvents
<1>. QED
  BY <1>3, <1>4, <1>5, <1>6, <1>7, <1>8

\* A row that contained the query all the time, and one active all the time and linked
\* to an event that was found.
Literal(id) == Untouched(id) /\ Living(start.row[id].status) /\ start.row[id].phrase
LinkedToEvent(id) ==
  Untouched(id) /\ start.row[id].status = "active" /\ start.row[id].event \in ToSet(events)

\* Where there is a row of the first kind something is read, and every row of the
\* second kind is.
Recalled ==
  /\ pc # "search" /\ ~request.blank /\ (\E id \in DOMAIN start.row : Literal(id)) =>
       IdsOf(picked) # {} \/ (pc = "get" /\ todo # <<>>)
  /\ \A id \in DOMAIN start.row : LinkedToEvent(id) =>
       id \in IdsOf(picked) \/ (pc = "linked" /\ start.row[id].event \in ToSet(todo))

\* Whatever contains the query or is linked to an event found is read.
LEMMA RecalledHolds == LensSpec => []Recalled
<1>1. LensInit => Recalled
  BY DEF LensInit, Recalled, LinkedToEvent, ToSet
<1>2. ASSUME History, Reading, Recalled, [LensNext]_lensVars PROVE Recalled'
  <2>1. CASE HandlerStep /\ UNCHANGED <<db, request, touched, start>>
    <3>a. WellFormed(db) /\ IsRequest(request) /\ UNCHANGED <<db, request, touched, start>>
      BY <1>2, <2>1 DEF History
    <3>b. \A id : Untouched(id) => id \in DOMAIN db.row /\ db.row[id] = start.row[id]
      BY <1>2 DEF History, Untouched
    <3>c. IdsOf(picked) \subseteq IdsOf(picked')
      BY <1>2, <2>1, PickedGrows
    <3>1. pc' # "search" /\ ~request.blank /\ (\E id \in DOMAIN start.row : Literal(id)) =>
            IdsOf(picked') # {} \/ (pc' = "get" /\ todo' # <<>>)
      <4>1. CASE SearchLiving
        <5>1. (\E id \in DOMAIN start.row : Literal(id)) => Phrased(db, TRUE) # {}
          BY <3>b DEF Literal, Phrased, Searchable
        <5>2. ~request.blank /\ Phrased(db, TRUE) # {} => ToSet(todo') # {}
          BY <3>a, <4>1, SearchFinds DEF SearchLiving
        <5>3. todo' = <<>> => ToSet(todo') = {}
          BY DEF ToSet
        <5>. QED
          BY <4>1, <5>1, <5>2, <5>3 DEF SearchLiving
      <4>2. CASE GetContinuation
        BY <1>2, <2>1, <4>2, PickedGrows
      <4>3. CASE ~ (SearchLiving \/ GetContinuation)
        <5>1. pc # "search" /\ (pc = "get" => todo = <<>>)
          BY <2>1, <4>3 DEF HandlerStep, AskVectorIndex, LoadVectorHit, BeginCommitments,
             CollectCommitments, SearchForCommitments, TakePledge, BeginRelations, CollectRelations,
             SearchRaw, LoadLinked, Promote, AnswerWithCard, AnswerWithEvents
        <5>. QED
          BY <1>2, <3>c, <5>1 DEF Recalled
      <4>. QED
        BY <4>1, <4>2, <4>3
    <3>2. ASSUME NEW id \in DOMAIN start.row, Untouched(id), start.row[id].status = "active",
                 start.row[id].event \in ToSet(events')
          PROVE  id \in IdsOf(picked') \/ (pc' = "linked" /\ start.row[id].event \in ToSet(todo'))
      <4>1. CASE SearchRaw
        BY <3>2, <4>1 DEF SearchRaw
      <4>2. CASE LoadLinked
        <5>1. /\ pc = "linked" /\ pc' = "linked" /\ todo' = Tail(todo) /\ events' = events
              /\ ToSet(todo) = {Head(todo)} \cup ToSet(Tail(todo))
          BY <1>2, <4>2, Elements DEF LoadLinked, Reading
        <5>2. start.row[id].event = Head(todo) => id \in LinkedRows(db, {Head(todo)})
          BY <3>b, <3>2 DEF LinkedRows
        <5>3. LinkedRows(db, {Head(todo)}) \subseteq IdsOf(picked')
          BY <1>2, <3>a, <4>2, LinkedRead DEF Reading
        <5>4. id \in IdsOf(picked) \/ start.row[id].event \in ToSet(todo)
          BY <1>2, <3>2, <5>1 DEF Recalled, LinkedToEvent
        <5>. QED
          BY <3>c, <5>1, <5>2, <5>3, <5>4
      <4>3. CASE ~ (SearchRaw \/ LoadLinked)
        <5>1. events' = events /\ (pc = "linked" => todo = <<>>)
          BY <2>1, <4>3 DEF HandlerStep, SearchLiving, GetContinuation, AskVectorIndex, LoadVectorHit,
             BeginCommitments, CollectCommitments, SearchForCommitments, TakePledge, BeginRelations,
             CollectRelations, Promote, AnswerWithCard, AnswerWithEvents
        <5>2. todo = <<>> => ToSet(todo) = {}
          BY DEF ToSet
        <5>. QED
          BY <1>2, <3>c, <3>2, <5>1, <5>2 DEF Recalled, LinkedToEvent
      <4>. QED
        BY <4>1, <4>2, <4>3
    <3>. QED
      BY <3>a, <3>1, <3>2 DEF Recalled, Literal, LinkedToEvent, Untouched, IdsOf
  <2>2. CASE Disturbed
    <3>1. UNCHANGED <<start, request, pc, todo, picked, events>> /\ touched \subseteq touched'
      BY <2>2 DEF Disturbed, handlerVars
    <3>2. \A id : (Literal(id)' => Literal(id)) /\ (LinkedToEvent(id)' => LinkedToEvent(id))
      BY <3>1 DEF Literal, LinkedToEvent, Untouched
    <3>. QED
      BY <1>2, <3>1, <3>2 DEF Recalled, IdsOf
  <2>3. CASE UNCHANGED lensVars
    BY <1>2, <2>3 DEF Recalled, lensVars, handlerVars, Literal, LinkedToEvent, Untouched, IdsOf
  <2>. QED
    BY <1>2, <2>1, <2>2, <2>3, StepCases
<1>. QED
  BY <1>1, <1>2, HistoryHolds, ReadingHolds, PTL DEF LensSpec

\* An answer from raw events, or from nothing, hides no continuation that contained the
\* query all the time, at no limit, and none that is linked to an event it names.
THEOREM RecallIsHonest == LensSpec => []RecallHidesNothing
<1>1. ASSUME History, Reading, Outcome, Recalled PROVE RecallHidesNothing
  <2>1. SUFFICES
          ASSUME Answered, provenance.continuations = {}, NEW id \in DOMAIN db.row, Untouched(id)
          PROVE  /\ ~ (Living(db.row[id].status) /\ db.row[id].phrase /\ ~request.blank)
                 /\ ~ (db.row[id].status = "active" /\ db.row[id].event \in provenance.events)
    BY DEF RecallHidesNothing
  <2>2. IdsOf(picked) = {}
    BY <1>1, <2>1, CardShows
  <2>3. id \in DOMAIN start.row /\ db.row[id] = start.row[id]
    BY <1>1, <2>1 DEF History, Untouched
  <2>4. picked = <<>>
    <3>1. picked # <<>> => ToSet(picked) # {}
      BY <1>1, Elements DEF Reading
    <3>. QED
      BY <2>2, <3>1 DEF IdsOf
  <2>5. provenance.events = ToSet(events)
    BY <1>1, <2>1, <2>4 DEF Outcome, Answered
  <2>6. ~ (\E k \in DOMAIN start.row : Literal(k)) \/ request.blank
    BY <1>1, <2>1, <2>2 DEF Recalled, Answered
  <2>7. ~ LinkedToEvent(id)
    BY <1>1, <2>1, <2>2, <2>3 DEF Recalled, Answered
  <2>8. request.blank \in BOOLEAN
    BY <1>1 DEF History, IsRequest
  <2>. QED
    BY <2>1, <2>3, <2>5, <2>6, <2>7, <2>8 DEF Literal, LinkedToEvent
<1>. QED
  BY <1>1, HistoryHolds, ReadingHolds, OutcomeHolds, RecalledHolds, PTL

-----------------------------------------------------------------------------
\* No limit is reached, by what matches now and by what was written meanwhile.
MatchRivals == Rivals({id \in DOMAIN db.row : Matches(id)})
TokenRivals(token) == Rivals({id \in DOMAIN db.row : token \in db.row[id].tokens})

Roomy ==
  /\ Cardinality(MatchRivals) <= ResultLimit
  /\ \A token \in ToSet(SearchedTokens(request)) :
       Cardinality(TokenRivals(token)) <= TokenCandidateLimit

\* A part of a finite set is no larger than the set.
LEMMA SmallerSet ==
    ASSUME NEW S, NEW T, IsFiniteSet(T), S \subseteq T, NEW n \in Nat, Cardinality(T) <= n
    PROVE  Cardinality(S) <= n
<1>1. IsFiniteSet(S) /\ Cardinality(S) <= Cardinality(T)
  BY FS_Subset
<1>2. Cardinality(S) \in Nat /\ Cardinality(T) \in Nat
  BY <1>1, FS_CardinalityType
<1>. QED
  BY <1>1, <1>2

\* The rows that may take a place are finitely many.
LEMMA RivalsAreFinite ==
    ASSUME WellFormed(db), NEW token
    PROVE  IsFiniteSet(MatchRivals) /\ IsFiniteSet(TokenRivals(token))
<1>1. MatchRivals \in SUBSET DOMAIN db.row /\ TokenRivals(token) \in SUBSET DOMAIN db.row
  BY DEF MatchRivals, TokenRivals, Rivals
<1>. QED
  BY <1>1, TablesAre

\* A write only adds to what might take a place.
LEMMA RoomWasThere ==
    ASSUME History, WellFormed(db)', Disturbed, Roomy'
    PROVE  Roomy
<1>1. /\ request' = request /\ touched \subseteq touched' /\ DOMAIN db.row \subseteq DOMAIN db'.row
      /\ \A id \in DOMAIN db.row :
           /\ db'.row[id].phrase = db.row[id].phrase /\ db'.row[id].tokens = db.row[id].tokens
           /\ id \notin touched' => db'.row[id] = db.row[id]
  <2>1. \A id \in DOMAIN db.row : db.row[id] \in Continuation
    BY TablesAre DEF History
  <2>2. \A id \in DOMAIN db.row : db'.row[id] = [db.row[id] EXCEPT !.status = db'.row[id].status]
    BY DEF Disturbed
  <2>3. \A id \in DOMAIN db.row :
          db'.row[id].phrase = db.row[id].phrase /\ db'.row[id].tokens = db.row[id].tokens
    BY <2>1, <2>2 DEF Continuation
  <2>. QED
    BY <2>3 DEF Disturbed
<1>2. \A id \in DOMAIN db.row : Matches(id) => Matches(id)'
  BY <1>1 DEF Matches, TokenHits
<1>3. \A id \in DOMAIN db.row :
        id \in touched \/ Living(db.row[id].status) => id \in touched' \/ Living(db'.row[id].status)
  BY <1>1
<1>4. MatchRivals \subseteq MatchRivals'
  BY <1>1, <1>2, <1>3 DEF MatchRivals, Rivals
<1>5. \A token : TokenRivals(token) \subseteq TokenRivals(token)'
  BY <1>1, <1>3 DEF TokenRivals, Rivals
<1>6. IsFiniteSet(MatchRivals') /\ \A token : IsFiniteSet(TokenRivals(token)')
  <2>1. IsFiniteSet(DOMAIN db'.row)
    BY DEF WellFormed
  <2>2. /\ MatchRivals' \in SUBSET DOMAIN db'.row
        /\ \A token : TokenRivals(token)' \in SUBSET DOMAIN db'.row
    BY DEF MatchRivals, TokenRivals, Rivals
  <2>. QED
    BY <2>1, <2>2, FS_Subset
<1>7. ResultLimit \in Nat /\ TokenCandidateLimit \in Nat
  BY SearchAssumption
<1>8. Cardinality(MatchRivals) <= ResultLimit
  BY <1>4, <1>6, <1>7, SmallerSet DEF Roomy
<1>9. ASSUME NEW token \in ToSet(SearchedTokens(request))
      PROVE  Cardinality(TokenRivals(token)) <= TokenCandidateLimit
  <2>1. Cardinality(TokenRivals(token)') <= TokenCandidateLimit
    BY <1>1 DEF Roomy
  <2>. QED
    BY <1>5, <1>6, <1>7, <2>1, SmallerSet
<1>. QED
  BY <1>8, <1>9 DEF Roomy

\* Below the limits every untouched living row that matches is read, or still to be.
Wanted(id) == Untouched(id) /\ Living(start.row[id].status) /\ Finds(start.row[id])

Complete ==
  pc # "search" /\ ~request.blank /\ Roomy =>
    \A id \in DOMAIN start.row : Wanted(id) =>
      id \in IdsOf(picked) \/ (pc = "get" /\ id \in ToSet(todo))

\* Below the limits nothing that matches is missed.
LEMMA CompleteHolds == LensSpec => []Complete
<1>1. LensInit => Complete
  BY DEF LensInit, Complete
<1>2. ASSUME History, History', Reading, Complete, [LensNext]_lensVars PROVE Complete'
  <2>1. CASE HandlerStep /\ UNCHANGED <<db, request, touched, start>>
    <3>a. WellFormed(db) /\ IsRequest(request) /\ UNCHANGED <<db, request, touched, start>>
      BY <1>2, <2>1 DEF History
    <3>b. Roomy' <=> Roomy
      BY <3>a DEF Roomy, MatchRivals, TokenRivals, Rivals, Matches, TokenHits
    <3>c. \A id : Wanted(id)' <=> Wanted(id)
      BY <3>a DEF Wanted, Untouched, Finds
    <3>d. IdsOf(picked) \subseteq IdsOf(picked')
      BY <1>2, <2>1, PickedGrows
    <3>1. CASE SearchLiving
      <4>1. SUFFICES ASSUME ~request.blank, Roomy, NEW id \in DOMAIN start.row, Wanted(id)
                     PROVE  id \in ToSet(todo')
        BY <3>a, <3>b, <3>c, <3>1 DEF SearchLiving, Complete
      <4>2. Matching(db, TRUE) \subseteq MatchRivals
        BY DEF Matching, MatchRivals, Rivals, Matches, Finds, TokenHits, Searchable
      <4>3. \A token : Holders(db, token, TRUE) \subseteq TokenRivals(token)
        BY DEF Holders, TokenRivals, Rivals, Searchable
      <4>4. ResultLimit \in Nat /\ TokenCandidateLimit \in Nat
        BY SearchAssumption
      <4>5. Cardinality(Matching(db, TRUE)) <= ResultLimit
        BY <3>a, <4>1, <4>2, <4>4, RivalsAreFinite, SmallerSet DEF Roomy
      <4>6. \A token \in ToSet(SearchedTokens(request)) :
              Cardinality(Holders(db, token, TRUE)) <= TokenCandidateLimit
        BY <3>a, <4>1, <4>3, <4>4, RivalsAreFinite, SmallerSet DEF Roomy
      <4>7. ToSet(todo') = Matching(db, TRUE)
        BY <3>a, <3>1, <4>1, <4>5, <4>6, SearchFinds DEF SearchLiving
      <4>8. id \in DOMAIN db.row /\ db.row[id] = start.row[id]
        BY <1>2, <4>1 DEF Wanted, Untouched, History
      <4>. QED
        BY <4>1, <4>7, <4>8 DEF Wanted, Matching, Searchable
    <3>2. CASE GetContinuation
      <4>1. /\ pc = "get" /\ pc' = "get" /\ todo' = Tail(todo)
            /\ ToSet(todo) = {Head(todo)} \cup ToSet(Tail(todo))
        BY <1>2, <3>2, Elements DEF GetContinuation, Reading
      <4>2. IdsOf(picked') = IdsOf(picked) \cup {Head(todo)}
        BY <1>2, <2>1, <3>2, PickedGrows
      <4>. QED
        BY <1>2, <3>a, <3>b, <3>c, <4>1, <4>2 DEF Complete, IdsOf
    <3>3. CASE ~ (SearchLiving \/ GetContinuation)
      <4>1. pc # "search" /\ (pc = "get" => todo = <<>>)
        BY <2>1, <3>3 DEF HandlerStep, AskVectorIndex, LoadVectorHit, BeginCommitments,
           CollectCommitments, SearchForCommitments, TakePledge, BeginRelations, CollectRelations,
           SearchRaw, LoadLinked, Promote, AnswerWithCard, AnswerWithEvents
      <4>2. todo = <<>> => ToSet(todo) = {}
        BY DEF ToSet
      <4>. QED
        BY <1>2, <3>a, <3>b, <3>c, <3>d, <4>1, <4>2 DEF Complete, IdsOf
    <3>. QED
      BY <3>1, <3>2, <3>3
  <2>2. CASE Disturbed
    <3>1. UNCHANGED <<start, request, pc, todo, picked>> /\ touched \subseteq touched'
      BY <2>2 DEF Disturbed, handlerVars
    <3>2. \A id : Wanted(id)' => Wanted(id)
      BY <3>1 DEF Wanted, Untouched, Finds
    <3>3. Roomy' => Roomy
      BY <1>2, <2>2, RoomWasThere DEF History
    <3>. QED
      BY <1>2, <3>1, <3>2, <3>3 DEF Complete, IdsOf
  <2>3. CASE UNCHANGED lensVars
    <3>1. UNCHANGED <<db, start, request, pc, todo, picked, touched>>
      BY <2>3 DEF lensVars, handlerVars
    <3>2. Roomy' <=> Roomy
      BY <3>1 DEF Roomy, MatchRivals, TokenRivals, Rivals, Matches, TokenHits
    <3>3. \A id : Wanted(id)' <=> Wanted(id)
      BY <3>1 DEF Wanted, Untouched, Finds
    <3>. QED
      BY <1>2, <3>1, <3>2, <3>3 DEF Complete, IdsOf
  <2>. QED
    BY <1>2, <2>1, <2>2, <2>3, StepCases
<1>. QED
  BY <1>1, <1>2, HistoryHolds, ReadingHolds, PTL DEF LensSpec

\* Below the limits, every living continuation that matches the query and is not written
\* meanwhile is on the card, at any values of the limits: closed ones and those of
\* other tokens never take its place.
THEOREM MatchesAreShown == LensSpec => []LivingMatchesShown
<1>1. ASSUME History, Reading, Outcome, Grounded, Complete PROVE LivingMatchesShown
  <2>1. SUFFICES
          ASSUME Answered, ~request.blank, Roomy, NEW id \in DOMAIN db.row,
                 Untouched(id), Living(db.row[id].status), Matches(id)
          PROVE  id \in Shown
    BY DEF LivingMatchesShown, Roomy, MatchRivals, TokenRivals
  <2>2. id \in DOMAIN start.row /\ db.row[id] = start.row[id]
    BY <1>1, <2>1 DEF History, Untouched
  <2>3. Wanted(id)
    BY <2>1, <2>2 DEF Wanted, Matches, Finds, TokenHits
  <2>4. id \in IdsOf(picked)
    BY <1>1, <2>1, <2>2, <2>3 DEF Complete, Answered
  <2>. QED
    BY <1>1, <2>1, <2>4, NamedIsShown
<1>. QED
  BY <1>1, HistoryHolds, ReadingHolds, OutcomeHolds, GroundedHolds, CompleteHolds, PTL

-----------------------------------------------------------------------------
\* No continuation is read twice: a search names each once, the index and the
\* commitments name only others, and a continuation is linked to one event, which is
\* found once.
Distinct ==
  /\ \A c, d \in ToSet(picked) : c.id = d.id => c = d
  /\ pc = "get" => IsInjective(todo) /\ ToSet(todo) \cap IdsOf(picked) = {}
  /\ pc = "linked" =>
       /\ IsInjective(todo)
       /\ \A c \in ToSet(picked) : c.event = db.row[c.id].event /\ c.event \notin ToSet(todo)

\* No continuation is read twice.
LEMMA DistinctHolds == LensSpec => []Distinct
<1>1. LensInit => Distinct
  BY DEF LensInit, Distinct, ToSet
<1>2. ASSUME History, Reading, Distinct, [LensNext]_lensVars PROVE Distinct'
  <2>1. CASE HandlerStep /\ UNCHANGED <<db, request, touched, start>>
    <3>a. WellFormed(db) /\ IsRequest(request) /\ UNCHANGED db /\ picked \in Seq(Continuation)
      BY <1>2, <2>1 DEF History, Reading
    <3>b. \A id \in DOMAIN db.row : db.row[id].id = id
      BY <3>a, TablesAre
    <3>c. picked' = picked => \A c, d \in ToSet(picked') : c.id = d.id => c = d
      BY <1>2 DEF Distinct
    <3>d. \A c \in ToSet(picked) : c.id \in IdsOf(picked)
      BY DEF IdsOf
    <3>e. todo # <<>> /\ pc # "linked" => Head(todo) \in DOMAIN db.row
      BY <1>2, Elements DEF Reading
    <3>1. CASE SearchLiving
      <4>1. IsInjective(todo')
        BY <3>a, <3>1, SearchFinds DEF SearchLiving
      <4>2. picked = <<>> /\ picked' = picked /\ IdsOf(picked') = {}
        BY <1>2, <3>1 DEF SearchLiving, Reading, IdsOf, ToSet
      <4>. QED
        BY <3>1, <3>c, <4>1, <4>2 DEF SearchLiving, Distinct, IdsOf
    <3>2. CASE GetContinuation
      <4>1. /\ IsInjective(Tail(todo)) /\ Head(todo) \notin ToSet(Tail(todo))
            /\ ToSet(todo) = {Head(todo)} \cup ToSet(Tail(todo))
        BY <1>2, <3>2, OnceEach, Elements DEF GetContinuation, Reading, Distinct
      <4>2. /\ ToSet(picked') = ToSet(picked) \cup {db.row[Head(todo)]}
            /\ IdsOf(picked') = IdsOf(picked) \cup {Head(todo)}
        BY <3>a, <3>e, <3>2, WithRow DEF GetContinuation
      <4>3. Head(todo) \notin IdsOf(picked) /\ ToSet(todo) \cap IdsOf(picked) = {}
        BY <1>2, <3>2, <4>1 DEF GetContinuation, Distinct
      <4>4. \A c, d \in ToSet(picked') : c.id = d.id => c = d
        BY <1>2, <3>b, <3>d, <3>e, <3>2, <4>2, <4>3 DEF GetContinuation, Distinct
      <4>5. pc' = "get" /\ todo' = Tail(todo)
        BY <3>2 DEF GetContinuation
      <4>6. ToSet(Tail(todo)) \cap IdsOf(picked') = {}
        BY <4>1, <4>2, <4>3
      <4>. QED
        BY <4>1, <4>4, <4>5, <4>6 DEF Distinct, IdsOf
    <3>3. CASE LoadVectorHit \/ TakePledge
      <4>1. picked' = picked \/ picked' = With(picked, Head(todo))
        BY <3>3 DEF LoadVectorHit, TakePledge
      <4>2. todo # <<>> /\ pc' \in {"vector", "pledges"} /\ Head(todo) \in DOMAIN db.row
        BY <3>e, <3>3 DEF LoadVectorHit, TakePledge
      <4>3. \/ picked' = picked
            \/ Head(todo) \notin IdsOf(picked) /\ ToSet(picked') = ToSet(picked) \cup {db.row[Head(todo)]}
        <5>1. Head(todo) \in IdsOf(picked) => With(picked, Head(todo)) = picked
          BY <3>a, <4>2, WithRow
        <5>2. Head(todo) \notin IdsOf(picked) =>
                ToSet(With(picked, Head(todo))) = ToSet(picked) \cup {db.row[Head(todo)]}
          BY <3>a, <4>2, WithRow
        <5>. QED
          BY <4>1, <5>1, <5>2
      <4>4. \A c, d \in ToSet(picked') : c.id = d.id => c = d
        BY <1>2, <3>b, <3>c, <3>d, <4>2, <4>3 DEF Distinct
      <4>. QED
        BY <4>2, <4>4 DEF Distinct
    <3>4. CASE SearchRaw
      <4>1. IsInjective(todo') /\ ToSet(picked') = {} /\ pc' = "linked" /\ picked' = picked
        BY <3>a, <3>4, EventsFound DEF SearchRaw, ToSet
      <4>. QED
        BY <3>c, <4>1 DEF Distinct
    <3>5. CASE LoadLinked
      <4> DEFINE linked == LinkedRows(db, {Head(todo)})
      <4>1. /\ pc = "linked" /\ pc' = "linked" /\ todo' = Tail(todo) /\ IsInjective(todo)
            /\ todo \in Seq(Event) /\ todo # <<>>
        BY <1>2, <3>5 DEF LoadLinked, Reading, Distinct
      <4>2. /\ IsInjective(Tail(todo)) /\ Head(todo) \notin ToSet(Tail(todo))
            /\ ToSet(todo) = {Head(todo)} \cup ToSet(Tail(todo))
        BY <4>1, OnceEach, Elements
      <4>3. ToSet(picked') = ToSet(picked) \cup {db.row[id] : id \in linked}
        BY <3>a, <3>5, LinkedRead
      <4>4. \A id \in linked : id \in DOMAIN db.row /\ db.row[id].event = Head(todo) /\ db.row[id].id = id
        BY <3>b DEF LinkedRows
      <4>5. \A c \in ToSet(picked) : c.event = db.row[c.id].event /\ c.event \notin ToSet(todo)
        BY <1>2, <4>1 DEF Distinct
      <4>. HIDE DEF linked
      <4>6. \A c \in ToSet(picked), id \in linked : c.id # id
        BY <4>2, <4>4, <4>5
      <4>7. \A c, d \in ToSet(picked') : c.id = d.id => c = d
        BY <1>2, <4>3, <4>4, <4>6 DEF Distinct
      <4>8. \A c \in ToSet(picked') : c.event = db.row[c.id].event /\ c.event \notin ToSet(Tail(todo))
        BY <4>2, <4>3, <4>4, <4>5
      <4>. QED
        BY <3>a, <4>1, <4>2, <4>7, <4>8 DEF Distinct
    <3>6. CASE picked' = picked /\ pc' \notin {"get", "linked"}
      BY <3>c, <3>6 DEF Distinct
    <3>7. \/ SearchLiving \/ GetContinuation \/ LoadVectorHit \/ TakePledge \/ SearchRaw \/ LoadLinked
          \/ picked' = picked /\ pc' \notin {"get", "linked"}
      BY <2>1 DEF HandlerStep, AskVectorIndex, BeginCommitments, CollectCommitments,
         SearchForCommitments, BeginRelations, CollectRelations, Promote, AnswerWithCard,
         AnswerWithEvents
    <3>. QED
      BY <3>1, <3>2, <3>3, <3>4, <3>5, <3>6, <3>7
  <2>2. CASE Disturbed
    <3>1. UNCHANGED <<pc, todo, picked>>
      BY <2>2 DEF Disturbed, handlerVars
    <3>2. \A c \in ToSet(picked) : c.id \in DOMAIN db.row
      BY <1>2 DEF Reading, IdsOf
    <3>3. \A id \in DOMAIN db.row : db'.row[id].event = db.row[id].event
      <4>1. \A id \in DOMAIN db.row : db.row[id] \in Continuation
        BY <1>2, TablesAre DEF History
      <4>2. \A id \in DOMAIN db.row : db'.row[id] = [db.row[id] EXCEPT !.status = db'.row[id].status]
        BY <2>2 DEF Disturbed
      <4>. QED
        BY <4>1, <4>2 DEF Continuation
    <3>. QED
      BY <1>2, <3>1, <3>2, <3>3 DEF Distinct, IdsOf
  <2>3. CASE UNCHANGED lensVars
    BY <1>2, <2>3 DEF Distinct, lensVars, handlerVars, IdsOf
  <2>. QED
    BY <1>2, <2>1, <2>2, <2>3, StepCases
<1>. QED
  BY <1>1, <1>2, HistoryHolds, ReadingHolds, PTL DEF LensSpec

\* A deferred continuation never leads an active one of its type by the match alone,
\* for every number of tokens found, strength in the index, confidence and perspective.
THEOREM DeferredNeverLeads == LensSpec => []DeferredYields
<1>1. ASSUME History, Reading, Outcome, Distinct PROVE DeferredYields
  <2> DEFINE facts == RuleFacts(Given, request)
             InText(id) == \A k \in ToSet(picked) :
                             k.id = id => SemanticMatch(Projection(k), request) > 0
  <2>1. SUFFICES
          ASSUME Answered, NEW a \in card.active, NEW b \in card.active,
                 a.type = b.type, a.status = "deferred", b.status = "active",
                 InText(a.id), InText(b.id),
                 \A e \in edges : {e.from, e.to} \cap {a.id, b.id} = {}
          PROVE  ~ Precedes(a, b)
    BY DEF DeferredYields
  <2>2. PICK c0 \in ToSet(picked) :
          a = ActiveFor(Projection(c0), request, edges, facts, Strengths[c0.id])
    BY <1>1, <2>1, CardShows
  <2>3. PICK d0 \in ToSet(picked) :
          b = ActiveFor(Projection(d0), request, edges, facts, Strengths[d0.id])
    BY <1>1, <2>1, CardShows
  <2> DEFINE c == Projection(c0)
             d == Projection(d0)
             s == Strengths[c0.id]
             t == Strengths[d0.id]
  <2>4. \A k \in ToSet(picked) :
          /\ Projection(k) \in Continuation /\ Projection(k).id = k.id
          /\ Projection(k).status = k.status
    BY <1>1, Elements, Projecting DEF Reading
  <2>5. /\ a.id = c.id /\ a.type = c.type /\ a.status = c.status
        /\ a.activation = ScaledByRules(ScaledByRelations(Activation(c, request, s), c.id, edges),
                                        c.id, facts)
    BY <2>2 DEF ActiveFor
  <2>6. /\ b.id = d.id /\ b.type = d.type /\ b.status = d.status
        /\ b.activation = ScaledByRules(ScaledByRelations(Activation(d, request, t), d.id, edges),
                                        d.id, facts)
    BY <2>3 DEF ActiveFor
  <2>7. s \in 0 .. 100 /\ t \in 0 .. 100
    BY <1>1, StrengthsAre
  <2>8. c \in Continuation /\ d \in Continuation /\ c0.id = c.id /\ d0.id = d.id
    BY <2>4
  <2>9. SemanticMatch(c, request) > 0 /\ SemanticMatch(d, request) > 0
    BY <2>1, <2>5, <2>6, <2>8
  <2>10. \A f \in facts : f.id # c.id
    <3>1. SUFFICES ASSUME NEW k \in ToSet(picked), NEW p \in PressureFacts(Projection(k), request),
                          k.id = c.id
                   PROVE  FALSE
      BY <2>4 DEF RuleFacts, Given
    <3>2. k = c0
      BY <1>1, <2>8, <3>1 DEF Distinct
    <3>3. Projection(k).status = "deferred"
      BY <2>1, <2>5, <3>2
    <3>4. PressureFacts(Projection(k), request) = {}
      BY <3>3 DEF PressureFacts
    <3>. QED
      BY <3>4
  <2>11. \A e \in edges : c.id \notin {e.from, e.to} /\ d.id \notin {e.from, e.to}
    BY <2>1, <2>5, <2>6
  <2>. HIDE DEF facts, InText, c, d, s, t
  <2>12. /\ Activation(c, request, s) \in Nat /\ Activation(d, request, t) \in Nat
         /\ Activation(c, request, s) < Activation(d, request, t)
    BY <1>1, <2>1, <2>5, <2>6, <2>7, <2>8, <2>9, DeferredPressesLess DEF History
  <2>13. /\ ScaledByRelations(Activation(c, request, s), c.id, edges) = Activation(c, request, s)
         /\ ScaledByRelations(Activation(d, request, t), d.id, edges) = Activation(d, request, t)
    BY <2>11, NoRelations
  <2>14. a.activation = Activation(c, request, s)
    BY <2>5, <2>10, <2>12, <2>13, RulesRaise
  <2>15. b.activation \in Nat /\ b.activation >= Activation(d, request, t)
    BY <2>6, <2>12, <2>13, RulesRaise
  <2>. QED
    BY <2>12, <2>14, <2>15 DEF Precedes
<1>. QED
  BY <1>1, HistoryHolds, ReadingHolds, OutcomeHolds, DistinctHolds, PTL

-----------------------------------------------------------------------------
\* What the queries of the handler find, and what one reading of all of them yields.
ByText == ToSet(SearchHits(db, request, TRUE))
ByIndex == Hits(vector)
ByPledge == ToSet(SearchCommitments(db, request))
Selected == ByText \cup ByIndex \cup ByPledge
Constrained(ids) == {id \in ids : Constrains(db, id)}
EdgesOf(ids) == UNION {RelationsOf(db, id) : id \in ids}

FromSelected == IdsOf(picked) = Selected /\ picked # <<>> /\ events = <<>>
FromEvents ==
  /\ Selected = {} /\ events = SearchRawEvents(db, request)
  /\ IdsOf(picked) = LinkedRows(db, ToSet(events))

\* As long as nobody writes, the loops of the handler compute these sets.
Undisturbed ==
  touched = {} =>
    /\ pc \in {"search", "get", "vector", "linked"} => constraints = {}
    /\ pc \notin {"relations", "answered"} => edges = {}
    /\ pc = "get" => IdsOf(picked) \cup ToSet(todo) = ByText
    /\ pc = "vector" =>
         /\ IdsOf(picked) = ByText \cup influence
         /\ influence \cup {id \in ToSet(todo) : db.row[id].status = "active"} = ByIndex
    /\ pc \notin {"search", "get", "vector"} => influence = ByIndex
    /\ pc = "commitments" =>
         /\ constraints \cup Constrained(ToSet(todo)) = Constrained(IdsOf(picked))
         /\ \/ events = <<>> /\ IdsOf(picked) = ByText \cup ByIndex
            \/ events # <<>> /\ FromEvents
    /\ pc = "pledges" =>
         /\ IdsOf(picked) \cup ToSet(todo) = Selected
         /\ constraints = Constrained(IdsOf(picked)) /\ ToSet(todo) \subseteq ByPledge
    /\ pc = "linked" =>
         /\ Selected = {} /\ events = SearchRawEvents(db, request)
         /\ IdsOf(picked) \cup LinkedRows(db, ToSet(todo)) = LinkedRows(db, ToSet(events))
    /\ pc \in {"relations", "answered"} =>
         (FromSelected \/ FromEvents) /\ constraints = Constrained(IdsOf(picked))
    /\ pc = "relations" => edges \cup EdgesOf(ToSet(todo)) = EdgesOf(IdsOf(picked))
    /\ pc = "answered" => edges = EdgesOf(IdsOf(picked))

\* Without writes, the loops of the handler compute what one reading of all queries yields.
LEMMA UndisturbedHolds == LensSpec => []Undisturbed
<1>1. LensInit => Undisturbed
  BY DEF LensInit, Undisturbed
<1>2. ASSUME History, Reading, Undisturbed, [LensNext]_lensVars PROVE Undisturbed'
  <2>1. CASE HandlerStep /\ UNCHANGED <<db, request, touched, start>>
    <3>a. WellFormed(db) /\ IsRequest(request) /\ UNCHANGED <<db, request, touched, start>>
      BY <1>2, <2>1 DEF History
    <3>b. picked \in Seq(Continuation) /\ (picked = <<>> <=> IdsOf(picked) = {})
      <4>1. picked \in Seq(Continuation)
        BY <1>2 DEF Reading
      <4>2. picked # <<>> => Head(picked) \in ToSet(picked)
        BY <4>1, Elements
      <4>3. ToSet(<<>>) = {}
        BY DEF ToSet
      <4>. QED
        BY <4>1, <4>2, <4>3 DEF IdsOf
    <3>c. ByText' = ByText /\ ByPledge' = ByPledge
      <4>1. db' = db /\ request' = request
        BY <3>a
      <4>2. ByText' = ByText
        BY <4>1, Zenon DEF ByText
      <4>. QED
        BY <4>1, <4>2, Zenon DEF ByPledge
    <3>d. vector' = vector => ByIndex' = ByIndex /\ Selected' = Selected
      BY <3>a, <3>c DEF ByIndex, Hits, Selected
    <3>e. \A ids : Constrained(ids)' = Constrained(ids') /\ EdgesOf(ids)' = EdgesOf(ids')
      BY <3>a DEF Constrained, EdgesOf
    <3>f. todo = <<>> => ToSet(todo) = {}
      BY DEF ToSet
    <3>g. /\ Constrained({}) = {} /\ EdgesOf({}) = {} /\ LinkedRows(db, {}) = {}
          /\ \A i, j : /\ Constrained(i \cup j) = Constrained(i) \cup Constrained(j)
                       /\ EdgesOf(i \cup j) = EdgesOf(i) \cup EdgesOf(j)
                       /\ LinkedRows(db, i \cup j) = LinkedRows(db, i) \cup LinkedRows(db, j)
      BY DEF Constrained, EdgesOf, LinkedRows
    <3>h. picked' = picked => IdsOf(picked') = IdsOf(picked)
      OBVIOUS
    <3>1. CASE touched # {}
      BY <3>a, <3>1 DEF Undisturbed
    <3>2. CASE touched = {} /\ SearchLiving
      <4>1. IdsOf(picked') = {} /\ ToSet(todo') = ByText
        BY <1>2, <3>b, <3>h, <3>2 DEF SearchLiving, ByText, Reading
      <4>. QED
        BY <1>2, <3>c, <3>2, <4>1 DEF SearchLiving, Undisturbed, IdsOf
    <3>3. CASE touched = {} /\ GetContinuation
      <4>1. /\ IdsOf(picked') = IdsOf(picked) \cup {Head(todo)}
            /\ ToSet(todo) = {Head(todo)} \cup ToSet(Tail(todo))
        BY <1>2, <2>1, <3>3, PickedGrows, Elements DEF GetContinuation, Reading
      <4>. QED
        BY <1>2, <3>c, <3>3, <4>1 DEF GetContinuation, Undisturbed, IdsOf
    <3>4. CASE touched = {} /\ AskVectorIndex
      <4>1. ToSet(Nearest(vector')) = DOMAIN vector'
        BY <3>a, <3>4, NearestFound DEF AskVectorIndex
      <4>2. {id \in ToSet(todo') : db.row[id].status = "active"} = ByIndex'
        BY <3>a, <3>4, <4>1 DEF AskVectorIndex, ByIndex, Hits, ToSet, IsRequest
      <4>3. influence = {}
        BY <1>2, <3>4 DEF AskVectorIndex, Reading
      <4>. QED
        BY <1>2, <3>a, <3>c, <3>f, <3>4, <4>2, <4>3 DEF AskVectorIndex, Undisturbed, IdsOf
    <3>5. CASE touched = {} /\ LoadVectorHit
      <4>1. Head(todo) \in DOMAIN db.row /\ ToSet(todo) = {Head(todo)} \cup ToSet(Tail(todo))
        BY <1>2, <3>5, Elements DEF LoadVectorHit, Reading
      <4>2. CASE db.row[Head(todo)].status = "active"
        <5>1. IdsOf(picked') = IdsOf(picked) \cup {Head(todo)} /\ influence' = influence \cup {Head(todo)}
          BY <3>a, <3>b, <3>5, <4>1, <4>2, WithRow DEF LoadVectorHit
        <5>. QED
          BY <1>2, <3>a, <3>c, <3>d, <3>5, <4>1, <4>2, <5>1 DEF LoadVectorHit, Undisturbed, IdsOf
      <4>3. CASE db.row[Head(todo)].status # "active"
        BY <1>2, <3>a, <3>c, <3>d, <3>5, <4>1, <4>3 DEF LoadVectorHit, Undisturbed, IdsOf
      <4>. QED
        BY <4>2, <4>3
    <3>6. CASE touched = {} /\ BeginCommitments
      <4>1. ToSet(todo') = IdsOf(picked) /\ events = <<>>
        BY <1>2, <3>6, IdsRead DEF BeginCommitments, Reading
      <4>2. influence = ByIndex /\ IdsOf(picked) = ByText \cup ByIndex /\ constraints = {} /\ edges = {}
        BY <1>2, <3>f, <3>6 DEF BeginCommitments, Undisturbed
      <4>. QED
        BY <3>a, <3>c, <3>d, <3>e, <3>6, <4>1, <4>2 DEF BeginCommitments, Undisturbed, IdsOf
    <3>7. CASE touched = {} /\ CollectCommitments
      <4>1. ToSet(todo) = {Head(todo)} \cup ToSet(Tail(todo))
        BY <1>2, <3>7, Elements DEF CollectCommitments, Reading
      <4>2. constraints' \cup Constrained(ToSet(Tail(todo))) = constraints \cup Constrained(ToSet(todo))
        BY <3>7, <4>1 DEF CollectCommitments, CommitmentsOf, Constrained
      <4>3. /\ UNCHANGED <<pc, picked, edges, vector, influence, events>> /\ pc = "commitments"
            /\ todo' = Tail(todo)
        BY <3>7 DEF CollectCommitments
      <4>4. FromEvents' <=> FromEvents
        BY <3>a, <3>d, <4>3 DEF FromEvents, IdsOf, LinkedRows
      <4>. QED
        BY <1>2, <3>a, <3>c, <3>d, <3>e, <3>7, <4>2, <4>3, <4>4 DEF Undisturbed, IdsOf
    <3>8. CASE touched = {} /\ SearchForCommitments
      <4>1. events = <<>>
        BY <1>2, <3>8, Elements DEF SearchForCommitments, Reading
      <4>2. /\ IdsOf(picked) = ByText \cup ByIndex /\ constraints = Constrained(IdsOf(picked))
            /\ influence = ByIndex /\ edges = {}
        BY <1>2, <3>f, <3>g, <3>8, <4>1 DEF SearchForCommitments, Undisturbed
      <4>3. ToSet(todo') = ByPledge
        BY <3>8 DEF SearchForCommitments, ByPledge
      <4>4. IdsOf(picked) \cup ByPledge = Selected
        BY <4>2 DEF Selected
      <4>. QED
        BY <3>a, <3>c, <3>d, <3>e, <3>8, <4>2, <4>3, <4>4 DEF SearchForCommitments, Undisturbed, IdsOf
    <3>9. CASE touched = {} /\ TakePledge
      <4>1. Head(todo) \in DOMAIN db.row /\ ToSet(todo) = {Head(todo)} \cup ToSet(Tail(todo))
        BY <1>2, <3>9, Elements DEF TakePledge, Reading
      <4>2. /\ IdsOf(picked) \cup ToSet(todo) = Selected /\ ToSet(todo) \subseteq ByPledge
            /\ constraints = Constrained(IdsOf(picked)) /\ influence = ByIndex /\ edges = {}
        BY <1>2, <3>9 DEF TakePledge, Undisturbed
      <4>3. Constrained({Head(todo)}) = {Head(todo)}
        BY <3>a, <4>1, <4>2, CommitmentsFound DEF ByPledge, Constrained
      <4>4. IdsOf(picked') = IdsOf(picked) \cup {Head(todo)} /\ constraints' = constraints \cup {Head(todo)}
        <5>1. CASE Head(todo) \in constraints
          BY <3>9, <4>2, <5>1 DEF TakePledge, Constrained
        <5>2. CASE Head(todo) \notin constraints
          BY <3>a, <3>b, <3>9, <4>1, <5>2, WithRow DEF TakePledge
        <5>. QED
          BY <5>1, <5>2
      <4>5. constraints' = Constrained(IdsOf(picked'))
        BY <3>g, <4>2, <4>3, <4>4
      <4>. QED
        BY <3>a, <3>c, <3>d, <3>e, <3>9, <4>1, <4>2, <4>4, <4>5 DEF TakePledge, Undisturbed, IdsOf
    <3>10. CASE touched = {} /\ BeginRelations
      <4>1. ToSet(todo') = IdsOf(picked)
        BY <1>2, <3>10, IdsRead DEF BeginRelations
      <4>2. /\ UNCHANGED <<picked, constraints, edges, vector, influence, events>>
            /\ pc' = "relations" /\ todo = <<>>
        BY <3>10 DEF BeginRelations
      <4>3. (FromSelected \/ FromEvents) /\ constraints = Constrained(IdsOf(picked))
        <5>1. CASE pc = "pledges"
          <6>1. picked # <<>> /\ events = <<>>
            BY <1>2, <3>10, <5>1 DEF BeginRelations, Reading
          <6>. QED
            BY <1>2, <3>f, <3>10, <4>2, <5>1, <6>1 DEF Undisturbed, FromSelected
        <5>2. CASE pc = "commitments"
          <6>1. events # <<>>
            BY <1>2, <3>10, <5>2 DEF BeginRelations, Reading, ToSet
          <6>. QED
            BY <1>2, <3>f, <3>g, <3>10, <4>2, <5>2, <6>1 DEF Undisturbed
        <5>. QED
          BY <3>10, <5>1, <5>2 DEF BeginRelations
      <4>4. (FromSelected' <=> FromSelected) /\ (FromEvents' <=> FromEvents)
        BY <3>a, <3>d, <4>2 DEF FromSelected, FromEvents, IdsOf, LinkedRows
      <4>5. influence = ByIndex /\ edges = {}
        BY <1>2, <3>10 DEF BeginRelations, Undisturbed
      <4>. QED
        BY <3>a, <3>c, <3>d, <3>e, <3>10, <4>1, <4>2, <4>3, <4>4, <4>5 DEF Undisturbed, IdsOf
    <3>11. CASE touched = {} /\ CollectRelations
      <4>1. ToSet(todo) = {Head(todo)} \cup ToSet(Tail(todo))
        BY <1>2, <3>11, Elements DEF CollectRelations, Reading
      <4>2. edges' \cup EdgesOf(ToSet(Tail(todo))) = edges \cup EdgesOf(ToSet(todo))
        BY <3>11, <4>1 DEF CollectRelations, EdgesOf
      <4>3. /\ UNCHANGED <<pc, picked, constraints, vector, influence, events>> /\ pc = "relations"
            /\ todo' = Tail(todo)
        BY <3>11 DEF CollectRelations
      <4>4. (FromSelected' <=> FromSelected) /\ (FromEvents' <=> FromEvents)
        BY <3>a, <3>d, <4>3 DEF FromSelected, FromEvents, IdsOf, LinkedRows
      <4>. QED
        BY <1>2, <3>a, <3>c, <3>d, <3>e, <3>11, <4>2, <4>3, <4>4 DEF Undisturbed, IdsOf
    <3>12. CASE touched = {} /\ SearchRaw
      <4>1. Selected = {} /\ constraints = {} /\ edges = {} /\ influence = ByIndex /\ IdsOf(picked) = {}
        BY <1>2, <3>b, <3>f, <3>g, <3>12 DEF SearchRaw, Undisturbed
      <4>. QED
        BY <3>a, <3>c, <3>d, <3>12, <4>1 DEF SearchRaw, Undisturbed, IdsOf
    <3>13. CASE touched = {} /\ LoadLinked
      <4>1. ToSet(todo) = {Head(todo)} \cup ToSet(Tail(todo))
        BY <1>2, <3>13, Elements DEF LoadLinked, Reading
      <4>2. IdsOf(picked') = IdsOf(picked) \cup LinkedRows(db, {Head(todo)})
        BY <3>a, <3>b, <3>13, LinkedRead
      <4>3. IdsOf(picked') \cup LinkedRows(db, ToSet(Tail(todo))) =
              IdsOf(picked) \cup LinkedRows(db, ToSet(todo))
        BY <3>g, <4>1, <4>2
      <4>. QED
        BY <1>2, <3>a, <3>c, <3>d, <3>13, <4>3 DEF LoadLinked, Undisturbed, IdsOf, LinkedRows
    <3>14. CASE touched = {} /\ Promote
      <4>1. ToSet(todo') = IdsOf(picked)
        BY <1>2, <3>14, IdsRead DEF Promote
      <4>2. FromEvents /\ constraints = {} /\ edges = {} /\ influence = ByIndex
        BY <1>2, <3>f, <3>g, <3>14 DEF Promote, Undisturbed, FromEvents
      <4>3. events # <<>>
        <5>1. events = <<>> => ToSet(events) = {}
          BY DEF ToSet
        <5>. QED
          BY <3>b, <3>g, <3>14, <4>2, <5>1 DEF Promote, FromEvents
      <4>4. UNCHANGED <<picked, constraints, edges, vector, influence, events>> /\ pc' = "commitments"
        BY <3>14 DEF Promote
      <4>5. FromEvents'
        BY <3>a, <3>d, <4>2, <4>4 DEF FromEvents, IdsOf, LinkedRows
      <4>. QED
        BY <3>a, <3>c, <3>d, <3>e, <3>14, <4>1, <4>2, <4>3, <4>4, <4>5 DEF Undisturbed, IdsOf
    <3>15. CASE touched = {} /\ AnswerWithCard
      <4>1. /\ UNCHANGED <<picked, constraints, edges, vector, influence, events>>
            /\ pc = "relations" /\ pc' = "answered" /\ todo = <<>>
        BY <3>15 DEF AnswerWithCard
      <4>2. /\ FromSelected \/ FromEvents
            /\ constraints = Constrained(IdsOf(picked)) /\ influence = ByIndex
            /\ edges = EdgesOf(IdsOf(picked))
        BY <1>2, <3>f, <3>g, <3>15, <4>1 DEF Undisturbed
      <4>3. (FromSelected' <=> FromSelected) /\ (FromEvents' <=> FromEvents)
        BY <3>a, <3>d, <4>1 DEF FromSelected, FromEvents, IdsOf, LinkedRows
      <4>. QED
        BY <3>a, <3>c, <3>d, <3>e, <4>1, <4>2, <4>3 DEF Undisturbed, IdsOf
    <3>16. CASE touched = {} /\ AnswerWithEvents
      <4>1. /\ UNCHANGED <<picked, constraints, edges, vector, influence, events>>
            /\ pc = "linked" /\ pc' = "answered" /\ todo = <<>> /\ picked = <<>>
        BY <3>16 DEF AnswerWithEvents
      <4>2. FromEvents /\ constraints = {} /\ edges = {} /\ influence = ByIndex /\ IdsOf(picked) = {}
        BY <1>2, <3>b, <3>f, <3>g, <3>16, <4>1 DEF Undisturbed, FromEvents
      <4>3. FromEvents' <=> FromEvents
        BY <3>a, <3>d, <4>1 DEF FromEvents, IdsOf, LinkedRows
      <4>. QED
        BY <3>a, <3>c, <3>d, <3>e, <3>g, <4>1, <4>2, <4>3 DEF Undisturbed, IdsOf
    <3>. QED
      BY <2>1, <3>1, <3>2, <3>3, <3>4, <3>5, <3>6, <3>7, <3>8, <3>9, <3>10, <3>11, <3>12,
         <3>13, <3>14, <3>15, <3>16 DEF HandlerStep
  <2>2. CASE Disturbed
    BY <2>2 DEF Disturbed, Undisturbed
  <2>3. CASE UNCHANGED lensVars
    <3>1. db' = db /\ request' = request
      BY <2>3 DEF lensVars
    <3>2. UNCHANGED <<pc, todo, picked, constraints, edges, vector, influence, events, touched>>
      BY <2>3 DEF lensVars, handlerVars
    <3>3. ByText' = ByText /\ ByPledge' = ByPledge
      <4>1. ByText' = ByText
        BY <3>1, Zenon DEF ByText
      <4>. QED
        BY <3>1, <4>1, Zenon DEF ByPledge
    <3>4. ByIndex' = ByIndex /\ Selected' = Selected
      BY <3>1, <3>2, <3>3 DEF ByIndex, Hits, Selected
    <3>5. \A ids : Constrained(ids)' = Constrained(ids') /\ EdgesOf(ids)' = EdgesOf(ids')
      BY <3>1 DEF Constrained, EdgesOf
    <3>6. (FromSelected' <=> FromSelected) /\ (FromEvents' <=> FromEvents)
      BY <3>1, <3>2, <3>4 DEF FromSelected, FromEvents, IdsOf, LinkedRows
    <3>. QED
      BY <1>2, <3>1, <3>2, <3>3, <3>4, <3>5, <3>6 DEF Undisturbed, IdsOf
  <2>. QED
    BY <1>2, <2>1, <2>2, <2>3, StepCases
<1>. QED
  BY <1>1, <1>2, HistoryHolds, ReadingHolds, PTL DEF LensSpec


\* Closed continuations change nothing of a search that finds none of them, unless they
\* take a place among the rows of a token.
LEMMA SameSearch ==
    ASSUME WellFormed(db), IsRequest(request),
           \A id \in DOMAIN db.row : Matches(id) => Living(db.row[id].status),
           \A t \in ToSet(SearchedTokens(request)) :
             \/ \A id \in Holders(db, t, FALSE) : Living(db.row[id].status)
             \/ Cardinality(Holders(db, t, FALSE)) <= TokenCandidateLimit
    PROVE  SearchHits(db, request, FALSE) = SearchHits(db, request, TRUE)
<1> DEFINE tokens == SearchedTokens(request)
<1>1. LiteralCandidates(db, FALSE) = LiteralCandidates(db, TRUE)
  <2>1. {id \in Searchable(db, FALSE) : db.row[id].phrase} =
        {id \in Searchable(db, TRUE) : db.row[id].phrase}
    BY DEF Searchable, Matches
  <2>. QED
    BY <2>1, Zenon DEF LiteralCandidates
<1>2. ASSUME NEW t \in ToSet(tokens)
      PROVE  TokenCandidates(db, t, tokens, FALSE) = TokenCandidates(db, t, tokens, TRUE)
  <2>1. CASE \A id \in Holders(db, t, FALSE) : Living(db.row[id].status)
    <3>1. {id \in Searchable(db, FALSE) : t \in db.row[id].tokens} =
          {id \in Searchable(db, TRUE) : t \in db.row[id].tokens}
      BY <2>1 DEF Searchable, Holders
    <3>. QED
      BY <3>1, Zenon DEF TokenCandidates
  <2>2. CASE Cardinality(Holders(db, t, FALSE)) <= TokenCandidateLimit
    <3> DEFINE Enough(id) == TokenHits(db, id, tokens) >= Least(Len(tokens), 2)
    <3>1. TokenCandidates(db, t, tokens, FALSE) = {id \in Holders(db, t, FALSE) : Enough(id)}
      BY <2>2, TokenRows
    <3>2. Holders(db, t, TRUE) \subseteq Holders(db, t, FALSE) /\ Holders(db, t, FALSE) \subseteq DOMAIN db.row
      BY DEF Holders, Searchable
    <3>3. Cardinality(Holders(db, t, TRUE)) <= TokenCandidateLimit
      <4>1. IsFiniteSet(DOMAIN db.row)
        BY Zenon DEF WellFormed
      <4>2. IsFiniteSet(Holders(db, t, FALSE)) /\ TokenCandidateLimit \in Nat
        BY <3>2, <4>1, FS_Subset, SearchAssumption
      <4>. QED
        BY <2>2, <3>2, <4>2, SmallerSet
    <3>4. TokenCandidates(db, t, tokens, TRUE) = {id \in Holders(db, t, TRUE) : Enough(id)}
      BY <3>3, TokenRows
    <3>5. \A id \in DOMAIN db.row : Enough(id) => Living(db.row[id].status)
      <4>1. tokens # <<>>
        BY <1>2 DEF ToSet
      <4>. QED
        BY <4>1 DEF Matches
    <3>6. {id \in Holders(db, t, FALSE) : Enough(id)} = {id \in Holders(db, t, TRUE) : Enough(id)}
      BY <3>2, <3>5 DEF Holders, Searchable
    <3>. QED
      BY <3>1, <3>4, <3>6
  <2>. QED
    BY <2>1, <2>2 DEF Holders
<1>3. \A i \in DOMAIN tokens : tokens[i] \in ToSet(tokens)
  BY DEF ToSet
<1>4. [i \in DOMAIN tokens |-> TokenCandidates(db, tokens[i], tokens, FALSE)] =
      [i \in DOMAIN tokens |-> TokenCandidates(db, tokens[i], tokens, TRUE)]
  BY <1>2, <1>3
<1>. QED
  BY <1>1, <1>4, Zenon DEF SearchHits

\* What the copy selects, if its search is that of the handler.
LEMMA CopySelects ==
    ASSUME WellFormed(db), SearchHits(db, request, FALSE) = SearchHits(db, request, TRUE)
    PROVE  /\ Direct(vector) = Selected
           /\ RawHits(vector) = IF Selected = {} THEN SearchRawEvents(db, request) ELSE <<>>
           /\ Linked(vector) = LinkedRows(db, ToSet(RawHits(vector)))
<1>1. Direct(vector) = Selected
  BY DEF Direct, Selected, ByText, ByIndex, ByPledge
<1>2. RawHits(vector) = IF Selected = {} THEN SearchRawEvents(db, request) ELSE <<>>
  BY <1>1 DEF RawHits
<1>3. Linked(vector) = LinkedRows(db, ToSet(RawHits(vector)))
  <2>1. \A event : ToSet(LinkedTo(db, event)) = LinkedRows(db, {event})
    BY LinkedFound DEF LinkedRows
  <2>. QED
    BY <2>1 DEF Linked, LinkedRows
<1>. QED
  BY <1>1, <1>2, <1>3

\* The daemon's undisturbed answer is that of the harness's copy, for every store and
\* request, at the limits too: the order and the repetitions of the handler's loops
\* do not matter.
THEOREM HarnessFollows == LensSpec => []HarnessAgrees
<1>1. ASSUME History, Reading, Outcome, Grounded, Undisturbed PROVE HarnessAgrees
  <2>1. SUFFICES
          ASSUME Answered, touched = {},
                 \A id \in DOMAIN db.row : Matches(id) => Living(db.row[id].status),
                 \A t \in ToSet(SearchedTokens(request)) :
                   \/ \A id \in Holders(db, t, FALSE) : Living(db.row[id].status)
                   \/ Cardinality(Holders(db, t, FALSE)) <= TokenCandidateLimit
          PROVE  LensFromStore(vector) = card /\ HarnessConstraints(vector) = constraints
    <3>1. \A t : Holders(db, t, FALSE) = {id \in DOMAIN db.row : t \in db.row[id].tokens}
      BY DEF Holders, Searchable
    <3>. QED
      BY <3>1 DEF HarnessAgrees
  <2>2. WellFormed(db) /\ IsRequest(request) /\ db = start /\ picked \in Seq(Continuation)
    BY <1>1, <2>1 DEF History, Reading
  <2>3. SearchHits(db, request, FALSE) = SearchHits(db, request, TRUE)
    BY <2>1, <2>2, SameSearch
  <2> DEFINE linked == Linked(vector)
             chosen == Direct(vector) \cup linked
             given == {[db.row[id] EXCEPT !.phrase = @ \/ linked # {},
                                          !.bare = @ /\ linked = {}] : id \in chosen}
             Strength == [id \in chosen |-> IF id \in Hits(vector) THEN vector[id] ELSE 0]
             joined == UNION {RelationsOf(db, id) : id \in chosen}
             count == IF linked = {} THEN Len(RawHits(vector)) ELSE 0
  <2>4. LensFromStore(vector) =
          Generate(request, given, joined, RuleFacts(given, request), Strength, count)
    BY Zenon DEF LensFromStore
  <2>5. /\ FromSelected \/ FromEvents
        /\ constraints = Constrained(IdsOf(picked)) /\ edges = EdgesOf(IdsOf(picked))
        /\ influence = Hits(vector)
    BY <1>1, <2>1 DEF Undisturbed, Answered, ByIndex
  <2>6. /\ chosen = IdsOf(picked)
        /\ FromSelected => linked = {} /\ RawHits(vector) = <<>>
        /\ FromEvents => linked = IdsOf(picked) /\ RawHits(vector) = events
    <3>1. ToSet(<<>>) = {} /\ LinkedRows(db, {}) = {}
      BY DEF ToSet, LinkedRows
    <3>2. FromSelected => Selected # {}
      <4>1. picked # <<>> => Head(picked) \in ToSet(picked)
        BY <2>2, Elements
      <4>. QED
        BY <4>1 DEF FromSelected, IdsOf
    <3>. QED
      BY <2>2, <2>3, <2>5, <3>1, <3>2, CopySelects DEF FromSelected, FromEvents
  <2>7. constraints = HarnessConstraints(vector)
    BY <2>5, <2>6 DEF HarnessConstraints, CommitmentsOf, Constrained
  <2>8. joined = edges
    BY <2>5, <2>6 DEF EdgesOf
  <2>9. \A c \in ToSet(picked) : c \in Continuation /\ c.id \in DOMAIN db.row /\ c = db.row[c.id]
    <3>1. \A c \in ToSet(picked) : c.id \in IdsOf(picked)
      BY DEF IdsOf
    <3>2. \A c \in ToSet(picked) : Untouched(c.id)
      BY <1>1, <2>1, <2>2, <3>1 DEF Reading, Untouched
    <3>. QED
      BY <1>1, <2>2, <3>1, <3>2, Elements DEF Grounded, Reading
  <2>10. CASE picked = <<>>
    <3>1. ToSet(picked) = {} /\ chosen = {} /\ FromEvents
      BY <2>5, <2>6, <2>10 DEF ToSet, IdsOf, FromSelected
    <3>2. linked = {} /\ RawHits(vector) = events
      BY <2>6, <3>1
    <3>3. given = {} /\ count = Len(events)
      BY <3>1, <3>2
    <3>4. LensFromStore(vector) = RawOrEmptyCard(Len(events))
      <4>1. ActiveOf({}, request, joined, RuleFacts({}, request), Strength) = {}
        BY Zenon DEF ActiveOf
      <4>2. Generate(request, {}, joined, RuleFacts({}, request), Strength, Len(events)) =
              RawOrEmptyCard(Len(events))
        BY <4>1, Zenon DEF Generate
      <4>. QED
        BY <2>4, <3>3, <4>2
    <3>5. card = RawOrEmptyCard(Len(events))
      BY <1>1, <2>1, <2>10 DEF Outcome, Answered
    <3>. QED
      BY <2>7, <3>4, <3>5
  <2>11. CASE picked # <<>>
    <3>1. /\ promoted = ToSet(events)
          /\ card = Generate(request, Given, edges, RuleFacts(Given, request), Strengths, 0)
      BY <1>1, <2>1, <2>11 DEF Outcome, Answered
    <3>2. given = Given
      <4>1. ToSet(picked) = {db.row[id] : id \in IdsOf(picked)}
        BY <2>9 DEF IdsOf
      <4> DEFINE Used(c) == [c EXCEPT !.phrase = @ \/ linked # {}, !.bare = @ /\ linked = {}]
      <4>2. given = {Used(c) : c \in ToSet(picked)}
        <5>1. given = {Used(db.row[id]) : id \in IdsOf(picked)}
          BY <2>6
        <5>. HIDE DEF Used
        <5>. QED
          BY <4>1, <5>1
      <4>3. ASSUME NEW c \in ToSet(picked) PROVE Used(c) = Projection(c)
        <5>1. CASE FromSelected
          <6>1. linked = {} /\ promoted = {}
            BY <2>6, <3>1, <5>1 DEF FromSelected, ToSet
          <6>. QED
            BY <2>9, <6>1 DEF Projection, Continuation
        <5>2. CASE FromEvents
          <6>1. c.id \in IdsOf(picked)
            BY DEF IdsOf
          <6>2. linked # {} /\ c.event \in promoted
            BY <2>6, <2>9, <3>1, <5>2, <6>1 DEF FromEvents, LinkedRows
          <6>. QED
            BY <2>9, <6>2 DEF Projection, Continuation
        <5>. QED
          BY <2>5, <5>1, <5>2
      <4>. HIDE DEF Used
      <4>. QED
        BY <4>2, <4>3 DEF Given
    <3>3. Strength = Strengths
      <4>1. {g.id : g \in Given} = IdsOf(picked)
        BY <2>9, Projecting DEF Given, IdsOf
      <4>. QED
        BY <2>5, <2>6, <4>1 DEF Strengths
    <3>4. count = 0
      <4>1. CASE FromSelected
        BY <2>6, <4>1
      <4>2. CASE FromEvents
        <5>1. picked # <<>> => Head(picked) \in ToSet(picked)
          BY <2>2, Elements
        <5>. QED
          BY <2>6, <2>11, <4>2, <5>1 DEF IdsOf
      <4>. QED
        BY <2>5, <4>1, <4>2
    <3>5. Generate(request, given, joined, RuleFacts(given, request), Strength, count) =
          Generate(request, Given, edges, RuleFacts(Given, request), Strengths, 0)
      BY <2>8, <3>2, <3>3, <3>4, Zenon
    <3>. HIDE DEF given, joined, Strength, count, linked
    <3>. QED
      BY <2>4, <2>7, <3>1, <3>5
  <2>. QED
    BY <2>10, <2>11
<1>. QED
  BY <1>1, HistoryHolds, ReadingHolds, OutcomeHolds, GroundedHolds, UndisturbedHolds, PTL
=============================================================================
