--------------------------- MODULE DocumentsProofs --------------------------
(***************************************************************************)
(* Lemmas about the operators on bundles: what a selection picks, and when *)
(* it finds exactly one document.                                          *)
(***************************************************************************)
EXTENDS Documents, SequenceTheorems, FiniteSetTheorems, WellFoundedInduction, TLAPS

-----------------------------------------------------------------------------
(* Selection.  What Picked computes is shown for every prefix of the        *)
(* sequence; the induction is by a least counterexample.                    *)

\* A set of numbers that is not empty has a least one.
LEMMA LeastNat ==
    ASSUME NEW A, A \subseteq Nat, A # {}
    PROVE  \E m \in A : \A k \in A : ~(k < m)
<1>1. IsWellFoundedOn(OpToRel(<, Nat), Nat)
  BY NatLessThanWellFounded
<1>2. \E x \in A : \A y \in A : ~(<<y, x>> \in OpToRel(<, Nat))
  BY <1>1, WFMin, Zenon
<1> QED
  BY <1>2 DEF OpToRel

\* The function that Picked defines by recursion, for the places up to n.
UpTo(s, K, up, n) ==
    up = [k \in 0..n |-> IF k = 0 THEN <<>>
                         ELSE IF k \in K THEN Append(up[k - 1], s[k]) ELSE up[k - 1]]

\* There is such a function.
LEMMA UpToExists ==
    ASSUME NEW s, NEW K, NEW n \in Nat
    PROVE  \E up : UpTo(s, K, up, n)
<1> DEFINE Bad == {k \in Nat : ~ \E up : UpTo(s, K, up, k)}
<1> SUFFICES ASSUME Bad # {} PROVE FALSE
  OBVIOUS
<1>1. PICK m \in Bad : \A k \in Bad : ~(k < m)
  BY LeastNat, Zenon
<1>2. CASE m = 0
  <2> DEFINE g == [k \in 0..0 |-> <<>>]
  <2>1. UpTo(s, K, g, 0)
    BY DEF UpTo
  <2> QED
    BY <1>1, <1>2, <2>1
<1>3. CASE m # 0
  <2>1. m - 1 \in Nat /\ m - 1 \notin Bad
    BY <1>1, <1>3
  <2>2. PICK up : UpTo(s, K, up, m - 1)
    BY <2>1
  <2> DEFINE g == [k \in 0..m |-> IF k < m THEN up[k]
                                  ELSE IF m \in K THEN Append(up[m - 1], s[m]) ELSE up[m - 1]]
  <2>3. ASSUME NEW k \in 0..m
        PROVE  g[k] = IF k = 0 THEN <<>>
                      ELSE IF k \in K THEN Append(g[k - 1], s[k]) ELSE g[k - 1]
    <3>1. CASE k = m
      BY <3>1, <1>3, <1>1
    <3>2. CASE k < m
      <4>1. k \in 0..(m - 1)
        BY <3>2, <1>1
      <4>2. up[k] = IF k = 0 THEN <<>>
                    ELSE IF k \in K THEN Append(up[k - 1], s[k]) ELSE up[k - 1]
        BY <4>1, <2>2 DEF UpTo
      <4>3. g[k] = up[k]
        BY <4>1, <3>2
      <4>4. k # 0 => g[k - 1] = up[k - 1]
        BY <4>1, <3>2, <1>1
      <4> QED
        BY <4>2, <4>3, <4>4
    <3> QED
      BY <3>1, <3>2, <1>1
  <2> HIDE DEF g
  <2>4. g = [k \in 0..m |-> g[k]]
    BY DEF g
  <2>5. UpTo(s, K, g, m)
    BY <2>3, <2>4 DEF UpTo
  <2> QED
    BY <1>1, <2>5
<1> QED
  BY <1>2, <1>3

LEMMA PickedIs ==
    ASSUME NEW s, NEW K, Len(s) \in Nat
    PROVE  \E up : UpTo(s, K, up, Len(s)) /\ Picked(s, K) = up[Len(s)]
<1> DEFINE F == CHOOSE up : UpTo(s, K, up, Len(s))
<1>1. UpTo(s, K, F, Len(s))
  BY UpToExists
<1>2. Picked(s, K) = F[Len(s)]
  BY DEF Picked, UpTo
<1> QED
  BY <1>1, <1>2

\* p has the elements of s at the places K, in their order; f tells which.
IsPicking(s, K, p, f) ==
    /\ Len(p) \in Nat
    /\ f \in [1..Len(p) -> K]
    /\ \A u, j \in 1..Len(p) : u < j => f[u] < f[j]
    /\ \A n \in K : \E u \in 1..Len(p) : f[u] = n
    /\ p = [u \in 1..Len(p) |-> s[f[u]]]

\* One more place.
LEMMA PickingStep ==
    ASSUME NEW s, NEW n \in Nat, NEW K, K \subseteq 1..n, NEW p, NEW f, IsPicking(s, K, p, f)
    PROVE  \E g : IsPicking(s, K \cup {n + 1}, Append(p, s[n + 1]), g)
<1> DEFINE q == Append(p, s[n + 1])
           g == [u \in 1..(Len(p) + 1) |-> IF u = Len(p) + 1 THEN n + 1 ELSE f[u]]
<1>0. Len(p) \in Nat /\ f \in [1..Len(p) -> K] /\ p \in Seq({s[f[u]] : u \in 1..Len(p)})
  BY DEF IsPicking
<1>1. /\ Len(q) = Len(p) + 1
      /\ q = [u \in 1..(Len(p) + 1) |-> IF u = Len(p) + 1 THEN s[n + 1] ELSE p[u]]
  BY <1>0
<1>2. g \in [1..Len(q) -> K \cup {n + 1}]
  BY <1>0, <1>1
<1>3. \A u, j \in 1..Len(q) : u < j => g[u] < g[j]
  <2> SUFFICES ASSUME NEW u \in 1..Len(q), NEW j \in 1..Len(q), u < j PROVE g[u] < g[j]
    OBVIOUS
  <2>0. /\ Len(p) \in Nat /\ Len(q) = Len(p) + 1
        /\ u \in Nat /\ j \in Nat /\ 1 <= u /\ j <= Len(p) + 1 /\ u # Len(p) + 1
    BY <1>0, <1>1
  <2> HIDE DEF q
  <2>1. u \in 1..Len(p) /\ g[u] = f[u] /\ f[u] \in 1..n
    <3>1. u \in 1..Len(p)
      BY <2>0
    <3>2. f[u] \in K
      BY <3>1, <1>0
    <3>3. g[u] = f[u]
      BY <2>0
    <3> QED
      BY <3>1, <3>2, <3>3
  <2>2. CASE j = Len(p) + 1
    BY <2>1, <2>2, <1>0
  <2>3. CASE j # Len(p) + 1
    <3>1. j \in 1..Len(p)
      BY <2>0, <2>3
    <3> QED
      BY <2>1, <3>1, <1>0 DEF IsPicking
  <2> QED
    BY <2>2, <2>3
<1>4. \A m \in K \cup {n + 1} : \E u \in 1..Len(q) : g[u] = m
  <2> SUFFICES ASSUME NEW m \in K \cup {n + 1} PROVE \E u \in 1..Len(q) : g[u] = m
    OBVIOUS
  <2>1. CASE m = n + 1
    <3>1. Len(p) + 1 \in 1..Len(q) /\ g[Len(p) + 1] = n + 1
      BY <1>0, <1>1
    <3> QED
      BY <3>1, <2>1
  <2>2. CASE m \in K
    <3>1. PICK u \in 1..Len(p) : f[u] = m
      BY <2>2 DEF IsPicking
    <3>2. u \in 1..Len(q) /\ g[u] = m
      BY <3>1, <1>0, <1>1
    <3> QED
      BY <3>2
  <2> QED
    BY <2>1, <2>2
<1>5. q = [u \in 1..Len(q) |-> s[g[u]]]
  <2>1. \A u \in 1..Len(p) : p[u] = s[f[u]]
    BY DEF IsPicking
  <2>2. \A u \in 1..(Len(p) + 1) : (IF u = Len(p) + 1 THEN s[n + 1] ELSE p[u]) = s[g[u]]
    BY <2>1, <1>0
  <2> QED
    BY <2>2, <1>1
<1> HIDE DEF q, g
<1>6. IsPicking(s, K \cup {n + 1}, q, g)
  BY <1>0, <1>1, <1>2, <1>3, <1>4, <1>5 DEF IsPicking
<1> QED
  BY <1>6 DEF q

LEMMA PickedPlaces ==
    ASSUME NEW s, Len(s) \in Nat, NEW K, K \subseteq 1..Len(s)
    PROVE  \E f : IsPicking(s, K, Picked(s, K), f)
<1>1. PICK up : UpTo(s, K, up, Len(s)) /\ Picked(s, K) = up[Len(s)]
  BY PickedIs
<1> DEFINE Good(n) == \E f : IsPicking(s, K \cap (1..n), up[n], f)
           Bad == {n \in 0..Len(s) : ~Good(n)}
<1> SUFFICES Bad = {}
  <2>1. Good(Len(s))
    <3>1. Len(s) \in 0..Len(s)
      OBVIOUS
    <3> HIDE DEF Good
    <3> QED
      BY <3>1
  <2>2. K \cap (1..Len(s)) = K
    OBVIOUS
  <2> QED
    BY <1>1, <2>1, <2>2
<1> SUFFICES ASSUME Bad # {} PROVE FALSE
  OBVIOUS
<1>2. PICK m \in Bad : \A k \in Bad : ~(k < m)
  <2>1. Bad \subseteq Nat
    OBVIOUS
  <2> QED
    BY <2>1, LeastNat, Zenon
<1>3. CASE m = 0
  <2>1. up[0] = <<>> /\ K \cap (1..0) = {}
    BY <1>1 DEF UpTo
  <2>2. IsPicking(s, {}, <<>>, <<>>)
    BY DEF IsPicking
  <2> QED
    BY <1>2, <1>3, <2>1, <2>2
<1>4. CASE m # 0
  <2>0. m \in 1..Len(s) /\ m - 1 \in 0..Len(s) /\ m - 1 \in Nat /\ m - 1 + 1 = m
    BY <1>2, <1>4
  <2>1. up[m] = IF m \in K THEN Append(up[m - 1], s[m]) ELSE up[m - 1]
    <3>1. m \in 0..Len(s) /\ m # 0
      BY <2>0
    <3> QED
      BY <1>1, <3>1 DEF UpTo
  <2>2. m - 1 \notin Bad
    <3> HIDE DEF Bad
    <3>1. m - 1 < m
      BY <2>0
    <3> QED
      BY <1>2, <3>1
  <2>3. PICK f : IsPicking(s, K \cap (1..(m - 1)), up[m - 1], f)
    BY <2>0, <2>2
  <2>4. CASE m \in K
    <3>1. K \cap (1..m) = (K \cap (1..(m - 1))) \cup {m}
      BY <2>0, <2>4
    <3>2. \E g : IsPicking(s, (K \cap (1..(m - 1))) \cup {m - 1 + 1}, Append(up[m - 1], s[m - 1 + 1]), g)
      BY <2>0, <2>3, PickingStep
    <3> QED
      BY <3>1, <3>2, <2>0, <2>1, <2>4, <1>2
  <2>5. CASE m \notin K
    <3>1. K \cap (1..m) = K \cap (1..(m - 1))
      BY <2>0, <2>5
    <3> QED
      BY <3>1, <2>1, <2>3, <2>5, <1>2
  <2> QED
    BY <2>4, <2>5
<1> QED
  BY <1>3, <1>4

\* Who picks every place has the whole sequence.
LEMMA PickedAll ==
    ASSUME NEW S, NEW s \in Seq(S)
    PROVE  Picked(s, 1..Len(s)) = s
<1> DEFINE p == Picked(s, 1..Len(s))
<1>1. PICK f : IsPicking(s, 1..Len(s), p, f)
  BY PickedPlaces
<1> HIDE DEF p
<1>2. Len(p) \in Nat /\ f \in [1..Len(p) -> 1..Len(s)] /\ Len(s) \in Nat
  BY <1>1 DEF IsPicking
<1>3. \A u \in 1..Len(p) : f[u] = u
  <2> DEFINE Bad == {u \in 1..Len(p) : f[u] # u}
  <2> SUFFICES ASSUME Bad # {} PROVE FALSE
    OBVIOUS
  <2>1. PICK u \in Bad : \A k \in Bad : ~(k < u)
    <3>1. Bad \subseteq Nat
      OBVIOUS
    <3> QED
      BY <3>1, LeastNat, Zenon
  <2>2. /\ u \in 1..Len(p) /\ f[u] # u /\ f[u] \in 1..Len(s)
        /\ \A j \in 1..Len(p) : j < u => f[j] = j
        /\ \A j \in 1..Len(p) : u < j => f[u] < f[j]
        /\ \A j \in 1..Len(p) : j < u => f[j] < f[u]
    BY <1>1, <1>2, <2>1 DEF IsPicking
  <2>3. CASE f[u] < u
    <3>1. f[u] \in 1..Len(p)
      BY <1>2, <2>2, <2>3
    <3> QED
      BY <1>2, <2>2, <2>3, <3>1
  <2>4. CASE u < f[u]
    <3>1. u \in 1..Len(s)
      BY <1>2, <2>2, <2>4
    <3>2. PICK j \in 1..Len(p) : f[j] = u
      BY <3>1, <1>1 DEF IsPicking
    <3> QED
      BY <1>2, <2>2, <2>4, <3>2
  <2> QED
    BY <1>2, <2>2, <2>3, <2>4
<1>4. Len(p) = Len(s)
  <2>1. Len(p) # 0 => Len(p) \in 1..Len(p) /\ f[Len(p)] \in 1..Len(s)
    BY <1>2
  <2>2. Len(s) # 0 => \E u \in 1..Len(p) : f[u] = Len(s)
    BY <1>1, <1>2 DEF IsPicking
  <2> QED
    BY <1>2, <1>3, <2>1, <2>2
<1>5. p = [u \in 1..Len(s) |-> s[f[u]]]
  BY <1>1, <1>4 DEF IsPicking
<1>6. p = [u \in 1..Len(s) |-> s[u]]
  BY <1>3, <1>4, <1>5
<1> QED
  BY <1>6 DEF p

\* What a selection from a bundle has: the documents that match, each once.
LEMMA SelectPlaces ==
    ASSUME NEW b, IsBundle(b), NEW s
    PROVE  \E f : IsPicking(b, {n \in 1..Len(b) : Matches(s, b[n])}, Select(b, s), f)
<1>1. Len(b) \in Nat
  BY DEF IsBundle
<1>2. {n \in 1..Len(b) : Matches(s, b[n])} \subseteq 1..Len(b)
  OBVIOUS
<1> QED
  BY <1>1, <1>2, PickedPlaces DEF Select

LEMMA SelectElements ==
    ASSUME NEW b, IsBundle(b), NEW s
    PROVE  /\ Select(b, s) \in Seq(Docs(b))
           /\ \A k \in 1..Len(Select(b, s)) : Matches(s, Select(b, s)[k])
<1>1. PICK f : IsPicking(b, {n \in 1..Len(b) : Matches(s, b[n])}, Select(b, s), f)
  BY SelectPlaces
<1> DEFINE p == Select(b, s)
<1>2. \A k \in 1..Len(p) : p[k] \in Docs(b) /\ Matches(s, p[k])
  BY <1>1 DEF IsPicking, Docs
<1>3. Len(p) \in Nat /\ p = [k \in 1..Len(p) |-> b[f[k]]]
  BY <1>1 DEF IsPicking
<1> HIDE DEF p
<1>4. p = [k \in 1..Len(p) |-> p[k]]
  BY <1>3
<1>5. p \in Seq(Docs(b))
  BY <1>2, <1>3, <1>4
<1> QED
  BY <1>2, <1>5 DEF p

LEMMA ValueOf == \A v : Value(v).val = v /\ ~Failed(Value(v))
  BY DEF Value, Failed

\* Document d is the only one in b that matches.
OnlyOne(b, s, d) ==
    \E n \in 1..Len(b) :
        b[n] = d /\ Matches(s, d) /\ \A m \in 1..Len(b) : Matches(s, b[m]) => m = n

LEMMA SelectOneIs ==
    ASSUME NEW b, NEW s
    PROVE  /\ ~Failed(SelectOne(b, s)) =>
                SelectOne(b, s) = Value(SelectOne(b, s).val) /\ OnlyOne(b, s, SelectOne(b, s).val)
           /\ \A d : OnlyOne(b, s, d) => SelectOne(b, s) = Value(d)
<1> DEFINE found == {n \in 1..Len(b) : Matches(s, b[n])}
<1>1. CASE found = {}
  <2>1. Failed(SelectOne(b, s))
    BY <1>1 DEF SelectOne, Failed, Failure
  <2> QED
    BY <1>1, <2>1 DEF OnlyOne
<1>2. CASE found # {} /\ \E m, n \in found : m # n
  <2>1. Failed(SelectOne(b, s))
    BY <1>2 DEF SelectOne, Failed, Failure
  <2> QED
    BY <1>2, <2>1 DEF OnlyOne
<1>3. CASE found # {} /\ ~ \E m, n \in found : m # n
  <2>1. PICK n \in found : \A m \in found : m = n
    BY <1>3
  <2>2. (CHOOSE m \in found : TRUE) = n
    BY <2>1
  <2>3. SelectOne(b, s) = Value(b[n])
    BY <1>3, <2>2 DEF SelectOne
  <2>4. OnlyOne(b, s, b[n])
    BY <2>1 DEF OnlyOne
  <2>5. \A d : OnlyOne(b, s, d) => d = b[n]
    BY <2>1 DEF OnlyOne
  <2>6. SelectOne(b, s).val = b[n]
    <3>1. Value(b[n]).val = b[n]
      BY DEF Value
    <3> QED
      BY <2>3, <3>1, Zenon
  <2> QED
    BY <2>3, <2>4, <2>5, <2>6, Zenon
<1> QED
  BY <1>1, <1>2, <1>3

\* The only one that matches is what a selection finds.
LEMMA OnlyOneSelected ==
    ASSUME NEW b, IsBundle(b), NEW s, NEW d, OnlyOne(b, s, d)
    PROVE  Len(Select(b, s)) = 1 /\ Select(b, s)[1] = d
<1> DEFINE p == Select(b, s)
           K == {n \in 1..Len(b) : Matches(s, b[n])}
<1>1. PICK f : IsPicking(b, K, p, f)
  BY SelectPlaces
<1>2. PICK n \in 1..Len(b) : b[n] = d /\ K = {n}
  BY DEF OnlyOne
<1> HIDE DEF p, K
<1>3. PICK u \in 1..Len(p) : f[u] = n
  BY <1>1, <1>2 DEF IsPicking
<1>4. \A j \in 1..Len(p) : f[j] = n
  BY <1>1, <1>2 DEF IsPicking
<1>5. Len(p) \in Nat /\ \A j, k \in 1..Len(p) : j < k => f[j] < f[k]
  BY <1>1 DEF IsPicking
<1>6. Len(p) = 1
  <2>1. Len(p) \in Nat /\ u \in 1..Len(p) /\ n \in Int
    BY <1>5
  <2>2. ASSUME NEW L \in Nat, u \in 1..L, L # 1 PROVE 1 \in 1..L /\ 2 \in 1..L
    <3>1. 1 <= u /\ u <= L
      BY <2>2
    <3> QED
      BY <3>1, <2>2
  <2>3. Len(p) # 1 => 1 \in 1..Len(p) /\ 2 \in 1..Len(p)
    BY <2>1, <2>2
  <2>4. Len(p) # 1 => f[1] < f[2]
    BY <1>5, <2>3
  <2> QED
    BY <1>4, <2>1, <2>3, <2>4
<1>7. p[1] = b[f[1]]
  BY <1>1, <1>6 DEF IsPicking
<1> QED
  BY <1>2, <1>4, <1>6, <1>7 DEF p

\* A narrower selector finds in a selection what it finds in the bundle.
LEMMA OnlyOneOfSelection ==
    ASSUME NEW b, IsBundle(b), NEW r, NEW s, NEW d, OnlyOne(b, s, d), Matches(r, d)
    PROVE  OnlyOne(Select(b, r), s, d)
<1> DEFINE p == Select(b, r)
           K == {n \in 1..Len(b) : Matches(r, b[n])}
<1>1. PICK f : IsPicking(b, K, p, f)
  BY SelectPlaces
<1>2. PICK n \in 1..Len(b) :
        b[n] = d /\ Matches(s, d) /\ \A m \in 1..Len(b) : Matches(s, b[m]) => m = n
  BY DEF OnlyOne
<1>3. n \in K /\ K \subseteq 1..Len(b)
  BY <1>2
<1> HIDE DEF p, K
<1>4. PICK u \in 1..Len(p) : f[u] = n
  BY <1>1, <1>3 DEF IsPicking
<1>5. \A j \in 1..Len(p) : p[j] = b[f[j]] /\ f[j] \in 1..Len(b)
  BY <1>1, <1>3 DEF IsPicking
<1>6. ASSUME NEW j \in 1..Len(p), Matches(s, p[j]) PROVE j = u
  <2>1. f[j] = n
    BY <1>2, <1>5, <1>6
  <2>2. Len(p) \in Nat /\ (j < u => f[j] < f[u]) /\ (u < j => f[u] < f[j]) /\ n \in Int
    BY <1>1 DEF IsPicking
  <2> QED
    BY <1>4, <2>1, <2>2
<1> QED
  BY <1>2, <1>4, <1>5, <1>6 DEF OnlyOne, p

=============================================================================
