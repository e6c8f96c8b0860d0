--------------------------- MODULE SelectionProofs ---------------------------
(***************************************************************************)
(* What a filter leaves of a sequence: the elements at the places that     *)
(* pass, in their order.                                                   *)
(***************************************************************************)
EXTENDS Selection, WellFoundedInduction, FiniteSetTheorems, TLAPS

\* Induction over numbers, in the form the provers can use: what fails fails
\* first somewhere.
LEMMA LeastNat ==
  ASSUME NEW T, T \subseteq Nat, T # {}
  PROVE  \E n \in T : \A m \in T : n =< m
<1> DEFINE U == { 0 .. n : n \in T }
<1>1. U \subseteq FiniteSubsetsOf(Nat) /\ U # {}
  <2>1. \A n \in T : IsFiniteSet(0 .. n) /\ (0 .. n) \in SUBSET Nat
    BY FS_Interval
  <2> QED  BY <2>1 DEF FiniteSubsetsOf
<1>2. PICK x \in U : \A y \in U : <<y, x>> \notin StrictSubsetOrdering(Nat)
  BY <1>1, FS_StrictSubsetOrderingWellFounded, WFMin, Zenon
<1>3. PICK n \in T : x = 0 .. n
  OBVIOUS
<1>4. ASSUME NEW m \in T, m < n  PROVE FALSE
  <2>1. (0 .. m) \in U /\ (0 .. m) \subseteq x /\ n \in x /\ n \notin 0 .. m
    BY <1>3, <1>4
  <2>2. x \in SUBSET Nat /\ (0 .. m) \in SUBSET Nat
    BY <1>3
  <2> QED  BY <1>2, <2>1, <2>2 DEF StrictSubsetOrdering
<1> QED  BY <1>4


\* r is the elements of s at the places g[1], g[2], ..., which increase and are
\* all the places.
Picks(g, r, s, places) ==
  /\ g \in [1 .. Len(r) -> Nat]
  /\ \A k, l \in 1 .. Len(r) : k < l => g[k] < g[l]
  /\ { g[k] : k \in 1 .. Len(r) } = places \cap (1 .. Len(s))
  /\ \A k \in 1 .. Len(r) : r[k] = s[g[k]]

\* The recursion of Selected, up to a place.
UpTo(f, s, places, m) ==
  f = [n \in 0 .. m |-> IF n = 0 THEN << >>
                        ELSE IF n \in places THEN Append(f[n - 1], s[n])
                        ELSE f[n - 1]]

LEMMA UpToExists ==
  ASSUME NEW s, NEW places, NEW n \in Nat
  PROVE  \E f : UpTo(f, s, places, n)
<1> DEFINE T == { m \in Nat : ~ \E f : UpTo(f, s, places, m) }
<1>1. SUFFICES ASSUME T # {}  PROVE FALSE
  OBVIOUS
<1>2. PICK m \in T : \A l \in T : m =< l
  BY <1>1, LeastNat
<1> HIDE DEF T
<1>7. m \in Nat /\ ~ \E f : UpTo(f, s, places, m)
  BY DEF T
<1>8. \A l \in Nat : l < m => \E f : UpTo(f, s, places, l)
  BY <1>2, <1>7 DEF T
<1>3. CASE m = 0
  <2>1. UpTo([k \in 0 .. 0 |-> << >>], s, places, 0)
    BY DEF UpTo
  <2> QED  BY <1>3, <1>7, <2>1
<1>4. CASE m # 0
  <2>1. PICK f : UpTo(f, s, places, m - 1)
    BY <1>4, <1>7, <1>8
  <2> DEFINE h == [k \in 0 .. m |->
                     IF k < m THEN f[k]
                     ELSE IF m \in places THEN Append(f[m - 1], s[m]) ELSE f[m - 1]]
  <2>2. \A k \in 0 .. m - 1 : h[k] = f[k]
    BY <1>4, <1>7
  <2>4. \A k \in 0 .. m - 1 : f[k] = IF k = 0 THEN << >>
                                      ELSE IF k \in places THEN Append(f[k - 1], s[k])
                                      ELSE f[k - 1]
    BY <2>1 DEF UpTo
  <2>5. m \in Nat \ {0} /\ h[m] = IF m \in places THEN Append(h[m - 1], s[m]) ELSE h[m - 1]
    BY <1>4, <1>7, <2>2
  <2> DEFINE body(k) == IF k = 0 THEN << >>
                        ELSE IF k \in places THEN Append(h[k - 1], s[k])
                        ELSE h[k - 1]
  <2>6. ASSUME NEW k \in 0 .. m  PROVE h[k] = body(k)
    <3>1. CASE k = m
      BY <2>5, <3>1
    <3>2. CASE k = 0
      BY <2>2, <2>4, <2>5, <3>2
    <3>3. CASE k # m /\ k # 0
      <4>1. k \in 0 .. m - 1 /\ k - 1 \in 0 .. m - 1
        BY <2>5, <3>3
      <4>2. h[k] = f[k] /\ h[k - 1] = f[k - 1]
        BY <2>2, <4>1
      <4> HIDE DEF h
      <4> QED  BY <2>4, <3>3, <4>1, <4>2
    <3> QED  BY <3>1, <3>2, <3>3
  <2>3. UpTo(h, s, places, m)
    <3>1. h = [k \in 0 .. m |-> h[k]]
      OBVIOUS
    <3>2. h = [k \in 0 .. m |-> body(k)]
      BY <2>6, <3>1, Zenon
    <3> QED  BY <3>2, Zenon DEF UpTo
  <2> QED  BY <1>7, <2>3
<1> QED  BY <1>3, <1>4

LEMMA SelectedIs ==
  ASSUME NEW S, NEW s \in Seq(S), NEW places
  PROVE  /\ Selected(s, places) \in Seq(S)
         /\ \E g : Picks(g, Selected(s, places), s, places)
<1>1. PICK f : UpTo(f, s, places, Len(s)) /\ Selected(s, places) = f[Len(s)]
  <2> DEFINE f == CHOOSE f : UpTo(f, s, places, Len(s))
  <2>1. UpTo(f, s, places, Len(s))
    BY UpToExists
  <2>2. Selected(s, places) = f[Len(s)]
    BY DEF Selected, UpTo
  <2> QED  BY <2>1, <2>2
<1>2. \A k \in 0 .. Len(s) : f[k] = IF k = 0 THEN << >>
                                   ELSE IF k \in places THEN Append(f[k - 1], s[k])
                                   ELSE f[k - 1]
  BY <1>1 DEF UpTo
<1> DEFINE G(n) == f[n] \in Seq(S) /\ \E g : Picks(g, f[n], SubSeq(s, 1, n), places)
           T == { n \in 0 .. Len(s) : ~ G(n) }
<1>3. SUFFICES ASSUME T # {}  PROVE FALSE
  <2>1. Len(s) \in 0 .. Len(s) /\ G(Len(s))
    BY <1>3
  <2>2. SubSeq(s, 1, Len(s)) = s
    OBVIOUS
  <2> QED  BY <1>1, <2>1, <2>2
<1> HIDE DEF G
<1>7. T \subseteq Nat
  OBVIOUS
<1>8. PICK n \in T : \A m \in T : n =< m
  BY <1>3, <1>7, LeastNat
<1>4. n \in 0 .. Len(s) /\ ~ G(n) /\ \A m \in 0 .. Len(s) : m < n => G(m)
  <2>1. \A m \in 0 .. Len(s) : m < n => m \notin T
    BY <1>8
  <2> QED  BY <2>1
<1> HIDE DEF T
<1>5. CASE n = 0
  <2>1. f[0] = << >>
    BY <1>2
  <2>2. Picks(<< >>, << >>, SubSeq(s, 1, 0), places)
    BY DEF Picks
  <2> QED  BY <1>4, <1>5, <2>1, <2>2 DEF G
<1>6. CASE n # 0
  <2>1. n \in 1 .. Len(s) /\ n - 1 \in 0 .. Len(s) /\ n - 1 < n
    BY <1>4, <1>6
  <2>2. G(n - 1)
    BY <1>4, <2>1
  <2>3. PICK g : Picks(g, f[n - 1], SubSeq(s, 1, n - 1), places)
    BY <2>2 DEF G
  <2>8. f[n - 1] \in Seq(S)
    BY <2>2 DEF G
  <2>4. /\ Len(SubSeq(s, 1, n)) = n /\ Len(SubSeq(s, 1, n - 1)) = n - 1
        /\ \A k \in 1 .. n : SubSeq(s, 1, n)[k] = s[k]
        /\ \A k \in 1 .. n - 1 : SubSeq(s, 1, n - 1)[k] = s[k]
    BY <2>1
  <2>5. f[n] = IF n \in places THEN Append(f[n - 1], s[n]) ELSE f[n - 1]
    BY <1>2, <1>6, <2>1
  <2>6. CASE n \notin places
    <3>1. Picks(g, f[n], SubSeq(s, 1, n), places)
      <4>1. places \cap (1 .. n) = places \cap (1 .. n - 1)
        BY <2>1, <2>6
      <4>2. \A k \in 1 .. Len(f[n]) : g[k] \in 1 .. n - 1
        BY <2>3, <2>4, <2>5, <2>6 DEF Picks
      <4> QED  BY <2>1, <2>3, <2>4, <2>5, <2>6, <4>1, <4>2 DEF Picks
    <3> QED  BY <1>4, <2>5, <2>6, <2>8, <3>1 DEF G
  <2>7. CASE n \in places
    <3> DEFINE r == f[n - 1]
               h == [k \in 1 .. Len(r) + 1 |-> IF k =< Len(r) THEN g[k] ELSE n]
    <3>1. r \in Seq(S) /\ s[n] \in S /\ f[n] = Append(r, s[n])
      BY <2>1, <2>5, <2>7, <2>8
    <3> HIDE DEF r
    <3>2. /\ Len(f[n]) = Len(r) + 1 /\ Len(r) \in Nat
          /\ \A k \in 1 .. Len(r) : f[n][k] = r[k]
          /\ f[n][Len(r) + 1] = s[n]
      BY <3>1
    <3>3. /\ g \in [1 .. Len(r) -> Nat]
          /\ \A k, l \in 1 .. Len(r) : k < l => g[k] < g[l]
          /\ { g[k] : k \in 1 .. Len(r) } = places \cap (1 .. n - 1)
          /\ \A k \in 1 .. Len(r) : r[k] = s[g[k]]
      <4>1. Picks(g, r, SubSeq(s, 1, n - 1), places)
        BY <2>3 DEF r
      <4>2. \A k \in 1 .. Len(r) : g[k] \in 1 .. n - 1
        BY <2>4, <4>1 DEF Picks
      <4> QED  BY <2>4, <4>1, <4>2 DEF Picks
    <3>4. \A k \in 1 .. Len(r) : g[k] \in 1 .. n - 1
      BY <3>3
    <3>5. h \in [1 .. Len(r) + 1 -> Nat]
      BY <2>1, <3>3
    <3>6. \A k, l \in 1 .. Len(r) + 1 : k < l => h[k] < h[l]
      BY <2>1, <3>2, <3>3, <3>4
    <3>7. { h[k] : k \in 1 .. Len(r) + 1 } = places \cap (1 .. n)
      <4>1. h[Len(r) + 1] = n /\ \A k \in 1 .. Len(r) : h[k] = g[k]
        BY <3>2
      <4>2. { h[k] : k \in 1 .. Len(r) + 1 } = { g[k] : k \in 1 .. Len(r) } \union {n}
        BY <3>2, <4>1
      <4>3. places \cap (1 .. n) = (places \cap (1 .. n - 1)) \union {n}
        BY <2>1, <2>7
      <4> QED  BY <3>3, <4>2, <4>3, Zenon
    <3>8. \A k \in 1 .. Len(r) + 1 : f[n][k] = SubSeq(s, 1, n)[h[k]]
      BY <2>1, <2>4, <3>2, <3>3, <3>4
    <3>9. Picks(h, f[n], SubSeq(s, 1, n), places)
      BY <2>4, <3>2, <3>5, <3>6, <3>7, <3>8 DEF Picks
    <3>10. f[n] \in Seq(S)
      BY <3>1
    <3> QED  BY <1>4, <3>9, <3>10 DEF G
  <2> QED  BY <2>6, <2>7
<1> QED  BY <1>5, <1>6
=============================================================================
