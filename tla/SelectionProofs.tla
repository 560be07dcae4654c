-------------------------- MODULE SelectionProofs --------------------------
(***************************************************************************)
(* What the functions of Selection compute, for every command line.        *)
(***************************************************************************)
EXTENDS Selection, SequenceTheorems, FiniteSetTheorems, WellFoundedInduction, TLAPS

\* A set of naturals has a least element: induction, as the provers can use it.
LEMMA LeastNat ==
  ASSUME NEW T \in SUBSET Nat, T # {}
  PROVE  \E m \in T : \A k \in T : m <= k
<1> DEFINE R == OpToRel(<, Nat)
<1>1. \A x, y \in Nat : <<y, x>> \in R <=> y < x
  BY DEF OpToRel
<1>2. IsWellFoundedOn(R, Nat)
  BY NatLessThanWellFounded
<1> HIDE DEF R
<1>3. PICK x \in T : \A y \in T : ~(<<y, x>> \in R)
  BY <1>2, WFMin
<1>4. \A y \in T : ~(y < x)
  BY <1>1, <1>3, Zenon
<1> QED BY <1>4

\* A set of naturals that holds 0, and n whenever it holds n - 1, up to a bound.
LEMMA UpTo ==
  ASSUME NEW N \in Nat, NEW P, 0 \in P, \A n \in 1..N : n - 1 \in P => n \in P
  PROVE  0..N \subseteq P
<1> SUFFICES ASSUME (0..N) \ P # {} PROVE FALSE
  OBVIOUS
<1>1. (0..N) \ P \in SUBSET Nat
  OBVIOUS
<1>2. PICK m \in (0..N) \ P : \A k \in (0..N) \ P : m <= k
  BY <1>1, LeastNat
<1>3. m \in 1..N /\ m - 1 \in 0..N /\ ~(m <= m - 1)
  BY <1>2
<1> QED BY <1>2, <1>3

(***************************************************************************)
(* deduped_explicit_namespaces                                             *)
(***************************************************************************)
NoTwice(s) == \A i, j \in DOMAIN s : s[i] = s[j] => i = j

LEMMA PushedOne ==
  ASSUME NEW S, NEW out \in Seq(S), NEW t \in S, NoTwice(out)
  PROVE  /\ Pushed(out, t) \in Seq(S) /\ NoTwice(Pushed(out, t))
         /\ Range(Pushed(out, t)) = Range(out) \cup ({t} \ {Blank})
<1>1. CASE t = Blank \/ t \in Range(out)
  BY <1>1 DEF Pushed
<1>2. CASE t # Blank /\ t \notin Range(out)
  <2> DEFINE s == Append(out, t)
  <2>1. /\ s \in Seq(S) /\ Len(s) = Len(out) + 1 /\ s[Len(out) + 1] = t
        /\ \A i \in 1..Len(out) : s[i] = out[i]
    BY AppendProperties
  <2>2. /\ DOMAIN s = 1..Len(s) /\ DOMAIN out = 1..Len(out) /\ Len(out) \in Nat
    BY <2>1, LenProperties
  <2>3. Pushed(out, t) = s
    BY <1>2 DEF Pushed
  <2> HIDE DEF s
  <2>4. \A i \in DOMAIN s : i \in 1..Len(out) \/ i = Len(out) + 1
    BY <2>1, <2>2
  <2>5. \A i \in 1..Len(out) : out[i] \in Range(out) /\ out[i] # t
    BY <1>2, <2>2 DEF Range
  <2>6. NoTwice(s)
    BY <2>1, <2>2, <2>4, <2>5 DEF NoTwice
  <2>7. Range(s) = Range(out) \cup {t}
    <3>1. \A x \in Range(s) : x \in Range(out) \/ x = t
      BY <2>1, <2>4, <2>5 DEF Range
    <3>2. t \in Range(s)
      BY <2>1, <2>2 DEF Range
    <3>3. \A i \in 1..Len(out) : out[i] \in Range(s)
      BY <2>1, <2>2 DEF Range
    <3>4. \A x \in Range(out) : x \in Range(s)
      BY <2>2, <3>3 DEF Range
    <3> QED BY <3>1, <3>2, <3>4
  <2> QED BY <1>2, <2>1, <2>3, <2>6, <2>7
<1> QED BY <1>1, <1>2

\* Pushing part after part, as the loop does.
Trace(ns, h, n) ==
  h[0] = <<>> /\ \A i \in 1..n : h[i] = Pushed(h[i - 1], ns[i])
\* What the loop has collected of the first n parts.
Collected(ns, out, n) == Range(out) = {ns[i] : i \in 1..n} \ {Blank} /\ NoTwice(out)

LEMMA TraceCollects ==
  ASSUME NEW S, NEW ns \in Seq(S), NEW h, Trace(ns, h, Len(ns))
  PROVE  \A n \in 0..Len(ns) : h[n] \in Seq(S) /\ Collected(ns, h[n], n)
<1> DEFINE N == Len(ns)
           P == {n \in 0..N : h[n] \in Seq(S) /\ Collected(ns, h[n], n)}
<1>1. N \in Nat /\ \A i \in 1..N : ns[i] \in S
  BY LenProperties
<1>2. 0 \in P
  <2>1. h[0] = <<>> /\ {ns[i] : i \in 1..0} = {}
    BY DEF Trace
  <2>2. <<>> \in Seq(S) /\ Range(<<>>) = {} /\ NoTwice(<<>>)
    BY DEF Range, NoTwice
  <2>3. h[0] \in Seq(S) /\ Collected(ns, h[0], 0)
    BY <2>1, <2>2 DEF Collected
  <2>4. 0 \in 0..N
    BY <1>1
  <2> HIDE DEF N
  <2> QED BY <2>3, <2>4
<1>3. ASSUME NEW n \in 1..N, n - 1 \in P PROVE n \in P
  <2>1. h[n] = Pushed(h[n - 1], ns[n]) /\ h[n - 1] \in Seq(S) /\ Collected(ns, h[n - 1], n - 1)
        /\ ns[n] \in S
    BY <1>1, <1>3 DEF Trace
  <2>2. h[n] \in Seq(S) /\ NoTwice(h[n]) /\ Range(h[n]) = Range(h[n - 1]) \cup ({ns[n]} \ {Blank})
    BY <2>1, PushedOne DEF Collected
  <2>3. {ns[i] : i \in 1..n} = {ns[i] : i \in 1..(n - 1)} \cup {ns[n]}
    <3>1. \A i \in 1..n : i \in 1..(n - 1) \/ i = n
      BY <1>1
    <3>2. n \in 1..n /\ \A i \in 1..(n - 1) : i \in 1..n
      BY <1>1
    <3> QED BY <3>1, <3>2
  <2>4. Range(h[n]) = {ns[i] : i \in 1..n} \ {Blank}
    BY <2>1, <2>2, <2>3 DEF Collected
  <2> QED BY <1>1, <2>2, <2>4 DEF Collected
<1>4. 0..N \subseteq P
  <2> HIDE DEF P, N
  <2> QED BY <1>1, <1>2, <1>3, UpTo
<1> QED BY <1>4

\* The loop has a trace for every list of parts.
LEMMA TraceExists ==
  ASSUME NEW ns, NEW N \in Nat
  PROVE  \E h : h = [i \in 0..N |-> IF i = 0 THEN <<>> ELSE Pushed(h[i - 1], ns[i])]
<1> DEFINE Good(h, n) == h = [i \in 0..n |-> IF i = 0 THEN <<>> ELSE Pushed(h[i - 1], ns[i])]
           P == {n \in 0..N : \E h : Good(h, n)}
<1>1. 0 \in P
  <2> DEFINE h == [i \in 0..0 |-> <<>>]
  <2>1. Good(h, 0) /\ 0 \in 0..N
    OBVIOUS
  <2> HIDE DEF h, Good
  <2> QED BY <2>1
<1>2. ASSUME NEW n \in 1..N, n - 1 \in P PROVE n \in P
  <2>1. PICK h : Good(h, n - 1)
    BY <1>2
  <2> DEFINE g == [i \in 0..n |-> IF i = n THEN Pushed(h[n - 1], ns[n]) ELSE h[i]]
  <2>2. \A i \in 0..(n - 1) : g[i] = h[i]
    OBVIOUS
  <2>3. \A i \in 0..n : g[i] = IF i = 0 THEN <<>> ELSE Pushed(g[i - 1], ns[i])
    <3> TAKE i \in 0..n
    <3>1. CASE i = n
      <4>1. g[i - 1] = h[n - 1] /\ i # 0
        BY <2>2, <3>1
      <4> QED BY <3>1, <4>1
    <3>2. CASE i \in 1..(n - 1)
      <4>1. i - 1 \in 0..(n - 1) /\ i \in 0..(n - 1) /\ i # 0
        BY <3>2
      <4>2. h[i] = Pushed(h[i - 1], ns[i])
        BY <2>1, <4>1
      <4> QED BY <2>2, <4>1, <4>2
    <3>3. CASE i = 0
      <4>1. 0 \in 0..(n - 1)
        OBVIOUS
      <4>2. h[0] = <<>>
        BY <2>1, <4>1
      <4> QED BY <2>2, <3>3, <4>1, <4>2
    <3> QED BY <3>1, <3>2, <3>3
  <2>4. g = [i \in 0..n |-> IF i = 0 THEN <<>> ELSE Pushed(g[i - 1], ns[i])]
    <3>1. DOMAIN g = 0..n /\ g = [i \in DOMAIN g |-> g[i]]
      OBVIOUS
    <3> HIDE DEF g
    <3> QED BY <2>3, <3>1
  <2> HIDE DEF g
  <2>5. Good(g, n)
    BY <2>4
  <2> QED BY <2>5
<1>3. 0..N \subseteq P
  <2> HIDE DEF P
  <2> QED BY <1>1, <1>2, UpTo
<1> QED BY <1>3

\* The explicit namespaces are the parts that are not blank, each once, whatever the -n
\* options list (run_resolution.rs, deduped_explicit_namespaces).
THEOREM DedupedIsExact ==
  ASSUME NEW S, NEW flags, flags.namespaces \in Seq(S)
  PROVE  /\ DedupedExplicitNamespaces(flags) \in Seq(S)
         /\ Range(DedupedExplicitNamespaces(flags)) = Range(flags.namespaces) \ {Blank}
         /\ NoTwice(DedupedExplicitNamespaces(flags))
<1> DEFINE ns == flags.namespaces
           N == Len(ns)
           Fits(u) == u = [i \in 0..N |-> IF i = 0 THEN <<>> ELSE Pushed(u[i - 1], ns[i])]
           h == CHOOSE u : Fits(u)
<1>1. N \in Nat /\ DOMAIN ns = 1..N
  BY LenProperties
<1>2. DedupedExplicitNamespaces(flags) = h[N]
  BY DEF DedupedExplicitNamespaces
<1>3. Fits(h)
  <2>1. \E u : Fits(u)
    <3> HIDE DEF ns, N
    <3> QED BY <1>1, TraceExists
  <2> QED BY <2>1
<1>4. Trace(ns, h, N)
  <2> HIDE DEF h, ns, N
  <2>1. h[0] = <<>>
    BY <1>1, <1>3
  <2>2. \A i \in 1..N : h[i] = Pushed(h[i - 1], ns[i])
    <3> TAKE i \in 1..N
    <3>1. i \in 0..N /\ i # 0
      BY <1>1
    <3> QED BY <1>3, <3>1
  <2> QED BY <2>1, <2>2 DEF Trace
<1>5. h[N] \in Seq(S) /\ Collected(ns, h[N], N)
  <2>1. N \in 0..N
    BY <1>1
  <2> HIDE DEF h
  <2> QED BY <1>4, <2>1, TraceCollects
<1>6. Range(ns) = {ns[i] : i \in 1..N}
  BY <1>1 DEF Range
<1> HIDE DEF h, ns, N
<1>7. /\ h[N] \in Seq(S) /\ Range(h[N]) = Range(ns) \ {Blank} /\ NoTwice(h[N])
  BY <1>5, <1>6 DEF Collected
<1> QED BY <1>2, <1>7 DEF ns
=============================================================================
