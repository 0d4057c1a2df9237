------------------------- MODULE HttpExchangeProofs -------------------------
(***************************************************************************)
(* Proofs about HttpExchange: whatever requests browsers make and whatever *)
(* an application replies.                                                 *)
(*                                                                         *)
(* The library's induction theorems are about operators; the first lemmas  *)
(* restate them for sets, and Keep is then known by what it does to the    *)
(* empty sequence and to one element more.                                 *)
(***************************************************************************)
EXTENDS HttpExchange, Integers, TLAPS, SequenceTheorems, WellFoundedInduction

\* A set of numbers that is not empty has a least element.
LEMMA LeastNumber ==
  ASSUME NEW T, T \subseteq Nat, T # {}
  PROVE  \E x \in T : \A y \in T : x <= y
<1> DEFINE R == {p \in Nat \X Nat : p[1] < p[2]}
<1>1. OpToRel(<, Nat) = R
  BY Zenon DEF OpToRel
<1>2. IsWellFoundedOn(R, Nat)
  BY <1>1, NatLessThanWellFounded, Zenon
<1>3. \E x \in T : \A y \in T : ~ (<<y, x>> \in R)
  <2> HIDE DEF R
  <2> QED  BY WFMin, <1>2
<1>4. PICK x \in T : \A y \in T : ~ (<<y, x>> \in R)
  BY <1>3
<1>5. \A y \in T : x <= y
  <2> SUFFICES ASSUME NEW y \in T PROVE x <= y
    OBVIOUS
  <2>1. ~ (<<y, x>> \in R)
    BY <1>4
  <2> QED  BY <2>1
<1> QED  BY <1>5

\* Induction over the numbers, for a set.
LEMMA NumberInduction ==
  ASSUME NEW G, 0 \in G, \A n \in Nat : n \in G => n + 1 \in G
  PROVE  Nat \subseteq G
<1> SUFFICES ASSUME Nat \ G # {} PROVE FALSE
  OBVIOUS
<1>1. PICK n \in Nat \ G : \A m \in Nat \ G : n <= m
  BY LeastNumber
<1>2. n # 0 /\ n - 1 \in Nat /\ ~ (n <= n - 1)
  OBVIOUS
<1>3. n - 1 \in G
  BY <1>1, <1>2
<1>4. (n - 1) + 1 = n
  OBVIOUS
<1> QED  BY <1>2, <1>3, <1>4

\* Induction over the sequences, for a set.
LEMMA SequenceInduction ==
  ASSUME NEW S, NEW G, <<>> \in G,
         \A s \in Seq(S), e \in S : s \in G => Append(s, e) \in G
  PROVE  Seq(S) \subseteq G
<1> DEFINE L == {n \in Nat : \A s \in Seq(S) : Len(s) = n => s \in G}
<1>1. 0 \in L
  BY EmptySeq
<1>2. ASSUME NEW n \in Nat, n \in L PROVE n + 1 \in L
  <2> SUFFICES ASSUME NEW s \in Seq(S), Len(s) = n + 1 PROVE s \in G
    OBVIOUS
  <2>1. s # <<>>
    OBVIOUS
  <2>2. PICK t \in Seq(S), e \in S : s = Append(t, e)
    BY <2>1, SequenceEmptyOrAppend
  <2>3. Len(t) = n
    BY <2>2, AppendProperties
  <2>4. t \in G
    BY <1>2, <2>3
  <2> QED  BY <2>2, <2>4
<1> HIDE DEF L
<1>3. Nat \subseteq L
  BY <1>1, <1>2, NumberInduction
<1> QED  BY <1>3, LenProperties DEF L

-----------------------------------------------------------------------------
(***************************************************************************)
(* Keep.                                                                   *)
(***************************************************************************)

\* The function that Keep defines, up to n.
IsKept(f, s, T, n) ==
  f = [i \in 0 .. n |->
         IF i = 0 THEN <<>>
         ELSE IF s[i] \in T THEN Append(f[i - 1], s[i])
         ELSE f[i - 1]]

LEMMA KeptExists ==
  ASSUME NEW S, NEW s \in Seq(S), NEW T
  PROVE  \E f \in [0 .. Len(s) -> Seq(S)] : IsKept(f, s, T, Len(s))
<1> DEFINE G == {n \in Nat : n <= Len(s) =>
                   \E f \in [0 .. n -> Seq(S)] : IsKept(f, s, T, n)}
<1>1. 0 \in G
  <2> DEFINE f == [i \in 0 .. 0 |-> <<>>]
  <2>1. f \in [0 .. 0 -> Seq(S)]
    BY EmptySeq
  <2>2. IsKept(f, s, T, 0)
    BY DEF IsKept
  <2> QED  BY <2>1, <2>2
<1>2. ASSUME NEW n \in Nat, n \in G PROVE n + 1 \in G
  <2> SUFFICES ASSUME n + 1 <= Len(s)
               PROVE  \E f \in [0 .. n + 1 -> Seq(S)] : IsKept(f, s, T, n + 1)
    OBVIOUS
  <2>1. PICK f \in [0 .. n -> Seq(S)] : IsKept(f, s, T, n)
    BY <1>2, LenProperties
  <2> DEFINE e == IF s[n + 1] \in T THEN Append(f[n], s[n + 1]) ELSE f[n]
             g == [i \in 0 .. n + 1 |-> IF i <= n THEN f[i] ELSE e]
  <2>2. e \in Seq(S)
    <3>1. f[n] \in Seq(S)
      OBVIOUS
    <3>2. s[n + 1] \in S
      BY LenProperties, ElementOfSeq
    <3> QED  BY <3>1, <3>2, AppendProperties
  <2>3. g \in [0 .. n + 1 -> Seq(S)]
    BY <2>2
  <2>4. ASSUME NEW i \in 0 .. n + 1
        PROVE  g[i] = IF i = 0 THEN <<>>
                      ELSE IF s[i] \in T THEN Append(g[i - 1], s[i])
                      ELSE g[i - 1]
    <3>1. CASE i <= n
      <4>1. i \in 0 .. n
        BY <3>1
      <4>2. f[i] = IF i = 0 THEN <<>>
                   ELSE IF s[i] \in T THEN Append(f[i - 1], s[i])
                   ELSE f[i - 1]
        BY <2>1, <4>1, Zenon DEF IsKept
      <4>3. g[i] = f[i] /\ (i # 0 => g[i - 1] = f[i - 1])
        BY <3>1
      <4> QED  BY <4>2, <4>3
    <3>2. CASE i = n + 1
      <4>1. g[i] = e /\ g[i - 1] = f[n] /\ i # 0
        BY <3>2
      <4> QED  BY <4>1, <3>2
    <3> QED  BY <3>1, <3>2
  <2>5. IsKept(g, s, T, n + 1)
    <3> DEFINE next(i) == IF i = 0 THEN <<>>
                          ELSE IF s[i] \in T THEN Append(g[i - 1], s[i])
                          ELSE g[i - 1]
    <3> HIDE DEF g
    <3>1. \A i \in 0 .. n + 1 : g[i] = next(i)
      BY <2>4
    <3> HIDE DEF next
    <3>2. g = [i \in 0 .. n + 1 |-> next(i)]
      BY <2>3, <3>1
    <3> QED  BY <3>2 DEF IsKept, next
  <2> QED  BY <2>3, <2>5
<1> HIDE DEF G
<1>3. Nat \subseteq G
  BY <1>1, <1>2, NumberInduction
<1> QED  BY <1>3, LenProperties DEF G

\* It depends on no more of the sequence than it has come to.
LEMMA KeptAgree ==
  ASSUME NEW S, NEW s, NEW t, NEW T, NEW m \in Nat, NEW n \in Nat, m <= n,
         \A i \in 1 .. m : s[i] = t[i],
         NEW f, NEW g, IsKept(f, s, T, m), IsKept(g, t, T, n)
  PROVE  f[m] = g[m]
<1> DEFINE G == {i \in Nat : i <= m => f[i] = g[i]}
<1>1. 0 \in G
  BY DEF IsKept
<1>2. ASSUME NEW i \in Nat, i \in G PROVE i + 1 \in G
  <2> SUFFICES ASSUME i + 1 <= m PROVE f[i + 1] = g[i + 1]
    OBVIOUS
  <2>1. i + 1 \in 0 .. m /\ i + 1 \in 0 .. n /\ i + 1 # 0 /\ (i + 1) - 1 = i
    OBVIOUS
  <2>2. f[i + 1] = IF s[i + 1] \in T THEN Append(f[i], s[i + 1]) ELSE f[i]
    BY <2>1 DEF IsKept
  <2>3. g[i + 1] = IF t[i + 1] \in T THEN Append(g[i], t[i + 1]) ELSE g[i]
    BY <2>1 DEF IsKept
  <2>4. f[i] = g[i] /\ s[i + 1] = t[i + 1]
    BY <1>2
  <2> QED  BY <2>2, <2>3, <2>4
<1> HIDE DEF G
<1>3. Nat \subseteq G
  BY <1>1, <1>2, NumberInduction
<1> QED  BY <1>3 DEF G

LEMMA KeepIsKept ==
  ASSUME NEW S, NEW s \in Seq(S), NEW T
  PROVE  \E f \in [0 .. Len(s) -> Seq(S)] : IsKept(f, s, T, Len(s)) /\ Keep(s, T) = f[Len(s)]
<1>1. PICK f \in [0 .. Len(s) -> Seq(S)] : IsKept(f, s, T, Len(s))
  BY KeptExists
<1> DEFINE h == CHOOSE k : IsKept(k, s, T, Len(s))
<1>2. IsKept(h, s, T, Len(s))
  BY <1>1
<1>3. Keep(s, T) = h[Len(s)]
  BY Zenon DEF Keep, IsKept
<1> HIDE DEF h
<1>4. h[Len(s)] = f[Len(s)]
  BY <1>1, <1>2, KeptAgree, LenProperties
<1> QED  BY <1>1, <1>3, <1>4

LEMMA KeepEmpty ==
  ASSUME NEW T
  PROVE  Keep(<<>>, T) = <<>>
<1>1. PICK f \in [0 .. Len(<<>>) -> Seq({})] :
        IsKept(f, <<>>, T, Len(<<>>)) /\ Keep(<<>>, T) = f[Len(<<>>)]
  BY KeepIsKept, EmptySeq
<1> QED  BY <1>1, EmptySeq DEF IsKept

LEMMA KeepType ==
  ASSUME NEW S, NEW s \in Seq(S), NEW T
  PROVE  Keep(s, T) \in Seq(S)
BY KeepIsKept, LenProperties

LEMMA KeepAppend ==
  ASSUME NEW S, NEW s \in Seq(S), NEW e \in S, NEW T
  PROVE  Keep(Append(s, e), T) = IF e \in T THEN Append(Keep(s, T), e) ELSE Keep(s, T)
<1> DEFINE t == Append(s, e)
           n == Len(s)
<1>1. t \in Seq(S) /\ n \in Nat /\ Len(t) = n + 1 /\ t[n + 1] = e
      /\ \A i \in 1 .. n : s[i] = t[i]
  BY AppendProperties, LenProperties
<1> HIDE DEF t
<1>2. PICK f : IsKept(f, s, T, n) /\ Keep(s, T) = f[n]
  BY KeepIsKept
<1>3. PICK g : IsKept(g, t, T, n + 1) /\ Keep(t, T) = g[n + 1]
  BY KeepIsKept, <1>1
<1>4. g[n + 1] = IF t[n + 1] \in T THEN Append(g[n], t[n + 1]) ELSE g[n]
  <2>1. n + 1 \in 0 .. n + 1 /\ n + 1 # 0 /\ (n + 1) - 1 = n
    BY <1>1
  <2> HIDE DEF n
  <2> QED  BY <1>3, <2>1 DEF IsKept
<1>5. f[n] = g[n]
  <2>1. n <= n + 1 /\ n + 1 \in Nat
    BY <1>1
  <2> HIDE DEF n
  <2> QED  BY <1>1, <1>2, <1>3, <2>1, KeptAgree
<1> QED  BY <1>1, <1>2, <1>3, <1>4, <1>5 DEF t

LEMMA AppendInside ==
  ASSUME NEW S, NEW s \in Seq(S), NEW t \in Seq(S), NEW e \in S
  PROVE  s \o Append(t, e) = Append(s \o t, e)
<1>1. <<e>> \in Seq(S) /\ s \o t \in Seq(S)
  BY ConcatProperties
<1>2. Append(t, e) = t \o <<e>> /\ Append(s \o t, e) = (s \o t) \o <<e>>
  BY <1>1, AppendIsConcat
<1> QED  BY <1>1, <1>2, ConcatAssociative

LEMMA KeepConcat ==
  ASSUME NEW S, NEW s \in Seq(S), NEW t \in Seq(S), NEW T
  PROVE  Keep(s \o t, T) = Keep(s, T) \o Keep(t, T)
<1> DEFINE G == {u \in Seq(S) : Keep(s \o u, T) = Keep(s, T) \o Keep(u, T)}
<1>1. <<>> \in G
  BY EmptySeq, KeepEmpty, KeepType, ConcatEmptySeq
<1>2. ASSUME NEW u \in Seq(S), NEW e \in S, u \in G PROVE Append(u, e) \in G
  <2>1. s \o u \in Seq(S) /\ Append(u, e) \in Seq(S)
    BY ConcatProperties, AppendProperties
  <2>2. s \o Append(u, e) = Append(s \o u, e)
    BY AppendInside
  <2>3. Keep(Append(s \o u, e), T) =
          IF e \in T THEN Append(Keep(s \o u, T), e) ELSE Keep(s \o u, T)
    BY <2>1, KeepAppend
  <2>4. Keep(Append(u, e), T) = IF e \in T THEN Append(Keep(u, T), e) ELSE Keep(u, T)
    BY KeepAppend
  <2>5. Keep(s, T) \o Append(Keep(u, T), e) = Append(Keep(s, T) \o Keep(u, T), e)
    BY KeepType, AppendInside
  <2> QED  BY <1>2, <2>1, <2>2, <2>3, <2>4, <2>5
<1> HIDE DEF G
<1>3. Seq(S) \subseteq G
  BY <1>1, <1>2, SequenceInduction
<1> QED  BY <1>3 DEF G

LEMMA KeepTwice ==
  ASSUME NEW S, NEW s \in Seq(S), NEW T, NEW U
  PROVE  Keep(Keep(s, T), U) = Keep(s, T \cap U)
<1> DEFINE G == {u \in Seq(S) : Keep(Keep(u, T), U) = Keep(u, T \cap U)}
<1>1. <<>> \in G
  BY EmptySeq, KeepEmpty
<1>2. ASSUME NEW u \in Seq(S), NEW e \in S, u \in G PROVE Append(u, e) \in G
  <2>1. Keep(u, T) \in Seq(S) /\ Append(u, e) \in Seq(S)
    BY KeepType, AppendProperties
  <2>2. Keep(Append(u, e), T) = IF e \in T THEN Append(Keep(u, T), e) ELSE Keep(u, T)
    BY KeepAppend
  <2>3. Keep(Append(Keep(u, T), e), U) =
          IF e \in U THEN Append(Keep(Keep(u, T), U), e) ELSE Keep(Keep(u, T), U)
    BY <2>1, KeepAppend
  <2>4. Keep(Append(u, e), T \cap U) =
          IF e \in T \cap U THEN Append(Keep(u, T \cap U), e) ELSE Keep(u, T \cap U)
    BY KeepAppend
  <2>5. Keep(Keep(u, T), U) = Keep(u, T \cap U)
    BY <1>2
  <2>6. Keep(Keep(Append(u, e), T), U) = Keep(Append(u, e), T \cap U)
    <3>1. CASE e \in T
      <4>1. Keep(Append(u, e), T) = Append(Keep(u, T), e)
        BY <2>2, <3>1
      <4>2. e \in U <=> e \in T \cap U
        BY <3>1
      <4> QED  BY <2>3, <2>4, <2>5, <4>1, <4>2, Zenon
    <3>2. CASE e \notin T
      BY <2>2, <2>4, <2>5, <3>2
    <3> QED  BY <3>1, <3>2
  <2> QED  BY <2>1, <2>6
<1> HIDE DEF G
<1>3. Seq(S) \subseteq G
  BY <1>1, <1>2, SequenceInduction
<1> QED  BY <1>3 DEF G

\* Only what T says of the elements there may be matters.
LEMMA KeepSame ==
  ASSUME NEW S, NEW s \in Seq(S), NEW T, NEW U, \A e \in S : e \in T <=> e \in U
  PROVE  Keep(s, T) = Keep(s, U)
<1> DEFINE G == {u \in Seq(S) : Keep(u, T) = Keep(u, U)}
<1>1. <<>> \in G
  BY EmptySeq, KeepEmpty
<1>2. ASSUME NEW u \in Seq(S), NEW e \in S, u \in G PROVE Append(u, e) \in G
  <2>1. Append(u, e) \in Seq(S)
    BY AppendProperties
  <2>2. Keep(Append(u, e), T) = IF e \in T THEN Append(Keep(u, T), e) ELSE Keep(u, T)
    BY KeepAppend
  <2>3. Keep(Append(u, e), U) = IF e \in U THEN Append(Keep(u, U), e) ELSE Keep(u, U)
    BY KeepAppend
  <2>4. Keep(u, T) = Keep(u, U) /\ (e \in T <=> e \in U)
    BY <1>2
  <2>5. Keep(Append(u, e), T) = Keep(Append(u, e), U)
    BY <2>2, <2>3, <2>4
  <2> QED  BY <2>1, <2>5
<1> HIDE DEF G
<1>3. Seq(S) \subseteq G
  BY <1>1, <1>2, SequenceInduction
<1> QED  BY <1>3 DEF G

LEMMA KeepInto ==
  ASSUME NEW S, NEW s \in Seq(S), NEW T
  PROVE  Keep(s, T) \in Seq(S \cap T)
<1> DEFINE G == {u \in Seq(S) : Keep(u, T) \in Seq(S \cap T)}
<1>1. <<>> \in G
  BY EmptySeq, KeepEmpty
<1>2. ASSUME NEW u \in Seq(S), NEW e \in S, u \in G PROVE Append(u, e) \in G
  <2>1. Append(u, e) \in Seq(S)
    BY AppendProperties
  <2>2. e \in T => Append(Keep(u, T), e) \in Seq(S \cap T)
    BY <1>2, AppendProperties
  <2> QED  BY <1>2, <2>1, <2>2, KeepAppend
<1> HIDE DEF G
<1>3. Seq(S) \subseteq G
  BY <1>1, <1>2, SequenceInduction
<1> QED  BY <1>3 DEF G

LEMMA KeepAll ==
  ASSUME NEW S, NEW s \in Seq(S), NEW T, S \subseteq T
  PROVE  Keep(s, T) = s
<1> DEFINE G == {u \in Seq(S) : Keep(u, T) = u}
<1>1. <<>> \in G
  BY EmptySeq, KeepEmpty
<1>2. ASSUME NEW u \in Seq(S), NEW e \in S, u \in G PROVE Append(u, e) \in G
  <2>1. Append(u, e) \in Seq(S)
    BY AppendProperties
  <2> QED  BY <1>2, <2>1, KeepAppend
<1> HIDE DEF G
<1>3. Seq(S) \subseteq G
  BY <1>1, <1>2, SequenceInduction
<1> QED  BY <1>3 DEF G

LEMMA KeepNone ==
  ASSUME NEW S, NEW s \in Seq(S), NEW T, S \cap T = {}
  PROVE  Keep(s, T) = <<>>
<1>1. Keep(s, T) \in Seq({})
  BY KeepInto
<1>2. ASSUME Keep(s, T) # <<>> PROVE FALSE
  <2>1. 1 \in 1 .. Len(Keep(s, T))
    BY <1>1, <1>2, EmptySeq
  <2> QED  BY <1>1, <2>1, ElementOfSeq
<1> QED  BY <1>2

LEMMA KeepOne ==
  ASSUME NEW e, NEW T
  PROVE  Keep(<<e>>, T) = IF e \in T THEN <<e>> ELSE <<>>
<1>1. <<>> \in Seq({e}) /\ e \in {e}
  BY EmptySeq
<1>2. Append(<<>>, e) = <<e>>
  OBVIOUS
<1>3. \A s \in Seq({e}) :
        Keep(Append(s, e), T) = IF e \in T THEN Append(Keep(s, T), e) ELSE Keep(s, T)
  BY <1>1, KeepAppend
<1>4. Keep(Append(<<>>, e), T) =
        IF e \in T THEN Append(Keep(<<>>, T), e) ELSE Keep(<<>>, T)
  BY <1>1, <1>3, Zenon
<1> QED  BY <1>2, <1>4, KeepEmpty, Zenon

-----------------------------------------------------------------------------
(***************************************************************************)
(* Headers.                                                                *)
(***************************************************************************)
LEMMA UnnamedType ==
  ASSUME NEW hs \in Seq(Header), NEW N
  PROVE  Unnamed(hs, N) \in Seq(Header)
BY KeepType DEF Unnamed

LEMMA NamedType ==
  ASSUME NEW hs \in Seq(Header), NEW n
  PROVE  Named(hs, n) \in Seq(Header)
BY KeepType DEF Named

LEMMA FirstValue ==
  ASSUME NEW hs \in Seq(Header), NEW n
  PROVE  /\ Has(hs, n) => First(hs, n) \in STRING \ {None}
         /\ ~Has(hs, n) => First(hs, n) = None
<1>1. ASSUME Has(hs, n) PROVE First(hs, n) \in STRING \ {None}
  <2>1. 1 \in 1 .. Len(Named(hs, n))
    BY <1>1, NamedType, EmptySeq DEF Has
  <2>2. Named(hs, n)[1] \in Header
    BY <2>1, NamedType, ElementOfSeq
  <2> QED  BY <1>1, <2>2 DEF First, Header
<1> QED  BY <1>1 DEF First

LEMMA ForwardedValues ==
  ASSUME NEW hs \in Seq(Header)
  PROVE  /\ ForwardedProto(hs) \in STRING \ {None}
         /\ ForwardedHost(hs) \in STRING
<1>1. PublicScheme \in STRING \ {None}
  BY LiteralsAssumption, SchemeAssumption DEF PublicScheme, None
<1>2. ForwardedProto(hs) \in STRING \ {None}
  BY <1>1, FirstValue DEF ForwardedProto
<1>3. None \in STRING
  BY LiteralsAssumption DEF None
<1>4. \A n : First(hs, n) \in STRING
  BY <1>3, FirstValue
<1> QED  BY <1>2, <1>3, <1>4 DEF ForwardedHost

\* The three parts of the forwarded headers.
Passed(hs) == Keep(Unnamed(hs, StrippedRequestHeaders \cup Recomputed), Readable)
Proto(hs) == [name |-> "x-forwarded-proto", value |-> ForwardedProto(hs)]
Host(hs) == [name |-> "x-forwarded-host", value |-> ForwardedHost(hs)]
HostPart(hs) == IF ForwardedHost(hs) = None THEN <<>> ELSE <<Host(hs)>>

LEMMA ForwardedParts ==
  ASSUME NEW hs \in Seq(Header)
  PROVE  /\ Passed(hs) \in Seq(Header)
         /\ Proto(hs) \in Header
         /\ <<Proto(hs)>> \in Seq(Header)
         /\ HostPart(hs) \in Seq(Header)
         /\ ForwardedHost(hs) # None => Host(hs) \in Header
         /\ ForwardedHeaders(hs) = Passed(hs) \o <<Proto(hs)>> \o HostPart(hs)
         /\ ForwardedHeaders(hs) \in Seq(Header)
<1>1. Passed(hs) \in Seq(Header)
  BY UnnamedType, KeepType DEF Passed
<1>2. Proto(hs) \in Header
  BY LiteralsAssumption, ForwardedValues DEF Proto, Header
<1>3. ForwardedHost(hs) # None => Host(hs) \in Header
  BY LiteralsAssumption, ForwardedValues DEF Host, Header
<1>4. <<Proto(hs)>> \in Seq(Header) /\ HostPart(hs) \in Seq(Header)
  BY <1>2, <1>3, EmptySeq DEF HostPart
<1>5. ForwardedHeaders(hs) = Passed(hs) \o <<Proto(hs)>> \o HostPart(hs)
  BY DEF ForwardedHeaders, Passed, Proto, HostPart, Host
<1> QED  BY <1>1, <1>2, <1>3, <1>4, <1>5, ConcatProperties

LEMMA SetHeaderType ==
  ASSUME NEW hs \in Seq(Header), NEW n \in STRING, NEW v \in STRING \ {None}
  PROVE  SetHeader(hs, n, v) \in Seq(Header)
<1>1. [name |-> n, value |-> v] \in Header
  BY DEF Header
<1> QED  BY <1>1, UnnamedType, AppendProperties DEF SetHeader

LEMMA CorsType ==
  ASSUME NEW hs \in Seq(Header), NEW origin \in STRING
  PROVE  AddCorsHeaders(hs, origin) \in Seq(Header)
<1>1. "*" \in STRING \ {None} /\ "true" \in STRING \ {None} /\ "origin" \in STRING \ {None}
  BY LiteralsAssumption DEF None
<1>2. CASE origin = None
  BY LiteralsAssumption, <1>1, <1>2, SetHeaderType DEF AddCorsHeaders
<1>3. CASE origin # None
  <2> DEFINE a == SetHeader(hs, "access-control-allow-origin", origin)
             b == SetHeader(a, "access-control-allow-credentials", "true")
  <2>1. a \in Seq(Header)
    BY LiteralsAssumption, <1>3, SetHeaderType
  <2>2. b \in Seq(Header)
    <3> HIDE DEF a
    <3> QED  BY LiteralsAssumption, <1>1, <2>1, SetHeaderType
  <2>3. SetHeader(b, "vary", "origin") \in Seq(Header)
    <3> HIDE DEF b
    <3> QED  BY LiteralsAssumption, <1>1, <2>2, SetHeaderType
  <2> QED  BY <1>3, <2>3 DEF AddCorsHeaders
<1> QED  BY <1>2, <1>3
-----------------------------------------------------------------------------
(***************************************************************************)
(* Types.                                                                  *)
(***************************************************************************)
LEMMA CookiesType ==
  ASSUME NEW c \in Cookies
  PROVE  RewriteSetCookie(c) \in Cookies
<1>1. Head(c) \in STRING /\ Tail(c) \in Seq(STRING)
  BY HeadTailProperties DEF Cookies
<1> DEFINE kept == Attributes(c, {"domain"} \cup SameSite)
           a == <<Head(c)>>
           b == IF Contains(kept, "secure") THEN <<>> ELSE <<"secure">>
           d == <<"samesite=none">>
<1>2. kept \in Seq(STRING)
  BY <1>1, KeepType DEF Attributes
<1>3. a \in Seq(STRING) /\ b \in Seq(STRING) /\ d \in Seq(STRING) /\ d # <<>>
  <2>1. "secure" \in STRING /\ "samesite=none" \in STRING
    BY LiteralsAssumption
  <2>2. <<"secure">> \in Seq(STRING) /\ d \in Seq(STRING) /\ a \in Seq(STRING)
    BY <1>1, <2>1
  <2>3. b \in Seq(STRING)
    <3> HIDE DEF kept
    <3> QED  BY <2>2, EmptySeq
  <2> QED  BY <2>2, <2>3
<1>4. RewriteSetCookie(c) = a \o kept \o b \o d
  BY DEF RewriteSetCookie
<1> HIDE DEF kept, a, b, d
<1>5. (a \o kept) \o b \in Seq(STRING)
  BY <1>2, <1>3, ConcatProperties
<1>6. ((a \o kept) \o b) \o d \in Seq(STRING) /\ ((a \o kept) \o b) \o d # <<>>
  BY <1>3, <1>5, ConcatProperties, ConcatEqualIffEmpty
<1> QED  BY <1>4, <1>6 DEF Cookies

LEMMA LastOf ==
  ASSUME NEW n \in Nat, NEW I \in SUBSET (1 .. n), I # {}
  PROVE  Max(I) \in I /\ \A i \in I : i <= Max(I)
<1> DEFINE T == {t \in Nat : n - t \in I}
<1>1. PICK x \in T : \A y \in T : x <= y
  <2>1. PICK i \in I : i \in 1 .. n
    OBVIOUS
  <2>2. n - i \in T
    BY <2>1
  <2> QED  BY <2>2, LeastNumber
<1>2. n - x \in I /\ x \in Nat
  BY <1>1
<1>3. ASSUME NEW i \in I PROVE n - x >= i
  <2>1. i \in 1 .. n /\ n - (n - i) = i
    OBVIOUS
  <2>2. n - i \in T
    BY <2>1
  <2> QED  BY <2>1, <2>2, <1>1
<1>4. \E k \in I : \A i \in I : k >= i
  BY <1>2, <1>3
<1>5. Max(I) \in I /\ \A i \in I : Max(I) >= i
  BY <1>4 DEF Max
<1> QED  BY <1>5

\* The console goes in before the last closing tag, or at the end.
Inserted(old, new, k) ==
  /\ new = SubSeq(old, 1, k) \o <<"eruda">> \o SubSeq(old, k + 1, Len(old))
  /\ k = Len(old) \/ ClosingTag(old[k + 1])
  /\ \A j \in 1 .. Len(old) : ClosingTag(old[j]) => j <= k + 1

LEMMA SnippetPlace ==
  ASSUME NEW ps \in Seq(STRING)
  PROVE  /\ \E k \in 0 .. Len(ps) : Inserted(ps, InsertSnippet(ps), k)
         /\ InsertSnippet(ps) \in Seq(STRING)
<1> DEFINE I == {i \in 1 .. Len(ps) : ClosingTag(ps[i])}
           k == SelectLastInSeq(ps, ClosingTag)
<1>1. Len(ps) \in Nat /\ "eruda" \in STRING /\ <<"eruda">> \in Seq(STRING)
  <2>1. "eruda" \in STRING
    BY LiteralsAssumption
  <2> QED  BY <2>1, LenProperties
<1>2. k = IF I # {} THEN Max(I) ELSE 0
  BY DEF SelectLastInSeq
<1>3. CASE I = {}
  <2>1. InsertSnippet(ps) = Append(ps, "eruda")
    BY <1>2, <1>3 DEF InsertSnippet
  <2>2. SubSeq(ps, 1, Len(ps)) = ps /\ SubSeq(ps, Len(ps) + 1, Len(ps)) = <<>>
    BY <1>1, SubSeqFull, SubSeqEmpty
  <2>3. Append(ps, "eruda") = ps \o <<"eruda">> /\ Append(ps, "eruda") \in Seq(STRING)
    BY <1>1, AppendIsConcat, AppendProperties
  <2>4. Append(ps, "eruda") \o <<>> = Append(ps, "eruda")
    BY <2>3, ConcatEmptySeq
  <2>5. Inserted(ps, InsertSnippet(ps), Len(ps))
    BY <1>3, <2>1, <2>2, <2>3, <2>4 DEF Inserted
  <2> QED  BY <1>1, <2>1, <2>3, <2>5
<1>4. CASE I # {}
  <2>1. k \in I /\ \A i \in I : i <= k
    BY <1>1, <1>2, <1>4, LastOf
  <2>2. k \in 1 .. Len(ps) /\ k - 1 \in 0 .. Len(ps) /\ (k - 1) + 1 = k /\ k # 0
    BY <1>1, <2>1
  <2>3. ClosingTag(ps[k]) /\ \A j \in 1 .. Len(ps) : ClosingTag(ps[j]) => j <= k
    BY <2>1
  <2> HIDE DEF I, k
  <2>4. InsertSnippet(ps) = SubSeq(ps, 1, k - 1) \o <<"eruda">> \o SubSeq(ps, k, Len(ps))
    BY <2>2 DEF InsertSnippet, InsertAt, k
  <2>5. Inserted(ps, InsertSnippet(ps), k - 1)
    BY <2>2, <2>3, <2>4 DEF Inserted
  <2>6. InsertSnippet(ps) \in Seq(STRING)
    <3>1. \A i \in 1 .. Len(ps) : ps[i] \in STRING
      BY ElementOfSeq
    <3>2. SubSeq(ps, 1, k - 1) \in Seq(STRING) /\ SubSeq(ps, k, Len(ps)) \in Seq(STRING)
      BY <1>1, <2>2, <3>1, SubSeqProperties
    <3> QED  BY <1>1, <2>4, <3>2, ConcatProperties
  <2> QED  BY <2>2, <2>5, <2>6
<1> QED  BY <1>3, <1>4

\* What the server does to a response frame, by the part it does it to.
LEMMA TransformParts ==
  ASSUME NEW r \in Frames
  PROVE  /\ Transform(r) \in Frames
         /\ Transform(r).cookies = r.cookies
         /\ Transform(r).body.parts =
              IF Injectable(r) THEN InsertSnippet(r.body.parts) ELSE r.body.parts
<1>1. r.body.parts \in Seq(STRING) /\ r.headers \in Seq(Header)
  BY DEF Frames, Body
<1>2. InsertSnippet(r.body.parts) \in Seq(STRING) /\ Unnamed(r.headers, {"content-length"}) \in Seq(Header)
  BY <1>1, SnippetPlace, UnnamedType
<1> QED  BY <1>2 DEF Transform, Frames, Body

LEMMA RewriteParts ==
  ASSUME NEW r \in Frames
  PROVE  /\ RewriteCookies(r) \in Frames
         /\ RewriteCookies(r).body = r.body
         /\ RewriteCookies(r).headers = r.headers
         /\ RewriteCookies(r).cookies =
              [i \in DOMAIN r.cookies |-> RewriteSetCookie(r.cookies[i])]
<1> DEFINE cs == [i \in DOMAIN r.cookies |-> RewriteSetCookie(r.cookies[i])]
<1>1. r.cookies \in Seq(Cookies)
  BY DEF Frames
<1>2. cs \in Seq(Cookies)
  <2>1. \A i \in 1 .. Len(r.cookies) : RewriteSetCookie(r.cookies[i]) \in Cookies
    BY <1>1, ElementOfSeq, CookiesType
  <2>2. DOMAIN r.cookies = 1 .. Len(r.cookies) /\ Len(r.cookies) \in Nat
    BY <1>1, LenProperties
  <2> QED  BY <2>1, <2>2, SeqDef
<1> HIDE DEF cs
<1>3. RewriteCookies(r) = [r EXCEPT !.cookies = cs]
  BY DEF RewriteCookies, cs
<1>4. RewriteCookies(r) \in Frames /\ RewriteCookies(r).cookies = cs
      /\ RewriteCookies(r).body = r.body /\ RewriteCookies(r).headers = r.headers
  BY <1>2, <1>3 DEF Frames
<1> QED  BY <1>4 DEF cs

LEMMA BuildParts ==
  ASSUME NEW r \in Frames
  PROVE  /\ BuildResponse(r) \in Frames
         /\ BuildResponse(r).body = r.body
         /\ BuildResponse(r).cookies = r.cookies
<1>1. Unnamed(r.headers, StrippedResponseHeaders) \in Seq(Header)
  BY UnnamedType DEF Frames
<1> QED  BY <1>1 DEF BuildResponse, Frames

LEMMA OwnResponses ==
  /\ ReplayFailed \in Frames
  /\ \A s \in STRING : TextResponse(s) \in Frames
<1> DEFINE h == [name |-> "content-type", value |-> "text/plain"]
<1>1. h \in Header
  BY LiteralsAssumption DEF Header, None
<1>2. <<h>> \in Seq(Header) /\ <<>> \in Seq(Cookies)
  BY <1>1, EmptySeq
<1>3. "502" \in STRING /\ <<"unreachable">> \in Seq(STRING) /\ <<"message">> \in Seq(STRING)
  <2>1. "502" \in STRING /\ "unreachable" \in STRING /\ "message" \in STRING
    BY LiteralsAssumption
  <2> QED  BY <2>1
<1> HIDE DEF h
<1>4. ReplayFailed \in Frames
  BY <1>2, <1>3 DEF ReplayFailed, h, Frames, Body
<1>5. \A s \in STRING : TextResponse(s) \in Frames
  BY <1>2, <1>3 DEF TextResponse, h, Frames, Body
<1> QED  BY <1>4, <1>5

PreflightHeaders(q) ==
  <<[name |-> "access-control-allow-methods", value |-> "all"],
    [name |-> "access-control-allow-headers",
     value |-> IF q.asked = None THEN "*" ELSE q.asked],
    [name |-> "access-control-max-age", value |-> "86400"]>>

LEMMA PreflightType ==
  ASSUME NEW q \in Requests
  PROVE  /\ PreflightHeaders(q) \in Seq(Header)
         /\ AddCorsHeaders(<<>>, q.origin) \in Seq(Header)
         /\ PreflightResponse(q).headers =
              AddCorsHeaders(<<>>, q.origin) \o PreflightHeaders(q)
         /\ PreflightResponse(q) \in Frames
<1>1. q.origin \in STRING /\ q.asked \in STRING
  BY RequestsAssumption
<1> DEFINE a == IF q.asked = None THEN "*" ELSE q.asked
<1>2. a \in STRING \ {None}
  BY <1>1, LiteralsAssumption DEF None
<1> HIDE DEF a
<1>3. [name |-> "access-control-allow-headers", value |-> a] \in Header
  BY <1>2, LiteralsAssumption DEF Header
<1>4. [name |-> "access-control-allow-methods", value |-> "all"] \in Header
      /\ [name |-> "access-control-max-age", value |-> "86400"] \in Header
  BY LiteralsAssumption DEF Header, None
<1>5. PreflightHeaders(q) \in Seq(Header)
  BY <1>3, <1>4 DEF PreflightHeaders, a
<1>6. AddCorsHeaders(<<>>, q.origin) \in Seq(Header)
  BY <1>1, CorsType, EmptySeq
<1>7. PreflightResponse(q).headers = AddCorsHeaders(<<>>, q.origin) \o PreflightHeaders(q)
  BY Zenon DEF PreflightResponse, PreflightHeaders
<1>8. PreflightResponse(q).headers \in Seq(Header)
  BY <1>5, <1>6, <1>7, ConcatProperties
<1>9. "204" \in STRING /\ <<>> \in Seq(Cookies) /\ [text |-> TRUE, parts |-> <<>>] \in Body
  BY LiteralsAssumption, EmptySeq DEF Body
<1>10. PreflightResponse(q) \in Frames
  BY <1>8, <1>9 DEF PreflightResponse, Frames
<1> QED  BY <1>5, <1>6, <1>7, <1>10

LEMMA CapturedType ==
  ASSUME NEW q \in Requests, NEW a \in Replies[q]
  PROVE  Captured(a) \in Frames
<1>1. /\ a.status \in STRING
      /\ a.headers \in Seq(Header)
      /\ a.cookies \in Seq(Cookies)
      /\ a.body \in Body
  BY RepliesAssumption
<1>2. Keep(a.headers, Readable) \in Seq(Header)
  BY <1>1, KeepType
<1>3. Keep(a.cookies, Seq(STRING \ {Unreadable})) \in Seq(Cookies)
  BY <1>1, KeepType
<1> QED  BY <1>1, <1>2, <1>3 DEF Captured, Frames

\* Where the exchange is tells what there is of it.
Progress ==
  /\ place \in {"cors", "tunnel", "local", "reply"} => frame = Nothing
  /\ place = "reply" => reply \in Replies[request]
  /\ place = "frame" => frame # Nothing
  /\ place = "answer" => response # Nothing
  /\ place = "tunnel" => forwarded = ForwardedHeaders(request.headers)
  /\ AtLocal => local = ReplayedHeaders(ForwardedHeaders(request.headers))

ExchangeTypeInv == ExchangeTypeOK /\ Progress

LEMMA SomeFrame == ASSUME NEW f \in Frames PROVE f # Nothing
<1>1. "status" \in DOMAIN f
  BY DEF Frames
<1>2. DOMAIN Nothing = {}
  BY DEF Nothing
<1> QED  BY <1>1, <1>2

LEMMA ExchangeTypeInit == ExchangeInit => ExchangeTypeInv
<1> SUFFICES ASSUME ExchangeInit PROVE ExchangeTypeInv
  OBVIOUS
<1>1. ExchangeTypeOK
  BY MaxHopsAssumption, EmptySeq DEF ExchangeInit, ExchangeTypeOK, Places
<1>2. Progress
  BY DEF ExchangeInit, Progress, AtLocal
<1> QED  BY <1>1, <1>2 DEF ExchangeTypeInv

\* The treated response keeps its type, and its parts are known.
LEMMA TreatedParts ==
  ASSUME ExchangeTypeInv, TreatResponse
  PROVE  /\ frame \in Frames
         /\ response' \in Frames
         /\ response'.cookies =
              IF treatment.rewrite
                THEN [i \in DOMAIN frame.cookies |-> RewriteSetCookie(frame.cookies[i])]
                ELSE frame.cookies
         /\ response'.body.parts =
              IF treatment.inject /\ Injectable(frame)
                THEN InsertSnippet(frame.body.parts)
                ELSE frame.body.parts
<1> DEFINE r == IF treatment.rewrite THEN RewriteCookies(frame) ELSE frame
           t == IF treatment.inject THEN Transform(r) ELSE r
<1>1. frame \in Frames
  BY DEF ExchangeTypeInv, ExchangeTypeOK, Progress, TreatResponse
<1>2. /\ r \in Frames
      /\ r.body = frame.body
      /\ r.headers = frame.headers
      /\ r.cookies = IF treatment.rewrite
                       THEN [i \in DOMAIN frame.cookies |-> RewriteSetCookie(frame.cookies[i])]
                       ELSE frame.cookies
  BY <1>1, RewriteParts
<1>3. Injectable(r) <=> Injectable(frame)
  BY <1>2 DEF Injectable
<1> HIDE DEF r
<1>4. /\ t \in Frames
      /\ t.cookies = r.cookies
      /\ t.body.parts = IF treatment.inject /\ Injectable(r)
                          THEN InsertSnippet(r.body.parts) ELSE r.body.parts
  BY <1>2, TransformParts
<1>5. response' = BuildResponse(t)
  BY DEF TreatResponse, t, r
<1> HIDE DEF t
<1>6. response' \in Frames /\ response'.body = t.body /\ response'.cookies = t.cookies
  BY <1>4, <1>5, BuildParts
<1> QED  BY <1>1, <1>2, <1>3, <1>4, <1>6

LEMMA ForwardingType ==
  ASSUME NEW q \in Requests
  PROVE  /\ q.headers \in Seq(Header)
         /\ q.origin \in STRING
         /\ ForwardedHeaders(q.headers) \in Seq(Header)
         /\ ReplayedHeaders(ForwardedHeaders(q.headers)) \in Seq(Header)
<1>1. q.headers \in Seq(Header) /\ q.origin \in STRING
  BY RequestsAssumption
<1>2. ForwardedHeaders(q.headers) \in Seq(Header)
  BY <1>1, ForwardedParts
<1> QED  BY <1>1, <1>2, UnnamedType DEF ReplayedHeaders

LEMMA ExchangeTypeStep == ExchangeTypeInv /\ [ExchangeNext]_evars => ExchangeTypeInv'
<1> SUFFICES ASSUME ExchangeTypeInv, [ExchangeNext]_evars PROVE ExchangeTypeInv'
  OBVIOUS
<1> USE DEF ExchangeTypeInv
<1>1. CASE AnswerPreflight
  <2>1. response' \in Frames
    BY <1>1, PreflightType DEF ExchangeTypeOK, AnswerPreflight
  <2>2. ExchangeTypeOK'
    BY <1>1, <2>1 DEF ExchangeTypeOK, AnswerPreflight, Places
  <2>3. Progress'
    BY <1>1 DEF Progress, AtLocal, AnswerPreflight
  <2> QED  BY <2>2, <2>3
<1>2. CASE RefuseBody
  <2>1. response' \in Frames /\ response' # Nothing
    BY <1>2, OwnResponses, SomeFrame, LiteralsAssumption DEF RefuseBody
  <2>2. ExchangeTypeOK'
    BY <1>2, <2>1 DEF ExchangeTypeOK, RefuseBody, Places
  <2>3. Progress'
    BY <1>2, <2>1 DEF Progress, AtLocal, RefuseBody
  <2> QED  BY <2>2, <2>3
<1>3. CASE SendFrame
  <2>1. forwarded' \in Seq(Header)
    BY <1>3, ForwardingType DEF ExchangeTypeOK, SendFrame
  <2>2. ExchangeTypeOK'
    BY <1>3, <2>1 DEF ExchangeTypeOK, SendFrame, Places
  <2>3. Progress'
    BY <1>3 DEF Progress, AtLocal, SendFrame
  <2> QED  BY <2>2, <2>3
<1>4. CASE Refuse
  <2>1. response' \in Frames /\ response' # Nothing
    BY <1>4, OwnResponses, SomeFrame, LiteralsAssumption DEF Refuse
  <2>2. ExchangeTypeOK'
    BY <1>4, <2>1 DEF ExchangeTypeOK, Refuse, Places
  <2>3. Progress'
    BY <1>4, <2>1 DEF Progress, AtLocal, Refuse
  <2> QED  BY <2>2, <2>3
<1>5. CASE Replay
  <2>1. local' = ReplayedHeaders(ForwardedHeaders(request.headers))
    BY <1>5 DEF Progress, Replay
  <2>2. local' \in Seq(Header)
    BY <2>1, ForwardingType DEF ExchangeTypeOK
  <2>3. ExchangeTypeOK'
    BY <1>5, <2>2 DEF ExchangeTypeOK, Replay, Places
  <2>4. Progress'
    BY <1>5, <2>1 DEF Progress, AtLocal, Replay
  <2> QED  BY <2>3, <2>4
<1>6. CASE LocalReplies
  <2>1. PICK a \in Replies[request] : FollowRedirect(a)
    BY <1>6 DEF LocalReplies
  <2>2. ReplayFailed \in Frames
    BY OwnResponses
  <2>3. \/ reply' = a /\ place' = "reply" /\ hops' = hops /\ frame' = frame
        \/ reply' = reply /\ place' = place /\ hops' = hops + 1 /\ hops < MaxHops /\ frame' = frame
        \/ reply' = reply /\ place' = "frame" /\ hops' = hops /\ frame' = ReplayFailed
    BY <2>1 DEF FollowRedirect
  <2>4. hops' \in 0 .. MaxHops
    BY <2>3, MaxHopsAssumption DEF ExchangeTypeOK
  <2>5. ExchangeTypeOK'
    BY <1>6, <2>2, <2>3, <2>4 DEF ExchangeTypeOK, LocalReplies, Places
  <2>6. Progress'
    BY <1>6, <2>2, <2>3, SomeFrame DEF Progress, AtLocal, LocalReplies
  <2> QED  BY <2>5, <2>6
<1>11. CASE CaptureReply
  <2>1. frame' \in Frames /\ frame' # Nothing
    BY <1>11, CapturedType, SomeFrame DEF CaptureReply, Progress, ExchangeTypeOK
  <2>2. ExchangeTypeOK'
    BY <1>11, <2>1 DEF ExchangeTypeOK, CaptureReply, Places
  <2>3. Progress'
    BY <1>11, <2>1 DEF Progress, AtLocal, CaptureReply
  <2> QED  BY <2>2, <2>3
<1>7. CASE LocalFails
  <2>1. frame' \in Frames /\ frame' # Nothing
    BY <1>7, OwnResponses, SomeFrame DEF LocalFails
  <2>2. ExchangeTypeOK'
    BY <1>7, <2>1 DEF ExchangeTypeOK, LocalFails, Places
  <2>3. Progress'
    BY <1>7, <2>1 DEF Progress, AtLocal, LocalFails
  <2> QED  BY <2>2, <2>3
<1>8. CASE TreatResponse
  <2>1. response' \in Frames /\ response' # Nothing
    BY <1>8, TreatedParts, SomeFrame
  <2>2. ExchangeTypeOK'
    BY <1>8, <2>1 DEF ExchangeTypeOK, TreatResponse, Places
  <2>3. Progress'
    BY <1>8, <2>1 DEF Progress, AtLocal, TreatResponse
  <2> QED  BY <2>2, <2>3
<1>9. CASE AddCors
  <2>1. response \in Frames
    BY <1>9 DEF AddCors, ExchangeTypeOK, Progress
  <2>2. AddCorsHeaders(response.headers, request.origin) \in Seq(Header)
    BY <2>1, CorsType, ForwardingType DEF ExchangeTypeOK, Frames
  <2>3. response' \in Frames
    BY <1>9, <2>1, <2>2 DEF AddCors, Frames
  <2>4. ExchangeTypeOK'
    BY <1>9, <2>3 DEF ExchangeTypeOK, AddCors, Places
  <2>5. Progress'
    BY <1>9 DEF Progress, AtLocal, AddCors
  <2> QED  BY <2>4, <2>5
<1>10. CASE UNCHANGED evars
  BY <1>10 DEF ExchangeTypeOK, Progress, AtLocal, evars
<1> QED
  BY <1>1, <1>2, <1>3, <1>4, <1>5, <1>6, <1>7, <1>8, <1>9, <1>10, <1>11 DEF ExchangeNext

\* Every variable keeps to its type: what is built of typed headers, cookies
\* and pages is typed, and never more redirects are followed than the limit.
THEOREM ExchangeTypeCorrect == ExchangeSpec => []ExchangeTypeOK
<1>1. ExchangeInit => ExchangeTypeInv
  BY ExchangeTypeInit
<1>2. ExchangeTypeInv /\ [ExchangeNext]_evars => ExchangeTypeInv'
  BY ExchangeTypeStep
<1>3. ExchangeTypeInv => ExchangeTypeOK
  BY DEF ExchangeTypeInv
<1> QED  BY <1>1, <1>2, <1>3, PTL DEF ExchangeSpec

-----------------------------------------------------------------------------
(***************************************************************************)
(* The page.                                                               *)
(***************************************************************************)
LEMMA PageStep ==
  ExchangeTypeInv /\ PageOnlyGainsConsole /\ [ExchangeNext]_evars => PageOnlyGainsConsole'
<1> SUFFICES ASSUME ExchangeTypeInv, PageOnlyGainsConsole, [ExchangeNext]_evars, Treated'
             PROVE  PageOnlyGainsConsole'
  BY DEF PageOnlyGainsConsole
<1>1. CASE TreatResponse
  <2>1. response'.body.parts = IF treatment.inject /\ Injectable(frame)
                                 THEN InsertSnippet(frame.body.parts) ELSE frame.body.parts
    BY <1>1, TreatedParts
  <2>2. frame.body.parts \in Seq(STRING) /\ frame' = frame /\ treatment' = treatment
    BY <1>1, TreatedParts DEF Frames, Body, TreatResponse
  <2>3. CASE treatment.inject /\ Injectable(frame)
    <3>1. PICK k \in 0 .. Len(frame.body.parts) :
            Inserted(frame.body.parts, InsertSnippet(frame.body.parts), k)
      BY <2>2, SnippetPlace
    <3> QED  BY <2>1, <2>2, <2>3, <3>1 DEF PageOnlyGainsConsole, Inserted
  <2>4. CASE ~(treatment.inject /\ Injectable(frame))
    BY <2>1, <2>2, <2>4 DEF PageOnlyGainsConsole
  <2> QED  BY <2>3, <2>4
<1>2. CASE AddCors
  <2>1. Treated /\ frame' = frame /\ treatment' = treatment
    BY <1>2 DEF Treated, AddCors
  <2>2. response \in Frames
    BY <1>2 DEF AddCors, ExchangeTypeInv, ExchangeTypeOK, Progress
  <2>3. response'.body = response.body
    BY <1>2, <2>2 DEF AddCors, Frames
  <2> QED  BY <2>1, <2>3 DEF PageOnlyGainsConsole
<1>3. CASE UNCHANGED evars
  BY <1>3 DEF PageOnlyGainsConsole, Treated, evars
<1>4. CASE AnswerPreflight \/ RefuseBody \/ SendFrame \/ Refuse \/ Replay \/ LocalReplies \/ CaptureReply
          \/ LocalFails
  <2>1. ~Treated'
    BY <1>4 DEF Treated, ExchangeTypeInv, ExchangeTypeOK, Places, Progress, AnswerPreflight, RefuseBody,
      SendFrame, Refuse, Replay, LocalReplies, FollowRedirect, CaptureReply, LocalFails
  <2> QED  BY <2>1
<1> QED  BY <1>1, <1>2, <1>3, <1>4 DEF ExchangeNext

\* Whatever the page, it comes out unchanged or with the console before its
\* last closing tag.
THEOREM PageAlwaysKept == ExchangeSpec => []PageOnlyGainsConsole
<1>1. ExchangeInit => ExchangeTypeInv /\ PageOnlyGainsConsole
  BY ExchangeTypeInit DEF ExchangeInit, PageOnlyGainsConsole, Treated
<1>2. ExchangeTypeInv /\ PageOnlyGainsConsole /\ [ExchangeNext]_evars
        => ExchangeTypeInv' /\ PageOnlyGainsConsole'
  BY ExchangeTypeStep, PageStep
<1> QED  BY <1>1, <1>2, PTL DEF ExchangeSpec
-----------------------------------------------------------------------------
(***************************************************************************)
(* The allowed origin.                                                     *)
(***************************************************************************)
LEMMA SetHeaderNamed ==
  ASSUME NEW hs \in Seq(Header), NEW n \in STRING, NEW v \in STRING \ {None}, NEW m \in STRING
  PROVE  Named(SetHeader(hs, n, v), m) =
           IF m = n THEN <<[name |-> n, value |-> v]>> ELSE Named(hs, m)
<1> DEFINE h == [name |-> n, value |-> v]
           u == Unnamed(hs, {n})
<1>1. h \in Header /\ u \in Seq(Header) /\ (h \in Called({m}) <=> m = n)
  BY UnnamedType DEF Header, Called
<1>2. Keep(u, Called({m})) = Keep(hs, Called(STRING \ {n}) \cap Called({m}))
  <2> DEFINE A == Called(STRING \ {n})
             B == Called({m})
  <2> HIDE DEF A, B
  <2>1. Keep(Keep(hs, A), B) = Keep(hs, A \cap B)
    BY KeepTwice
  <2> QED  BY <2>1, Zenon DEF A, B, Unnamed
<1> HIDE DEF h, u
<1>3. Named(SetHeader(hs, n, v), m) =
        IF m = n THEN Append(Keep(u, Called({m})), h) ELSE Keep(u, Called({m}))
  <2>1. Keep(Append(u, h), Called({m})) =
          IF h \in Called({m}) THEN Append(Keep(u, Called({m})), h) ELSE Keep(u, Called({m}))
    BY <1>1, KeepAppend
  <2> QED  BY <1>1, <2>1 DEF Named, SetHeader, u, h
<1>4. CASE m = n
  <2>1. Header \cap (Called(STRING \ {n}) \cap Called({m})) = {}
    BY <1>4 DEF Header, Called
  <2>2. Keep(u, Called({m})) = <<>>
    BY <1>2, <2>1, KeepNone
  <2> QED  BY <1>3, <1>4, <2>2 DEF h
<1>5. CASE m # n
  <2>1. \A e \in Header : e \in Called(STRING \ {n}) \cap Called({m}) <=> e \in Called({m})
    BY <1>5 DEF Header, Called
  <2>2. Keep(hs, Called(STRING \ {n}) \cap Called({m})) = Keep(hs, Called({m}))
    <3> DEFINE A == Called(STRING \ {n}) \cap Called({m})
               B == Called({m})
    <3>1. \A e \in Header : e \in A <=> e \in B
      BY <2>1, Zenon
    <3> HIDE DEF A, B
    <3>2. Keep(hs, A) = Keep(hs, B)
      BY <3>1, KeepSame
    <3> QED  BY <3>2, Zenon DEF A, B
  <2> QED  BY <1>2, <1>3, <1>5, <2>2 DEF Named
<1> QED  BY <1>4, <1>5

LEMMA OneValue ==
  ASSUME NEW hs, NEW n, NEW m, NEW v, Named(hs, n) = <<[name |-> m, value |-> v]>>
  PROVE  Values(hs, n) = <<v>>
BY DEF Values

\* The three headers that tell a browser whose pages may see the response.
OriginHeaders == {"access-control-allow-origin", "access-control-allow-credentials", "vary"}

Allows(hs, origin) ==
  IF origin = None
    THEN Values(hs, "access-control-allow-origin") = <<"*">>
    ELSE /\ Values(hs, "access-control-allow-origin") = <<origin>>
         /\ Values(hs, "access-control-allow-credentials") = <<"true">>
         /\ Values(hs, "vary") = <<"origin">>

LEMMA CorsAllows ==
  ASSUME NEW hs \in Seq(Header), NEW origin \in STRING
  PROVE  Allows(AddCorsHeaders(hs, origin), origin)
<1> DEFINE ao == "access-control-allow-origin"
           ac == "access-control-allow-credentials"
<1>1. {"*", "true", "origin"} \subseteq STRING \ {None} /\ {ao, ac, "vary"} \subseteq STRING
  BY LiteralsAssumption DEF None
<1>2. CASE origin = None
  <2>1. Named(SetHeader(hs, ao, "*"), ao) = <<[name |-> ao, value |-> "*"]>>
    BY <1>1, SetHeaderNamed
  <2> QED  BY <1>2, <2>1, OneValue DEF Allows, AddCorsHeaders
<1>3. CASE origin # None
  <2> DEFINE a == SetHeader(hs, ao, origin)
             b == SetHeader(a, ac, "true")
             d == SetHeader(b, "vary", "origin")
  <2>1. a \in Seq(Header) /\ Named(a, ao) = <<[name |-> ao, value |-> origin]>>
    BY <1>1, <1>3, SetHeaderType, SetHeaderNamed
  <2> HIDE DEF a
  <2>2. /\ b \in Seq(Header)
        /\ Named(b, ao) = Named(a, ao)
        /\ Named(b, ac) = <<[name |-> ac, value |-> "true"]>>
    BY <1>1, <2>1, SetHeaderType, SetHeaderNamed
  <2> HIDE DEF b
  <2>3. /\ Named(d, ao) = Named(b, ao)
        /\ Named(d, ac) = Named(b, ac)
        /\ Named(d, "vary") = <<[name |-> "vary", value |-> "origin"]>>
    BY <1>1, <2>2, SetHeaderNamed
  <2>4. AddCorsHeaders(hs, origin) = d
    BY <1>3 DEF AddCorsHeaders, a, b
  <2> HIDE DEF d
  <2>5. Values(d, ao) = <<origin>> /\ Values(d, ac) = <<"true">> /\ Values(d, "vary") = <<"origin">>
    BY <2>1, <2>2, <2>3, OneValue
  <2> QED  BY <1>3, <2>4, <2>5 DEF Allows
<1> QED  BY <1>2, <1>3

LEMMA PreflightAllows ==
  ASSUME NEW q \in Requests
  PROVE  Allows(PreflightResponse(q).headers, q.origin)
<1> DEFINE a == AddCorsHeaders(<<>>, q.origin)
           p == PreflightHeaders(q)
           Other == Called({"access-control-allow-methods", "access-control-allow-headers",
                            "access-control-max-age"})
<1>1. a \in Seq(Header) /\ p \in Seq(Header) /\ PreflightResponse(q).headers = a \o p
  BY PreflightType
<1>2. Allows(a, q.origin)
  BY CorsAllows, ForwardingType, EmptySeq
<1>3. p \in Seq(Other)
  <2> DEFINE v == IF q.asked = None THEN "*" ELSE q.asked
  <2>1. v \in STRING \ {None}
    BY LiteralsAssumption, RequestsAssumption DEF None
  <2> HIDE DEF v
  <2>2. [name |-> "access-control-allow-headers", value |-> v] \in Other
    BY <2>1 DEF Called
  <2>3. [name |-> "access-control-allow-methods", value |-> "all"] \in Other
        /\ [name |-> "access-control-max-age", value |-> "86400"] \in Other
    BY LiteralsAssumption DEF Called, None
  <2> HIDE DEF Other
  <2> QED  BY <2>2, <2>3 DEF PreflightHeaders, v
<1>4. ASSUME NEW n \in OriginHeaders PROVE Named(a \o p, n) = Named(a, n)
  <2>1. Other \cap Called({n}) = {}
    BY DEF OriginHeaders, Called
  <2>2. Keep(p, Called({n})) = <<>>
    <3> HIDE DEF Other, p
    <3> QED  BY <1>3, <2>1, KeepNone
  <2>3. Keep(a \o p, Called({n})) = Keep(a, Called({n})) \o Keep(p, Called({n}))
    <3> HIDE DEF a, p
    <3> QED  BY <1>1, KeepConcat
  <2>4. Keep(a, Called({n})) \o <<>> = Keep(a, Called({n}))
    <3> HIDE DEF a
    <3> QED  BY <1>1, KeepType, ConcatEmptySeq
  <2> QED  BY <2>2, <2>3, <2>4 DEF Named
<1> HIDE DEF a, p
<1>5. \A n \in OriginHeaders : Values(a \o p, n) = Values(a, n)
  BY <1>4 DEF Values
<1> QED  BY <1>1, <1>2, <1>5 DEF Allows, OriginHeaders

LEMMA OriginStep ==
  ExchangeTypeInv /\ OneAllowedOrigin /\ [ExchangeNext]_evars => OneAllowedOrigin'
<1> SUFFICES ASSUME ExchangeTypeInv, OneAllowedOrigin, [ExchangeNext]_evars, place' = "done"
             PROVE  Allows(response'.headers, request'.origin)
  BY Zenon DEF OneAllowedOrigin, Allows
<1>1. request \in Requests
  BY DEF ExchangeTypeInv, ExchangeTypeOK
<1>2. CASE AnswerPreflight
  <2>1. response' = PreflightResponse(request) /\ request' = request
    BY <1>2 DEF AnswerPreflight
  <2> QED  BY <1>1, <2>1, PreflightAllows
<1>3. CASE AddCors
  <2>1. response \in Frames
    BY <1>3 DEF AddCors, ExchangeTypeInv, ExchangeTypeOK, Progress
  <2>2. response'.headers = AddCorsHeaders(response.headers, request.origin) /\ request' = request
    BY <1>3, <2>1 DEF AddCors, Frames
  <2>3. response.headers \in Seq(Header) /\ request.origin \in STRING
    BY <1>1, <2>1, ForwardingType DEF Frames
  <2> QED  BY <2>2, <2>3, CorsAllows
<1>4. CASE UNCHANGED evars
  <2>1. place = "done" /\ response' = response /\ request' = request
    BY <1>4 DEF evars
  <2>2. Allows(response.headers, request.origin)
    BY <2>1, Zenon DEF OneAllowedOrigin, Allows
  <2> QED  BY <2>1, <2>2
<1>5. CASE RefuseBody \/ SendFrame \/ Refuse \/ Replay \/ LocalReplies \/ CaptureReply
          \/ LocalFails \/ TreatResponse
  BY <1>5 DEF RefuseBody, SendFrame, Refuse, Replay, LocalReplies, FollowRedirect, CaptureReply,
    LocalFails, TreatResponse
<1> QED  BY <1>2, <1>3, <1>4, <1>5 DEF ExchangeNext

\* Whatever CORS headers an application sends, on errors and on preflights:
\* the browser gets one allowed origin.
THEOREM OriginAlwaysOne == ExchangeSpec => []OneAllowedOrigin
<1>1. ExchangeInit => ExchangeTypeInv /\ OneAllowedOrigin
  BY ExchangeTypeInit DEF ExchangeInit, OneAllowedOrigin
<1>2. ExchangeTypeInv /\ OneAllowedOrigin /\ [ExchangeNext]_evars
        => ExchangeTypeInv' /\ OneAllowedOrigin'
  BY ExchangeTypeStep, OriginStep
<1> QED  BY <1>1, <1>2, PTL DEF ExchangeSpec

-----------------------------------------------------------------------------
(***************************************************************************)
(* The cookies.                                                            *)
(***************************************************************************)
LEMMA HeadTailOfPair ==
  ASSUME NEW S, NEW h \in S, NEW t \in Seq(S)
  PROVE  Head(<<h>> \o t) = h /\ Tail(<<h>> \o t) = t
<1>1. <<h>> \in Seq(S) /\ Len(<<h>>) = 1 /\ <<h>>[1] = h
  OBVIOUS
<1> DEFINE s == <<h>> \o t
<1>2. /\ s \in Seq(S)
      /\ Len(s) = 1 + Len(t)
      /\ \A i \in 1 .. 1 + Len(t) : s[i] = IF i <= 1 THEN <<h>>[i] ELSE t[i - 1]
  BY <1>1, ConcatProperties
<1>3. Len(t) \in Nat
  BY LenProperties
<1> HIDE DEF s
<1>4. s # <<>>
  BY <1>2, <1>3, EmptySeq
<1>5. Head(s) = s[1] /\ s[1] = h
  BY <1>1, <1>2, <1>3, <1>4
<1>6. Tail(s) \in Seq(S) /\ Len(Tail(s)) = Len(t) /\ \A i \in 1 .. Len(t) : Tail(s)[i] = s[i + 1]
  BY <1>2, <1>3, <1>4, HeadTailProperties
<1>7. \A i \in 1 .. Len(t) : s[i + 1] = t[i]
  BY <1>2, <1>3
<1>8. Tail(s) = t
  BY <1>6, <1>7, SeqEqual
<1> QED  BY <1>5, <1>8 DEF s

\* What --auth cookie makes of one cookie.
Survives(old, new) ==
  LET others(c) == Attributes(c, {"domain", "secure"} \cup SameSite) IN
  /\ Head(new) = Head(old)
  /\ others(new) = others(old)
  /\ ToSet(Tail(new)) \cap ({"domain", "empty"} \cup SameSite) = {"samesite=none"}
  /\ Keep(Tail(new), SameSite) = <<"samesite=none">>
  /\ Contains(Tail(new), "secure")

LEMMA CookieSurvives ==
  ASSUME NEW c \in Cookies
  PROVE  Survives(c, RewriteSetCookie(c))
<1> DEFINE A == STRING \ (({"domain"} \cup SameSite) \cup {"empty"})
           O == STRING \ (({"domain", "secure"} \cup SameSite) \cup {"empty"})
           kept == Keep(Tail(c), A)
           sec == IF Contains(kept, "secure") THEN <<>> ELSE <<"secure">>
           none == <<"samesite=none">>
           tl == (kept \o sec) \o none
<1>1. Head(c) \in STRING /\ Tail(c) \in Seq(STRING)
  BY HeadTailProperties DEF Cookies
<1>2. "secure" \in STRING /\ "samesite=none" \in STRING
  BY LiteralsAssumption
<1>3. kept \in Seq(STRING) /\ kept \in Seq(STRING \cap A)
  <2> HIDE DEF A
  <2> QED  BY <1>1, KeepType, KeepInto
<1>4. none \in Seq(STRING) /\ <<"secure">> \in Seq(STRING) /\ <<Head(c)>> \in Seq(STRING)
  BY <1>1, <1>2
<1>5. sec \in Seq(STRING) /\ (sec = <<>> \/ sec = <<"secure">>)
  <2> HIDE DEF kept
  <2> QED  BY <1>4, EmptySeq
<1>6. RewriteSetCookie(c) = ((<<Head(c)>> \o kept) \o sec) \o none
  BY DEF RewriteSetCookie, Attributes
<1> HIDE DEF kept, sec, none
<1>7. kept \o sec \in Seq(STRING) /\ tl \in Seq(STRING)
  BY <1>3, <1>4, <1>5, ConcatProperties
<1>8. RewriteSetCookie(c) = <<Head(c)>> \o tl
  <2>1. (<<Head(c)>> \o kept) \o sec = <<Head(c)>> \o (kept \o sec)
    BY <1>3, <1>4, <1>5, ConcatAssociative
  <2>2. (<<Head(c)>> \o (kept \o sec)) \o none = <<Head(c)>> \o ((kept \o sec) \o none)
    BY <1>4, <1>7, ConcatAssociative
  <2> QED  BY <1>6, <2>1, <2>2
<1> HIDE DEF tl
<1>9. Head(RewriteSetCookie(c)) = Head(c) /\ Tail(RewriteSetCookie(c)) = tl
  BY <1>1, <1>7, <1>8, HeadTailOfPair
<1>10. ASSUME NEW T
       PROVE  Keep(tl, T) = (Keep(kept, T) \o Keep(sec, T)) \o Keep(none, T)
  <2> DEFINE ks == kept \o sec
  <2>1. Keep(ks \o none, T) = Keep(ks, T) \o Keep(none, T)
    <3>1. ks \in Seq(STRING)
      BY <1>7
    <3> HIDE DEF ks
    <3> QED  BY <1>4, <3>1, KeepConcat
  <2>2. Keep(kept \o sec, T) = Keep(kept, T) \o Keep(sec, T)
    BY <1>3, <1>5, KeepConcat
  <2> QED  BY <2>1, <2>2 DEF tl
<1>11. Keep(tl, O) = Keep(Tail(c), O)
  <2>1. Keep(none, O) = <<>>
    BY KeepOne DEF none, SameSite
  <2>2. Keep(sec, O) = <<>>
    BY <1>5, KeepOne, KeepEmpty
  <2>3. \A a \in STRING : a \in A \cap O <=> a \in O
    OBVIOUS
  <2> DEFINE tc == Tail(c)
  <2> HIDE DEF A, O, tc
  <2>4. Keep(kept, O) = Keep(tc, A \cap O)
    <3>1. tc \in Seq(STRING) /\ kept = Keep(tc, A)
      BY <1>1 DEF kept, tc
    <3> QED  BY <3>1, KeepTwice
  <2>5. Keep(tc, A \cap O) = Keep(tc, O)
    <3>0. tc \in Seq(STRING)
      BY <1>1 DEF tc
    <3> DEFINE B == A \cap O
               S == STRING
    <3>1. tc \in Seq(S) /\ \A a \in S : a \in B <=> a \in O
      BY <2>3, <3>0
    <3> HIDE DEF B, S
    <3>2. Keep(tc, B) = Keep(tc, O)
      BY <3>1, KeepSame
    <3> QED  BY <3>2 DEF B
  <2>6. Keep(tl, O) = (Keep(kept, O) \o <<>>) \o <<>>
    BY <1>10, <2>1, <2>2
  <2>7. Keep(kept, O) \in Seq(STRING)
    BY <1>3, KeepType
  <2> QED  BY <2>4, <2>5, <2>6, <2>7, ConcatEmptySeq DEF tc
<1>12. Keep(tl, SameSite) = <<"samesite=none">>
  <2>1. Keep(none, SameSite) = none
    BY KeepOne DEF none, SameSite
  <2>2. Keep(sec, SameSite) = <<>>
    BY <1>5, KeepOne, KeepEmpty DEF SameSite
  <2>3. (STRING \cap A) \cap SameSite = {}
    OBVIOUS
  <2>4. Keep(kept, SameSite) = <<>>
    <3> HIDE DEF A
    <3> QED  BY <1>3, <2>3, KeepNone
  <2>5. (<<>> \o <<>>) \o none = none
    BY <1>4, EmptySeq, ConcatEmptySeq
  <2> QED  BY <1>10, <2>1, <2>2, <2>4, <2>5 DEF none
<1>13. /\ Len(kept) \in Nat /\ Len(sec) \in Nat /\ Len(none) = 1 /\ none[1] = "samesite=none"
       /\ Len(tl) = (Len(kept) + Len(sec)) + 1
       /\ \A i \in 1 .. Len(kept) : tl[i] = kept[i]
       /\ \A i \in 1 .. Len(sec) : tl[Len(kept) + i] = sec[i]
       /\ tl[(Len(kept) + Len(sec)) + 1] = "samesite=none"
  <2>1. Len(kept) \in Nat /\ Len(sec) \in Nat /\ Len(none) = 1 /\ none[1] = "samesite=none"
    BY <1>3, <1>5, LenProperties DEF none
  <2> DEFINE ks == kept \o sec
  <2>2. /\ Len(ks) = Len(kept) + Len(sec)
        /\ \A i \in 1 .. Len(kept) + Len(sec) :
             ks[i] = IF i <= Len(kept) THEN kept[i] ELSE sec[i - Len(kept)]
    BY <1>3, <1>5, ConcatProperties
  <2>7. ks \in Seq(STRING) /\ tl = ks \o none
    BY <1>7 DEF tl
  <2> HIDE DEF ks
  <2>3. /\ Len(tl) = Len(ks) + 1
        /\ \A i \in 1 .. Len(ks) + 1 : tl[i] = IF i <= Len(ks) THEN ks[i] ELSE none[i - Len(ks)]
    <3>1. /\ Len(ks \o none) = Len(ks) + Len(none)
          /\ \A i \in 1 .. Len(ks) + Len(none) :
               (ks \o none)[i] = IF i <= Len(ks) THEN ks[i] ELSE none[i - Len(ks)]
      BY <1>4, <2>7, ConcatProperties
    <3> QED  BY <2>1, <2>7, <3>1
  <2>4. \A i \in 1 .. Len(kept) : tl[i] = kept[i]
    BY <2>1, <2>2, <2>3
  <2>5. \A i \in 1 .. Len(sec) : tl[Len(kept) + i] = sec[i]
    <3> SUFFICES ASSUME NEW i \in 1 .. Len(sec) PROVE tl[Len(kept) + i] = sec[i]
      OBVIOUS
    <3>1. /\ Len(kept) + i \in 1 .. Len(kept) + Len(sec)
          /\ ~(Len(kept) + i <= Len(kept))
          /\ (Len(kept) + i) - Len(kept) = i
      BY <2>1
    <3> QED  BY <2>1, <2>2, <2>3, <3>1
  <2>6. tl[(Len(kept) + Len(sec)) + 1] = "samesite=none"
    BY <2>1, <2>2, <2>3
  <2> QED  BY <2>1, <2>2, <2>3, <2>4, <2>5, <2>6
<1>14. Contains(tl, "secure")
  <2>1. CASE Contains(kept, "secure")
    <3>1. PICK i \in 1 .. Len(kept) : kept[i] = "secure"
      BY <2>1 DEF Contains
    <3>2. i \in 1 .. Len(tl) /\ tl[i] = "secure"
      BY <1>13, <3>1
    <3> QED  BY <3>2 DEF Contains
  <2>2. CASE ~Contains(kept, "secure")
    <3>1. sec = <<"secure">>
      BY <2>2 DEF sec
    <3>2. Len(sec) = 1 /\ sec[1] = "secure"
      BY <3>1
    <3>3. Len(kept) + 1 \in 1 .. Len(tl) /\ tl[Len(kept) + 1] = "secure"
      BY <1>13, <3>2
    <3> QED  BY <3>3 DEF Contains
  <2> QED  BY <2>1, <2>2
<1>15. ToSet(tl) \cap ({"domain", "empty"} \cup SameSite) = {"samesite=none"}
  <2>1. DOMAIN tl = 1 .. Len(tl)
    BY <1>7, LenProperties
  <2>2. "samesite=none" \in ToSet(tl) /\ "samesite=none" \in SameSite
    BY <1>13, <2>1 DEF ToSet, SameSite
  <2>3. ASSUME NEW a \in ToSet(tl) PROVE a \in A \cup {"secure", "samesite=none"}
    <3>1. PICK i \in 1 .. Len(tl) : a = tl[i]
      BY <2>1 DEF ToSet
    <3>2. CASE i \in 1 .. Len(kept)
      <4>1. kept[i] \in STRING \cap A
        <5> HIDE DEF A
        <5> QED  BY <1>3, <3>2, ElementOfSeq
      <4> QED  BY <1>13, <3>1, <3>2, <4>1
    <3>3. CASE i = (Len(kept) + Len(sec)) + 1
      BY <1>13, <3>1, <3>3
    <3>4. CASE i \notin 1 .. Len(kept) /\ i # (Len(kept) + Len(sec)) + 1
      <4>1. i - Len(kept) \in 1 .. Len(sec) /\ Len(kept) + (i - Len(kept)) = i
        BY <1>13, <3>1, <3>4
      <4>2. a = sec[i - Len(kept)]
        BY <1>13, <3>1, <4>1
      <4>3. sec = <<"secure">> /\ i - Len(kept) = 1
        <5>1. Len(<<>>) = 0 /\ Len(<<"secure">>) = 1
          OBVIOUS
        <5>2. sec = <<"secure">>
          BY <1>5, <4>1, <5>1
        <5> QED  BY <4>1, <5>1, <5>2
      <4> QED  BY <4>2, <4>3
    <3> QED  BY <3>2, <3>3, <3>4
  <2>4. (A \cup {"secure", "samesite=none"}) \cap ({"domain", "empty"} \cup SameSite)
          = {"samesite=none"}
    BY DEF SameSite
  <2> HIDE DEF A
  <2> QED  BY <2>2, <2>3, <2>4
<1> QED  BY <1>9, <1>11, <1>12, <1>14, <1>15 DEF Survives, Attributes

LEMMA CookiesStep ==
  ExchangeTypeInv /\ CookiesSurvive /\ [ExchangeNext]_evars => CookiesSurvive'
<1> SUFFICES ASSUME ExchangeTypeInv, CookiesSurvive, [ExchangeNext]_evars, Treated'
             PROVE  CookiesSurvive'
  BY DEF CookiesSurvive
<1>1. CASE TreatResponse
  <2>1. frame.cookies \in Seq(Cookies) /\ frame' = frame /\ treatment' = treatment
    BY <1>1, TreatedParts DEF Frames, TreatResponse
  <2>2. CASE ~treatment.rewrite
    BY <1>1, <2>1, <2>2, TreatedParts DEF CookiesSurvive
  <2>3. CASE treatment.rewrite
    <3>1. response'.cookies = [i \in DOMAIN frame.cookies |-> RewriteSetCookie(frame.cookies[i])]
      BY <1>1, <2>3, TreatedParts
    <3>2. DOMAIN frame.cookies = 1 .. Len(frame.cookies) /\ Len(frame.cookies) \in Nat
      BY <2>1, LenProperties
    <3>3. Len(response'.cookies) = Len(frame.cookies)
      BY <3>1, <3>2
    <3>4. \A i \in DOMAIN frame.cookies : Survives(frame.cookies[i], response'.cookies[i])
      BY <2>1, <3>1, <3>2, ElementOfSeq, CookieSurvives
    <3> QED  BY <2>1, <2>3, <3>3, <3>4, Zenon DEF CookiesSurvive, Survives
  <2> QED  BY <2>2, <2>3
<1>2. CASE AddCors
  <2>1. Treated /\ frame' = frame /\ treatment' = treatment
    BY <1>2 DEF Treated, AddCors
  <2>2. response \in Frames
    BY <1>2 DEF AddCors, ExchangeTypeInv, ExchangeTypeOK, Progress
  <2>3. response'.cookies = response.cookies
    BY <1>2, <2>2 DEF AddCors, Frames
  <2> QED  BY <2>1, <2>3, Zenon DEF CookiesSurvive
<1>3. CASE UNCHANGED evars
  <2>1. response' = response /\ frame' = frame /\ treatment' = treatment /\ Treated
    BY <1>3 DEF evars, Treated
  <2> QED  BY <2>1, Zenon DEF CookiesSurvive
<1>4. CASE AnswerPreflight \/ RefuseBody \/ SendFrame \/ Refuse \/ Replay \/ LocalReplies \/ CaptureReply
          \/ LocalFails
  <2>1. ~Treated'
    BY <1>4 DEF Treated, ExchangeTypeInv, ExchangeTypeOK, Places, Progress, AnswerPreflight, RefuseBody,
      SendFrame, Refuse, Replay, LocalReplies, FollowRedirect, CaptureReply, LocalFails
  <2> QED  BY <2>1
<1> QED  BY <1>1, <1>2, <1>3, <1>4 DEF ExchangeNext

\* Whatever attributes an application gives its cookies, in whatever order
\* and however often, a browser takes them as --auth cookie promises.
THEOREM CookiesAlwaysSurvive == ExchangeSpec => []CookiesSurvive
<1>1. ExchangeInit => ExchangeTypeInv /\ CookiesSurvive
  BY ExchangeTypeInit DEF ExchangeInit, CookiesSurvive, Treated
<1>2. ExchangeTypeInv /\ CookiesSurvive /\ [ExchangeNext]_evars
        => ExchangeTypeInv' /\ CookiesSurvive'
  BY ExchangeTypeStep, CookiesStep
<1> QED  BY <1>1, <1>2, PTL DEF ExchangeSpec

-----------------------------------------------------------------------------
(***************************************************************************)
(* What the application learns.                                            *)
(***************************************************************************)
Words(s) == [i \in DOMAIN s |-> s[i].value]

LEMMA WordsOfNamed ==
  ASSUME NEW hs, NEW n
  PROVE  Values(hs, n) = Words(Named(hs, n))
BY DEF Values, Words

\* The values of a header, told by its first one.
LEMMA ValuesKnown ==
  ASSUME NEW hs \in Seq(Header), NEW n
  PROVE  /\ Values(hs, n) \in Seq(STRING \ {None})
         /\ Values(hs, n) = <<>> <=> ~Has(hs, n)
         /\ Has(hs, n) => Values(hs, n)[1] = First(hs, n)
<1> DEFINE s == Named(hs, n)
           W == STRING \ {None}
<1>1. s \in Seq(Header) /\ Len(s) \in Nat /\ DOMAIN s = 1 .. Len(s)
  BY NamedType, LenProperties
<1>2. \A i \in 1 .. Len(s) : s[i].value \in W
  <2>1. \A h \in Header : h.value \in W
    BY DEF Header
  <2> QED  BY <1>1, <2>1, ElementOfSeq
<1>3. Values(hs, n) = [i \in 1 .. Len(s) |-> s[i].value]
  BY <1>1 DEF Values
<1> HIDE DEF s, W
<1>4. Values(hs, n) \in [1 .. Len(s) -> W]
  BY <1>2, <1>3
<1>5. Values(hs, n) \in Seq(W) /\ Len(Values(hs, n)) = Len(s)
  BY <1>1, <1>4, SeqDef
<1>6. Values(hs, n) = <<>> <=> s = <<>>
  BY <1>1, <1>5, EmptySeq
<1>7. ASSUME s # <<>> PROVE Values(hs, n)[1] = s[1].value
  <2>1. 1 \in 1 .. Len(s)
    BY <1>1, <1>7, EmptySeq
  <2> QED  BY <1>3, <2>1
<1> QED  BY <1>5, <1>6, <1>7, Zenon DEF Has, First, s, W

LEMMA WordsAppend ==
  ASSUME NEW s \in Seq(Header), NEW h \in Header
  PROVE  /\ Words(s) \in Seq(STRING)
         /\ Words(Append(s, h)) = Append(Words(s), h.value)
<1> DEFINE W == STRING
<1>1. Len(s) \in Nat /\ DOMAIN s = 1 .. Len(s) /\ \A i \in 1 .. Len(s) : s[i].value \in W
  <2>1. \A e \in Header : e.value \in W
    BY DEF Header
  <2> QED  BY <2>1, LenProperties, ElementOfSeq
<1>7. h.value \in W
  BY DEF Header
<1> HIDE DEF W
<1>2. Words(s) = [i \in 1 .. Len(s) |-> s[i].value]
  BY <1>1 DEF Words
<1>3. Words(s) \in [1 .. Len(s) -> W]
  BY <1>1, <1>2
<1>4. Words(s) \in Seq(W) /\ Len(Words(s)) = Len(s)
  BY <1>1, <1>3, SeqDef
<1> DEFINE t == Append(s, h)
<1>5. /\ t \in Seq(Header) /\ Len(t) = Len(s) + 1
      /\ \A i \in 1 .. Len(s) : t[i] = s[i]
      /\ t[Len(s) + 1] = h
      /\ DOMAIN t = 1 .. Len(s) + 1
  BY AppendProperties, LenProperties
<1> HIDE DEF t
<1>6. Words(t) = [i \in 1 .. Len(s) + 1 |-> t[i].value]
  BY <1>5 DEF Words
<1> DEFINE w == Append(Words(s), h.value)
<1>8. /\ w \in Seq(W) /\ Len(w) = Len(s) + 1
      /\ \A i \in 1 .. Len(s) : w[i] = Words(s)[i]
      /\ w[Len(s) + 1] = h.value
  BY <1>4, <1>7, AppendProperties
<1> HIDE DEF w
<1>9. \A i \in 1 .. Len(s) + 1 : t[i].value = w[i]
  <2> SUFFICES ASSUME NEW i \in 1 .. Len(s) + 1 PROVE t[i].value = w[i]
    OBVIOUS
  <2>1. CASE i \in 1 .. Len(s)
    BY <1>2, <1>5, <1>8, <2>1
  <2>2. CASE i = Len(s) + 1
    BY <1>5, <1>8, <2>2
  <2> QED  BY <1>1, <2>1, <2>2
<1>10. Words(t) = w
  <2>1. w = [i \in 1 .. Len(s) + 1 |-> w[i]]
    BY <1>8, LenProperties
  <2> QED  BY <1>6, <1>9, <2>1
<1> QED  BY <1>4, <1>10, Zenon DEF t, w, W

LEMMA WordsKeep ==
  ASSUME NEW s \in Seq(Header)
  PROVE  Words(Keep(s, Readable)) = Keep(Words(s), STRING \ {Unreadable})
<1> DEFINE W == STRING
           R == W \ {Unreadable}
           G == {u \in Seq(Header) : Words(Keep(u, Readable)) = Keep(Words(u), R)}
<1>1. <<>> \in G
  <2>1. Words(<<>>) = <<>>
    BY DEF Words
  <2> HIDE DEF R
  <2> QED  BY <2>1, EmptySeq, KeepEmpty
<1>2. ASSUME NEW u \in Seq(Header), NEW h \in Header, u \in G PROVE Append(u, h) \in G
  <2>1. h \in Readable <=> h.value \in R
    BY DEF Header, Readable
  <2>2. h.value \in W /\ Words(u) \in Seq(W) /\ Words(Append(u, h)) = Append(Words(u), h.value)
    BY WordsAppend DEF Header
  <2> HIDE DEF R, W
  <2>3. Keep(Append(u, h), Readable) =
          IF h \in Readable THEN Append(Keep(u, Readable), h) ELSE Keep(u, Readable)
    BY KeepAppend
  <2>4. Keep(Append(Words(u), h.value), R) =
          IF h.value \in R THEN Append(Keep(Words(u), R), h.value) ELSE Keep(Words(u), R)
    <3> DEFINE v == h.value
               ws == Words(u)
    <3> HIDE DEF v, ws, G
    <3>1. v \in W /\ ws \in Seq(W)
      BY <2>2 DEF v, ws
    <3>2. Keep(Append(ws, v), R) = IF v \in R THEN Append(Keep(ws, R), v) ELSE Keep(ws, R)
      BY <3>1, KeepAppend
    <3> QED  BY <3>2, Zenon DEF v, ws
  <2>5. Words(Append(Keep(u, Readable), h)) = Append(Words(Keep(u, Readable)), h.value)
    BY KeepType, WordsAppend
  <2>6. Words(Keep(u, Readable)) = Keep(Words(u), R) /\ Append(u, h) \in Seq(Header)
    BY <1>2, AppendProperties
  <2>7. Words(Keep(Append(u, h), Readable)) = Keep(Words(Append(u, h)), R)
    <3>1. CASE h \in Readable
      BY <2>1, <2>2, <2>3, <2>4, <2>5, <2>6, <3>1
    <3>2. CASE h \notin Readable
      BY <2>1, <2>2, <2>3, <2>4, <2>6, <3>2
    <3> QED  BY <3>1, <3>2
  <2> QED  BY <2>6, <2>7
<1> HIDE DEF G
<1>3. Seq(Header) \subseteq G
  BY <1>1, <1>2, SequenceInduction
<1> QED  BY <1>3, Zenon DEF G, R, W

-----------------------------------------------------------------------------
\* A name of its own for the set, which the provers treat apart.
Names == STRING

LEMMA NamedUnnamed ==
  ASSUME NEW hs \in Seq(Header), NEW N, NEW n \in Names
  PROVE  Named(Unnamed(hs, N), n) = IF n \in N THEN <<>> ELSE Named(hs, n)
<1> DEFINE A == Called(STRING \ N)
           B == Called({n})
<1>1. \A h \in Header : (h \in A <=> h.name \notin N) /\ (h \in B <=> h.name = n)
  BY DEF Header, Called, Names
<1>2. Named(Unnamed(hs, N), n) = Keep(Keep(hs, A), B) /\ Named(hs, n) = Keep(hs, B)
  BY Zenon DEF Named, Unnamed
<1> HIDE DEF A, B
<1>3. Keep(Keep(hs, A), B) = Keep(hs, A \cap B)
  BY KeepTwice
<1>4. CASE n \in N
  <2>1. \A h \in Header : h \in A \cap B <=> h \in {}
    BY <1>1, <1>4
  <2>2. Keep(hs, A \cap B) = <<>>
    <3>1. Header \cap (A \cap B) = {}
      BY <2>1
    <3> QED  BY <3>1, KeepNone
  <2> QED  BY <1>2, <1>3, <1>4, <2>2
<1>5. CASE n \notin N
  <2> DEFINE C == A \cap B
  <2>1. \A h \in Header : h \in C <=> h \in B
    BY <1>1, <1>5
  <2> HIDE DEF C
  <2>2. Keep(hs, C) = Keep(hs, B)
    BY <2>1, KeepSame
  <2> QED  BY <1>2, <1>3, <1>5, <2>2 DEF C
<1> QED  BY <1>4, <1>5

LEMMA NamedReadable ==
  ASSUME NEW hs \in Seq(Header), NEW n
  PROVE  Named(Keep(hs, Readable), n) = Keep(Named(hs, n), Readable)
<1> DEFINE A == Readable
           B == Called({n})
<1>1. A \cap B = B \cap A
  OBVIOUS
<1> HIDE DEF A, B
<1>2. Keep(Keep(hs, A), B) = Keep(hs, A \cap B) /\ Keep(Keep(hs, B), A) = Keep(hs, B \cap A)
  BY KeepTwice
<1>3. Keep(Keep(hs, A), B) = Keep(Keep(hs, B), A)
  BY <1>1, <1>2
<1> QED  BY <1>3, Zenon DEF A, B, Named

LEMMA NamedConcat ==
  ASSUME NEW s \in Seq(Header), NEW t \in Seq(Header), NEW n
  PROVE  Named(s \o t, n) = Named(s, n) \o Named(t, n)
<1> DEFINE C == Called({n})
<1> HIDE DEF C
<1>1. Keep(s \o t, C) = Keep(s, C) \o Keep(t, C)
  BY KeepConcat
<1> QED  BY <1>1, Zenon DEF C, Named

\* One header alone.
LEMMA NamedOne ==
  ASSUME NEW h \in Header, NEW n \in Names
  PROVE  Named(<<h>>, n) = IF h.name = n THEN <<h>> ELSE <<>>
<1>1. h \in Called({n}) <=> h.name = n
  BY DEF Header, Called, Names
<1>2. Named(<<h>>, n) = IF h \in Called({n}) THEN <<h>> ELSE <<>>
  BY KeepOne, Zenon DEF Named
<1> QED  BY <1>1, <1>2

\* The headers of one name that the application receives.
LEMMA NamedAtLocal ==
  ASSUME NEW hs \in Seq(Header), NEW n \in Names
  PROVE  Named(ReplayedHeaders(ForwardedHeaders(hs)), n) =
           CASE n = "x-forwarded-proto" -> <<Proto(hs)>>
             [] n = "x-forwarded-host"  -> HostPart(hs)
             [] n \in StrippedRequestHeaders -> <<>>
             [] OTHER -> Keep(Named(hs, n), Readable)
<1> DEFINE f == ForwardedHeaders(hs)
           a == Passed(hs)
           b == <<Proto(hs)>>
           c == HostPart(hs)
<1>1. a \in Seq(Header) /\ b \in Seq(Header) /\ c \in Seq(Header) /\ f \in Seq(Header)
  BY ForwardedParts
<1>13. f = (a \o b) \o c
  BY ForwardedParts
<1>2. Named(ReplayedHeaders(f), n) =
        IF n \in {"host", "content-length"} THEN <<>> ELSE Named(f, n)
  <2> HIDE DEF f
  <2> DEFINE N == {"host", "content-length"}
  <2>1. Named(Unnamed(f, N), n) = IF n \in N THEN <<>> ELSE Named(f, n)
    <3> HIDE DEF N
    <3>1. f \in Seq(Header)
      BY <1>1
    <3> QED  BY <3>1, NamedUnnamed
  <2> QED  BY <2>1, Zenon DEF ReplayedHeaders
<1>3. Named(f, n) = (Named(a, n) \o Named(b, n)) \o Named(c, n)
  <2> HIDE DEF f, a, b, c
  <2>1. a \o b \in Seq(Header)
    BY <1>1, ConcatProperties
  <2>2. Named((a \o b) \o c, n) = Named(a \o b, n) \o Named(c, n)
    <3> DEFINE t == a \o b
    <3>1. t \in Seq(Header) /\ c \in Seq(Header)
      BY <1>1, <2>1
    <3> HIDE DEF t
    <3>2. Named(t \o c, n) = Named(t, n) \o Named(c, n)
      BY <3>1, NamedConcat
    <3> QED  BY <3>2, Zenon DEF t
  <2>3. Named(a \o b, n) = Named(a, n) \o Named(b, n)
    <3>1. a \in Seq(Header) /\ b \in Seq(Header)
      BY <1>1
    <3> QED  BY <3>1, NamedConcat
  <2> QED  BY <1>13, <2>2, <2>3, Zenon
<1>4. Named(a, n) = IF n \in StrippedRequestHeaders \cup Recomputed THEN <<>>
                    ELSE Keep(Named(hs, n), Readable)
  <2> DEFINE N == StrippedRequestHeaders \cup Recomputed
             u == Unnamed(hs, N)
  <2>1. Named(u, n) = IF n \in N THEN <<>> ELSE Named(hs, n)
    <3> HIDE DEF N
    <3> QED  BY NamedUnnamed
  <2>2. u \in Seq(Header)
    <3> HIDE DEF N
    <3> QED  BY UnnamedType
  <2>3. a = Keep(u, Readable)
    BY Zenon DEF Passed
  <2> HIDE DEF N, u, a
  <2>4. Named(a, n) = Keep(Named(u, n), Readable)
    BY <2>2, <2>3, NamedReadable
  <2> QED  BY <2>1, <2>4, KeepEmpty DEF N
<1>5. Named(b, n) = IF n = "x-forwarded-proto" THEN <<Proto(hs)>> ELSE <<>>
  <2>1. Proto(hs) \in Header /\ Proto(hs).name = "x-forwarded-proto"
    BY ForwardedParts DEF Proto
  <2> QED  BY <2>1, NamedOne
<1>6. Named(c, n) = IF n = "x-forwarded-host" THEN HostPart(hs) ELSE <<>>
  <2>1. CASE ForwardedHost(hs) = None
    <3>1. Named(<<>>, n) = <<>>
      BY KeepEmpty, Zenon DEF Named
    <3> QED  BY <2>1, <3>1 DEF HostPart
  <2>2. CASE ForwardedHost(hs) # None
    <3>1. Host(hs) \in Header /\ Host(hs).name = "x-forwarded-host" /\ c = <<Host(hs)>>
      BY <2>2, ForwardedParts DEF Host, HostPart
    <3> HIDE DEF c
    <3>2. Named(<<Host(hs)>>, n) = IF Host(hs).name = n THEN <<Host(hs)>> ELSE <<>>
      BY <3>1, NamedOne
    <3> QED  BY <3>1, <3>2 DEF c
  <2> QED  BY <2>1, <2>2
<1>7. Keep(Named(hs, n), Readable) \in Seq(Header)
  BY NamedType, KeepType
<1> DEFINE k == Keep(Named(hs, n), Readable)
<1> HIDE DEF f, k
<1>8. /\ (<<>> \o b) \o <<>> = b /\ (<<>> \o <<>>) \o c = c
      /\ (<<>> \o <<>>) \o <<>> = <<>> /\ (k \o <<>>) \o <<>> = k
  <2> HIDE DEF b, c
  <2> QED  BY <1>1, <1>7, EmptySeq, ConcatEmptySeq DEF k
<1>9. CASE n = "x-forwarded-proto"
  <2>1. Named(f, n) = (<<>> \o b) \o <<>>
    BY <1>3, <1>4, <1>5, <1>6, <1>9 DEF Recomputed
  <2>2. Named(f, n) = <<Proto(hs)>>
    BY <1>8, <2>1
  <2>3. n \notin {"host", "content-length"}
    BY <1>9
  <2>4. Named(ReplayedHeaders(ForwardedHeaders(hs)), n) = <<Proto(hs)>>
    BY <1>2, <2>2, <2>3, Zenon DEF f
  <2> QED  BY <1>9, <2>4 DEF StrippedRequestHeaders
<1>10. CASE n = "x-forwarded-host"
  <2>1. Named(f, n) = (<<>> \o <<>>) \o c
    BY <1>3, <1>4, <1>5, <1>6, <1>10 DEF Recomputed
  <2>2. Named(f, n) = HostPart(hs)
    BY <1>8, <2>1
  <2>3. n \notin {"host", "content-length"} /\ n # "x-forwarded-proto"
    BY <1>10
  <2>4. Named(ReplayedHeaders(ForwardedHeaders(hs)), n) = HostPart(hs)
    BY <1>2, <2>2, <2>3, Zenon DEF f
  <2> QED  BY <1>10, <2>3, <2>4 DEF StrippedRequestHeaders
<1>11. CASE n \in StrippedRequestHeaders /\ n \notin Recomputed
  <2>1. Named(f, n) = (<<>> \o <<>>) \o <<>>
    BY <1>3, <1>4, <1>5, <1>6, <1>11 DEF Recomputed
  <2> QED  BY <1>2, <1>8, <1>11, <2>1 DEF f, Recomputed
<1>12. CASE n \notin StrippedRequestHeaders /\ n \notin Recomputed
  <2>1. Named(f, n) = (k \o <<>>) \o <<>>
    BY <1>3, <1>4, <1>5, <1>6, <1>12 DEF Recomputed, k
  <2>2. n \notin {"host", "content-length"}
    BY <1>12 DEF StrippedRequestHeaders
  <2> QED  BY <1>2, <1>8, <1>12, <2>1, <2>2 DEF f, k, Recomputed
<1> QED  BY <1>9, <1>10, <1>11, <1>12 DEF Recomputed

-----------------------------------------------------------------------------
LEMMA WordsOne ==
  ASSUME NEW h
  PROVE  Words(<<h>>) = <<h.value>> /\ Words(<<>>) = <<>>
BY DEF Words

\* The public address, as the headers of the request tell it.
LEMMA ProtoOfValues ==
  ASSUME NEW hs \in Seq(Header), NEW v, v = Values(hs, "x-forwarded-proto")
  PROVE  ForwardedProto(hs) = IF v = <<>> \/ v[1] = Unreadable THEN PublicScheme ELSE v[1]
<1>1. /\ v = <<>> <=> ~Has(hs, "x-forwarded-proto")
      /\ Has(hs, "x-forwarded-proto") =>
           v[1] = First(hs, "x-forwarded-proto") /\ First(hs, "x-forwarded-proto") # None
      /\ ~Has(hs, "x-forwarded-proto") => First(hs, "x-forwarded-proto") = None
  BY ValuesKnown, FirstValue
<1> QED  BY <1>1, Zenon DEF ForwardedProto

LEMMA FirstOfConcat ==
  ASSUME NEW S, NEW s \in Seq(S), NEW t \in Seq(S), s # <<>>
  PROVE  s \o t # <<>> /\ (s \o t)[1] = s[1]
<1>1. Len(s) \in Nat /\ Len(s) # 0 /\ Len(t) \in Nat
  BY EmptySeq, LenProperties
<1>2. /\ s \o t \in Seq(S) /\ Len(s \o t) = Len(s) + Len(t)
      /\ \A i \in 1 .. Len(s) + Len(t) :
           (s \o t)[i] = IF i <= Len(s) THEN s[i] ELSE t[i - Len(s)]
  BY ConcatProperties
<1>3. 1 \in 1 .. Len(s) + Len(t) /\ 1 <= Len(s)
  BY <1>1
<1>4. (s \o t)[1] = s[1]
  BY <1>2, <1>3
<1>5. s \o t # <<>>
  BY <1>1, <1>2, EmptySeq
<1> QED  BY <1>4, <1>5

LEMMA HostOfValues ==
  ASSUME NEW hs \in Seq(Header), NEW v,
         v = Values(hs, "x-forwarded-host") \o Values(hs, "host")
  PROVE  /\ v = <<>> \/ v[1] = Unreadable => ForwardedHost(hs) = None
         /\ v # <<>> /\ v[1] # Unreadable =>
              ForwardedHost(hs) = v[1] /\ ForwardedHost(hs) # None
<1> DEFINE p == Values(hs, "x-forwarded-host")
           q == Values(hs, "host")
           W == STRING \ {None}
<1>1. /\ p \in Seq(W) /\ q \in Seq(W)
      /\ p = <<>> <=> ~Has(hs, "x-forwarded-host")
      /\ q = <<>> <=> ~Has(hs, "host")
      /\ Has(hs, "x-forwarded-host") => p[1] = First(hs, "x-forwarded-host")
      /\ Has(hs, "host") => q[1] = First(hs, "host")
  BY ValuesKnown
<1>2. \A n : /\ Has(hs, n) => First(hs, n) # None
             /\ ~Has(hs, n) => First(hs, n) = None
  BY FirstValue
<1>3. v = p \o q
  OBVIOUS
<1>4. Unreadable # None
  BY DEF Unreadable, None
<1> HIDE DEF p, q, W
<1>5. p = <<>> => v = q
  BY <1>1, <1>3, ConcatEmptySeq
<1>6. p # <<>> => v # <<>> /\ v[1] = p[1]
  BY <1>1, <1>3, FirstOfConcat
<1>7. CASE Has(hs, "x-forwarded-host")
  <2>1. v # <<>> /\ v[1] = First(hs, "x-forwarded-host")
    BY <1>1, <1>6, <1>7
  <2>2. ForwardedHost(hs) = IF v[1] = Unreadable THEN None ELSE v[1]
    BY <1>7, <2>1, Zenon DEF ForwardedHost
  <2> QED  BY <1>2, <1>7, <2>1, <2>2
<1>8. CASE ~Has(hs, "x-forwarded-host")
  <2>1. v = q
    BY <1>1, <1>5, <1>8
  <2>2. ForwardedHost(hs) = IF First(hs, "host") = Unreadable THEN None ELSE First(hs, "host")
    BY <1>8, Zenon DEF ForwardedHost
  <2> QED  BY <1>1, <1>2, <1>4, <2>1, <2>2
<1> QED  BY <1>7, <1>8

LEMMA LearnsAddress == ExchangeTypeInv => LocalLearnsPublicAddress
<1> SUFFICES ASSUME ExchangeTypeInv, AtLocal PROVE LocalLearnsPublicAddress
  BY DEF LocalLearnsPublicAddress
<1> DEFINE hs == request.headers
           proto == Values(hs, "x-forwarded-proto")
           host == Values(hs, "x-forwarded-host") \o Values(hs, "host")
<1>1. hs \in Seq(Header) /\ local = ReplayedHeaders(ForwardedHeaders(hs))
  BY RequestsAssumption DEF ExchangeTypeInv, ExchangeTypeOK, Progress
<1>2. "x-forwarded-proto" \in Names /\ "x-forwarded-host" \in Names
  BY LiteralsAssumption DEF Names
<1> HIDE DEF hs
<1>3. Named(local, "x-forwarded-proto") = <<Proto(hs)>>
  BY <1>1, <1>2, NamedAtLocal DEF StrippedRequestHeaders
<1>4. Named(local, "x-forwarded-host") = HostPart(hs)
  BY <1>1, <1>2, NamedAtLocal DEF StrippedRequestHeaders
<1>5. Values(local, "x-forwarded-proto") =
        <<IF proto = <<>> \/ proto[1] = Unreadable THEN PublicScheme ELSE proto[1]>>
  <2>1. Values(local, "x-forwarded-proto") = <<ForwardedProto(hs)>>
    BY <1>3, WordsOfNamed, WordsOne DEF Proto
  <2>2. ForwardedProto(hs) =
          IF proto = <<>> \/ proto[1] = Unreadable THEN PublicScheme ELSE proto[1]
    BY <1>1, ProtoOfValues
  <2> QED  BY <2>1, <2>2
<1>6. Values(local, "x-forwarded-host") =
        IF host = <<>> \/ host[1] = Unreadable THEN <<>> ELSE <<host[1]>>
  <2>1. Values(local, "x-forwarded-host") =
          IF ForwardedHost(hs) = None THEN <<>> ELSE <<ForwardedHost(hs)>>
    <3>1. Values(local, "x-forwarded-host") = Words(HostPart(hs))
      BY <1>4, WordsOfNamed
    <3>2. CASE ForwardedHost(hs) = None
      BY <3>1, <3>2, WordsOne DEF HostPart
    <3>3. CASE ForwardedHost(hs) # None
      <4>1. HostPart(hs) = <<Host(hs)>> /\ Host(hs).value = ForwardedHost(hs)
        BY <3>3 DEF HostPart, Host
      <4>2. Words(<<Host(hs)>>) = <<Host(hs).value>>
        BY WordsOne
      <4> QED  BY <3>1, <3>3, <4>1, <4>2
    <3> QED  BY <3>2, <3>3
  <2>2. /\ host = <<>> \/ host[1] = Unreadable => ForwardedHost(hs) = None
        /\ host # <<>> /\ host[1] # Unreadable =>
             ForwardedHost(hs) = host[1] /\ ForwardedHost(hs) # None
    BY <1>1, HostOfValues
  <2> HIDE DEF host
  <2> QED  BY <2>1, <2>2
<1> DEFINE told == Values(local, "x-forwarded-host")
<1>7. /\ Len(told) <= 1
      /\ ToSet(told) \subseteq ToSet(host) \ {Unreadable}
      /\ host # <<>> /\ host[1] # Unreadable => told = <<host[1]>>
  <2>1. host \in Seq(STRING \ {None})
    BY <1>1, ValuesKnown, ConcatProperties
  <2>2. told = IF host = <<>> \/ host[1] = Unreadable THEN <<>> ELSE <<host[1]>>
    BY <1>6
  <2> HIDE DEF host, told
  <2>3. CASE host = <<>> \/ host[1] = Unreadable
    <3>1. told = <<>> /\ Len(told) = 0 /\ DOMAIN told = {}
      BY <2>2, <2>3
    <3> QED  BY <2>3, <3>1 DEF ToSet
  <2>4. CASE host # <<>> /\ host[1] # Unreadable
    <3>1. told = <<host[1]>> /\ Len(told) = 1 /\ DOMAIN told = {1} /\ told[1] = host[1]
      BY <2>2, <2>4
    <3>2. 1 \in DOMAIN host
      BY <2>1, <2>4, EmptySeq, LenProperties
    <3> QED  BY <2>4, <3>1, <3>2 DEF ToSet
  <2> QED  BY <2>3, <2>4
<1> QED  BY <1>5, <1>7, Zenon DEF LocalLearnsPublicAddress, hs

\* Whatever headers a browser sends and the proxies on the way add, the
\* application is told one scheme and no second host, none that nobody named,
\* and the first one named unless its bytes cannot be read.
THEOREM AddressAlwaysLearnt == ExchangeSpec => []LocalLearnsPublicAddress
<1>1. ExchangeInit => ExchangeTypeInv
  BY ExchangeTypeInit
<1>2. ExchangeTypeInv /\ [ExchangeNext]_evars => ExchangeTypeInv'
  BY ExchangeTypeStep
<1> QED  BY <1>1, <1>2, LearnsAddress, PTL DEF ExchangeSpec

LEMMA OthersArrive == ExchangeTypeInv => OtherHeadersArrive
<1> SUFFICES ASSUME ExchangeTypeInv, AtLocal,
                    NEW n \in {h.name : h \in ToSet(request.headers)} \ Recomputed
             PROVE  Values(local, n) =
                      IF n \in StrippedRequestHeaders THEN <<>>
                      ELSE Keep(Values(request.headers, n), STRING \ {Unreadable})
  BY Zenon DEF OtherHeadersArrive
<1> DEFINE hs == request.headers
           s == Named(hs, n)
<1>1. hs \in Seq(Header) /\ local = ReplayedHeaders(ForwardedHeaders(hs))
  BY RequestsAssumption DEF ExchangeTypeInv, ExchangeTypeOK, Progress
<1>2. n \in Names
  <2>1. PICK i \in DOMAIN hs : n = hs[i].name
    BY DEF ToSet
  <2>2. hs[i] \in Header
    BY <1>1, <2>1, ElementOfSeq, LenProperties
  <2> QED  BY <2>1, <2>2 DEF Header, Names
<1> HIDE DEF hs
<1>3. Named(local, n) = IF n \in StrippedRequestHeaders THEN <<>> ELSE Keep(s, Readable)
  BY <1>1, <1>2, NamedAtLocal DEF Recomputed
<1>4. Words(Keep(s, Readable)) = Keep(Words(s), STRING \ {Unreadable})
  <2>1. s \in Seq(Header)
    BY <1>1, NamedType
  <2> HIDE DEF s
  <2> QED  BY <2>1, WordsKeep
<1>5. Values(local, n) = Words(Named(local, n)) /\ Values(hs, n) = Words(s)
  BY WordsOfNamed
<1> HIDE DEF s
<1>6. Values(local, n) = IF n \in StrippedRequestHeaders THEN <<>>
                         ELSE Keep(Values(hs, n), STRING \ {Unreadable})
  <2>1. CASE n \in StrippedRequestHeaders
    BY <1>3, <1>5, <2>1, WordsOne
  <2>2. CASE n \notin StrippedRequestHeaders
    BY <1>3, <1>4, <1>5, <2>2, Zenon
  <2> QED  BY <2>1, <2>2
<1> QED  BY <1>6, Zenon DEF hs

\* However often and in whatever order a browser repeats its headers, all
\* that can be read of them arrives, but for the connection's own.
THEOREM OthersAlwaysArrive == ExchangeSpec => []OtherHeadersArrive
<1>1. ExchangeInit => ExchangeTypeInv
  BY ExchangeTypeInit
<1>2. ExchangeTypeInv /\ [ExchangeNext]_evars => ExchangeTypeInv'
  BY ExchangeTypeStep
<1> QED  BY <1>1, <1>2, OthersArrive, PTL DEF ExchangeSpec

=============================================================================
