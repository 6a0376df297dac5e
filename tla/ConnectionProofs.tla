--------------------------- MODULE ConnectionProofs ---------------------------
(***************************************************************************)
(* Proofs about one connection, for every size of the buffer, every width  *)
(* of the integers, every bytes the client sends and every way in which    *)
(* recv and send cut them: the line is the first line the client sent, the *)
(* buffer is never overrun, a control string means the numbers written in  *)
(* it, a send_file that reports success has sent the whole answer, and one *)
(* that does not has still left out no byte of it.                         *)
(***************************************************************************)
EXTENDS Connection, InductionProofs, TLAPS

Octet == 0 .. 255

-----------------------------------------------------------------------------
(***************************************************************************)
(* The position of the first newline.                                      *)
(***************************************************************************)
LEMMA EolLemma ==
  ASSUME NEW s \in Seq(Octet)
  PROVE  /\ Eol(s) \in 0 .. Len(s)
         /\ Eol(s) = 0 => \A i \in 1 .. Len(s) : s[i] # NL
         /\ Eol(s) # 0 => s[Eol(s)] = NL /\ \A i \in 1 .. Len(s) : i < Eol(s) => s[i] # NL
<1> DEFINE n == Len(s)
           T == {i \in DOMAIN s : s[i] = NL} \cup {n + 1}
           m == Min(T)
<1>1. n \in Nat /\ DOMAIN s = 1 .. n
  OBVIOUS
<1>2. T \in SUBSET Nat /\ T # {}
  BY <1>1
<1>3. m \in T /\ \A k \in T : m <= k
  BY <1>2, MinExists
<1>4. Eol(s) = m % (n + 1)
  BY DEF Eol
<1>5. m \in 1 .. n + 1
  BY <1>1, <1>3
<1> HIDE DEF m
<1>6. m % (n + 1) = IF m = n + 1 THEN 0 ELSE m
  <2>1. ASSUME NEW k \in Nat, NEW x \in 1 .. k + 1 PROVE x % (k + 1) = IF x = k + 1 THEN 0 ELSE x
    OBVIOUS
  <2> HIDE DEF n
  <2>. QED  BY <1>1, <1>5, <2>1
<1>7. CASE m = n + 1
  <2>1. ASSUME NEW i \in 1 .. n, s[i] = NL PROVE FALSE
    BY <1>1, <1>3, <1>7, <2>1
  <2>. QED  BY <1>1, <1>4, <1>6, <1>7, <2>1
<1>8. CASE m # n + 1
  <2>1. Eol(s) = m /\ m \in 1 .. n
    BY <1>1, <1>4, <1>5, <1>6, <1>8
  <2>2. s[m] = NL
    BY <1>3, <1>8
  <2>3. ASSUME NEW i \in 1 .. n, i < m PROVE s[i] # NL
    BY <1>1, <1>3, <2>1, <2>3
  <2>. QED  BY <1>1, <2>1, <2>2, <2>3
<1>. QED  BY <1>7, <1>8

\* A position with these properties is the one that Eol returns.
LEMMA EolIs ==
  ASSUME NEW s \in Seq(Octet), NEW e \in 1 .. Len(s), s[e] = NL,
         \A i \in 1 .. Len(s) : i < e => s[i] # NL
  PROVE  Eol(s) = e
<1>1. Eol(s) \in 0 .. Len(s) /\ (Eol(s) = 0 => \A i \in 1 .. Len(s) : s[i] # NL)
  BY EolLemma
<1>2. Eol(s) # 0
  BY <1>1
<1>3. s[Eol(s)] = NL /\ \A i \in 1 .. Len(s) : i < Eol(s) => s[i] # NL
  BY <1>2, EolLemma
<1>4. Len(s) \in Nat
  OBVIOUS
<1>. QED  BY <1>1, <1>2, <1>3, <1>4

\* What comes behind bytes without a newline.
LEMMA EolConcat ==
  ASSUME NEW s \in Seq(Octet), NEW t \in Seq(Octet), Eol(s) = 0
  PROVE  Eol(s \o t) = IF Eol(t) = 0 THEN 0 ELSE Len(s) + Eol(t)
<1> DEFINE c == s \o t
<1>1. /\ c \in Seq(Octet) /\ Len(c) = Len(s) + Len(t) /\ Len(s) \in Nat /\ Len(t) \in Nat
      /\ \A k \in Nat : 1 <= k /\ k <= Len(s) => c[k] = s[k]
      /\ \A k \in 1 .. Len(t) : c[Len(s) + k] = t[k]
  BY ConcatParts
<1> HIDE DEF c
<1>2. \A i \in 1 .. Len(s) : s[i] # NL
  BY EolLemma
<1>3. ASSUME NEW i \in 1 .. Len(c), ~(i <= Len(s)) PROVE i - Len(s) \in 1 .. Len(t) /\ c[i] = t[i - Len(s)]
  <2>1. i - Len(s) \in 1 .. Len(t) /\ Len(s) + (i - Len(s)) = i
    BY <1>1, <1>3
  <2>. QED  BY <1>1, <2>1
<1>4. CASE Eol(t) = 0
  <2>1. \A i \in 1 .. Len(t) : t[i] # NL
    BY <1>4, EolLemma
  <2>2. ASSUME NEW i \in 1 .. Len(c) PROVE c[i] # NL
    <3>1. CASE i <= Len(s)
      BY <1>1, <1>2, <3>1
    <3>2. CASE ~(i <= Len(s))
      BY <1>3, <2>1, <3>2
    <3>. QED  BY <3>1, <3>2
  <2>3. Eol(c) \in 0 .. Len(c) /\ (Eol(c) # 0 => c[Eol(c)] = NL)
    BY <1>1, EolLemma
  <2>4. Eol(c) = 0
    BY <1>1, <2>2, <2>3
  <2>. QED  BY <1>4, <2>4 DEF c
<1>5. CASE Eol(t) # 0
  <2>1. /\ Eol(t) \in 1 .. Len(t) /\ t[Eol(t)] = NL
        /\ \A i \in 1 .. Len(t) : i < Eol(t) => t[i] # NL
    BY <1>1, <1>5, EolLemma
  <2> DEFINE e == Len(s) + Eol(t)
  <2>2. e \in 1 .. Len(c) /\ c[e] = NL
    BY <1>1, <2>1
  <2>3. ASSUME NEW i \in 1 .. Len(c), i < e PROVE c[i] # NL
    <3>1. CASE i <= Len(s)
      BY <1>1, <1>2, <3>1
    <3>2. CASE ~(i <= Len(s))
      <4>1. i - Len(s) \in 1 .. Len(t) /\ c[i] = t[i - Len(s)]
        BY <1>3, <3>2
      <4>2. i - Len(s) < Eol(t)
        BY <1>1, <2>1, <2>3
      <4>. QED  BY <2>1, <4>1, <4>2
    <3>. QED  BY <3>1, <3>2
  <2>4. Eol(c) = e
    <3> HIDE DEF e
    <3>. QED  BY <1>1, <2>2, <2>3, EolIs
  <2>. QED  BY <1>5, <2>4 DEF c
<1>. QED  BY <1>4, <1>5

-----------------------------------------------------------------------------
(***************************************************************************)
(* parse_ctrl_line returns no control string or one with two unsigned      *)
(* numbers.  The sum that atoi folds over the digits is a recursive        *)
(* function on the subsets of their positions, as in InductionProofs.      *)
(***************************************************************************)
DigitStep(g, t, s) == g[s] = IF s = {} THEN 0 ELSE 10 * g[s \ {Max(s)}] + t[Max(s)] - 48

LEMMA MaxIn ==
  ASSUME NEW n \in Nat, NEW s \in SUBSET (1 .. n), s # {}
  PROVE  Max(s) \in s
<1>1. s \in SUBSET Nat /\ \A k \in s : k <= n
  OBVIOUS
<1>. QED  BY <1>1, MaxExists

LEMMA DigitsExist ==
  ASSUME NEW S, IsFiniteSet(S), \A s \in SUBSET S : s # {} => Max(s) \in s,
         NEW t, \A x \in S : t[x] \in Int
  PROVE  \E g \in [SUBSET S -> Int] : \A s \in SUBSET S : DigitStep(g, t, s)
<1> DEFINE P(g, k) == \A s \in SUBSET S : Cardinality(s) <= k => DigitStep(g, t, s)
           D == {k \in Nat : ~\E g \in [SUBSET S -> Int] : P(g, k)}
<1>1. D = {}
  <2> SUFFICES ASSUME D # {} PROVE FALSE
    OBVIOUS
  <2>1. PICK k \in D : \A j \in D : k <= j
    <3>1. D \in SUBSET Nat
      OBVIOUS
    <3>. QED  BY <3>1, LeastElement
  <2>2. CASE k = 0
    <3> DEFINE g == [s \in SUBSET S |-> 0]
    <3>1. ASSUME NEW s \in SUBSET S, Cardinality(s) <= 0 PROVE DigitStep(g, t, s)
      <4>1. s = {}
        BY <3>1, FiniteSubset
      <4>. QED  BY <4>1 DEF DigitStep
    <3>2. P(g, 0) /\ g \in [SUBSET S -> Int]
      BY <3>1
    <3>. QED  BY <2>2, <3>2
  <2>3. CASE k # 0
    <3>1. k \in Nat /\ k - 1 \in Nat /\ k - 1 \notin D
      <4>1. k \in Nat
        OBVIOUS
      <4> HIDE DEF D
      <4>. QED  BY <2>1, <2>3, <4>1
    <3>2. PICK g \in [SUBSET S -> Int] : P(g, k - 1)
      BY <3>1
    <3> HIDE DEF D
    <3> DEFINE h == [s \in SUBSET S |-> IF Cardinality(s) < k \/ s = {} THEN g[s]
                                          ELSE 10 * g[s \ {Max(s)}] + t[Max(s)] - 48]
    <3>3. ASSUME NEW s \in SUBSET S, s # {}
          PROVE  /\ Max(s) \in s /\ s \ {Max(s)} \in SUBSET S
                 /\ Cardinality(s) \in Nat /\ Cardinality(s \ {Max(s)}) = Cardinality(s) - 1
                 /\ t[Max(s)] \in Int
      <4>1. Max(s) \in s
        BY <3>3
      <4>. QED  BY <4>1, FiniteSubset
    <3>4. h \in [SUBSET S -> Int]
      <4>1. ASSUME NEW s \in SUBSET S PROVE h[s] \in Int
        <5>1. CASE s = {}
          BY <5>1
        <5>2. CASE s # {}
          <6>1. g[s] \in Int /\ g[s \ {Max(s)}] \in Int /\ t[Max(s)] \in Int
            BY <3>3, <5>2
          <6>. QED  BY <5>2, <6>1
        <5>. QED  BY <5>1, <5>2
      <4>. QED  BY <4>1
    <3>5. ASSUME NEW s \in SUBSET S, Cardinality(s) <= k PROVE DigitStep(h, t, s)
      <4>0. Cardinality(s) \in Nat
        BY FiniteSubset
      <4>1. CASE s = {}
        <5>1. DigitStep(g, t, s)
          <6>1. Cardinality(s) = 0
            BY <4>1, FiniteSubset
          <6>. QED  BY <3>1, <3>2, <6>1
        <5>2. h[s] = g[s]
          BY <4>1
        <5> HIDE DEF h
        <5>. QED  BY <4>1, <5>1, <5>2 DEF DigitStep
      <4>2. CASE s # {} /\ Cardinality(s) < k
        <5>1. DigitStep(g, t, s)
          <6>1. Cardinality(s) <= k - 1
            BY <3>1, <4>0, <4>2
          <6>. QED  BY <3>2, <6>1
        <5>2. h[s] = g[s] /\ h[s \ {Max(s)}] = g[s \ {Max(s)}]
          BY <3>1, <3>3, <4>2
        <5> HIDE DEF h
        <5>. QED  BY <4>2, <5>1, <5>2 DEF DigitStep
      <4>3. CASE s # {} /\ Cardinality(s) = k
        <5>1. h[s] = 10 * g[s \ {Max(s)}] + t[Max(s)] - 48 /\ h[s \ {Max(s)}] = g[s \ {Max(s)}]
          BY <3>1, <3>3, <4>3
        <5> HIDE DEF h
        <5>. QED  BY <4>3, <5>1 DEF DigitStep
      <4>4. s = {} \/ Cardinality(s) < k \/ Cardinality(s) = k
        BY <3>1, <3>5, <4>0
      <4>. QED  BY <4>1, <4>2, <4>3, <4>4
    <3>6. P(h, k)
      <4> HIDE DEF h
      <4>. QED  BY <3>5
    <3>7. k \notin D
      <4> HIDE DEF h, P
      <4>. QED  BY <3>4, <3>6 DEF D
    <3>. QED  BY <2>1, <3>7
  <2>. QED  BY <2>2, <2>3
<1>2. Cardinality(S) \in Nat
  BY FiniteSubset
<1>3. PICK g \in [SUBSET S -> Int] : P(g, Cardinality(S))
  BY <1>1, <1>2
<1>4. ASSUME NEW s \in SUBSET S PROVE Cardinality(s) <= Cardinality(S)
  BY FS_Subset
<1>. QED  BY <1>3, <1>4

LEMMA DigitsFold ==
  ASSUME NEW t \in Seq(Octet)
  PROVE  \E g \in [SUBSET (1 .. Len(t)) -> Int] :
           /\ \A s \in SUBSET (1 .. Len(t)) : DigitStep(g, t, s)
           /\ FoldLeft(LAMBDA v, d : 10 * v + d - 48, 0, t) = g[1 .. Len(t)]
<1> DEFINE S == DOMAIN t
           h == CHOOSE iter : iter = [s \in SUBSET S |->
                  IF s = {} THEN 0 ELSE 10 * iter[s \ {Max(s)}] + t[Max(s)] - 48]
<1>1. FoldLeft(LAMBDA v, d : 10 * v + d - 48, 0, t) = h[S]
  BY Zenon DEF FoldLeft, MapThenFoldSet
<1>2. S = 1 .. Len(t) /\ Len(t) \in Nat
  OBVIOUS
<1>3. IsFiniteSet(S)
  BY <1>2, FS_Interval
<1>4. ASSUME NEW s \in SUBSET S, s # {} PROVE Max(s) \in s
  BY <1>2, <1>4, MaxIn
<1>5. ASSUME NEW x \in S PROVE t[x] \in Int
  <2>1. t[x] \in Octet
    BY <1>2
  <2>2. ASSUME NEW y \in Octet PROVE y \in Int
    BY DEF Octet
  <2> HIDE DEF S, h
  <2>. QED  BY <2>1, <2>2
<1> HIDE DEF S
<1>6. PICK g \in [SUBSET S -> Int] : \A s \in SUBSET S : DigitStep(g, t, s)
  BY <1>3, <1>4, <1>5, DigitsExist
<1>7. g = [s \in SUBSET S |-> IF s = {} THEN 0 ELSE 10 * g[s \ {Max(s)}] + t[Max(s)] - 48]
  BY <1>6 DEF DigitStep
<1>8. h = [s \in SUBSET S |-> IF s = {} THEN 0 ELSE 10 * h[s \ {Max(s)}] + t[Max(s)] - 48]
  BY <1>7
<1> HIDE DEF h
<1>9. ASSUME NEW s \in SUBSET S
      PROVE  /\ h[s] = IF s = {} THEN 0 ELSE 10 * h[s \ {Max(s)}] + t[Max(s)] - 48
             /\ g[s] = IF s = {} THEN 0 ELSE 10 * g[s \ {Max(s)}] + t[Max(s)] - 48
  BY <1>7, <1>8
<1> DEFINE D == {k \in Nat : \E s \in SUBSET S : Cardinality(s) = k /\ h[s] # g[s]}
<1>10. D = {}
  <2> SUFFICES ASSUME D # {} PROVE FALSE
    OBVIOUS
  <2>1. PICK k \in D : \A j \in D : k <= j
    <3>1. D \in SUBSET Nat
      OBVIOUS
    <3>. QED  BY <3>1, LeastElement
  <2>2. PICK s \in SUBSET S : Cardinality(s) = k /\ h[s] # g[s]
    OBVIOUS
  <2>3. s # {}
    BY <1>9, <2>2
  <2>4. s \ {Max(s)} \in SUBSET S /\ Cardinality(s \ {Max(s)}) = k - 1 /\ Cardinality(s \ {Max(s)}) \in Nat /\ k \in Nat
    BY <1>3, <1>4, <2>2, <2>3, FiniteSubset
  <2>5. k - 1 \in Nat /\ k - 1 \notin D
    <3> HIDE DEF D
    <3>. QED  BY <2>1, <2>4
  <2>6. h[s \ {Max(s)}] = g[s \ {Max(s)}]
    BY <2>4, <2>5
  <2>. QED  BY <1>9, <2>2, <2>3, <2>6
<1>11. Cardinality(S) \in Nat
  BY <1>3, FS_CardinalityType
<1>12. h[S] = g[S]
  BY <1>10, <1>11
<1>. QED  BY <1>1, <1>2, <1>6, <1>12

LEMMA DigitsType ==
  ASSUME NEW t \in Seq(Octet)
  PROVE  FoldLeft(LAMBDA v, d : 10 * v + d - 48, 0, t) \in Int
<1>1. PICK g \in [SUBSET (1 .. Len(t)) -> Int] :
             FoldLeft(LAMBDA v, d : 10 * v + d - 48, 0, t) = g[1 .. Len(t)]
  BY DigitsFold
<1>. QED  BY <1>1

LEMMA SpanLemma ==
  ASSUME NEW s \in Seq(Octet), NEW S
  PROVE  Span(s, S) \in 0 .. Len(s)
<1> DEFINE K == {k \in 0 .. Len(s) : \A i \in 1 .. k : s[i] \in S}
<1>1. Len(s) \in Nat /\ K \in SUBSET Nat /\ 0 \in K /\ \A k \in K : k <= Len(s)
  OBVIOUS
<1>2. Max(K) \in K
  BY <1>1, MaxExists
<1>. QED  BY <1>2 DEF Span

LEMMA ClampType ==
  ASSUME NEW v \in Int
  PROVE  Clamp(v, LongBits) \in Int
<1> DEFINE p == 2^(LongBits - 1)
<1>1. p \in Int
  BY WidthAssumption
<1>2. ASSUME NEW a \in Int, NEW b \in Int PROVE Min({a, b}) \in Int /\ Max({a, b}) \in Int
  <2>1. \E x \in {a, b} : \A y \in {a, b} : x <= y
    OBVIOUS
  <2>2. \E x \in {a, b} : \A y \in {a, b} : x >= y
    OBVIOUS
  <2>. QED  BY <2>1, <2>2 DEF Min, Max
<1>3. Clamp(v, LongBits) = Max({-p, Min({v, p - 1})})
  BY DEF Clamp
<1> HIDE DEF p
<1>4. Min({v, p - 1}) \in Int
  BY <1>1, <1>2
<1>5. -p \in Int
  BY <1>1
<1>. QED  BY <1>2, <1>3, <1>4, <1>5

LEMMA AtoiType ==
  ASSUME NEW s \in Seq(Octet)
  PROVE  atoi(s) \in Int
<1> DEFINE text   == SubSeq(s, Span(s, (9 .. 13) \cup {32}) + 1, Len(s))
           signed == text # <<>> /\ text[1] \in {43, 45}
           number == IF signed THEN Tail(text) ELSE text
           digits == SubSeq(number, 1, Span(number, Digit))
           value  == FoldLeft(LAMBDA v, d : 10 * v + d - 48, 0, digits)
<1>1. atoi(s) = Clamp(IF signed /\ text[1] = 45 THEN -value ELSE value, LongBits)
  BY DEF atoi, DecimalValue
<1>2. text \in Seq(Octet)
  <2>1. Span(s, (9 .. 13) \cup {32}) \in 0 .. Len(s) /\ Len(s) \in Nat
    BY SpanLemma
  <2> DEFINE k == Span(s, (9 .. 13) \cup {32})
  <2> HIDE DEF k
  <2>2. k \in 0 .. Len(s)
    BY <2>1 DEF k
  <2>3. k \in Nat /\ \A i \in k + 1 .. Len(s) : s[i] \in Octet
    BY <2>1, <2>2
  <2>4. SubSeq(s, k + 1, Len(s)) \in Seq(Octet)
    BY <2>1, <2>3, SubSeqProperties
  <2>. QED  BY <2>4 DEF k
<1> HIDE DEF text
<1>3. number \in Seq(Octet)
  BY <1>2
<1> HIDE DEF number
<1>4. digits \in Seq(Octet)
  <2>1. Span(number, Digit) \in 0 .. Len(number) /\ Len(number) \in Nat
    BY <1>3, SpanLemma
  <2>2. \A i \in 1 .. Span(number, Digit) : number[i] \in Octet
    BY <1>3, <2>1
  <2>. QED  BY <2>1, <2>2, SubSeqProperties
<1> HIDE DEF digits
<1>5. value \in Int
  BY <1>4, DigitsType
<1> HIDE DEF value, signed
<1>6. (IF signed /\ text[1] = 45 THEN -value ELSE value) \in Int
  BY <1>5
<1>. QED  BY <1>1, <1>6, ClampType

CtrlString == [write_cmd : Nat, write_cmd_offset : Nat]

LEMMA ParseType ==
  ASSUME NEW l \in Seq(Octet)
  PROVE  parse_ctrl_line(l) \in {NotCtrl} \cup CtrlString
<1> DEFINE p == Len(EMBED_CTRL_PREF)
           commas == {i \in p + 1 .. Len(l) : l[i] = COMMA}
           X == SubSeq(l, p + 1, Min(commas) - 1)
           Y == SubSeq(l, SecondStart(Min(commas)), Len(l) - 1)
<1>1. ASSUME NEW s \in Seq(Octet) PROVE UInt32(atoi(s)) \in Nat
  <2>1. 2^IntBits \in Nat \ {0}
    BY WidthAssumption
  <2>2. atoi(s) \in Int
    BY AtoiType
  <2>3. ASSUME NEW a \in Int, NEW b \in Nat \ {0} PROVE a % b \in Nat
    OBVIOUS
  <2>. QED  BY <2>1, <2>2, <2>3 DEF UInt32
<1>2. ASSUME commas # {} PROVE X \in Seq(Octet) /\ Y \in Seq(Octet)
  <2>1. p \in Nat /\ Len(l) \in Nat
    BY ByteAssumption
  <2>2. commas \in SUBSET Nat
    BY <2>1
  <2>3. Min(commas) \in commas
    BY <1>2, <2>2, MinExists
  <2>4. Min(commas) \in p + 1 .. Len(l)
    BY <2>3
  <2> DEFINE m == Min(commas)
  <2> HIDE DEF m, commas, p
  <2>5. m \in Int /\ p \in Nat /\ m - 1 <= Len(l) /\ m >= 1
    BY <2>1, <2>4 DEF m
  <2>6. \A i \in p + 1 .. m - 1 : l[i] \in Octet
    BY <2>1, <2>5
  <2>7. \A i \in m + 1 .. Len(l) - 1 : l[i] \in Octet
    BY <2>1, <2>5
  <2>8. SubSeq(l, p + 1, m - 1) \in Seq(Octet)
    BY <2>1, <2>5, <2>6, SubSeqProperties
  <2>9. SubSeq(l, m + 1, Len(l) - 1) \in Seq(Octet)
    BY <2>1, <2>5, <2>7, SubSeqProperties
  <2>. QED  BY <2>8, <2>9 DEF m, SecondStart
<1>3. parse_ctrl_line(l) = NotCtrl
      \/ (commas # {} /\ parse_ctrl_line(l) = [write_cmd |-> UInt32(atoi(X)), write_cmd_offset |-> UInt32(atoi(Y))])
  <2>1. CtrlParams(l) = NotCtrl \/ (commas # {} /\ CtrlParams(l) = <<X, Y>>)
    BY DEF CtrlParams
  <2> HIDE DEF X, Y, commas
  <2>. QED  BY <2>1 DEF parse_ctrl_line
<1> HIDE DEF X, Y
<1>. QED  BY <1>1, <1>2, <1>3 DEF CtrlString

-----------------------------------------------------------------------------
(***************************************************************************)
(* The inductive invariant.  While the line is read, the buffer holds      *)
(* exactly the bytes received so far, without a newline and with room      *)
(* behind them.  While the answer is sent and no send has failed, the      *)
(* client has received the device's bytes from the place it asked for on,  *)
(* up to those of the current line that are left.                          *)
(***************************************************************************)
From == IF seek_to = NotCtrl THEN 0 ELSE SeekPos(seek_to)

Typed ==
  /\ TypeOK
  /\ offset \in Nat /\ stream \in Seq(Chars) /\ line \in Seq(Chars)
  /\ seek_to \in {NotCtrl} \cup CtrlString
  /\ device \in Seq(Seq(Octet)) /\ pos \in Nat
  /\ out \in Seq(Octet) /\ send_offset \in Int /\ bytes_left \in Nat

Reading ==
  pc \in {"malloc", "recv"} =>
    buf = stream /\ offset = Len(stream) /\ offset < bufsize /\ Eol(stream) = 0

NotYetSending ==
  pc \in {"malloc", "recv", "parse", "device"} =>
    received = <<>> /\ bytes_left = 0 /\ pos = 0

Sending ==
  pc \in {"getline", "send"} /\ errno = "0" =>
    /\ From \in Nat /\ From <= pos /\ (pos <= Len(Bytes) \/ pos = From)
    /\ received = SubSeq(Bytes, From + 1, pos - bytes_left)
    /\ seek_to = NotCtrl /\ Eol(line) # 0 => Last(device) = Unfinished \o line

SendingLine ==
  /\ pc = "getline" => bytes_left = 0
  /\ pc = "send" /\ errno = "0" =>
       /\ pos <= Len(Bytes) /\ From + Len(out) <= pos /\ send_offset >= 0
       /\ out = SubSeq(Bytes, pos - Len(out) + 1, pos)

Inv == Typed /\ Reading /\ LineIsFirstLine /\ NotYetSending /\ Sending /\ SendingLine /\ TrueMeansSent

-----------------------------------------------------------------------------
LEMMA CharsAreOctets ==
  ASSUME NEW s \in Seq(Chars)
  PROVE  s \in Seq(Octet)
<1>1. Chars \subseteq Octet
  BY ByteAssumption DEF Octet
<1>. QED  BY <1>1

\* A part of a sequence.
LEMMA Slice ==
  ASSUME NEW S, NEW s \in Seq(S), NEW m \in Nat, NEW n \in Int, n <= Len(s)
  PROVE  /\ SubSeq(s, m + 1, n) \in Seq(S)
         /\ Len(SubSeq(s, m + 1, n)) = IF m <= n THEN n - m ELSE 0
         /\ \A i \in 1 .. n - m : SubSeq(s, m + 1, n)[i] = s[m + i]
<1>1. \A i \in m + 1 .. n : s[i] \in S
  OBVIOUS
<1>2. m + 1 \in Int
  OBVIOUS
<1>3. /\ SubSeq(s, m + 1, n) \in Seq(S)
      /\ Len(SubSeq(s, m + 1, n)) = IF m + 1 <= n THEN n - (m + 1) + 1 ELSE 0
      /\ \A i \in 1 .. n - (m + 1) + 1 : SubSeq(s, m + 1, n)[i] = s[m + 1 + i - 1]
  BY <1>1, <1>2, SubSeqProperties
<1>4. n - (m + 1) + 1 = n - m /\ \A i \in Int : m + 1 + i - 1 = m + i
  OBVIOUS
<1>. QED  BY <1>3, <1>4

\* Two neighbouring parts of a sequence.
LEMMA SliceJoin ==
  ASSUME NEW S, NEW s \in Seq(S), NEW a \in Nat, NEW b \in Nat, NEW c \in Nat,
         a <= b, b <= c, c <= Len(s)
  PROVE  SubSeq(s, a + 1, b) \o SubSeq(s, b + 1, c) = SubSeq(s, a + 1, c)
<1> DEFINE p == SubSeq(s, a + 1, b)
           q == SubSeq(s, b + 1, c)
           r == SubSeq(s, a + 1, c)
<1>0. b <= Len(s) /\ Len(s) \in Nat
  OBVIOUS
<1>1. p \in Seq(S) /\ Len(p) = b - a /\ \A i \in 1 .. b - a : p[i] = s[a + i]
  BY <1>0, Slice
<1>2. q \in Seq(S) /\ Len(q) = c - b /\ \A i \in 1 .. c - b : q[i] = s[b + i]
  BY <1>0, Slice
<1>3. r \in Seq(S) /\ Len(r) = c - a /\ \A i \in 1 .. c - a : r[i] = s[a + i]
  BY <1>0, Slice
<1> HIDE DEF p, q, r
<1>4. /\ p \o q \in Seq(S) /\ Len(p \o q) = Len(p) + Len(q)
      /\ \A k \in Nat : 1 <= k /\ k <= Len(p) => (p \o q)[k] = p[k]
      /\ \A k \in 1 .. Len(q) : (p \o q)[Len(p) + k] = q[k]
  <2>1. p \in Seq(S) /\ q \in Seq(S)
    BY <1>1, <1>2
  <2>. QED  BY ONLY <2>1, ConcatParts
<1>5. Len(p \o q) = Len(r)
  BY <1>1, <1>2, <1>3, <1>4
<1>6. ASSUME NEW i \in 1 .. Len(r) PROVE (p \o q)[i] = r[i]
  <2>1. r[i] = s[a + i]
    BY <1>3
  <2>2. CASE i <= b - a
    BY <1>1, <1>3, <1>4, <2>1, <2>2
  <2>3. CASE ~(i <= b - a)
    <3> DEFINE k == i - (b - a)
    <3>1. k \in 1 .. c - b /\ i = (b - a) + k /\ b + k = a + i
      BY <1>3, <2>3
    <3> HIDE DEF k
    <3>2. (p \o q)[i] = q[k] /\ q[k] = s[b + k]
      BY <1>1, <1>2, <1>4, <3>1
    <3>. QED  BY <2>1, <3>1, <3>2
  <2>. QED  BY <2>2, <2>3
<1>7. p \o q = r
  BY <1>3, <1>4, <1>5, <1>6, SeqEqual
<1>. QED  BY <1>7 DEF p, q, r

\* The bytes in front of a command that the device has.
LEMMA SeekPosType ==
  ASSUME device \in Seq(Seq(Octet)), NEW s \in CtrlString, s.write_cmd < Len(device)
  PROVE  SeekPos(s) \in Nat
<1>1. s.write_cmd \in Nat /\ s.write_cmd_offset \in Nat
  BY DEF CtrlString
<1> DEFINE w == s.write_cmd
<1>2. SubSeq(device, 1, w) \in Seq(Seq(Octet))
  <2>1. \A i \in 1 .. w : device[i] \in Seq(Octet)
    BY <1>1
  <2>2. w \in Int
    BY <1>1
  <2> HIDE DEF w
  <2>. QED  BY <2>1, <2>2, SubSeqProperties
<1> HIDE DEF w
<1>3. FlattenSeq(SubSeq(device, 1, w)) \in Seq(Octet)
  BY <1>2, FlattenType
<1>4. Len(FlattenSeq(SubSeq(device, 1, w))) \in Nat
  BY <1>3
<1>. QED  BY <1>1, <1>4 DEF SeekPos, w

-----------------------------------------------------------------------------
LEMMA IntMax == INT_MAX \in Int
<1>1. 2^(IntBits - 1) \in Int
  BY WidthAssumption
<1>2. ASSUME NEW a \in Int PROVE a - 1 \in Int
  OBVIOUS
<1>. QED  BY <1>1, <1>2 DEF INT_MAX

LEMMA InitInv == Init => Inv
<1> SUFFICES ASSUME Init PROVE Inv
  OBVIOUS
<1>1. <<>> \in Seq(Octet) /\ Eol(<<>>) = 0
  <2>1. <<>> \in Seq(Octet) /\ Len(<<>>) = 0
    OBVIOUS
  <2>2. Eol(<<>>) \in 0 .. Len(<<>>)
    BY <2>1, EolLemma
  <2>. QED  BY <2>1, <2>2
<1>2. Typed
  <2>1. TypeOK
    <3>1. bufsize \in 1 .. INT_MAX /\ Len(buf) = 0 /\ 0 <= bufsize
      BY SizeAssumption, IntMax DEF Init
    <3>2. buf \in Seq(Chars) /\ received \in Seq(0 .. 255 \cup {JUNK})
      BY DEF Init
    <3>3. bytes_left >= 0 /\ send_offset + bytes_left = Len(out)
      BY DEF Init
    <3>4. result \in BOOLEAN
      BY DEF Init
    <3>. QED  BY <3>1, <3>2, <3>3, <3>4 DEF TypeOK
  <2>2. device \in Seq(Seq(Octet))
    BY ByteAssumption DEF Init, Octet
  <2>. QED  BY <1>1, <2>1, <2>2 DEF Init, Typed
<1>3. Reading
  BY <1>1, SizeAssumption, IntMax DEF Init, Reading
<1>. QED  BY <1>2, <1>3 DEF Init, Inv, LineIsFirstLine, NotYetSending, Sending, SendingLine, TrueMeansSent

\* The bytes of the device and the place that was asked for.
LEMMA BytesType ==
  ASSUME Typed
  PROVE  Bytes \in Seq(Octet) /\ Len(Bytes) \in Nat
<1>1. Bytes \in Seq(Octet)
  BY FlattenType DEF Typed, Bytes
<1>. QED  BY <1>1

LEMMA SamePlace ==
  ASSUME UNCHANGED <<seek_to, device>>
  PROVE  From' = From /\ Bytes' = Bytes
BY DEF From, Bytes, SeekPos

-----------------------------------------------------------------------------
LEMMA MallocInv == Inv /\ MallocBuffer => Inv'
<1> SUFFICES ASSUME Inv, MallocBuffer PROVE Inv'
  OBVIOUS
<1> USE DEF MallocBuffer, GiveUp, readVars, sendVars, devVars
<1>1. Typed'
  BY DEF Inv, Typed, TypeOK
<1>2. Reading'
  BY DEF Inv, Reading
<1>3. NotYetSending'
  BY DEF Inv, NotYetSending
<1>. QED  BY <1>1, <1>2, <1>3 DEF Inv, LineIsFirstLine, Sending, SendingLine, TrueMeansSent

LEMMA RecvInv == Inv /\ Recv => Inv'
<1> SUFFICES ASSUME Inv, Recv PROVE Inv'
  OBVIOUS
<1> DEFINE n == Min({Room, MaxStream - Len(stream)})
<1>1. /\ bufsize \in Nat /\ bufsize \in 1 .. INT_MAX /\ offset \in Nat
      /\ buf = stream /\ offset = Len(stream) /\ offset < bufsize /\ Eol(stream) = 0
      /\ stream \in Seq(Chars) /\ line \in Seq(Chars) /\ buf \in Seq(Chars)
  BY IntMax DEF Inv, Typed, TypeOK, Reading, Recv
<1>2. n \in Int /\ n <= bufsize - offset
  <2>1. Room = bufsize - offset
    BY DEF Room
  <2>2. ASSUME NEW a \in Int, NEW b \in Int PROVE Min({a, b}) \in Int /\ Min({a, b}) <= a
    <3>1. \E x \in {a, b} : \A y \in {a, b} : x <= y
      OBVIOUS
    <3>2. Min({a, b}) \in {a, b} /\ Min({a, b}) <= a
      BY <3>1 DEF Min
    <3>. QED  BY <3>2
  <2>3. Room \in Int /\ MaxStream - Len(stream) \in Int
    BY <1>1, <2>1, SizeAssumption
  <2>. QED  BY <2>1, <2>2, <2>3
<1>3. PICK piece \in Pieces(n) :
        /\ stream' = stream \o piece
        /\ buf' = SubSeq(buf, 1, offset) \o piece
        /\ IF Eol(piece) # 0
             THEN /\ line' = SubSeq(buf', 1, offset + Eol(piece))
                  /\ pc' = "parse"
                  /\ UNCHANGED <<bufsize, offset>>
             ELSE /\ offset' = offset + Len(piece)
                  /\ IF IsFull(offset') THEN Enlarge ELSE UNCHANGED <<pc, bufsize>>
                  /\ UNCHANGED line
  BY DEF Recv
<1>4. /\ UNCHANGED <<seek_to, sendVars, errno, devVars, hup, received, errors>>
      /\ pc = "recv"
  BY DEF Recv
<1> HIDE DEF n
<1>5. piece \in Seq(Chars) /\ Len(piece) \in 1 .. n
  <2>1. PICK k \in 1 .. n : piece \in [1 .. k -> Chars]
    BY DEF Pieces
  <2>2. k \in Nat
    BY <1>2
  <2>3. piece \in Seq(Chars) /\ Len(piece) = k
    BY <2>1, <2>2
  <2>. QED  BY <2>3
<1>6. /\ buf' = stream' /\ stream' \in Seq(Chars)
      /\ Len(stream') = offset + Len(piece) /\ Len(stream') <= bufsize /\ Len(stream') \in Nat
  <2>1. SubSeq(buf, 1, offset) = stream
    BY <1>1
  <2>2. stream \o piece \in Seq(Chars) /\ Len(stream \o piece) = Len(stream) + Len(piece)
    BY <1>1, <1>5
  <2>3. Len(piece) \in Nat /\ Len(piece) <= n
    BY <1>2, <1>5
  <2>4. offset + Len(piece) <= bufsize
    BY <1>1, <1>2, <2>3
  <2>5. stream' = stream \o piece /\ buf' = stream'
    BY <1>3, <2>1
  <2>6. Len(stream') = offset + Len(piece)
    BY <1>1, <2>2, <2>5
  <2>. QED  BY <1>1, <2>2, <2>3, <2>4, <2>5, <2>6
<1>7. Eol(stream') = IF Eol(piece) = 0 THEN 0 ELSE offset + Eol(piece)
  <2>1. stream \in Seq(Octet) /\ piece \in Seq(Octet)
    BY <1>1, <1>5, CharsAreOctets
  <2>2. Eol(stream \o piece) = IF Eol(piece) = 0 THEN 0 ELSE Len(stream) + Eol(piece)
    BY <1>1, <2>1, EolConcat
  <2>. QED  BY <1>1, <1>3, <2>2
<1>8. Eol(piece) \in 0 .. Len(piece)
  BY <1>5, CharsAreOctets, EolLemma
<1>9. CASE Eol(piece) # 0
  <2>1. /\ line' = SubSeq(stream', 1, Eol(stream')) /\ Eol(stream') # 0
        /\ pc' = "parse" /\ UNCHANGED <<bufsize, offset>>
    <3>1. offset + Eol(piece) # 0
      BY <1>1, <1>5, <1>8, <1>9
    <3>. QED  BY <1>3, <1>6, <1>7, <1>9, <3>1
  <2>2. line' \in Seq(Chars)
    <3> DEFINE e == Eol(stream')
    <3>1. e \in Int /\ e <= Len(stream')
      BY <1>1, <1>5, <1>6, <1>7, <1>8
    <3> HIDE DEF e
    <3>2. SubSeq(stream', 0 + 1, e) \in Seq(Chars)
      BY <1>6, <3>1, Slice
    <3>. QED  BY <2>1, <3>2 DEF e
  <2>3. Typed'
    BY <1>1, <1>4, <1>6, <2>1, <2>2 DEF Inv, Typed, TypeOK, sendVars, devVars
  <2>4. LineIsFirstLine'
    BY <2>1 DEF LineIsFirstLine
  <2>5. NotYetSending'
    BY <1>4, <2>1 DEF Inv, NotYetSending, sendVars, devVars
  <2>. QED  BY <2>1, <2>3, <2>4, <2>5 DEF Inv, Reading, Sending, SendingLine, TrueMeansSent
<1>10. CASE Eol(piece) = 0
  <2>1. /\ offset' = offset + Len(piece) /\ UNCHANGED line
        /\ IF offset' = bufsize THEN Enlarge ELSE UNCHANGED <<pc, bufsize>>
    BY <1>3, <1>10 DEF IsFull
  <2>2. offset' = Len(stream') /\ offset' \in Nat /\ offset' <= bufsize
    BY <1>6, <2>1
  <2>3. /\ bufsize' \in 1 .. INT_MAX /\ bufsize <= bufsize'
        /\ pc' \in {"recv", "failed"} /\ (pc' = "recv" => offset' < bufsize')
    <3>1. CASE offset' = bufsize
      <4>1. Enlarge
        BY <2>1, <3>1
      <4>2. CASE 2 * bufsize <= INT_MAX /\ bufsize' = 2 * bufsize /\ UNCHANGED pc
        BY <1>1, <1>4, <3>1, <4>2, IntMax
      <4>3. CASE pc' = "failed" /\ UNCHANGED bufsize
        BY <1>1, <4>3
      <4>. QED  BY <4>1, <4>2, <4>3 DEF Enlarge, GiveUp
    <3>2. CASE offset' # bufsize
      <4>1. UNCHANGED <<pc, bufsize>>
        BY <2>1, <3>2
      <4>. QED  BY <1>1, <1>4, <2>2, <3>2, <4>1
    <3>. QED  BY <3>1, <3>2
  <2>4. Typed'
    <3>1. Len(buf') <= bufsize'
      BY <1>1, <1>6, <2>3, IntMax
    <3>2. TypeOK'
      BY <1>4, <1>6, <2>3, <3>1 DEF Inv, Typed, TypeOK, sendVars, devVars
    <3>. QED  BY <1>1, <1>4, <1>6, <2>1, <2>2, <3>2 DEF Inv, Typed, sendVars, devVars
  <2>5. Reading'
    BY <1>6, <1>7, <1>10, <2>2, <2>3 DEF Reading
  <2>6. NotYetSending'
    BY <1>4, <2>3 DEF Inv, NotYetSending, sendVars, devVars
  <2>. QED  BY <2>3, <2>4, <2>5, <2>6 DEF Inv, LineIsFirstLine, Sending, SendingLine, TrueMeansSent
<1>. QED  BY <1>9, <1>10

LEMMA RecvNothingInv == Inv /\ RecvNothing => Inv'
<1> SUFFICES ASSUME Inv, RecvNothing PROVE Inv'
  OBVIOUS
<1>1. /\ pc = "recv" /\ pc' = "parse" /\ line' = SubSeq(buf, 1, offset)
      /\ hup' = TRUE \/ (Room = 0 /\ UNCHANGED hup)
      /\ UNCHANGED <<bufsize, offset, buf, seek_to, out, send_offset, bytes_left, result>>
      /\ UNCHANGED <<errno, device, pos, stream, received, errors>>
  BY DEF RecvNothing, readVars, sendVars, devVars
<1>2. /\ bufsize \in Int /\ offset \in Nat /\ stream \in Seq(Chars)
      /\ buf = stream /\ offset = Len(stream) /\ offset < bufsize /\ Eol(stream) = 0
  BY <1>1, IntMax DEF Inv, Typed, TypeOK, Reading
<1>3. hup' = TRUE
  <2>1. Room # 0
    BY <1>2 DEF Room
  <2>. QED  BY <1>1, <2>1
<1>4. line' = stream
  <2>1. SubSeq(stream, 1, Len(stream)) = stream
    BY <1>2
  <2>. QED  BY <1>1, <1>2, <2>1
<1>5. Typed'
  BY <1>1, <1>2, <1>4 DEF Inv, Typed, TypeOK
<1>6. LineIsFirstLine'
  BY <1>1, <1>2, <1>3, <1>4 DEF LineIsFirstLine
<1>7. NotYetSending'
  BY <1>1 DEF Inv, NotYetSending
<1>. QED  BY <1>1, <1>5, <1>6, <1>7 DEF Inv, Reading, Sending, SendingLine, TrueMeansSent

LEMMA RecvFailsInv == Inv /\ RecvFails => Inv'
<1> SUFFICES ASSUME Inv, RecvFails PROVE Inv'
  OBVIOUS
<1> USE DEF RecvFails, GiveUp, readVars, sendVars, devVars
<1>1. Typed'
  BY DEF Inv, Typed, TypeOK
<1>2. pc' = "failed"
  OBVIOUS
<1>. QED  BY <1>1, <1>2 DEF Inv, Reading, LineIsFirstLine, NotYetSending, Sending, SendingLine, TrueMeansSent

LEMMA ParseInv == Inv /\ Parse => Inv'
<1> SUFFICES ASSUME Inv, Parse PROVE Inv'
  OBVIOUS
<1> USE DEF Parse, readVars, sendVars, devVars
<1>1. seek_to' \in {NotCtrl} \cup CtrlString
  <2>1. line \in Seq(Octet)
    BY CharsAreOctets DEF Inv, Typed
  <2>. QED  BY <2>1, ParseType
<1>2. Typed'
  <2>1. TypeOK'
    BY DEF Inv, Typed, TypeOK
  <2>. QED  BY <1>1, <2>1 DEF Inv, Typed
<1>3. NotYetSending'
  BY DEF Inv, NotYetSending
<1>. QED  BY <1>2, <1>3 DEF Inv, Reading, LineIsFirstLine, Sending, SendingLine, TrueMeansSent

LEMMA AppendLineInv == Inv /\ AppendLine => Inv'
<1> SUFFICES ASSUME Inv, AppendLine PROVE Inv'
  OBVIOUS
<1>1. /\ pc = "device" /\ seek_to = NotCtrl /\ pc' = "getline"
      /\ bufsize' = BUFLEN /\ offset' = 0 /\ stream' = <<>> /\ buf' = <<>>
      /\ UNCHANGED <<line, seek_to, out, send_offset, bytes_left, result, pos, received>>
      /\ \/ device' = IF Eol(line) # 0 THEN Append(device, Unfinished \o line) ELSE device
         \/ errno' = "fwrite" /\ UNCHANGED device
  BY DEF AppendLine, ForgetReading, sendVars
<1> DEFINE command == Unfinished \o line
<1>2. command \in Seq(Octet) /\ device \in Seq(Seq(Octet))
  <2>1. line \in Seq(Octet) /\ device \in Seq(Seq(Octet))
    BY CharsAreOctets DEF Inv, Typed
  <2>2. Unfinished \in Seq(Octet)
    BY ByteAssumption DEF Octet
  <2>. QED  BY <2>1, <2>2
<1> HIDE DEF command
<1>3. device' \in Seq(Seq(Octet)) /\ (errno' = "0" /\ Eol(line) # 0 => Last(device') = command)
  <2>1. CASE device' = Append(device, command)
    <3>1. Append(device, command) \in Seq(Seq(Octet)) /\ Len(Append(device, command)) = Len(device) + 1
      BY <1>2
    <3>2. Append(device, command)[Len(device) + 1] = command
      BY <1>2
    <3>3. Last(Append(device, command)) = command
      BY <3>1, <3>2 DEF Last
    <3>. QED  BY <2>1, <3>1, <3>3
  <2>2. CASE device' = device /\ (errno' = "fwrite" \/ Eol(line) = 0)
    BY <1>2, <2>2
  <2>. QED  BY <1>1, <2>1, <2>2 DEF command
<1>4. Typed'
  <2>1. TypeOK'
    <3>1. buf' \in Seq(Chars) /\ Len(buf') <= bufsize' /\ bufsize' \in 1 .. INT_MAX
      <4>1. buf' \in Seq(Chars) /\ Len(buf') = 0 /\ bufsize' \in 1 .. INT_MAX
        BY <1>1, SizeAssumption
      <4>. QED  BY <4>1, IntMax
    <3>. QED  BY <1>1, <3>1 DEF Inv, Typed, TypeOK
  <2>. QED  BY <1>1, <1>3, <2>1 DEF Inv, Typed
<1>5. received = <<>> /\ bytes_left = 0 /\ pos = 0
  BY <1>1 DEF Inv, NotYetSending
<1>6. Sending'
  <2>1. From' = 0
    BY <1>1 DEF From
  <2>2. Bytes' \in Seq(Octet)
    BY <1>3, FlattenType DEF Bytes
  <2>3. Len(Bytes') \in Nat
    BY <2>2
  <2>4. SubSeq(Bytes', 0 + 1, 0) = <<>>
    <3>1. /\ SubSeq(Bytes', 0 + 1, 0) \in Seq(Octet)
          /\ Len(SubSeq(Bytes', 0 + 1, 0)) = 0
      BY <2>2, <2>3, Slice
    <3>. QED  BY <3>1
  <2>5. pos' = 0 /\ bytes_left' = 0 /\ received' = <<>> /\ pos' - bytes_left' = 0
    BY <1>1, <1>5
  <2>6. errno' = "0" /\ seek_to' = NotCtrl /\ Eol(line') # 0 => Last(device') = Unfinished \o line'
    BY <1>1, <1>3 DEF command
  <2>7. Len(Bytes)' = Len(Bytes')
    OBVIOUS
  <2>. QED  BY <2>1, <2>3, <2>4, <2>5, <2>6, <2>7 DEF Sending
<1>7. SendingLine'
  BY <1>1, <1>5 DEF SendingLine
<1>. QED  BY <1>1, <1>4, <1>6, <1>7 DEF Inv, Reading, LineIsFirstLine, NotYetSending, TrueMeansSent

LEMMA IoctlSeekInv == Inv /\ IoctlSeek => Inv'
<1> SUFFICES ASSUME Inv, IoctlSeek PROVE Inv'
  OBVIOUS
<1>1. /\ pc = "device" /\ seek_to # NotCtrl
      /\ bufsize' = BUFLEN /\ offset' = 0 /\ stream' = <<>> /\ buf' = <<>>
      /\ UNCHANGED <<line, seek_to, out, send_offset, bytes_left, result, errno, device, received>>
      /\ \/ seek_to.write_cmd < Len(device) /\ pos' = SeekPos(seek_to) /\ pc' = "getline"
         \/ pc' = "refused" /\ UNCHANGED pos
  BY DEF IoctlSeek, ForgetReading, sendVars
<1>2. seek_to \in CtrlString /\ device \in Seq(Seq(Octet))
  BY <1>1 DEF Inv, Typed
<1>3. pos' \in Nat /\ (pc' = "getline" => pos' = SeekPos(seek_to))
  <2>1. CASE seek_to.write_cmd < Len(device) /\ pos' = SeekPos(seek_to) /\ pc' = "getline"
    BY <1>2, <2>1, SeekPosType
  <2>2. CASE pc' = "refused" /\ UNCHANGED pos
    BY <2>2 DEF Inv, Typed
  <2>. QED  BY <1>1, <2>1, <2>2
<1>4. Typed'
  <2>1. TypeOK'
    <3>1. buf' \in Seq(Chars) /\ Len(buf') <= bufsize' /\ bufsize' \in 1 .. INT_MAX
      <4>1. buf' \in Seq(Chars) /\ Len(buf') = 0 /\ bufsize' \in 1 .. INT_MAX
        BY <1>1, SizeAssumption
      <4>. QED  BY <4>1, IntMax
    <3>. QED  BY <1>1, <3>1 DEF Inv, Typed, TypeOK
  <2>. QED  BY <1>1, <1>3, <2>1 DEF Inv, Typed
<1>5. received = <<>> /\ bytes_left = 0
  BY <1>1 DEF Inv, NotYetSending
<1>6. ASSUME pc' = "getline" PROVE Sending'
  <2>1. From' = From /\ Bytes' = Bytes
    BY <1>1, SamePlace
  <2>2. From = SeekPos(seek_to)
    BY <1>1 DEF From
  <2>3. From \in Nat /\ pos' = From
    BY <1>3, <1>6, <2>2
  <2>4. SubSeq(Bytes, From + 1, From) = <<>>
    <3>1. From + 1 \in Int /\ From < From + 1
      BY <2>3
    <3>2. From \in Int
      BY <2>3
    <3>. QED  BY <3>1, <3>2, SubSeqEmpty
  <2>5. pos' - bytes_left' = From
    BY <1>1, <1>5, <2>3
  <2>. QED  BY <1>1, <1>5, <2>1, <2>3, <2>4, <2>5 DEF Sending
<1>7. SendingLine'
  BY <1>1, <1>5 DEF SendingLine
<1>. QED  BY <1>1, <1>4, <1>6, <1>7 DEF Inv, Reading, LineIsFirstLine, NotYetSending, Sending, TrueMeansSent

\* The next line is a part of the bytes, and empty only at their end.
LEMMA NextLineIs ==
  ASSUME Inv
  PROVE  /\ NextLine \in Seq(Octet) /\ Len(NextLine) \in Nat
         /\ \A i \in 1 .. Len(NextLine) : NextLine[i] = Bytes[pos + i]
         /\ NextLine = <<>> => Len(Bytes) <= pos
         /\ NextLine # <<>> => pos + Len(NextLine) <= Len(Bytes)
<1> DEFINE rest == SubSeq(Bytes, pos + 1, Len(Bytes))
<1>1. NextLine = IF Eol(rest) = 0 THEN rest ELSE SubSeq(rest, 1, Eol(rest))
  BY DEF NextLine
<1>2. pos \in Nat /\ Bytes \in Seq(Octet) /\ Len(Bytes) \in Nat
  BY BytesType DEF Inv, Typed
<1>3. /\ rest \in Seq(Octet) /\ Len(rest) = IF pos <= Len(Bytes) THEN Len(Bytes) - pos ELSE 0
      /\ \A i \in 1 .. Len(Bytes) - pos : rest[i] = Bytes[pos + i]
  <2>1. Len(Bytes) \in Int /\ Len(Bytes) <= Len(Bytes)
    BY <1>2
  <2>. QED  BY <1>2, <2>1, Slice
<1>4. Eol(rest) \in 0 .. Len(rest)
  BY <1>3, EolLemma
<1> HIDE DEF rest
<1> DEFINE m == IF Eol(rest) = 0 THEN Len(rest) ELSE Eol(rest)
<1>5. NextLine = SubSeq(rest, 1, m) /\ m \in 0 .. Len(rest) /\ Len(rest) \in Nat
  <2>1. Len(rest) \in Nat /\ SubSeq(rest, 1, Len(rest)) = rest
    BY <1>3
  <2>. QED  BY <1>1, <1>4, <2>1
<1>6. m = 0 => Len(rest) = 0
  BY <1>5
<1> HIDE DEF m
<1>7. NextLine \in Seq(Octet) /\ Len(NextLine) = m /\ \A i \in 1 .. m : NextLine[i] = rest[i]
  <2>1. m \in Int /\ m <= Len(rest) /\ m - 0 = m /\ 0 <= m /\ 0 + 1 = 1 /\ \A i \in Int : 0 + i = i
    BY <1>5
  <2>2. /\ SubSeq(rest, 0 + 1, m) \in Seq(Octet)
        /\ Len(SubSeq(rest, 0 + 1, m)) = IF 0 <= m THEN m - 0 ELSE 0
        /\ \A i \in 1 .. m - 0 : SubSeq(rest, 0 + 1, m)[i] = rest[0 + i]
    BY <1>3, <2>1, Slice
  <2>. QED  BY <1>5, <2>1, <2>2
<1>8. m \in Nat /\ (m # 0 => pos + m <= Len(Bytes))
  BY <1>2, <1>3, <1>5
<1>9. \A i \in 1 .. m : NextLine[i] = Bytes[pos + i]
  BY <1>2, <1>3, <1>5, <1>7, <1>8
<1>10. ASSUME NextLine = <<>> PROVE Len(Bytes) <= pos
  <2>1. Len(rest) = 0
    BY <1>6, <1>7, <1>10
  <2>. QED  BY <1>2, <1>3, <2>1
<1>11. NextLine # <<>> => m # 0
  BY <1>7
<1>. QED  BY <1>7, <1>8, <1>9, <1>10, <1>11

\* What getline reads, all of the next line or the start of it: nothing is read at
\* the end of the bytes or when it fails at once.
LEMMA GetlineEffect ==
  ASSUME Inv, Getline \/ GetlineFails
  PROVE  /\ pc = "getline" /\ (errno' = errno \/ errno' = "getline")
         /\ UNCHANGED <<bufsize, offset, buf, line, seek_to, device, stream, received, errors>>
         /\ out' \in Seq(Octet) /\ Len(out') \in Nat
         /\ bytes_left' = Len(out') /\ send_offset' = 0 /\ pos' = pos + Len(out')
         /\ result' = IF out' = <<>> THEN errno' = "0" ELSE result
         /\ out' = <<>> => pc' = "done" /\ (errno' # "getline" => Len(Bytes) <= pos)
         /\ out' # <<>> => /\ pc' = "send" /\ pos' <= Len(Bytes)
                           /\ out' = SubSeq(Bytes, pos + 1, pos')
<1>1. /\ NextLine \in Seq(Octet) /\ Len(NextLine) \in Nat
      /\ \A i \in 1 .. Len(NextLine) : NextLine[i] = Bytes[pos + i]
      /\ NextLine = <<>> => Len(Bytes) <= pos
      /\ NextLine # <<>> => pos + Len(NextLine) <= Len(Bytes)
  BY NextLineIs
<1>2. pos \in Nat /\ Bytes \in Seq(Octet) /\ Len(Bytes) \in Nat
  BY BytesType DEF Inv, Typed
<1>3. PICK n \in 0 .. Len(NextLine) :
        /\ GetlineReturns(SubSeq(NextLine, 1, n))
        /\ errno' = "getline" \/ (errno' = errno /\ n = Len(NextLine))
  <2>1. CASE Getline
    <3>1. SubSeq(NextLine, 1, Len(NextLine)) = NextLine /\ Len(NextLine) \in 0 .. Len(NextLine)
      BY <1>1
    <3>. QED  BY <2>1, <3>1 DEF Getline
  <2>2. CASE GetlineFails
    BY <2>2 DEF GetlineFails
  <2>. QED  BY <2>1, <2>2
<1> DEFINE next == SubSeq(NextLine, 1, n)
<1>4. next \in Seq(Octet) /\ Len(next) = n /\ \A i \in 1 .. n : next[i] = NextLine[i]
  BY <1>1
<1> HIDE DEF next
<1>5. /\ out' = next /\ bytes_left' = Len(next) /\ send_offset' = 0 /\ pos' = pos + Len(next)
      /\ next = <<>> => pc' = "done" /\ result' = (errno' = "0")
      /\ next # <<>> => pc' = "send" /\ result' = result
  BY <1>3 DEF next, GetlineReturns, SendFileResult
<1>6. /\ pc = "getline"
      /\ UNCHANGED <<bufsize, offset, buf, line, seek_to, device, stream, received, errors>>
  BY DEF Getline, GetlineFails, readVars
<1>7. ASSUME next = <<>>, errno' # "getline" PROVE Len(Bytes) <= pos
  <2>1. Len(NextLine) = 0
    BY <1>3, <1>4, <1>7
  <2>. QED  BY <1>1, <2>1
<1>8. ASSUME next # <<>> PROVE pos + n <= Len(Bytes) /\ next = SubSeq(Bytes, pos + 1, pos + n)
  <2>1. n \in Nat /\ n # 0 /\ n <= Len(NextLine)
    BY <1>1, <1>4, <1>8
  <2>2. pos + n \in Nat /\ pos + n <= Len(Bytes)
    BY <1>1, <1>2, <2>1
  <2>3. /\ SubSeq(Bytes, pos + 1, pos + n) \in Seq(Octet)
        /\ Len(SubSeq(Bytes, pos + 1, pos + n)) = n
        /\ \A i \in 1 .. n : SubSeq(Bytes, pos + 1, pos + n)[i] = Bytes[pos + i]
    <3>1. pos + n \in Int /\ (pos + n) - pos = n /\ pos <= pos + n
      BY <1>2, <2>1
    <3>. QED  BY <1>2, <2>2, <3>1, Slice
  <2>4. ASSUME NEW i \in 1 .. n PROVE next[i] = Bytes[pos + i]
    BY <1>1, <1>4, <2>1
  <2>. QED  BY <1>4, <2>2, <2>3, <2>4, SeqEqual
<1>9. n \in Nat
  BY <1>1
<1>. QED  BY <1>3, <1>4, <1>5, <1>6, <1>7, <1>8, <1>9

LEMMA GetlineInv == Inv /\ (Getline \/ GetlineFails) => Inv'
<1> SUFFICES ASSUME Inv, Getline \/ GetlineFails PROVE Inv'
  OBVIOUS
<1>1. /\ pc = "getline" /\ result' = IF out' = <<>> THEN errno' = "0" ELSE result
      /\ errno' = "0" => errno = "0"
      /\ UNCHANGED <<bufsize, offset, buf, line, seek_to, device, stream, received>>
  BY GetlineEffect
<1>2. pos \in Nat /\ Bytes \in Seq(Octet) /\ Len(Bytes) \in Nat
  BY BytesType DEF Inv, Typed
<1>3. /\ out' \in Seq(Octet) /\ Len(out') \in Nat
      /\ bytes_left' = Len(out') /\ send_offset' = 0 /\ pos' = pos + Len(out')
      /\ out' = <<>> => pc' = "done" /\ (errno' # "getline" => Len(Bytes) <= pos)
      /\ out' # <<>> => /\ pc' = "send" /\ pos' <= Len(Bytes)
                        /\ out' = SubSeq(Bytes, pos + 1, pos')
  BY GetlineEffect
<1>4. Typed'
  <2>1. bytes_left' \in Nat /\ send_offset' + bytes_left' = Len(out') /\ out' \in Seq(Octet) /\ pos' \in Nat
    BY <1>2, <1>3
  <2>2. result' \in BOOLEAN
    BY <1>1 DEF Inv, Typed, TypeOK
  <2>3. TypeOK'
    BY <1>1, <1>3, <2>1, <2>2 DEF Inv, Typed, TypeOK
  <2>. QED  BY <1>1, <1>3, <2>1, <2>3 DEF Inv, Typed
<1>5. From' = From /\ Bytes' = Bytes
  BY <1>1, SamePlace
<1>6. ASSUME errno = "0"
       PROVE  /\ From \in Nat /\ From <= pos /\ (pos <= Len(Bytes) \/ pos = From)
              /\ received = SubSeq(Bytes, From + 1, pos)
              /\ seek_to = NotCtrl /\ Eol(line) # 0 => Last(device) = Unfinished \o line
  <2>1. /\ From \in Nat /\ From <= pos /\ (pos <= Len(Bytes) \/ pos = From)
        /\ received = SubSeq(Bytes, From + 1, pos - bytes_left)
        /\ seek_to = NotCtrl /\ Eol(line) # 0 => Last(device) = Unfinished \o line
    BY <1>1, <1>6 DEF Inv, Sending
  <2>2. bytes_left = 0
    BY <1>1 DEF Inv, SendingLine
  <2>3. pos - bytes_left = pos
    BY <1>2, <2>2
  <2>. QED  BY <2>1, <2>3
<1>7. CASE out' = <<>>
  <2>1. pc' = "done" /\ result' = (errno' = "0")
    BY <1>1, <1>3, <1>7
  <2>2. errno' = "0" => errno = "0" /\ Len(Bytes) <= pos
    BY <1>1, <1>3, <1>7
  <2>3. ASSUME errno' = "0" PROVE received = SubSeq(Bytes, From + 1, Len(Bytes))
    <3>1. CASE pos <= Len(Bytes)
      <4>1. pos = Len(Bytes)
        BY <1>2, <2>2, <2>3, <3>1
      <4>. QED  BY <1>6, <2>2, <2>3, <4>1
    <3>2. CASE ~(pos <= Len(Bytes))
      <4>1. pos = From /\ From \in Int /\ From + 1 \in Int /\ From < From + 1 /\ Len(Bytes) < From + 1 /\ Len(Bytes) \in Int
        BY <1>2, <1>6, <2>2, <2>3, <3>2
      <4>2. SubSeq(Bytes, From + 1, From) = <<>> /\ SubSeq(Bytes, From + 1, Len(Bytes)) = <<>>
        BY <4>1, SubSeqEmpty
      <4>. QED  BY <1>6, <2>2, <2>3, <4>1, <4>2
    <3>. QED  BY <3>1, <3>2
  <2>4. TrueMeansSent'
    <3>1. Answer' = SubSeq(Bytes, From + 1, Len(Bytes))
      <4>1. Answer = SubSeq(Bytes, From + 1, Len(Bytes))
        BY DEF Answer, From
      <4>2. Answer' = SubSeq(Bytes', From' + 1, Len(Bytes'))
        BY DEF Answer, From
      <4>. QED  BY <1>5, <4>2
    <3> SUFFICES ASSUME result' PROVE received' = Answer' /\ (seek_to' = NotCtrl /\ Eol(line') # 0 => Last(device') = Unfinished \o line')
      BY DEF TrueMeansSent
    <3>2. errno = "0" /\ errno' = "0"
      BY <2>1, <2>2
    <3>. QED  BY <1>1, <1>6, <2>3, <3>1, <3>2
  <2>. QED  BY <1>4, <2>1, <2>4 DEF Inv, Reading, LineIsFirstLine, NotYetSending, Sending, SendingLine
<1>8. CASE out' # <<>>
  <2>1. pc' = "send" /\ pos' <= Len(Bytes) /\ out' = SubSeq(Bytes, pos + 1, pos')
    BY <1>3, <1>8
  <2>2. pos' - bytes_left' = pos /\ pos' - Len(out') = pos
    BY <1>2, <1>3
  <2>3. Sending'
    <3> SUFFICES ASSUME errno' = "0" PROVE Sending'
      BY DEF Sending
    <3>1. errno = "0"
      BY <1>1
    <3>2. From <= pos' /\ pos' <= Len(Bytes)
      BY <1>2, <1>3, <1>6, <2>1, <3>1
    <3>3. received' = SubSeq(Bytes', From' + 1, pos' - bytes_left')
      BY <1>1, <1>5, <1>6, <2>2, <3>1
    <3>. QED  BY <1>1, <1>5, <1>6, <3>1, <3>2, <3>3 DEF Sending
  <2>4. SendingLine'
    <3> SUFFICES ASSUME errno' = "0"
                 PROVE  /\ pos' <= Len(Bytes') /\ From' + Len(out') <= pos' /\ send_offset' >= 0
                        /\ out' = SubSeq(Bytes', pos' - Len(out') + 1, pos')
      BY <2>1 DEF SendingLine
    <3>1. From \in Nat /\ From <= pos
      BY <1>1, <1>6
    <3>2. From + Len(out') <= pos' /\ send_offset' >= 0
      BY <1>2, <1>3, <3>1
    <3>. QED  BY <1>5, <2>1, <2>2, <3>2
  <2>. QED  BY <1>4, <2>1, <2>3, <2>4 DEF Inv, Reading, LineIsFirstLine, NotYetSending, TrueMeansSent
<1>. QED  BY <1>7, <1>8

LEMMA SendSomeInv == Inv /\ SendSome => Inv'
<1> SUFFICES ASSUME Inv, SendSome PROVE Inv'
  OBVIOUS
<1>1. PICK n \in 1 .. bytes_left :
        /\ received' = received \o [i \in 1 .. n |-> ByteOfLine(send_offset + i)]
        /\ bytes_left' = bytes_left - n /\ send_offset' = send_offset + n
  BY DEF SendSome, Sent
<1>2. /\ pc = "send" /\ pc' = IF bytes_left' = 0 THEN "getline" ELSE "send"
      /\ UNCHANGED <<bufsize, offset, buf, line, seek_to, out, result, errno, device, pos, stream>>
  BY DEF SendSome, readVars, devVars
<1>3. /\ bytes_left \in Nat /\ send_offset \in Int /\ send_offset + bytes_left = Len(out)
      /\ out \in Seq(Octet) /\ Len(out) \in Nat /\ pos \in Nat
  BY DEF Inv, Typed, TypeOK
<1>4. /\ n \in Nat /\ 1 <= n /\ n <= bytes_left
      /\ bytes_left' = bytes_left - n /\ send_offset' = send_offset + n
  BY <1>1, <1>3
<1> DEFINE piece == [i \in 1 .. n |-> ByteOfLine(send_offset + i)]
<1>5. piece \in Seq(0 .. 255 \cup {JUNK}) /\ Len(piece) = n
  <2>1. ASSUME NEW i \in 1 .. n PROVE ByteOfLine(send_offset + i) \in 0 .. 255 \cup {JUNK}
    <3>1. CASE send_offset + i \in DOMAIN out
      <4>1. out[send_offset + i] \in Octet
        BY <1>3, <3>1
      <4>. QED  BY <3>1, <4>1 DEF ByteOfLine, Octet
    <3>2. CASE send_offset + i \notin DOMAIN out
      BY <3>2 DEF ByteOfLine
    <3>. QED  BY <3>1, <3>2
  <2> DEFINE J == 0 .. 255 \cup {JUNK}
             g(i) == ByteOfLine(send_offset + i)
  <2>2. \A i \in 1 .. n : g(i) \in J
    BY <2>1
  <2> HIDE DEF J, g
  <2>3. [i \in 1 .. n |-> g(i)] \in Seq(J) /\ Len([i \in 1 .. n |-> g(i)]) = n
    BY <1>4, <2>2
  <2>. QED  BY <2>3 DEF J, g
<1>6. Typed'
  <2>1. received' \in Seq(0 .. 255 \cup {JUNK})
    <3> DEFINE J == 0 .. 255 \cup {JUNK}
    <3> HIDE DEF J, piece
    <3>1. received \in Seq(J) /\ piece \in Seq(J)
      BY <1>5 DEF Inv, Typed, TypeOK, J
    <3>2. received \o piece \in Seq(J)
      BY <3>1
    <3>. QED  BY <1>1, <3>2 DEF J, piece
  <2>2. bytes_left' \in Nat /\ send_offset' \in Int /\ send_offset' + bytes_left' = Len(out)
    BY <1>3, <1>4
  <2>3. TypeOK'
    <3>1. /\ bufsize' \in 1 .. INT_MAX /\ Len(buf') <= bufsize' /\ buf' \in Seq(Chars)
          /\ result' \in BOOLEAN
      BY <1>2 DEF Inv, Typed, TypeOK
    <3>2. bytes_left' >= 0 /\ send_offset' + bytes_left' = Len(out')
      <4>1. Len(out') = Len(out)
        BY <1>2
      <4>2. bytes_left' >= 0
        BY <2>2
      <4>3. send_offset' + bytes_left' = Len(out)
        BY <2>2
      <4>. QED  BY ONLY <4>1, <4>2, <4>3
    <3>. QED  BY <2>1, <3>1, <3>2 DEF TypeOK
  <2>. QED  BY <1>2, <2>2, <2>3 DEF Inv, Typed
<1>7. From' = From /\ Bytes' = Bytes
  BY <1>2, SamePlace
<1>8. ASSUME errno = "0"
      PROVE  /\ From \in Nat /\ pos <= Len(Bytes) /\ From + Len(out) <= pos /\ send_offset >= 0
             /\ From <= pos /\ received = SubSeq(Bytes, From + 1, pos - bytes_left)
             /\ out = SubSeq(Bytes, pos - Len(out) + 1, pos)
             /\ (seek_to = NotCtrl /\ Eol(line) # 0 => Last(device) = Unfinished \o line)
  BY <1>2, <1>8 DEF Inv, Sending, SendingLine
<1>9. Sending'
  <2> SUFFICES ASSUME errno = "0" PROVE Sending'
    BY <1>2 DEF Sending
  <2> DEFINE b == pos - bytes_left
             c == pos - bytes_left'
             d == pos - Len(out)
  <2>1. Bytes \in Seq(Octet) /\ Len(Bytes) \in Nat
    BY BytesType DEF Inv
  <2>2. /\ b \in Nat /\ c \in Nat /\ d \in Nat /\ From <= b /\ b <= c /\ c <= Len(Bytes)
        /\ c = b + n /\ b = d + send_offset /\ pos - d = Len(out)
    <3>1. From \in Nat /\ pos <= Len(Bytes) /\ From + Len(out) <= pos /\ send_offset >= 0
      BY <1>8
    <3>2. ASSUME NEW p \in Nat, NEW l \in Nat, NEW f \in Nat, NEW k \in Nat, NEW o \in Int, NEW q \in Nat,
                 NEW r \in Nat, p <= l, f + k <= p, o >= 0, o + q = k, 1 <= r, r <= q
          PROVE  /\ p - q \in Nat /\ p - (q - r) \in Nat /\ p - k \in Nat /\ f <= p - q
                 /\ p - q <= p - (q - r) /\ p - (q - r) <= l
                 /\ p - (q - r) = (p - q) + r /\ p - q = (p - k) + o /\ p - (p - k) = k
      BY <3>2
    <3> HIDE DEF piece
    <3>. QED  BY <1>3, <1>4, <2>1, <3>1, <3>2
  <2>3. ASSUME NEW i \in 1 .. n PROVE piece[i] = Bytes[b + i]
    <3>0. send_offset >= 0
      BY <1>8
    <3>1. send_offset + i \in 1 .. Len(out) /\ d + (send_offset + i) = b + i
      BY <1>3, <1>4, <2>2, <3>0
    <3>2. piece[i] = out[send_offset + i]
      BY <1>3, <3>1 DEF ByteOfLine
    <3>3. \A j \in 1 .. pos - d : SubSeq(Bytes, d + 1, pos)[j] = Bytes[d + j]
      BY <1>3, <1>8, <2>1, <2>2, Slice
    <3> HIDE DEF piece, b, d
    <3>4. out[send_offset + i] = Bytes[d + (send_offset + i)]
      <4>1. out = SubSeq(Bytes, d + 1, pos)
        BY <1>8 DEF d
      <4>. QED  BY <2>2, <3>1, <3>3, <4>1
    <3>. QED  BY <3>1, <3>2, <3>4
  <2>4. piece = SubSeq(Bytes, b + 1, c)
    <3> HIDE DEF b, c
    <3>1. /\ SubSeq(Bytes, b + 1, c) \in Seq(Octet)
          /\ Len(SubSeq(Bytes, b + 1, c)) = n
          /\ \A i \in 1 .. n : SubSeq(Bytes, b + 1, c)[i] = Bytes[b + i]
      <4>1. c \in Int /\ c - b = n /\ b <= c
        BY <1>4, <2>2
      <4>2. b \in Nat /\ c <= Len(Bytes) /\ Bytes \in Seq(Octet)
        BY <2>1, <2>2
      <4>. QED  BY ONLY <4>1, <4>2, Slice
    <3>2. ASSUME NEW i \in 1 .. n PROVE piece[i] \in Octet
      <4>1. SubSeq(Bytes, b + 1, c)[i] \in Octet
        BY <3>1
      <4> HIDE DEF piece
      <4>. QED  BY <2>3, <3>1, <4>1
    <3>3. piece \in Seq(Octet)
      <4>1. DOMAIN piece = 1 .. n
        OBVIOUS
      <4>2. piece = [i \in 1 .. n |-> piece[i]]
        OBVIOUS
      <4> HIDE DEF piece
      <4>. QED  BY <1>4, <3>2, <4>2
    <3> HIDE DEF piece
    <3>. QED  BY <1>5, <2>3, <3>1, <3>3, SeqEqual
  <2>5. received' = SubSeq(Bytes, From + 1, c)
    <3> HIDE DEF piece, c
    <3>1. received = SubSeq(Bytes, From + 1, b)
      BY <1>8
    <3> HIDE DEF b
    <3>2. received' = received \o piece
      BY <1>1 DEF piece
    <3>3. SubSeq(Bytes, From + 1, b) \o SubSeq(Bytes, b + 1, c) = SubSeq(Bytes, From + 1, c)
      <4>1. From \in Nat /\ b \in Nat /\ c \in Nat /\ From <= b /\ b <= c /\ c <= Len(Bytes)
        BY <1>8, <2>2
      <4>. QED  BY ONLY <2>1, <4>1, SliceJoin
    <3>. QED  BY <2>4, <3>1, <3>2, <3>3
  <2>6. c = pos' - bytes_left'
    BY <1>2
  <2> HIDE DEF c
  <2>. QED  BY <1>2, <1>7, <1>8, <2>5, <2>6 DEF Sending
<1>10. SendingLine'
  <2>1. errno = "0" => send_offset' >= 0
    BY <1>1, <1>3, <1>4, <1>8
  <2>2. pc' = "getline" => bytes_left' = 0
    BY <1>2
  <2>. QED  BY <1>2, <1>7, <1>8, <2>1, <2>2 DEF SendingLine
<1>. QED  BY <1>2, <1>6, <1>9, <1>10 DEF Inv, Reading, LineIsFirstLine, NotYetSending, TrueMeansSent

LEMMA SendFailsInv == Inv /\ SendFails => Inv'
<1> SUFFICES ASSUME Inv, SendFails PROVE Inv'
  OBVIOUS
<1>1. /\ pc = "send" /\ pc' = "send" /\ errno' = "send"
      /\ bytes_left' = bytes_left - (-1) /\ send_offset' = send_offset + (-1)
      /\ UNCHANGED <<bufsize, offset, buf, line, seek_to, out, result, device, pos, stream, received>>
  BY DEF SendFails, Sent, readVars, devVars
<1>2. bytes_left \in Nat /\ send_offset \in Int /\ send_offset + bytes_left = Len(out) /\ Len(out) \in Nat
  BY DEF Inv, Typed, TypeOK
<1>3. bytes_left' \in Nat /\ send_offset' \in Int /\ send_offset' + bytes_left' = Len(out)
  BY <1>1, <1>2
<1>4. TypeOK'
  BY <1>1, <1>3 DEF Inv, Typed, TypeOK
<1>5. Typed'
  BY <1>1, <1>3, <1>4 DEF Inv, Typed
<1>. QED  BY <1>1, <1>5 DEF Inv, Reading, LineIsFirstLine, NotYetSending, Sending, SendingLine, TrueMeansSent

LEMMA SendKillsInv == Inv /\ SendKills => Inv'
<1> SUFFICES ASSUME Inv, SendKills PROVE Inv'
  OBVIOUS
<1> USE DEF SendKills, readVars, sendVars, devVars
<1>1. Typed'
  BY DEF Inv, Typed, TypeOK
<1>2. pc' = "killed"
  OBVIOUS
<1>. QED  BY <1>1, <1>2 DEF Inv, Reading, LineIsFirstLine, NotYetSending, Sending, SendingLine, TrueMeansSent

LEMMA StutterInv == Inv /\ UNCHANGED vars => Inv'
<1> SUFFICES ASSUME Inv, UNCHANGED vars PROVE Inv'
  OBVIOUS
<1> USE DEF vars, readVars, sendVars, devVars
<1>1. From' = From /\ Bytes' = Bytes
  BY SamePlace
<1>2. Typed'
  BY DEF Inv, Typed, TypeOK
<1>3. Reading' /\ LineIsFirstLine' /\ NotYetSending'
  BY DEF Inv, Reading, LineIsFirstLine, NotYetSending
<1>4. Sending' /\ SendingLine'
  BY <1>1 DEF Inv, Sending, SendingLine
<1>5. TrueMeansSent'
  <2>1. Answer' = Answer
    BY <1>1 DEF Answer, SeekPos
  <2>. QED  BY <2>1 DEF Inv, TrueMeansSent
<1>. QED  BY <1>2, <1>3, <1>4, <1>5 DEF Inv

-----------------------------------------------------------------------------
(***************************************************************************)
(* What every connection keeps of readline_from_socket, parse_ctrl_line    *)
(* and send_file, whatever the client sends and however recv and send cut  *)
(* it (sock_thread.c:27-134).                                              *)
(***************************************************************************)
THEOREM Invariance == Spec => []Inv
<1>1. Inv /\ [Next]_vars => Inv'
  BY MallocInv, RecvInv, RecvNothingInv, RecvFailsInv, ParseInv, AppendLineInv, IoctlSeekInv,
     GetlineInv, SendSomeInv, SendFailsInv, SendKillsInv, StutterInv DEF Next
<1>. QED  BY InitInv, <1>1, PTL DEF Spec

\* The buffer is never overrun, and send never goes beyond the end of its line,
\* also when a failed send has moved its offset back (sock_thread.c:42, 83).
THEOREM TypeSafety == Spec => []TypeOK
<1>1. Inv => TypeOK
  BY DEF Inv, Typed
<1>. QED  BY Invariance, <1>1, PTL

\* The line handed on is the client's first line, for every way in which recv
\* cuts the bytes and every number of times the buffer is doubled
\* (sock_thread.c:41-67).
THEOREM LineIsRight == Spec => []LineIsFirstLine
<1>1. Inv => LineIsFirstLine
  BY DEF Inv
<1>. QED  BY Invariance, <1>1, PTL

\* A send_file that returns true has sent exactly the device's bytes from the
\* place the client asked for on (sock_thread.c:70-95).
THEOREM TrueIsSent == Spec => []TrueMeansSent
<1>1. Inv => TrueMeansSent
  BY DEF Inv
<1>. QED  BY Invariance, <1>1, PTL

-----------------------------------------------------------------------------
(***************************************************************************)
(* Every byte arrives.  How far the line has been sent at most is h: a     *)
(* send that fails moves send_offset back by one, and what is sent again   *)
(* below h are the extra bytes, at the positions D.                        *)
(***************************************************************************)
Marked(r, o, D, h) ==
  /\ IsFiniteSet(D) /\ o <= h
  /\ Cardinality(D) + (h - o) = errors
  /\ Without(r, D) = SubSeq(Bytes, From + 1, pos - Len(out) + h)

Delivered(r, o) == \E D \in SUBSET (1 .. Len(r)), h \in 0 .. Len(out) : Marked(r, o, D, h)

NothingSent ==
  pc \in {"malloc", "recv", "parse", "device"} => errors = 0 /\ out = <<>> /\ send_offset = 0

Delivering ==
  pc \in {"getline", "send"} =>
    /\ From \in Nat /\ From <= pos /\ (pos <= Len(Bytes) \/ pos = From)
    /\ Delivered(received, send_offset)

CurrentLine ==
  pc = "send" =>
    pos <= Len(Bytes) /\ From + Len(out) <= pos /\ out = SubSeq(Bytes, pos - Len(out) + 1, pos)

DeliveryInv == errors \in Nat /\ NothingSent /\ Delivering /\ CurrentLine /\ AnswerArrives

Byte == 0 .. 255 \cup {JUNK}

\* What is left of a sequence, piece by piece.
Left(s, D) == [i \in DOMAIN s |-> IF i \in D THEN <<>> ELSE <<s[i]>>]

LEMMA LeftType ==
  ASSUME NEW S, NEW s \in Seq(S), NEW D
  PROVE  Left(s, D) \in Seq(Seq(S)) /\ Len(Left(s, D)) = Len(s)
         /\ \A i \in 1 .. Len(s) : Left(s, D)[i] = IF i \in D THEN <<>> ELSE <<s[i]>>
<1>1. DOMAIN s = 1 .. Len(s) /\ Len(s) \in Nat
  OBVIOUS
<1>2. ASSUME NEW i \in 1 .. Len(s) PROVE (IF i \in D THEN <<>> ELSE <<s[i]>>) \in Seq(S)
  <2>1. <<>> \in Seq(S) /\ s[i] \in S
    OBVIOUS
  <2>2. <<s[i]>> \in Seq(S)
    BY <2>1
  <2>. QED  BY <2>1, <2>2
<1> DEFINE g(i) == IF i \in D THEN <<>> ELSE <<s[i]>>
<1>3. Left(s, D) = [i \in 1 .. Len(s) |-> g(i)]
  BY <1>1 DEF Left
<1>4. \A i \in 1 .. Len(s) : g(i) \in Seq(S)
  BY <1>2
<1>5. \A i \in 1 .. Len(s) : Left(s, D)[i] = g(i)
  BY <1>3, Zenon
<1>6. Left(s, D) \in Seq(Seq(S)) /\ Len(Left(s, D)) = Len(s)
  <2> DEFINE T == Seq(S)
             n == Len(s)
  <2>1. \A i \in 1 .. n : g(i) \in T
    BY <1>4
  <2> HIDE DEF T, g, n
  <2>2. n \in Nat
    BY <1>1 DEF n
  <2>3. [i \in 1 .. n |-> g(i)] \in Seq(T) /\ Len([i \in 1 .. n |-> g(i)]) = n
    BY <2>1, <2>2
  <2>. QED  BY <1>3, <2>3 DEF T, n
<1>. QED  BY <1>5, <1>6

LEMMA WithoutType ==
  ASSUME NEW S, NEW s \in Seq(S), NEW D
  PROVE  Without(s, D) \in Seq(S) /\ Without(s, D) = FlattenSeq(Left(s, D))
<1>1. Without(s, D) = FlattenSeq(Left(s, D))
  BY DEF Without, Left
<1>. QED  BY <1>1, LeftType, FlattenType

LEMMA WithoutEmpty == \A D : Without(<<>>, D) = <<>>
<1> TAKE D
<1>1. Left(<<>>, D) = <<>>
  BY DEF Left
<1>. QED  BY <1>1, FlattenEmpty DEF Without, Left

\* One more element, kept or left out.
LEMMA WithoutAppend ==
  ASSUME NEW S, NEW s \in Seq(S), NEW x \in S, NEW D \in SUBSET (1 .. Len(s))
  PROVE  /\ Without(Append(s, x), D) = Without(s, D) \o <<x>>
         /\ Without(Append(s, x), D \cup {Len(s) + 1}) = Without(s, D)
<1> DEFINE n == Len(s)
           t == Append(s, x)
<1>1. n \in Nat /\ t \in Seq(S) /\ Len(t) = n + 1 /\ t[n + 1] = x /\ \A i \in 1 .. n : t[i] = s[i]
  OBVIOUS
<1>2. ASSUME NEW E, NEW y \in Seq(S), E \in {D, D \cup {n + 1}},
             y = IF n + 1 \in E THEN <<>> ELSE <<x>>
      PROVE  Without(t, E) = Without(s, D) \o y
  <2>1. \A i \in 1 .. n : i \in E <=> i \in D
    BY <1>1, <1>2
  <2> HIDE DEF n, t
  <2>2. /\ Left(s, D) \in Seq(Seq(S)) /\ Len(Left(s, D)) = n
        /\ \A i \in 1 .. n : Left(s, D)[i] = IF i \in D THEN <<>> ELSE <<s[i]>>
    BY LeftType DEF n
  <2>3. /\ Left(t, E) \in Seq(Seq(S)) /\ Len(Left(t, E)) = n + 1
        /\ \A i \in 1 .. n + 1 : Left(t, E)[i] = IF i \in E THEN <<>> ELSE <<t[i]>>
    BY <1>1, LeftType
  <2> DEFINE a == Left(s, D)
             b == Left(t, E)
             T == Seq(S)
  <2>4. ASSUME NEW i \in 1 .. n PROVE b[i] = a[i]
    <3>1. i \in 1 .. n + 1
      BY <1>1
    <3>2. b[i] = IF i \in E THEN <<>> ELSE <<t[i]>>
      BY <2>3, <3>1, Zenon
    <3>3. a[i] = IF i \in D THEN <<>> ELSE <<s[i]>>
      BY <2>2, Zenon
    <3>. QED  BY <1>1, <2>1, <3>2, <3>3, Zenon
  <2>5. b[n + 1] = y
    <3>1. n + 1 \in 1 .. n + 1
      BY <1>1
    <3>2. b[n + 1] = IF n + 1 \in E THEN <<>> ELSE <<t[n + 1]>>
      BY <2>3, <3>1, Zenon
    <3>. QED  BY <1>1, <1>2, <3>2, Zenon
  <2>6. a \in Seq(T) /\ Len(a) = n /\ b \in Seq(T) /\ Len(b) = n + 1 /\ y \in T /\ n \in Nat
    BY <1>1, <1>2, <2>2, <2>3
  <2>7. b = Append(a, y)
    <3> HIDE DEF a, b, T
    <3>1. Append(a, y) \in Seq(T) /\ Len(Append(a, y)) = n + 1
      BY <2>6
    <3>2. ASSUME NEW i \in 1 .. n + 1 PROVE b[i] = Append(a, y)[i]
      <4>1. CASE i = n + 1
        BY <2>5, <2>6, <4>1
      <4>2. CASE i # n + 1
        BY <2>4, <2>6, <4>2
      <4>. QED  BY <4>1, <4>2
    <3>. QED  BY <2>6, <3>1, <3>2, SeqEqual
  <2>8. FlattenSeq(b) = FlattenSeq(a) \o y
    <3>1. FlattenSeq(Append(a, y)) = FlattenSeq(a) \o y
      BY <1>2, <2>2, FlattenAppend
    <3>. QED  BY <2>7, <3>1
  <2>. QED  BY <1>1, <2>8, WithoutType
<1>3. n + 1 \notin D /\ <<x>> \in Seq(S) /\ <<>> \in Seq(S)
  BY <1>1
<1>4. Without(t, D) = Without(s, D) \o <<x>>
  <2>1. D \in {D, D \cup {n + 1}} /\ <<x>> = IF n + 1 \in D THEN <<>> ELSE <<x>>
    BY <1>3
  <2>. QED  BY ONLY <1>2, <1>3, <2>1, Zenon
<1>5. Without(t, D \cup {n + 1}) = Without(s, D) \o <<>>
  <2>1. D \cup {n + 1} \in {D, D \cup {n + 1}} /\ <<>> = IF n + 1 \in D \cup {n + 1} THEN <<>> ELSE <<x>>
    BY <1>3
  <2>. QED  BY ONLY <1>2, <1>3, <2>1, Zenon
<1>6. Without(s, D) \o <<>> = Without(s, D)
  <2>1. Without(s, D) \in Seq(S)
    BY WithoutType
  <2>. QED  BY <2>1
<1>. QED  BY <1>4, <1>5, <1>6

-----------------------------------------------------------------------------
\* One more byte of the line: an extra one below h, the next one at h.
LEMMA ByteSent ==
  ASSUME Inv, DeliveryInv, pc = "send", NEW r \in Seq(Byte), NEW o \in Int, o < Len(out), Delivered(r, o)
  PROVE  Delivered(Append(r, ByteOfLine(o + 1)), o + 1)
<1> DEFINE x == ByteOfLine(o + 1)
           t == Append(r, x)
<1>1. PICK D \in SUBSET (1 .. Len(r)), h \in 0 .. Len(out) : Marked(r, o, D, h)
  BY DEF Delivered
<1>2. /\ IsFiniteSet(D) /\ o <= h /\ Cardinality(D) + (h - o) = errors
      /\ Without(r, D) = SubSeq(Bytes, From + 1, pos - Len(out) + h)
  BY <1>1 DEF Marked
<1>3. /\ out \in Seq(Octet) /\ Len(out) \in Nat /\ h \in Nat /\ h <= Len(out) /\ pos \in Nat
      /\ Len(r) \in Nat /\ Cardinality(D) \in Nat
  BY <1>1, <1>2, FS_CardinalityType DEF Inv, Typed
<1>4. /\ From \in Nat /\ pos <= Len(Bytes) /\ From + Len(out) <= pos
      /\ out = SubSeq(Bytes, pos - Len(out) + 1, pos)
  BY DEF DeliveryInv, Delivering, CurrentLine
<1>5. x \in Byte /\ (o + 1 \in 1 .. Len(out) => x = out[o + 1] /\ x \in Octet)
  <2>1. CASE o + 1 \in DOMAIN out
    <3>1. out[o + 1] \in Octet
      BY <1>3, <2>1
    <3>. QED  BY <2>1, <3>1 DEF ByteOfLine, Octet, Byte
  <2>2. CASE o + 1 \notin DOMAIN out
    BY <1>3, <2>2 DEF ByteOfLine, Byte
  <2>. QED  BY <2>1, <2>2
<1> HIDE DEF x
<1>6. /\ Without(t, D) = Without(r, D) \o <<x>>
      /\ Without(t, D \cup {Len(r) + 1}) = Without(r, D)
      /\ Len(t) = Len(r) + 1
  <2>1. x \in Byte /\ D \in SUBSET (1 .. Len(r)) /\ r \in Seq(Byte)
    BY <1>1, <1>5
  <2>2. Len(t) = Len(r) + 1
    BY <2>1
  <2>. QED  BY ONLY <2>1, <2>2, WithoutAppend
<1>7. D \in SUBSET (1 .. Len(t)) /\ D \cup {Len(r) + 1} \in SUBSET (1 .. Len(t)) /\ Len(r) + 1 \notin D
  <2>1. Len(r) + 1 \in 1 .. Len(t) /\ Len(r) + 1 \notin 1 .. Len(r) /\ 1 .. Len(r) \subseteq 1 .. Len(t)
    BY <1>3, <1>6
  <2>. QED  BY <1>1, <2>1
<1> HIDE DEF t
<1>8. CASE o < h
  <2> DEFINE E == D \cup {Len(r) + 1}
  <2>1. IsFiniteSet(E) /\ Cardinality(E) = Cardinality(D) + 1
    BY <1>2, <1>7, FS_AddElement
  <2>2. E \in SUBSET (1 .. Len(t)) /\ Without(t, E) = Without(r, D)
    BY <1>6, <1>7
  <2> HIDE DEF E
  <2>3. o + 1 <= h /\ Cardinality(E) + (h - (o + 1)) = errors
    BY <1>2, <1>3, <1>8, <2>1
  <2>4. Marked(t, o + 1, E, h)
    BY <1>2, <2>1, <2>2, <2>3 DEF Marked
  <2>5. Delivered(t, o + 1)
    BY <2>2, <2>4 DEF Delivered
  <2>. QED  BY <2>5 DEF t, x
<1>9. CASE ~(o < h)
  <2>1. o = h /\ h + 1 \in 0 .. Len(out) /\ o + 1 \in 1 .. Len(out) /\ o + 1 = h + 1
    BY <1>2, <1>3, <1>9
  <2> DEFINE d == pos - Len(out)
             c == pos - Len(out) + h
  <2>2. Bytes \in Seq(Octet) /\ Len(Bytes) \in Nat
    BY BytesType DEF Inv
  <2>3. /\ d \in Nat /\ c \in Nat /\ From <= c /\ c <= c + 1 /\ c + 1 <= Len(Bytes) /\ c + 1 \in Nat
        /\ pos - d = Len(out) /\ d + (h + 1) = c + 1 /\ pos - Len(out) + (h + 1) = c + 1
    BY <1>3, <1>4, <2>1, <2>2
  <2>4. x = Bytes[c + 1]
    <3>1. \A j \in 1 .. pos - d : SubSeq(Bytes, d + 1, pos)[j] = Bytes[d + j]
      BY <1>3, <1>4, <2>2, <2>3, Slice
    <3>2. x = out[h + 1] /\ out = SubSeq(Bytes, d + 1, pos) /\ h + 1 \in 1 .. Len(out)
      BY <1>4, <1>5, <2>1
    <3> HIDE DEF d, c
    <3>. QED  BY <2>3, <3>1, <3>2
  <2> HIDE DEF d, c
  <2>5. SubSeq(Bytes, c + 1, c + 1) = <<x>>
    <3>1. /\ SubSeq(Bytes, c + 1, c + 1) \in Seq(Octet) /\ Len(SubSeq(Bytes, c + 1, c + 1)) = 1
          /\ SubSeq(Bytes, c + 1, c + 1)[1] = Bytes[c + 1]
      <4>1. (c + 1) - c = 1 /\ c + 1 \in Int
        BY <2>3
      <4>. QED  BY <2>2, <2>3, <4>1, Slice
    <3>2. x \in Octet
      BY <1>5, <2>1
    <3>3. <<x>> \in Seq(Octet) /\ Len(<<x>>) = 1 /\ <<x>>[1] = x
      BY <3>2
    <3>4. \A i \in 1 .. 1 : SubSeq(Bytes, c + 1, c + 1)[i] = <<x>>[i]
      BY <2>4, <3>1, <3>3
    <3>. QED  BY <3>1, <3>3, <3>4, SeqEqual
  <2>6. SubSeq(Bytes, From + 1, c) \o SubSeq(Bytes, c + 1, c + 1) = SubSeq(Bytes, From + 1, c + 1)
    BY <1>4, <2>2, <2>3, SliceJoin
  <2>7. Without(t, D) = SubSeq(Bytes, From + 1, c + 1)
    BY <1>2, <1>6, <2>5, <2>6 DEF c
  <2>8. o + 1 <= h + 1 /\ Cardinality(D) + ((h + 1) - (o + 1)) = errors
    BY <1>2, <1>3, <2>1
  <2>9. Marked(t, o + 1, D, h + 1)
    BY <1>2, <2>3, <2>7, <2>8 DEF Marked
  <2>10. Delivered(t, o + 1)
    BY <1>7, <2>1, <2>9 DEF Delivered
  <2>. QED  BY <2>10 DEF t, x
<1>. QED  BY <1>8, <1>9

\* A send of n bytes is n bytes, one after the other.
LEMMA BytesSent ==
  ASSUME Inv, DeliveryInv, pc = "send", NEW n \in Nat, n <= bytes_left
  PROVE  Delivered(received \o [i \in 1 .. n |-> ByteOfLine(send_offset + i)], send_offset + n)
<1> DEFINE piece(k) == [i \in 1 .. k |-> ByteOfLine(send_offset + i)]
           R(k) == received \o piece(k)
           D == {k \in 0 .. n : ~Delivered(R(k), send_offset + k)}
<1>1. /\ send_offset \in Int /\ bytes_left \in Nat /\ send_offset + bytes_left = Len(out)
      /\ out \in Seq(Octet) /\ Len(out) \in Nat /\ received \in Seq(Byte)
  BY DEF Inv, Typed, TypeOK, Byte
<1>2. ASSUME NEW k \in Nat
      PROVE  piece(k) \in Seq(Byte) /\ Len(piece(k)) = k
  <2>1. ASSUME NEW i \in 1 .. k PROVE ByteOfLine(send_offset + i) \in Byte
    <3>1. CASE send_offset + i \in DOMAIN out
      <4>1. out[send_offset + i] \in Octet
        BY <1>1, <3>1
      <4>. QED  BY <3>1, <4>1 DEF ByteOfLine, Octet, Byte
    <3>2. CASE send_offset + i \notin DOMAIN out
      BY <3>2 DEF ByteOfLine, Byte
    <3>. QED  BY <3>1, <3>2
  <2> DEFINE g(i) == ByteOfLine(send_offset + i)
  <2>2. \A i \in 1 .. k : g(i) \in Byte
    BY <2>1
  <2> HIDE DEF g
  <2>3. [i \in 1 .. k |-> g(i)] \in Seq(Byte) /\ Len([i \in 1 .. k |-> g(i)]) = k
    BY <2>2
  <2>. QED  BY <2>3 DEF g
<1>3. R(0) = received
  <2>1. piece(0) \in Seq(Byte) /\ Len(piece(0)) = 0
    BY <1>2
  <2> HIDE DEF piece
  <2>2. piece(0) = <<>>
    BY <2>1
  <2>. QED  BY <1>1, <2>2
<1>4. ASSUME NEW k \in Nat PROVE R(k) \in Seq(Byte) /\ R(k + 1) = Append(R(k), ByteOfLine(send_offset + k + 1))
  <2> DEFINE y == ByteOfLine(send_offset + k + 1)
  <2>1. /\ piece(k) \in Seq(Byte) /\ Len(piece(k)) = k
        /\ piece(k + 1) \in Seq(Byte) /\ Len(piece(k + 1)) = k + 1
    BY <1>2
  <2>2. \A i \in 1 .. k : piece(k + 1)[i] = piece(k)[i]
    OBVIOUS
  <2>3. piece(k + 1)[k + 1] = y
    <3>1. send_offset + (k + 1) = send_offset + k + 1
      BY <1>1
    <3>. QED  BY <3>1
  <2> HIDE DEF piece, y
  <2>4. y \in Byte
    BY <2>1, <2>3
  <2>5. piece(k + 1) = Append(piece(k), y)
    <3>1. Append(piece(k), y) \in Seq(Byte) /\ Len(Append(piece(k), y)) = k + 1
      BY <2>1, <2>4
    <3>2. ASSUME NEW i \in 1 .. k + 1 PROVE piece(k + 1)[i] = Append(piece(k), y)[i]
      <4>1. CASE i = k + 1
        BY <2>1, <2>3, <4>1
      <4>2. CASE i # k + 1
        BY <2>1, <2>2, <4>2
      <4>. QED  BY <4>1, <4>2
    <3>. QED  BY <2>1, <3>1, <3>2, SeqEqual
  <2>6. received \o Append(piece(k), y) = Append(received \o piece(k), y)
    BY <1>1, <2>1, <2>4
  <2>7. received \o piece(k) \in Seq(Byte)
    BY <1>1, <2>1
  <2>. QED  BY <2>5, <2>6, <2>7 DEF y
<1> HIDE DEF R
<1>5. D = {}
  <2> SUFFICES ASSUME D # {} PROVE FALSE
    OBVIOUS
  <2>1. PICK k \in D : \A j \in D : k <= j
    <3>1. D \in SUBSET Nat
      OBVIOUS
    <3> HIDE DEF D
    <3>. QED  BY <3>1, LeastElement
  <2>2. k \in 0 .. n /\ ~Delivered(R(k), send_offset + k)
    OBVIOUS
  <2>3. k # 0
    <3>1. send_offset + 0 = send_offset
      BY <1>1
    <3>2. Delivered(received, send_offset)
      BY DEF DeliveryInv, Delivering
    <3>. QED  BY <1>3, <2>2, <3>1, <3>2
  <2>4. k - 1 \in 0 .. n /\ k - 1 \in Nat /\ (k - 1) + 1 = k /\ ~(k <= k - 1)
    BY <2>2, <2>3
  <2>5. Delivered(R(k - 1), send_offset + (k - 1))
    BY <2>1, <2>4
  <2> DEFINE o == send_offset + (k - 1)
  <2>6. o \in Int /\ o < Len(out) /\ o + 1 = send_offset + k
    BY <1>1, <2>2, <2>4
  <2>7. R(k - 1) \in Seq(Byte) /\ R(k) = Append(R(k - 1), ByteOfLine(o + 1))
    <3>1. R(k - 1) \in Seq(Byte) /\ R((k - 1) + 1) = Append(R(k - 1), ByteOfLine(send_offset + (k - 1) + 1))
      BY <1>4, <2>4
    <3>. QED  BY <2>4, <3>1
  <2> HIDE DEF o, D
  <2>8. Delivered(R(k - 1), o)
    BY <2>5 DEF o
  <2>9. Delivered(Append(R(k - 1), ByteOfLine(o + 1)), o + 1)
    BY <2>6, <2>7, <2>8, ByteSent
  <2>. QED  BY <2>2, <2>6, <2>7, <2>9
<1>6. n \in 0 .. n
  OBVIOUS
<1>7. Delivered(R(n), send_offset + n)
  BY <1>5, <1>6
<1>. QED  BY <1>7 DEF R

-----------------------------------------------------------------------------
\* A part of a sequence starts like the rest of the sequence.
LEMMA SlicePrefix ==
  ASSUME NEW s \in Seq(Octet), NEW a \in Nat, NEW b \in Nat, a <= b, b <= Len(s) \/ b = a
  PROVE  IsPrefix(SubSeq(s, a + 1, b), SubSeq(s, a + 1, Len(s)))
<1> DEFINE p == SubSeq(s, a + 1, b)
           t == SubSeq(s, a + 1, Len(s))
<1>1. CASE b = a
  <2>1. a \in Int /\ a + 1 \in Int /\ a < a + 1
    OBVIOUS
  <2>2. p = <<>>
    BY <1>1, <2>1, SubSeqEmpty
  <2>3. t \in Seq(Octet) /\ Len(t) \in Nat
    <3>1. Len(s) \in Int /\ Len(s) <= Len(s)
      OBVIOUS
    <3>2. t \in Seq(Octet)
      BY <3>1, Slice
    <3> HIDE DEF t
    <3>. QED  BY <3>2
  <2> HIDE DEF p, t
  <2>4. Len(p) = 0 /\ SubSeq(p, 1, 0) = <<>> /\ SubSeq(t, 1, 0) = <<>>
    BY <2>2, <2>3, SubSeqEmpty
  <2>5. IsPrefix(p, t)
    BY <2>3, <2>4 DEF IsPrefix
  <2>. QED  BY <2>5 DEF p, t
<1>2. CASE b <= Len(s)
  <2>1. Len(s) \in Int /\ Len(s) <= Len(s) /\ b \in Int /\ a <= Len(s)
    BY <1>2
  <2>2. /\ p \in Seq(Octet) /\ Len(p) = b - a
        /\ \A i \in 1 .. b - a : p[i] = s[a + i]
    BY <1>2, <2>1, Slice
  <2>3. /\ t \in Seq(Octet) /\ Len(t) = Len(s) - a
        /\ \A i \in 1 .. Len(s) - a : t[i] = s[a + i]
    BY <2>1, Slice
  <2> HIDE DEF p, t
  <2>4. Len(p) <= Len(t) /\ \A i \in 1 .. Len(p) : p[i] = t[i]
    BY <1>2, <2>1, <2>2, <2>3
  <2>5. SubSeq(p, 1, Len(p)) = SubSeq(t, 1, Len(p))
    BY <2>2, <2>3, <2>4
  <2>6. IsPrefix(p, t)
    BY <2>4, <2>5 DEF IsPrefix
  <2>. QED  BY <2>6 DEF p, t
<1>. QED  BY <1>1, <1>2

\* The answer starts with nothing.
LEMMA DeliveryStarts ==
  ASSUME received' = <<>>, send_offset' = 0, out' = <<>>, errors' = 0, From' \in Nat, pos' = From'
  PROVE  Delivered(received, send_offset)'
<1>1. Len(out') = 0 /\ Len(received') = 0
  OBVIOUS
<1>2. IsFiniteSet({}) /\ Cardinality({}) = 0
  BY FS_EmptySet
<1>2a. PICK f \in Nat : f = From'
  OBVIOUS
<1>3. pos' - Len(out') + 0 = f
  <2>1. pos' = f /\ Len(out') = 0
    BY <1>1, <1>2a
  <2>. QED  BY <2>1
<1>4. Without(<<>>, {}) = <<>> /\ SubSeq(Bytes', f + 1, f) = <<>>
  <2>1. f \in Int /\ f + 1 \in Int /\ f < f + 1
    OBVIOUS
  <2>. QED  BY <2>1, WithoutEmpty, SubSeqEmpty
<1>5. 0 <= 0 /\ Cardinality({}) + (0 - 0) = errors'
  BY <1>2
<1>6. Marked(received, send_offset, {}, 0)'
  BY <1>2, <1>2a, <1>3, <1>4, <1>5 DEF Marked
<1>7. {} \in SUBSET (1 .. Len(received')) /\ 0 \in 0 .. Len(out')
  BY <1>1
<1>. QED  BY <1>6, <1>7 DEF Delivered

-----------------------------------------------------------------------------
\* The steps in front of send_file, and those that end it without an answer.
LEMMA QuietDelivery ==
  ASSUME Inv, DeliveryInv,
         MallocBuffer \/ Recv \/ RecvNothing \/ RecvFails \/ Parse \/ SendKills
  PROVE  DeliveryInv'
<1>1. CASE MallocBuffer \/ Recv \/ RecvNothing \/ RecvFails \/ Parse
  <2>1. /\ pc \in {"malloc", "recv", "parse"} /\ pc' \in {"malloc", "recv", "parse", "device", "failed"}
        /\ UNCHANGED <<errors, out, send_offset>>
    BY <1>1 DEF MallocBuffer, Recv, RecvNothing, RecvFails, Parse, GiveUp, Enlarge, sendVars
  <2>. QED  BY <2>1 DEF DeliveryInv, NothingSent, Delivering, CurrentLine, AnswerArrives
<1>2. CASE SendKills
  <2>1. pc' = "killed" /\ UNCHANGED errors
    BY <1>2 DEF SendKills
  <2>. QED  BY <2>1 DEF DeliveryInv, NothingSent, Delivering, CurrentLine, AnswerArrives
<1>. QED  BY <1>1, <1>2

LEMMA AppendDelivery ==
  ASSUME Inv, DeliveryInv, AppendLine
  PROVE  DeliveryInv'
<1>1. /\ pc = "device" /\ pc' = "getline" /\ seek_to' = NotCtrl
      /\ UNCHANGED <<received, send_offset, out, errors, pos>>
  BY DEF AppendLine, sendVars
<1>2. received = <<>> /\ pos = 0 /\ errors = 0 /\ out = <<>> /\ send_offset = 0
  BY <1>1 DEF Inv, NotYetSending, DeliveryInv, NothingSent
<1>3. From' = 0
  BY <1>1 DEF From
<1>4. Delivered(received, send_offset)'
  BY <1>1, <1>2, <1>3, DeliveryStarts
<1>5. From' \in Nat /\ From' <= pos' /\ pos' = From' /\ errors' \in Nat
  BY <1>1, <1>2, <1>3
<1>. QED  BY <1>1, <1>4, <1>5 DEF DeliveryInv, NothingSent, Delivering, CurrentLine, AnswerArrives

LEMMA SeekDelivery ==
  ASSUME Inv, DeliveryInv, IoctlSeek
  PROVE  DeliveryInv'
<1>1. /\ pc = "device" /\ seek_to # NotCtrl
      /\ UNCHANGED <<received, send_offset, out, errors, seek_to, device>>
      /\ \/ seek_to.write_cmd < Len(device) /\ pos' = SeekPos(seek_to) /\ pc' = "getline"
         \/ pc' = "refused"
  BY DEF IoctlSeek, sendVars
<1>2. received = <<>> /\ errors = 0 /\ out = <<>> /\ send_offset = 0
  BY <1>1 DEF Inv, NotYetSending, DeliveryInv, NothingSent
<1>3. CASE pc' = "refused"
  BY <1>1, <1>3 DEF DeliveryInv, NothingSent, Delivering, CurrentLine, AnswerArrives
<1>4. CASE seek_to.write_cmd < Len(device) /\ pos' = SeekPos(seek_to) /\ pc' = "getline"
  <2>1. SeekPos(seek_to) \in Nat
    BY <1>1, <1>4, SeekPosType DEF Inv, Typed
  <2>2. From' = SeekPos(seek_to)
    <3>1. From' = From
      BY <1>1, SamePlace
    <3>. QED  BY <1>1, <3>1 DEF From
  <2>3. Delivered(received, send_offset)'
    BY <1>1, <1>2, <1>4, <2>1, <2>2, DeliveryStarts
  <2>4. From' \in Nat /\ From' <= pos' /\ pos' = From' /\ errors' \in Nat
    BY <1>1, <1>2, <1>4, <2>1, <2>2
  <2>. QED  BY <1>4, <2>3, <2>4 DEF DeliveryInv, NothingSent, Delivering, CurrentLine, AnswerArrives
<1>. QED  BY <1>1, <1>3, <1>4

LEMMA GetlineDelivery ==
  ASSUME Inv, DeliveryInv, Getline \/ GetlineFails
  PROVE  DeliveryInv'
<1>1. /\ pc = "getline" /\ UNCHANGED <<seek_to, device, received, errors>>
  BY GetlineEffect
<1>2. From' = From /\ Bytes' = Bytes
  BY <1>1, SamePlace
<1>3. /\ out' \in Seq(Octet) /\ Len(out') \in Nat
      /\ bytes_left' = Len(out') /\ send_offset' = 0 /\ pos' = pos + Len(out')
      /\ out' = <<>> => pc' = "done" /\ (errno' # "getline" => Len(Bytes) <= pos)
      /\ out' # <<>> => /\ pc' = "send" /\ pos' <= Len(Bytes)
                        /\ out' = SubSeq(Bytes, pos + 1, pos')
  BY GetlineEffect
<1>4. /\ pos \in Nat /\ Bytes \in Seq(Octet) /\ Len(Bytes) \in Nat
      /\ send_offset \in Int /\ send_offset = Len(out) /\ Len(out) \in Nat /\ errors \in Nat
  <2>1. bytes_left = 0
    BY <1>1 DEF Inv, SendingLine
  <2>. QED  BY <2>1, BytesType DEF Inv, Typed, TypeOK, DeliveryInv
<1>5. From \in Nat /\ From <= pos /\ (pos <= Len(Bytes) \/ pos = From)
  BY <1>1 DEF DeliveryInv, Delivering
<1>6. PICK D \in SUBSET (1 .. Len(received)), h \in 0 .. Len(out) : Marked(received, send_offset, D, h)
  BY <1>1 DEF DeliveryInv, Delivering, Delivered
<1>7. IsFiniteSet(D) /\ Cardinality(D) = errors /\ Without(received, D) = SubSeq(Bytes, From + 1, pos)
  <2>1. Cardinality(D) \in Nat /\ IsFiniteSet(D)
    BY <1>6, FS_CardinalityType DEF Marked
  <2>2. h = Len(out) /\ Cardinality(D) + (h - send_offset) = errors
    BY <1>4, <1>6 DEF Marked
  <2>3. pos - Len(out) + h = pos
    BY <1>4, <2>2
  <2>. QED  BY <1>4, <1>6, <2>1, <2>2, <2>3 DEF Marked
<1>8. CASE out' = <<>>
  <2>1. ASSUME errno' # "getline"
        PROVE  SubSeq(Bytes, From + 1, pos) = SubSeq(Bytes, From + 1, Len(Bytes))
    <3>1. CASE pos <= Len(Bytes)
      <4>1. pos = Len(Bytes)
        BY <1>3, <1>4, <1>8, <2>1, <3>1
      <4>. QED  BY <4>1
    <3>2. CASE ~(pos <= Len(Bytes))
      <4>1. pos = From /\ From \in Int /\ From + 1 \in Int /\ From < From + 1 /\ Len(Bytes) < From + 1 /\ Len(Bytes) \in Int
        BY <1>4, <1>5, <3>2
      <4>. QED  BY <4>1, SubSeqEmpty
    <3>. QED  BY <3>1, <3>2
  <2>2. Answer' = SubSeq(Bytes, From + 1, Len(Bytes))
    <3>1. Answer' = SubSeq(Bytes', From' + 1, Len(Bytes'))
      BY DEF Answer, From
    <3>. QED  BY <1>2, <3>1
  <2>3. DOMAIN received = 1 .. Len(received)
    BY DEF Inv, Typed, TypeOK
  <2>4. D \in kSubset(errors', DOMAIN received')
    BY <1>1, <1>6, <1>7, <2>3 DEF kSubset
  <2>5. /\ IsPrefix(Without(received', D), Answer')
        /\ errno' # "getline" => Without(received', D) = Answer'
    <3>1. IsPrefix(SubSeq(Bytes, From + 1, pos), SubSeq(Bytes, From + 1, Len(Bytes)))
      BY <1>4, <1>5, SlicePrefix
    <3>. QED  BY <1>1, <1>7, <2>1, <2>2, <3>1
  <2>6. AnswerArrives'
    BY <2>4, <2>5 DEF AnswerArrives
  <2>. QED  BY <1>1, <1>3, <1>4, <1>8, <2>6 DEF DeliveryInv, NothingSent, Delivering, CurrentLine
<1>9. CASE out' # <<>>
  <2>1. pos' - Len(out') = pos /\ pos' - Len(out') + 0 = pos
    BY <1>3, <1>4
  <2>2. Marked(received, send_offset, D, 0)'
    <3>1. 0 <= 0 /\ Cardinality(D) + (0 - 0) = errors
      BY <1>4, <1>7
    <3>2. Without(received', D) = SubSeq(Bytes', From' + 1, pos' - Len(out') + 0)
      BY <1>1, <1>2, <1>7, <2>1
    <3>. QED  BY <1>1, <1>3, <1>7, <3>1, <3>2 DEF Marked
  <2>3. Delivered(received, send_offset)'
    <3>1. D \in SUBSET (1 .. Len(received')) /\ 0 \in 0 .. Len(out')
      BY <1>1, <1>3, <1>6
    <3>. QED  BY <2>2, <3>1 DEF Delivered
  <2>4. From <= pos' /\ From + Len(out') <= pos'
    BY <1>3, <1>4, <1>5
  <2>5. CurrentLine'
    BY <1>2, <1>3, <1>9, <2>1, <2>4 DEF CurrentLine
  <2>6. Delivering'
    BY <1>2, <1>3, <1>5, <1>9, <2>3, <2>4 DEF Delivering
  <2>. QED  BY <1>1, <1>3, <1>4, <1>9, <2>5, <2>6 DEF DeliveryInv, NothingSent, AnswerArrives
<1>. QED  BY <1>8, <1>9

LEMMA SendDelivery ==
  ASSUME Inv, DeliveryInv, SendSome
  PROVE  DeliveryInv'
<1>1. PICK n \in 1 .. bytes_left :
        /\ received' = received \o [i \in 1 .. n |-> ByteOfLine(send_offset + i)]
        /\ send_offset' = send_offset + n
  BY DEF SendSome, Sent
<1>2. /\ pc = "send" /\ pc' \in {"getline", "send"}
      /\ UNCHANGED <<seek_to, out, device, pos, errors>>
  BY DEF SendSome, devVars
<1>3. From' = From /\ Bytes' = Bytes
  BY <1>2, SamePlace
<1>4. n \in Nat /\ n <= bytes_left
  BY DEF Inv, Typed
<1>5. Delivered(received', send_offset')
  BY <1>1, <1>2, <1>4, BytesSent
<1>6. Delivered(received, send_offset)'
  BY <1>2, <1>3, <1>5 DEF Delivered, Marked
<1>7. Delivering'
  BY <1>2, <1>3, <1>6 DEF DeliveryInv, Delivering
<1>8. CurrentLine'
  BY <1>2, <1>3 DEF DeliveryInv, CurrentLine
<1>. QED  BY <1>2, <1>7, <1>8 DEF DeliveryInv, NothingSent, AnswerArrives

LEMMA FailDelivery ==
  ASSUME Inv, DeliveryInv, SendFails
  PROVE  DeliveryInv'
<1>1. /\ pc = "send" /\ pc' = "send" /\ send_offset' = send_offset + (-1) /\ errors' = errors + 1
      /\ UNCHANGED <<seek_to, out, device, pos, received>>
  BY DEF SendFails, Sent, devVars
<1>2. From' = From /\ Bytes' = Bytes
  BY <1>1, SamePlace
<1>3. send_offset \in Int /\ errors \in Nat /\ Len(out) \in Nat
  BY DEF Inv, Typed, DeliveryInv
<1>4. PICK D \in SUBSET (1 .. Len(received)), h \in 0 .. Len(out) : Marked(received, send_offset, D, h)
  BY <1>1 DEF DeliveryInv, Delivering, Delivered
<1>5. Cardinality(D) \in Nat /\ h \in Int
  BY <1>3, <1>4, FS_CardinalityType DEF Marked
<1>6. send_offset' <= h /\ Cardinality(D) + (h - send_offset') = errors'
  BY <1>1, <1>3, <1>4, <1>5 DEF Marked
<1>7. Marked(received, send_offset, D, h)'
  BY <1>1, <1>2, <1>4, <1>6 DEF Marked
<1>8. Delivered(received, send_offset)'
  BY <1>1, <1>4, <1>7 DEF Delivered
<1>9. Delivering' /\ CurrentLine' /\ errors' \in Nat
  BY <1>1, <1>2, <1>3, <1>8 DEF DeliveryInv, Delivering, CurrentLine
<1>. QED  BY <1>1, <1>9 DEF DeliveryInv, NothingSent, AnswerArrives

LEMMA StutterDelivery ==
  ASSUME Inv, DeliveryInv, UNCHANGED vars
  PROVE  DeliveryInv'
<1>1. UNCHANGED <<pc, seek_to, device, received, errors, out, send_offset, pos, errno>>
  BY DEF vars, sendVars, devVars
<1>2. From' = From /\ Bytes' = Bytes
  BY <1>1, SamePlace
<1>3. Delivering'
  BY <1>1, <1>2 DEF DeliveryInv, Delivering, Delivered, Marked
<1>4. AnswerArrives'
  <2>1. Answer' = Answer
    BY <1>1, <1>2 DEF Answer, SeekPos
  <2>. QED  BY <1>1, <2>1 DEF DeliveryInv, AnswerArrives
<1>. QED  BY <1>1, <1>2, <1>3, <1>4 DEF DeliveryInv, NothingSent, CurrentLine

(***************************************************************************)
(* However send cuts the answer and however often it fails, the client     *)
(* receives the bytes of the device in order, and exactly one extra byte   *)
(* per send that failed; they are all of them unless getline has failed    *)
(* (send_file, sock_thread.c:70-95).                                       *)
(***************************************************************************)
THEOREM EveryByteArrives == Spec => []AnswerArrives
<1>1. Init => DeliveryInv
  BY DEF Init, DeliveryInv, NothingSent, Delivering, CurrentLine, AnswerArrives
<1>2. Inv /\ DeliveryInv /\ [Next]_vars => DeliveryInv'
  BY QuietDelivery, AppendDelivery, SeekDelivery, GetlineDelivery, SendDelivery, FailDelivery,
     StutterDelivery DEF Next
<1>3. DeliveryInv => AnswerArrives
  BY DEF DeliveryInv
<1>. QED  BY Invariance, <1>1, <1>2, <1>3, PTL DEF Spec

-----------------------------------------------------------------------------
(***************************************************************************)
(* The powers of ten: the recursive function TenTo exists.                 *)
(***************************************************************************)
Tens(f, n) == f \in [0 .. n -> Nat] /\ f[0] = 1 /\ \A i \in 1 .. n : f[i] = 10 * f[i - 1]

LEMMA TensExist == ASSUME NEW n \in Nat PROVE \E f : Tens(f, n)
<1> DEFINE D == {k \in Nat : ~\E f : Tens(f, k)}
<1> SUFFICES ASSUME D # {} PROVE FALSE
  OBVIOUS
<1>1. PICK m \in D : \A k \in D : m <= k
  BY LeastElement
<1>2. m # 0
  <2>1. Tens([i \in 0 .. 0 |-> 1], 0)
    BY DEF Tens
  <2>. QED  BY <2>1
<1>3. m \in Nat /\ m - 1 \in Nat /\ m - 1 \notin D
  BY <1>1, <1>2
<1>4. PICK f : Tens(f, m - 1)
  BY <1>3
<1> HIDE DEF D
<1> DEFINE g == [i \in 0 .. m |-> IF i < m THEN f[i] ELSE 10 * f[m - 1]]
<1>5. f \in [0 .. m - 1 -> Nat] /\ f[0] = 1 /\ \A i \in 1 .. m - 1 : f[i] = 10 * f[i - 1]
  BY <1>4 DEF Tens
<1>6. g \in [0 .. m -> Nat] /\ g[0] = 1
  BY <1>2, <1>3, <1>5
<1>7. ASSUME NEW i \in 1 .. m PROVE g[i] = 10 * g[i - 1]
  <2>1. i - 1 \in 0 .. m /\ i - 1 < m
    BY <1>3
  <2>2. g[i - 1] = f[i - 1]
    BY <2>1
  <2>3. CASE i < m
    BY <1>3, <1>5, <2>2, <2>3
  <2>4. CASE i = m
    BY <1>3, <2>2, <2>4
  <2>. QED  BY <1>3, <2>3, <2>4
<1> HIDE DEF g
<1>8. Tens(g, m)
  BY <1>6, <1>7 DEF Tens
<1>. QED  BY <1>1, <1>8 DEF D

LEMMA TensAgree ==
  ASSUME NEW n \in Nat, NEW m \in Nat, NEW f, NEW g, Tens(f, n), Tens(g, m), NEW i \in 0 .. n, i <= m
  PROVE  f[i] = g[i]
<1> DEFINE D == {k \in Nat : k <= n /\ k <= m /\ f[k] # g[k]}
<1> SUFFICES ASSUME D # {} PROVE FALSE
  OBVIOUS
<1>1. PICK k \in D : \A j \in D : k <= j
  BY LeastElement
<1>2. k \in Nat /\ k <= n /\ k <= m /\ f[k] # g[k]
  OBVIOUS
<1>3. k # 0
  BY <1>2 DEF Tens
<1>4. k - 1 \in Nat /\ k - 1 <= n /\ k - 1 <= m /\ k - 1 \notin D /\ k \in 1 .. n /\ k \in 1 .. m
  <2> HIDE DEF D
  <2>. QED  BY <1>1, <1>2, <1>3
<1>5. f[k - 1] = g[k - 1]
  BY <1>4
<1> HIDE DEF D
<1>6. f[k] = 10 * f[k - 1] /\ g[k] = 10 * g[k - 1]
  BY <1>4 DEF Tens
<1>. QED  BY <1>2, <1>5, <1>6

LEMMA TenToIs ==
  /\ TenTo[0] = 1
  /\ \A n \in Nat : TenTo[n] \in Nat /\ TenTo[n + 1] = 10 * TenTo[n]
<1> DEFINE F == [n \in Nat |-> (CHOOSE h : Tens(h, n))[n]]
<1>1. ASSUME NEW n \in Nat PROVE \A m \in Nat : \A g : Tens(g, m) /\ n <= m => F[n] = g[n]
  <2>1. Tens(CHOOSE h : Tens(h, n), n)
    BY TensExist
  <2> DEFINE f == CHOOSE h : Tens(h, n)
  <2> HIDE DEF f
  <2>2. Tens(f, n)
    BY <2>1 DEF f
  <2>3. F[n] = f[n]
    BY DEF f
  <2> HIDE DEF F
  <2>. QED  BY <2>2, <2>3, TensAgree
<1>2. F[0] = 1
  <2>1. PICK g : Tens(g, 0)
    BY TensExist
  <2>. QED  BY <1>1, <2>1 DEF Tens
<1>3. ASSUME NEW n \in Nat PROVE F[n] \in Nat /\ F[n + 1] = 10 * F[n]
  <2>1. PICK g : Tens(g, n + 1)
    BY TensExist
  <2>2. F[n] = g[n] /\ F[n + 1] = g[n + 1]
    <3> HIDE DEF F
    <3>. QED  BY <1>1, <2>1
  <2>3. g[n] \in Nat /\ g[n + 1] = 10 * g[(n + 1) - 1]
    BY <2>1 DEF Tens
  <2> HIDE DEF F
  <2>. QED  BY <2>2, <2>3
<1>4. F = [n \in Nat |-> IF n = 0 THEN 1 ELSE 10 * F[n - 1]]
  <2>1. F = [n \in Nat |-> F[n]]
    OBVIOUS
  <2> HIDE DEF F
  <2>2. ASSUME NEW n \in Nat PROVE F[n] = IF n = 0 THEN 1 ELSE 10 * F[n - 1]
    <3>1. CASE n = 0
      BY <1>2, <3>1
    <3>2. CASE n # 0
      <4>1. n - 1 \in Nat /\ (n - 1) + 1 = n
        BY <3>2
      <4>. QED  BY <1>3, <3>2, <4>1
    <3>. QED  BY <3>1, <3>2
  <2>. QED  BY <2>1, <2>2
<1> HIDE DEF F
<1> DEFINE T == CHOOSE f : f = [n \in Nat |-> IF n = 0 THEN 1 ELSE 10 * f[n - 1]]
<1>5. TenTo = T
  BY DEF TenTo
<1>6. T = [n \in Nat |-> IF n = 0 THEN 1 ELSE 10 * T[n - 1]]
  BY <1>4
<1> HIDE DEF T
<1>7. T[0] = 1
  BY <1>6
<1>8. ASSUME NEW n \in Nat PROVE T[n + 1] = 10 * T[n]
  BY <1>6
<1>9. ASSUME NEW n \in Nat PROVE T[n] \in Nat
  <2> DEFINE D == {k \in Nat : T[k] \notin Nat}
  <2> SUFFICES ASSUME D # {} PROVE FALSE
    OBVIOUS
  <2>1. PICK k \in D : \A j \in D : k <= j
    BY LeastElement
  <2>2. k \in Nat /\ T[k] \notin Nat
    OBVIOUS
  <2>3. k - 1 \in Nat /\ k - 1 \notin D /\ (k - 1) + 1 = k
    <3>1. k # 0
      BY <1>7, <2>2
    <3> HIDE DEF D
    <3>. QED  BY <2>1, <2>2, <3>1
  <2>4. T[k - 1] \in Nat
    BY <2>3
  <2> HIDE DEF D
  <2>5. T[(k - 1) + 1] = 10 * T[k - 1]
    BY <1>8, <2>3
  <2>6. T[k] = 10 * T[k - 1]
    BY <2>3, <2>5
  <2>. QED  BY <2>2, <2>4, <2>6
<1>. QED  BY <1>5, <1>7, <1>8, <1>9

-----------------------------------------------------------------------------
\* A sum of which each part is ten times as large.
LEMMA SumTimesTen ==
  ASSUME NEW X, IsFiniteSet(X), NEW Y, IsFiniteSet(Y), NEW f \in [X -> Nat], NEW g \in [Y -> Nat],
         NEW S \in SUBSET (X \cap Y), \A x \in S : g[x] = 10 * f[x]
  PROVE  SumFunctionOnSet(g, S) = 10 * SumFunctionOnSet(f, S)
<1> DEFINE D == {k \in Nat : \E r \in SUBSET S : /\ Cardinality(r) = k
                                                 /\ SumFunctionOnSet(g, r) # 10 * SumFunctionOnSet(f, r)}
<1>0. IsFiniteSet(S)
  BY FS_Subset
<1>1. D = {}
  <2> SUFFICES ASSUME D # {} PROVE FALSE
    OBVIOUS
  <2>1. PICK k \in D : \A j \in D : k <= j
    <3>1. D \in SUBSET Nat
      OBVIOUS
    <3>. QED  BY <3>1, LeastElement
  <2>2. PICK r \in SUBSET S : Cardinality(r) = k /\ SumFunctionOnSet(g, r) # 10 * SumFunctionOnSet(f, r)
    OBVIOUS
  <2>3. r # {}
    <3>1. SumFunctionOnSet(g, {}) = 0 /\ SumFunctionOnSet(f, {}) = 0
      BY SumEmpty
    <3>2. 10 * 0 = 0
      OBVIOUS
    <3> HIDE DEF D
    <3>. QED  BY <2>2, <3>1, <3>2
  <2>4. PICK x \in r : TRUE
    BY <2>3
  <2> DEFINE q == r \ {x}
  <2>5. q \in SUBSET S /\ Cardinality(q) = k - 1 /\ k - 1 \in Nat
    <3>1. Cardinality(q) \in Nat /\ Cardinality(r \ {x}) = Cardinality(r) - 1
      BY <1>0, <2>4, FiniteSubset
    <3>2. q \in SUBSET S
      OBVIOUS
    <3> HIDE DEF q, D
    <3>. QED  BY <2>2, <3>1, <3>2 DEF q
  <2>6. k - 1 \notin D
    <3>1. k \in Nat
      OBVIOUS
    <3> HIDE DEF D
    <3>. QED  BY <2>1, <2>5, <3>1
  <2>7. SumFunctionOnSet(g, q) = 10 * SumFunctionOnSet(f, q)
    BY <2>5, <2>6
  <2> HIDE DEF D
  <2>8. r \in SUBSET X /\ r \in SUBSET Y /\ q \in SUBSET X
    OBVIOUS
  <2>9. SumFunctionOnSet(f, r) = f[x] + SumFunctionOnSet(f, q)
    BY <2>8, SumRemove
  <2>10. SumFunctionOnSet(g, r) = g[x] + SumFunctionOnSet(g, q)
    BY <2>8, SumRemove
  <2>11. SumFunctionOnSet(f, q) \in Nat
    BY <2>8, SumType
  <2>12. f[x] \in Nat /\ g[x] = 10 * f[x]
    OBVIOUS
  <2> HIDE DEF q
  <2>. QED  BY <2>2, <2>7, <2>9, <2>10, <2>11, <2>12
<1>2. Cardinality(S) \in Nat
  BY <1>0, FS_CardinalityType
<1>. QED  BY <1>1, <1>2

\* The first k digits of t, with their weights.
Weighted(t, k) == [i \in 1 .. k |-> (t[i] - 48) * TenTo[k - i]]

LEMMA WeightedType ==
  ASSUME NEW t \in Seq(Digit), NEW k \in 0 .. Len(t)
  PROVE  Weighted(t, k) \in [1 .. k -> Nat]
<1>1. ASSUME NEW i \in 1 .. k PROVE (t[i] - 48) * TenTo[k - i] \in Nat
  <2>1. t[i] - 48 \in Nat
    BY DEF Digit
  <2>2. TenTo[k - i] \in Nat
    BY TenToIs
  <2>3. ASSUME NEW a \in Nat, NEW b \in Nat PROVE a * b \in Nat
    OBVIOUS
  <2>. QED  BY <2>1, <2>2, <2>3
<1>. QED  BY <1>1 DEF Weighted

\* One digit more.
LEMMA WeightedSum ==
  ASSUME NEW t \in Seq(Digit), NEW k \in 0 .. Len(t) - 1
  PROVE  /\ SumFunctionOnSet(Weighted(t, k), 1 .. k) \in Nat
         /\ SumFunctionOnSet(Weighted(t, k + 1), 1 .. k + 1)
              = 10 * SumFunctionOnSet(Weighted(t, k), 1 .. k) + t[k + 1] - 48
<1> DEFINE f == Weighted(t, k)
           g == Weighted(t, k + 1)
           A == 1 .. k
           B == 1 .. k + 1
<1>1. Len(t) \in Nat /\ k \in Nat /\ k + 1 \in 1 .. Len(t)
  OBVIOUS
<1>2. f \in [A -> Nat] /\ g \in [B -> Nat]
  BY <1>1, WeightedType
<1>3. IsFiniteSet(A) /\ IsFiniteSet(B)
  BY <1>1, FS_Interval
<1>4. A \cap B = A /\ A \in SUBSET B /\ k + 1 \in B /\ k + 1 \notin A /\ A \cup {k + 1} = B
  BY <1>1
<1>5. ASSUME NEW i \in A PROVE g[i] = 10 * f[i]
  <2>1. k - i \in Nat /\ (k + 1) - i = (k - i) + 1 /\ i \in B /\ t[i] - 48 \in Int
    <3>1. t[i] \in Digit
      BY <1>1
    <3>. QED  BY <1>1, <3>1 DEF Digit
  <2>2. TenTo[(k - i) + 1] = 10 * TenTo[k - i] /\ TenTo[k - i] \in Nat
    BY <2>1, TenToIs
  <2>3. f[i] = (t[i] - 48) * TenTo[k - i] /\ g[i] = (t[i] - 48) * TenTo[(k + 1) - i]
    BY <2>1 DEF Weighted
  <2>4. ASSUME NEW a \in Int, NEW b \in Nat PROVE a * (10 * b) = 10 * (a * b)
    OBVIOUS
  <2> HIDE DEF f, g
  <2>. QED  BY <2>1, <2>2, <2>3, <2>4
<1>6. g[k + 1] = t[k + 1] - 48
  <2>1. (k + 1) - (k + 1) = 0 /\ k + 1 \in B /\ t[k + 1] - 48 \in Int
    <3>1. t[k + 1] \in Digit
      BY <1>1
    <3>. QED  BY <1>1, <3>1 DEF Digit
  <2>2. g[k + 1] = (t[k + 1] - 48) * TenTo[(k + 1) - (k + 1)]
    BY <2>1 DEF Weighted
  <2>3. ASSUME NEW a \in Int PROVE a * 1 = a
    OBVIOUS
  <2> HIDE DEF g
  <2>. QED  BY <2>1, <2>2, <2>3, TenToIs
<1> HIDE DEF f, g, A, B
<1>7. SumFunctionOnSet(f, A) \in Nat
  BY <1>2, <1>3, SumType
<1>8. SumFunctionOnSet(g, A) = 10 * SumFunctionOnSet(f, A)
  BY <1>2, <1>3, <1>4, <1>5, SumTimesTen
<1>9. SumFunctionOnSet(g, A \cup {k + 1}) = g[k + 1] + SumFunctionOnSet(g, A)
  BY <1>2, <1>3, <1>4, SumInsert
<1>10. t[k + 1] \in Int
  <2>1. t[k + 1] \in Digit
    BY <1>1
  <2>. QED  BY <2>1 DEF Digit
<1>11. SumFunctionOnSet(g, B) = 10 * SumFunctionOnSet(f, A) + t[k + 1] - 48
  <2>1. SumFunctionOnSet(g, B) = (t[k + 1] - 48) + 10 * SumFunctionOnSet(f, A)
    BY <1>4, <1>6, <1>8, <1>9
  <2>2. ASSUME NEW a \in Int, NEW b \in Nat PROVE (a - 48) + 10 * b = 10 * b + a - 48
    OBVIOUS
  <2>. QED  BY <1>7, <1>10, <2>1, <2>2
<1>. QED  BY <1>7, <1>11 DEF f, g, A, B

\* What atoi folds over the digits is the number they stand for.
LEMMA DigitsValue ==
  ASSUME NEW t \in Seq(Digit), NEW g, \A s \in SUBSET (1 .. Len(t)) : DigitStep(g, t, s),
         NEW n \in 0 .. Len(t)
  PROVE  g[1 .. n] = SumFunctionOnSet(Weighted(t, n), 1 .. n)
<1> DEFINE D == {k \in 0 .. Len(t) : g[1 .. k] # SumFunctionOnSet(Weighted(t, k), 1 .. k)}
<1>0. Len(t) \in Nat
  OBVIOUS
<1> SUFFICES ASSUME D # {} PROVE FALSE
  OBVIOUS
<1>1. PICK k \in D : \A j \in D : k <= j
  <2>1. D \in SUBSET Nat
    BY <1>0
  <2>. QED  BY <2>1, LeastElement
<1>2. k \in 0 .. Len(t) /\ g[1 .. k] # SumFunctionOnSet(Weighted(t, k), 1 .. k)
  OBVIOUS
<1> HIDE DEF D
<1>3. DigitStep(g, t, 1 .. k)
  BY <1>0, <1>2
<1>4. CASE k = 0
  <2>1. 1 .. k = {}
    BY <1>4
  <2>2. g[1 .. k] = 0
    BY <1>3, <2>1 DEF DigitStep
  <2>. QED  BY <1>2, <2>1, <2>2, SumEmpty
<1>5. CASE k # 0
  <2> DEFINE j == k - 1
  <2>1. j \in 0 .. Len(t) - 1 /\ j \in 0 .. Len(t) /\ j \notin D /\ k = j + 1 /\ j \in Nat
    BY <1>0, <1>1, <1>2, <1>5
  <2> HIDE DEF j
  <2>2. g[1 .. j] = SumFunctionOnSet(Weighted(t, j), 1 .. j)
    BY <2>1 DEF D
  <2>3. Max(1 .. k) = k
    <3>1. 1 .. k \in SUBSET Nat /\ k \in 1 .. k /\ k \in Nat /\ \A i \in 1 .. k : i <= k
      BY <1>0, <1>2, <1>5
    <3>2. Max(1 .. k) \in 1 .. k /\ \A i \in 1 .. k : i <= Max(1 .. k)
      BY <3>1, MaxExists
    <3>. QED  BY <3>1, <3>2
  <2>4. (1 .. k) \ {k} = 1 .. j /\ 1 .. k # {}
    <3>1. ASSUME NEW i \in Nat PROVE (1 .. i + 1) \ {i + 1} = 1 .. i /\ i + 1 \in 1 .. i + 1
      OBVIOUS
    <3>. QED  BY <2>1, <3>1
  <2>5. g[1 .. k] = 10 * g[1 .. j] + t[k] - 48
    BY <1>3, <2>3, <2>4 DEF DigitStep
  <2>6. SumFunctionOnSet(Weighted(t, j + 1), 1 .. j + 1)
          = 10 * SumFunctionOnSet(Weighted(t, j), 1 .. j) + t[j + 1] - 48
    BY <2>1, WeightedSum
  <2>. QED  BY <1>2, <2>1, <2>2, <2>5, <2>6
<1>. QED  BY <1>4, <1>5

LEMMA NumberIs ==
  ASSUME NEW t \in Seq(Digit)
  PROVE  /\ Number(t) = SumFunctionOnSet(Weighted(t, Len(t)), 1 .. Len(t))
         /\ Number(t) \in Nat
<1>1. Len(t) \in Nat /\ DOMAIN t = 1 .. Len(t)
  OBVIOUS
<1>2. [i \in DOMAIN t |-> (t[i] - 48) * TenTo[Len(t) - i]] = Weighted(t, Len(t))
  BY <1>1 DEF Weighted
<1>3. Weighted(t, Len(t)) \in [1 .. Len(t) -> Nat]
  BY <1>1, WeightedType
<1>4. DOMAIN Weighted(t, Len(t)) = 1 .. Len(t)
  BY <1>3
<1>5. Number(t) = SumFunctionOnSet(Weighted(t, Len(t)), 1 .. Len(t))
  BY <1>2, <1>4 DEF Number, SumFunction
<1>6. IsFiniteSet(1 .. Len(t))
  BY <1>1, FS_Interval
<1>. QED  BY <1>3, <1>5, <1>6, SumType

\* Among a string of digits atoi finds no white space and no sign.
LEMMA SpanAll ==
  ASSUME NEW s \in Seq(Octet), NEW S, \A i \in 1 .. Len(s) : s[i] \in S
  PROVE  Span(s, S) = Len(s)
<1> DEFINE K == {k \in 0 .. Len(s) : \A i \in 1 .. k : s[i] \in S}
<1>1. Len(s) \in Nat /\ K \in SUBSET Nat /\ Len(s) \in K /\ \A k \in K : k <= Len(s)
  OBVIOUS
<1>2. Max(K) \in K /\ \A k \in K : k <= Max(K)
  BY <1>1, MaxExists
<1>3. Span(s, S) = Max(K)
  BY DEF Span
<1> HIDE DEF K
<1>4. Max(K) \in Nat /\ Max(K) <= Len(s) /\ Len(s) <= Max(K)
  BY <1>1, <1>2
<1>. QED  BY <1>1, <1>3, <1>4

LEMMA SpanNone ==
  ASSUME NEW s \in Seq(Octet), NEW S, s # <<>>, s[1] \notin S
  PROVE  Span(s, S) = 0
<1> DEFINE K == {k \in 0 .. Len(s) : \A i \in 1 .. k : s[i] \in S}
<1>1. K = {0}
  <2>1. Len(s) \in Nat
    OBVIOUS
  <2>2. ASSUME NEW k \in K PROVE k = 0
    BY <2>1
  <2>3. 0 \in K
    BY <2>1
  <2>. QED  BY <2>2, <2>3
<1>2. Span(s, S) = Max(K)
  BY DEF Span
<1> HIDE DEF K
<1>3. K \in SUBSET Nat /\ K # {} /\ 0 \in Nat /\ \A n \in K : n <= 0
  BY <1>1
<1>4. Max(K) \in K
  BY <1>3, MaxExists
<1>. QED  BY <1>1, <1>2, <1>4

LEMMA ClampNat ==
  ASSUME NEW v \in Nat
  PROVE  Clamp(v, LongBits) = Min({v, LONG_MAX})
<1> DEFINE p == 2^(LongBits - 1)
           m == Min({v, p - 1})
<1>1. p \in Nat \ {0}
  BY WidthAssumption
<1>2. Clamp(v, LongBits) = Max({-p, m}) /\ Min({v, LONG_MAX}) = m
  BY DEF Clamp, LONG_MAX
<1> HIDE DEF p
<1>3. {v, p - 1} \in SUBSET Nat
  BY <1>1
<1>4. m \in Nat
  BY <1>3, MinExists
<1> HIDE DEF m
<1>5. Max({-p, m}) = m
  <2>1. -p \in Int /\ -p <= m
    BY <1>1, <1>4
  <2>2. \E x \in {-p, m} : \A y \in {-p, m} : x >= y
    BY <1>4, <2>1
  <2>3. Max({-p, m}) \in {-p, m} /\ \A y \in {-p, m} : Max({-p, m}) >= y
    BY <2>2 DEF Max
  <2>. QED  BY <1>4, <2>1, <2>3
<1>. QED  BY <1>2, <1>5

LEMMA AtoiDigits ==
  ASSUME NEW s \in Seq(Octet), AllDigits(s)
  PROVE  atoi(s) = Min({Number(s), LONG_MAX})
<1> DEFINE text   == SubSeq(s, Span(s, (9 .. 13) \cup {32}) + 1, Len(s))
           signed == text # <<>> /\ text[1] \in {43, 45}
           number == IF signed THEN Tail(text) ELSE text
           digits == SubSeq(number, 1, Span(number, Digit))
           value  == FoldLeft(LAMBDA v, d : 10 * v + d - 48, 0, digits)
<1>1. s # <<>> /\ Len(s) \in Nat \ {0} /\ \A i \in 1 .. Len(s) : s[i] \in Digit
  BY DEF AllDigits
<1>2. atoi(s) = Clamp(IF signed /\ text[1] = 45 THEN -value ELSE value, LongBits)
  BY DEF atoi, DecimalValue
<1>3. SubSeq(s, 1, Len(s)) = s
  OBVIOUS
<1>4. text = s
  <2>1. s[1] \in Digit
    BY <1>1
  <2>2. s[1] \notin (9 .. 13) \cup {32}
    BY <2>1 DEF Digit
  <2>3. Span(s, (9 .. 13) \cup {32}) = 0
    BY <1>1, <2>2, SpanNone
  <2>4. SubSeq(s, 0 + 1, Len(s)) = s
    BY <1>3
  <2>. QED  BY <2>3, <2>4
<1> HIDE DEF text
<1>5. ~signed
  <2>1. s[1] \in Digit
    BY <1>1
  <2>. QED  BY <1>4, <2>1 DEF Digit
<1>6. number = s
  BY <1>4, <1>5
<1> HIDE DEF number
<1>7. digits = s
  <2>1. Span(s, Digit) = Len(s)
    BY <1>1, SpanAll
  <2>. QED  BY <1>3, <1>6, <2>1
<1> HIDE DEF digits
<1>8. value = Number(s) /\ Number(s) \in Nat
  <2>1. s \in Seq(Digit)
    BY <1>1
  <2>2. PICK g \in [SUBSET (1 .. Len(s)) -> Int] :
               /\ \A r \in SUBSET (1 .. Len(s)) : DigitStep(g, s, r)
               /\ FoldLeft(LAMBDA v, d : 10 * v + d - 48, 0, s) = g[1 .. Len(s)]
    BY DigitsFold
  <2>3. Len(s) \in 0 .. Len(s)
    BY <1>1
  <2>4. g[1 .. Len(s)] = SumFunctionOnSet(Weighted(s, Len(s)), 1 .. Len(s))
    BY <2>1, <2>2, <2>3, DigitsValue
  <2>5. value = FoldLeft(LAMBDA v, d : 10 * v + d - 48, 0, s)
    BY <1>7
  <2> HIDE DEF value
  <2>. QED  BY <2>1, <2>2, <2>4, <2>5, NumberIs
<1> HIDE DEF value, signed
<1>9. atoi(s) = Clamp(Number(s), LongBits)
  BY <1>2, <1>5, <1>8
<1>. QED  BY <1>8, <1>9, ClampNat

(***************************************************************************)
(* A line of the documented form: its first comma is the one between the   *)
(* two numbers.                                                            *)
(***************************************************************************)
SeekLine(P, X, Y) == P \o X \o <<COMMA>> \o Y \o <<NL>>

\* Where the parts of such a line are.
Laid(l, P, X, Y) ==
  /\ Len(l) = Len(P) + Len(X) + 1 + Len(Y) + 1
  /\ \A j \in 1 .. Len(P) : l[j] = P[j]
  /\ \A j \in 1 .. Len(X) : l[Len(P) + j] = X[j]
  /\ l[Len(P) + Len(X) + 1] = COMMA
  /\ l[Len(l)] = NL

LEMMA ConcatOne ==
  ASSUME NEW S, NEW p \in Seq(S), NEW x \in S, NEW q, q = p \o <<x>>
  PROVE  /\ q \in Seq(S) /\ Len(q) = Len(p) + 1 /\ q[Len(p) + 1] = x
         /\ \A k \in 1 .. Len(p) : q[k] = p[k]
OBVIOUS

LEMMA ConcatTwo ==
  ASSUME NEW S, NEW p \in Seq(S), NEW r \in Seq(S), NEW q, q = p \o r
  PROVE  /\ q \in Seq(S) /\ Len(q) = Len(p) + Len(r)
         /\ \A k \in 1 .. Len(p) : q[k] = p[k]
         /\ \A k \in 1 .. Len(r) : q[Len(p) + k] = r[k]
OBVIOUS

LEMMA SeekLineParts ==
  ASSUME NEW P \in Seq(Octet), NEW X \in Seq(Octet), NEW Y \in Seq(Octet)
  PROVE  Laid(SeekLine(P, X, Y), P, X, Y)
<1> DEFINE a == P \o X
           b == a \o <<COMMA>>
           c == b \o Y
           l == SeekLine(P, X, Y)
<1>0. COMMA \in Octet /\ NL \in Octet
  BY DEF COMMA, NL, Octet
<1>2. l = c \o <<NL>>
  BY DEF SeekLine
<1> HIDE DEF c, l
<1>1. /\ a \in Seq(Octet) /\ Len(a) = Len(P) + Len(X)
      /\ \A j \in 1 .. Len(P) : a[j] = P[j]
      /\ \A j \in 1 .. Len(X) : a[Len(P) + j] = X[j]
  <2>1. a = P \o X
    OBVIOUS
  <2> HIDE DEF a
  <2>. QED  BY ONLY <2>1, P \in Seq(Octet), X \in Seq(Octet), ConcatTwo
<1> HIDE DEF a
<1>3. /\ b \in Seq(Octet) /\ Len(b) = Len(a) + 1 /\ b[Len(a) + 1] = COMMA
      /\ \A j \in 1 .. Len(a) : b[j] = a[j]
  <2>1. b = a \o <<COMMA>>
    OBVIOUS
  <2> HIDE DEF b
  <2>2. a \in Seq(Octet)
    BY <1>1
  <2>. QED  BY ONLY <1>0, <2>1, <2>2, ConcatOne
<1> HIDE DEF b
<1>4. /\ c \in Seq(Octet) /\ Len(c) = Len(b) + Len(Y)
      /\ \A j \in 1 .. Len(b) : c[j] = b[j]
  <2>1. c = b \o Y
    BY DEF c
  <2>2. b \in Seq(Octet)
    BY <1>3
  <2>. QED  BY ONLY <2>1, <2>2, Y \in Seq(Octet), ConcatTwo
<1>5. /\ Len(l) = Len(c) + 1 /\ l[Len(c) + 1] = NL
      /\ \A j \in 1 .. Len(c) : l[j] = c[j]
  <2>1. c \in Seq(Octet)
    BY <1>4
  <2>. QED  BY ONLY <1>0, <1>2, <2>1, ConcatOne
<1>6. Len(P) \in Nat /\ Len(X) \in Nat /\ Len(Y) \in Nat
  OBVIOUS
<1>7. ASSUME NEW j \in 1 .. Len(a) + 1 PROVE l[j] = b[j]
  BY <1>1, <1>3, <1>4, <1>5, <1>6
<1>8. ASSUME NEW j \in 1 .. Len(a) PROVE l[j] = a[j]
  BY <1>1, <1>3, <1>6, <1>7
<1>9. ASSUME NEW j \in 1 .. Len(P) PROVE l[j] = P[j]
  BY <1>1, <1>6, <1>8
<1>10. ASSUME NEW j \in 1 .. Len(X) PROVE l[Len(P) + j] = X[j]
  BY <1>1, <1>6, <1>8
<1>11. l[Len(P) + Len(X) + 1] = COMMA
  BY <1>1, <1>3, <1>6, <1>7
<1>12. Len(l) = Len(P) + Len(X) + 1 + Len(Y) + 1 /\ l[Len(l)] = NL
  BY <1>1, <1>3, <1>4, <1>5, <1>6
<1>. QED  BY <1>9, <1>10, <1>11, <1>12 DEF Laid, l

\* The bytes of l from one position to another.
LEMMA Middle ==
  ASSUME NEW l \in Seq(Octet), NEW m \in Nat \ {0}, NEW n \in Int, n <= Len(l), NEW s, s = SubSeq(l, m, n), s # <<>>
  PROVE  s \in Seq(Octet) /\ Len(s) = n - m + 1 /\ m <= n
<1>1. Len(l) \in Nat
  OBVIOUS
<1>2. m <= n
  <2> SUFFICES ASSUME n < m PROVE FALSE
    OBVIOUS
  <2>1. SubSeq(l, m, n) = <<>>
    OBVIOUS
  <2>. QED  BY <2>1
<1>3. \A j \in m .. n : l[j] \in Octet
  BY <1>1
<1>4. SubSeq(l, m, n) \in Seq(Octet) /\ Len(SubSeq(l, m, n)) = n - m + 1
  BY <1>1, <1>2, <1>3, SubSeqProperties
<1>. QED  BY <1>2, <1>4

LEMMA SeekLineComma ==
  ASSUME NEW l \in Seq(Octet), NEW i \in DOMAIN l, NEW X, NEW Y,
         X = SubSeq(l, Len(EMBED_CTRL_PREF) + 1, i - 1), Y = SubSeq(l, i + 1, Len(l) - 1),
         l = SeekLine(EMBED_CTRL_PREF, X, Y), AllDigits(X), AllDigits(Y)
  PROVE  /\ X \in Seq(Octet) /\ Y \in Seq(Octet)
         /\ Len(l) >= Len(EMBED_CTRL_PREF) + MIN_EMBED_PARAM_CHARS /\ Last(l) = NL
         /\ \A j \in 1 .. Len(EMBED_CTRL_PREF) : l[j] = EMBED_CTRL_PREF[j]
         /\ i \in Len(EMBED_CTRL_PREF) + 1 .. Len(l) /\ l[i] = COMMA
         /\ \A j \in Len(EMBED_CTRL_PREF) + 1 .. i - 1 : l[j] # COMMA
<1> DEFINE P == EMBED_CTRL_PREF
           p == Len(P)
<1>1. P \in Seq(Octet) /\ p \in Nat /\ Len(l) \in Nat /\ i \in 1 .. Len(l)
  BY ByteAssumption DEF Octet
<1>2. /\ X # <<>> /\ Y # <<>>
      /\ \A j \in DOMAIN X : X[j] \in Digit
  BY DEF AllDigits
<1>3. X \in Seq(Octet) /\ Len(X) = (i - 1) - (p + 1) + 1 /\ p + 1 <= i - 1
  <2>1. p + 1 \in Nat \ {0} /\ i - 1 \in Int /\ i - 1 <= Len(l)
    BY <1>1
  <2>. QED  BY ONLY <1>2, <2>1, l \in Seq(Octet), X = SubSeq(l, p + 1, i - 1), Middle
<1>4. Y \in Seq(Octet) /\ i + 1 <= Len(l) - 1
  <2>1. i + 1 \in Nat \ {0} /\ Len(l) - 1 \in Int /\ Len(l) - 1 <= Len(l)
    BY <1>1
  <2>. QED  BY ONLY <1>2, <2>1, l \in Seq(Octet), Y = SubSeq(l, i + 1, Len(l) - 1), Middle
<1>5. /\ Len(l) = p + Len(X) + 1 + Len(Y) + 1
      /\ \A j \in 1 .. p : l[j] = P[j]
      /\ \A j \in 1 .. Len(X) : l[p + j] = X[j]
      /\ l[p + Len(X) + 1] = COMMA
      /\ l[Len(l)] = NL
  <2>1. l = SeekLine(P, X, Y)
    OBVIOUS
  <2>2. P \in Seq(Octet) /\ X \in Seq(Octet) /\ Y \in Seq(Octet)
    BY <1>1, <1>3, <1>4
  <2> HIDE DEF P
  <2>3. Laid(l, P, X, Y)
    BY ONLY <2>1, <2>2, SeekLineParts
  <2>. QED  BY ONLY <2>3, Zenon DEF Laid, p
<1>6. Len(X) \in Nat /\ Len(Y) \in Nat /\ DOMAIN X = 1 .. Len(X)
  BY ONLY <1>3, <1>4
<1> HIDE DEF p, P
<1>7. i \in p + 1 .. Len(l) /\ p + Len(X) + 1 = i
  <2>1. p \in Int /\ Len(l) \in Int /\ i \in Int /\ Len(X) \in Int /\ i <= Len(l)
    BY ONLY <1>1, <1>6
  <2>2. Len(X) = (i - 1) - (p + 1) + 1 /\ p + 1 <= i - 1
    BY ONLY <1>3
  <2>. QED  BY ONLY <2>1, <2>2
<1>8. Len(l) >= p + MIN_EMBED_PARAM_CHARS
  BY ONLY <1>1, <1>3, <1>4 DEF MIN_EMBED_PARAM_CHARS
<1>9. ASSUME NEW j \in p + 1 .. i - 1 PROVE l[j] # COMMA
  <2>1. j - p \in 1 .. Len(X) /\ p + (j - p) = j
    BY ONLY <1>1, <1>3, <1>6, j \in p + 1 .. i - 1
  <2>2. l[p + (j - p)] = X[j - p] /\ X[j - p] \in Digit
    BY ONLY <1>2, <1>5, <1>6, <2>1
  <2>3. l[j] \in Digit
    BY ONLY <2>1, <2>2
  <2>. QED  BY ONLY <2>3 DEF Digit, COMMA
<1>. QED  BY ONLY <1>3, <1>4, <1>5, <1>7, <1>8, <1>9 DEF Last, p, P

\* What the two numbers of such a line ask for.
Meant(X, Y) == [write_cmd |-> Min({Number(X), LONG_MAX}) % 2^IntBits,
                write_cmd_offset |-> Min({Number(Y), LONG_MAX}) % 2^IntBits]

LEMMA ParseDocumented ==
  ASSUME NEW l \in Seq(Octet), NEW i \in DOMAIN l, NEW X, NEW Y,
         X = SubSeq(l, Len(EMBED_CTRL_PREF) + 1, i - 1), Y = SubSeq(l, i + 1, Len(l) - 1),
         l = SeekLine(EMBED_CTRL_PREF, X, Y), AllDigits(X), AllDigits(Y)
  PROVE  parse_ctrl_line(l) = Meant(X, Y)
<1> DEFINE P == EMBED_CTRL_PREF
           p == Len(P)
           commas == {j \in p + 1 .. Len(l) : l[j] = COMMA}
<1>1. P \in Seq(Octet) /\ p \in Nat /\ Len(l) \in Nat /\ p = Len(P)
  BY ByteAssumption DEF Octet
<1>2. /\ X \in Seq(Octet) /\ Y \in Seq(Octet)
      /\ Len(l) >= p + MIN_EMBED_PARAM_CHARS /\ Last(l) = NL
      /\ \A j \in 1 .. p : l[j] = P[j]
      /\ i \in p + 1 .. Len(l) /\ l[i] = COMMA
      /\ \A j \in p + 1 .. i - 1 : l[j] # COMMA
  BY SeekLineComma
<1>3. CtrlParams(l)
        = IF \/ Len(l) < p + MIN_EMBED_PARAM_CHARS \/ Last(l) # NL
             \/ ~IsPrefix(P, l) \/ commas = {}
            THEN NotCtrl
            ELSE <<SubSeq(l, p + 1, Min(commas) - 1), SubSeq(l, SecondStart(Min(commas)), Len(l) - 1)>>
  BY DEF CtrlParams
<1>4. X = SubSeq(l, p + 1, i - 1)
  OBVIOUS
<1> HIDE DEF p, P
<1>5. commas \in SUBSET Nat /\ i \in commas
  BY ONLY <1>1, <1>2
<1>6. \A j \in commas : i <= j
  <2> SUFFICES ASSUME NEW j \in commas, j < i PROVE FALSE
    BY ONLY <1>1, <1>2
  <2>1. j \in p + 1 .. i - 1 /\ l[j] = COMMA
    BY ONLY <1>1, <1>2, j \in commas, j < i
  <2>. QED  BY ONLY <1>2, <2>1
<1> HIDE DEF commas
<1>7. Min(commas) = i
  <2>1. Min(commas) \in commas /\ \A j \in commas : Min(commas) <= j
    BY ONLY <1>5, MinExists
  <2>2. Min(commas) \in Nat /\ i \in Nat /\ Min(commas) <= i /\ i <= Min(commas)
    BY ONLY <1>5, <1>6, <2>1
  <2>. QED  BY ONLY <2>2
<1>8. IsPrefix(P, l)
  <2>1. p <= Len(l)
    BY ONLY <1>1, <1>2 DEF MIN_EMBED_PARAM_CHARS
  <2>2. SubSeq(P, 1, p) = SubSeq(l, 1, p)
    BY ONLY <1>1, <1>2, <2>1, l \in Seq(Octet)
  <2>. QED  BY ONLY <1>1, <2>1, <2>2 DEF IsPrefix
<1>9. ~(Len(l) < p + MIN_EMBED_PARAM_CHARS)
  BY ONLY <1>1, <1>2 DEF MIN_EMBED_PARAM_CHARS
<1>10. commas # {}
  BY ONLY <1>5
<1>11. SecondStart(Min(commas)) = i + 1
  BY ONLY <1>7 DEF SecondStart
<1>12. parse_ctrl_line(l) = [write_cmd |-> UInt32(atoi(X)), write_cmd_offset |-> UInt32(atoi(Y))]
  <2>1. CtrlParams(l) = <<X, Y>>
    BY ONLY <1>2, <1>3, <1>4, <1>7, <1>8, <1>9, <1>10, <1>11, Y = SubSeq(l, i + 1, Len(l) - 1)
  <2>. QED  BY ONLY <2>1 DEF parse_ctrl_line, NotCtrl
<1>13. atoi(X) = Min({Number(X), LONG_MAX}) /\ atoi(Y) = Min({Number(Y), LONG_MAX})
  BY <1>2, AtoiDigits
<1>. QED  BY ONLY <1>12, <1>13 DEF UInt32, Meant

\* What parse_ctrl_line returns is what it says of the line, until the answer starts.
Parsed == pc = "device" => seek_to = parse_ctrl_line(line)

LEMMA ParsedStep == ASSUME Inv, Parsed, Next PROVE Parsed'
<1>1. CASE Parse
  BY <1>1 DEF Parse, Parsed
<1>2. CASE MallocBuffer \/ RecvNothing \/ RecvFails
  BY <1>2 DEF MallocBuffer, RecvNothing, RecvFails, GiveUp, Parsed
<1>3. CASE Recv
  BY <1>3 DEF Recv, Enlarge, GiveUp, Parsed
<1>4. CASE AppendLine \/ IoctlSeek
  BY <1>4 DEF AppendLine, IoctlSeek, Parsed
<1>5. CASE Getline \/ GetlineFails
  BY <1>5 DEF Getline, GetlineFails, GetlineReturns, Parsed
<1>6. CASE SendSome \/ SendFails \/ SendKills
  BY <1>6 DEF SendSome, SendFails, SendKills, Parsed
<1>. QED  BY <1>1, <1>2, <1>3, <1>4, <1>5, <1>6 DEF Next

(***************************************************************************)
(* A control string of the documented form means the numbers that its      *)
(* digits stand for, for numbers of any length and integers of any width,  *)
(* and nothing without the prefix or the newline is one (sock_thread.c:    *)
(* 97-134).                                                                *)
(***************************************************************************)
THEOREM SeekIsDocumented == Spec => []SeekAsDocumented
<1>1. Inv /\ Parsed => SeekAsDocumented
  <2> SUFFICES ASSUME Inv, Parsed, pc = "device" PROVE SeekAsDocumented
    BY DEF SeekAsDocumented
  <2>1. line \in Seq(Octet) /\ seek_to = parse_ctrl_line(line)
    BY CharsAreOctets DEF Inv, Typed, Parsed
  <2>2. ASSUME NEW i \in DOMAIN line, NEW X, NEW Y,
               X = SubSeq(line, Len(EMBED_CTRL_PREF) + 1, i - 1), Y = SubSeq(line, i + 1, Len(line) - 1),
               line = SeekLine(EMBED_CTRL_PREF, X, Y), AllDigits(X), AllDigits(Y)
        PROVE  seek_to = Meant(X, Y)
    BY ONLY <2>1, <2>2, ParseDocumented
  <2>3. seek_to # NotCtrl => IsPrefix(EMBED_CTRL_PREF, line) /\ Last(line) = NL
    BY <2>1 DEF parse_ctrl_line, CtrlParams
  <2>. QED  BY <2>2, <2>3, Zenon DEF SeekAsDocumented, SeekLine, Meant
<1>2. Inv /\ Parsed /\ [Next]_vars => Parsed'
  <2>1. Parsed /\ UNCHANGED vars => Parsed'
    BY DEF Parsed, vars
  <2>. QED  BY <2>1, ParsedStep
<1>3. Init => Parsed
  BY DEF Init, Parsed
<1>. QED  BY <1>1, <1>2, <1>3, Invariance, PTL DEF Spec

=============================================================================
