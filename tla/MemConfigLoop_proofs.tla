-------------------------- MODULE MemConfigLoop_proofs --------------------------
(***************************************************************************)
(* The loop of compute_mem_load_txt, for every configuration: any number   *)
(* of lines, names and addresses of any length, with and without a newline *)
(* at the end.  The text and the values of its addresses are recursive     *)
(* functions; what they are is proved by induction over sets of numbers.   *)
(***************************************************************************)
EXTENDS MemConfigLoop, SequenceTheorems, FiniteSetTheorems, WellFoundedInduction, TLAPS

(* Induction: a set with 0 and with the successor of each of its numbers    *)
(* has all numbers.                                                        *)
LEMMA SetInduction ==
  ASSUME NEW S, 0 \in S, \A n \in Nat : n \in S => n + 1 \in S
  PROVE  Nat \subseteq S
<1>. SUFFICES ASSUME NEW n \in Nat, n \notin S
              PROVE  FALSE
  OBVIOUS
<1>. DEFINE I == 1 .. n
            R == StrictSubsetOrdering(I)
            D == FiniteSubsetsOf(I)
            T == {1 .. k : k \in {j \in 0 .. n : j \notin S}}
<1>1. IsFiniteSet(I)
  BY FS_Interval
<1>2. IsWellFoundedOn(R, D)
  BY FS_StrictSubsetOrderingWellFounded
<1>3. D = SUBSET I
  BY <1>1, FS_FiniteSubsetsOfFinite
<1>4. R = {ss \in (SUBSET I) \X (SUBSET I) : ss[1] \subseteq ss[2] /\ ss[1] # ss[2]}
  BY DEF StrictSubsetOrdering
<1>5. T \subseteq D /\ T # {}
  BY <1>3
<1>. HIDE DEF R, T, D
<1>6. \E x \in T : \A y \in T : ~ (<<y, x>> \in R)
  BY <1>2, <1>5, WFMin
<1>7. PICK k \in 0 .. n : k \notin S /\ \A y \in T : ~ (<<y, 1 .. k>> \in R)
  BY <1>6 DEF T
<1>8. k # 0 /\ k - 1 \in 0 .. n /\ k - 1 \notin S
  BY <1>7
<1>9. 1 .. (k - 1) \in T
  BY <1>8 DEF T
<1>10. /\ 1 .. (k - 1) \subseteq 1 .. k /\ 1 .. (k - 1) # 1 .. k
       /\ 1 .. k \subseteq I /\ 1 .. (k - 1) \subseteq I
  BY <1>7, <1>8
<1>. QED
  BY <1>4, <1>7, <1>9, <1>10

(* Induction up to a bound. *)
LEMMA BoundedInduction ==
  ASSUME NEW N \in Nat, NEW S, 0 \in S, \A n \in 0 .. N - 1 : n \in S => n + 1 \in S
  PROVE  0 .. N \subseteq S
<1>. DEFINE P == {n \in Nat : n <= N => n \in S}
<1>1. 0 \in P /\ \A n \in Nat : n \in P => n + 1 \in P
  OBVIOUS
<1>2. Nat \subseteq P
  <2>. HIDE DEF P
  <2>. QED
    BY <1>1, SetInduction
<1>. QED
  BY <1>2

(* g is the function on 0 .. k that begins with b and has each value from   *)
(* the one before.                                                         *)
Recursive(g, k, D, b, F) ==
  /\ g \in [0 .. k -> D]
  /\ g[0] = b
  /\ \A n \in 1 .. k : g[n] = F[n][g[n - 1]]

(* There is such a function. *)
LEMMA RecursiveFunction ==
  ASSUME NEW N \in Nat, NEW D, NEW b \in D, NEW F \in [1 .. N -> [D -> D]]
  PROVE  \E g : Recursive(g, N, D, b, F)
<1>. DEFINE S == {k \in 0 .. N : \E g : Recursive(g, k, D, b, F)}
<1>1. 0 \in S
  <2>. DEFINE g == [n \in 0 .. 0 |-> b]
  <2>1. Recursive(g, 0, D, b, F)
    BY DEF Recursive
  <2>. HIDE DEF g
  <2>. QED
    BY <2>1
<1>2. ASSUME NEW k \in 0 .. N - 1, k \in S
      PROVE  k + 1 \in S
  <2>1. PICK g : Recursive(g, k, D, b, F)
    BY <1>2
  <2>2. /\ g \in [0 .. k -> D] /\ g[0] = b /\ F[k + 1] \in [D -> D]
        /\ \A n \in 1 .. k : g[n] = F[n][g[n - 1]]
    BY <2>1 DEF Recursive
  <2>. DEFINE h == [n \in 0 .. k + 1 |-> IF n = k + 1 THEN F[k + 1][g[k]] ELSE g[n]]
  <2>3. h \in [0 .. k + 1 -> D]
    BY <2>2
  <2>4. h[0] = b
    BY <2>2
  <2>5. ASSUME NEW n \in 1 .. k + 1
        PROVE  h[n] = F[n][h[n - 1]]
    <3>1. CASE n = k + 1
      <4>1. h[n] = F[k + 1][g[k]] /\ n - 1 = k /\ h[k] = g[k]
        BY <3>1
      <4>. QED
        BY <3>1, <4>1
    <3>2. CASE n # k + 1
      <4>1. n \in 1 .. k /\ h[n] = g[n] /\ h[n - 1] = g[n - 1]
        BY <3>2
      <4>. QED
        BY <2>2, <4>1
    <3>. QED
      BY <3>1, <3>2
  <2>6. k + 1 \in 0 .. N
    OBVIOUS
  <2>. HIDE DEF h
  <2>7. Recursive(h, k + 1, D, b, F)
    BY <2>3, <2>4, <2>5 DEF Recursive
  <2>. QED
    BY <2>6, <2>7
<1>. HIDE DEF S
<1>3. 0 .. N \subseteq S
  BY <1>1, <1>2, BoundedInduction
<1>. QED
  BY <1>3 DEF S

---------------------------------------------------------------------------------
(* The recursive functions *)

(* The characters and the digits are numbers. *)
LEMMA DigitsAreNumbers ==
  /\ \A c \in DOMAIN DigitValue : c \in Nat /\ c # Newline /\ DigitValue[c] \in Nat
  /\ MaxFiles \in Nat \ {0} /\ MaxName \in Nat \ {0} /\ AddrMod \in Nat \ {0}
BY MemConfigAssumption DEF DigitValue, Newline

(* The digits that the loop converts are those of numbers, with their       *)
(* values.                                                                 *)
LEMMA DigitsAreConverted ==
  /\ HexDigits = DOMAIN DigitValue
  /\ \A c \in DOMAIN DigitValue : HexValue[c] = DigitValue[c]
<1>1. ASSUME NEW c \in HexDigits
      PROVE  c \in DOMAIN DigitValue
  <2>1. PICK v \in 0 .. 15 : c \in Figures(v)
    BY DEF HexDigits
  <2>2. CASE v < 10
    BY <2>1, <2>2 DEF Figures, DigitValue
  <2>3. CASE ~(v < 10)
    BY <2>1, <2>3 DEF Figures, DigitValue
  <2>. QED
    BY <2>2, <2>3
<1>2. ASSUME NEW c \in DOMAIN DigitValue
      PROVE  /\ DigitValue[c] \in 0 .. 15 /\ c \in Figures(DigitValue[c])
             /\ \A v \in 0 .. 15 : c \in Figures(v) => v = DigitValue[c]
  <2>1. c \in 48 .. 57 \/ c \in 65 .. 70 \/ c \in 97 .. 102
    BY DEF DigitValue
  <2>2. CASE c \in 48 .. 57
    <3>1. DigitValue[c] = c - 48
      BY <2>2 DEF DigitValue
    <3>. QED
      BY <2>2, <3>1 DEF Figures
  <2>3. CASE c \in 65 .. 70
    <3>1. DigitValue[c] = c - 55
      BY <2>3 DEF DigitValue
    <3>. QED
      BY <2>3, <3>1 DEF Figures
  <2>4. CASE c \in 97 .. 102
    <3>1. DigitValue[c] = c - 87
      BY <2>4 DEF DigitValue
    <3>. QED
      BY <2>4, <3>1 DEF Figures
  <2>. QED
    BY <2>1, <2>2, <2>3, <2>4
<1>3. HexDigits = DOMAIN DigitValue
  <2>1. ASSUME NEW c \in DOMAIN DigitValue
        PROVE  c \in HexDigits
    BY <1>2 DEF HexDigits
  <2>. QED
    BY <1>1, <2>1
<1>4. ASSUME NEW c \in DOMAIN DigitValue
      PROVE  HexValue[c] = DigitValue[c]
  <2>. DEFINE d == DigitValue[c]
              e == CHOOSE v \in 0 .. 15 : c \in Figures(v)
  <2>1. HexValue[c] = e
    BY <1>3 DEF HexValue
  <2>2. d \in 0 .. 15 /\ c \in Figures(d) /\ \A v \in 0 .. 15 : c \in Figures(v) => v = d
    BY <1>2
  <2>. HIDE DEF d
  <2>3. e \in 0 .. 15 /\ c \in Figures(e)
    BY <2>2, Zenon
  <2>. HIDE DEF e
  <2>. QED
    BY <2>1, <2>2, <2>3 DEF d
<1>. QED
  BY <1>3, <1>4

(* The values of the beginnings of an address. *)
LEMMA ValuesAre ==
  ASSUME NEW a \in Seq(DOMAIN DigitValue)
  PROVE  LET v == Values(a) IN
         /\ v[0] = 0
         /\ \A n \in 1 .. Len(a) : v[n] = v[n - 1] * 16 + DigitValue[a[n]]
         /\ \A n \in 0 .. Len(a) : v[n] \in Nat
<1>. DEFINE F == [n \in 1 .. Len(a) |-> [y \in Nat |-> y * 16 + HexValue[a[n]]]]
            Body(g) == [n \in 0 .. Len(a) |->
                          IF n = 0 THEN 0 ELSE g[n - 1] * 16 + HexValue[a[n]]]
            v == Values(a)
<1>. HIDE DEF v
<1>0. \A n \in 1 .. Len(a) : a[n] \in DOMAIN DigitValue /\ HexValue[a[n]] = DigitValue[a[n]]
  BY DigitsAreConverted, ElementOfSeq
<1>1. Len(a) \in Nat /\ \A n \in 1 .. Len(a) : HexValue[a[n]] \in Nat
  BY <1>0, DigitsAreNumbers, LenProperties
<1>2. F \in [1 .. Len(a) -> [Nat -> Nat]]
  BY <1>1
<1>3. \E g : g = Body(g)
  <2>1. PICK g : Recursive(g, Len(a), Nat, 0, F)
    <3>1. Len(a) \in Nat /\ 0 \in Nat
      BY <1>1
    <3>. HIDE DEF F
    <3>. QED
      BY <1>2, <3>1, RecursiveFunction, Zenon
  <2>2. /\ g \in [0 .. Len(a) -> Nat] /\ g[0] = 0
        /\ \A n \in 1 .. Len(a) : g[n] = F[n][g[n - 1]]
    <3>. HIDE DEF F
    <3>. QED
      BY <2>1 DEF Recursive
  <2>3. ASSUME NEW n \in 1 .. Len(a)
        PROVE  g[n] = g[n - 1] * 16 + HexValue[a[n]]
    <3>1. \A y \in Nat : F[n][y] = y * 16 + HexValue[a[n]]
      OBVIOUS
    <3>2. g[n - 1] \in Nat
      <4>1. Len(a) \in Nat /\ g \in [0 .. Len(a) -> Nat]
        BY <1>1, <2>2
      <4>2. n - 1 \in 0 .. Len(a)
        BY <4>1
      <4>. QED
        BY <4>1, <4>2
    <3>. HIDE DEF F
    <3>3. g[n] = F[n][g[n - 1]]
      BY <2>2
    <3>. QED
      BY <3>1, <3>2, <3>3
  <2>. HIDE DEF F
  <2>. QED
    BY <1>1, <2>2, <2>3
<1>4. v = Body(v)
  BY <1>3 DEF Values, v
<1>5. v[0] = 0 /\ \A n \in 1 .. Len(a) : v[n] = v[n - 1] * 16 + HexValue[a[n]]
  BY <1>1, <1>4
<1>6. 0 .. Len(a) \subseteq {n \in 0 .. Len(a) : v[n] \in Nat}
  <2>. DEFINE P == {n \in 0 .. Len(a) : v[n] \in Nat}
  <2>1. 0 \in P
    BY <1>1, <1>5
  <2>2. ASSUME NEW n \in 0 .. Len(a) - 1, n \in P
        PROVE  n + 1 \in P
    <3>1. n + 1 \in 1 .. Len(a) /\ (n + 1) - 1 = n /\ v[n] \in Nat
      BY <1>1, <2>2
    <3>. QED
      BY <1>1, <1>5, <3>1
  <2>. HIDE DEF P
  <2>3. 0 .. Len(a) \subseteq P
    BY <1>1, <2>1, <2>2, BoundedInduction
  <2>. QED
    BY <2>3 DEF P
<1>. QED
  BY <1>0, <1>5, <1>6 DEF v

(* The lists of entries that the loop is run on. *)
Entry == [name : Seq(Nat), addr : Seq(DOMAIN DigitValue), value : Nat]

(* What is in front of a line. *)
Separator(n) == IF n = 1 THEN <<>> ELSE <<Newline>>

(* A line is a name, a space and an address. *)
LEMMA LineIs ==
  ASSUME NEW e \in Entry
  PROVE  /\ e.name \in Seq(Nat) /\ e.addr \in Seq(DOMAIN DigitValue) /\ e.value \in Nat
         /\ Len(e.name) \in Nat /\ Len(e.addr) \in Nat
         /\ Line(e) \in Seq(Nat)
         /\ Len(Line(e)) = Len(e.name) + 1 + Len(e.addr)
         /\ \A x \in 1 .. Len(e.name) : Line(e)[x] = e.name[x]
         /\ Line(e)[Len(e.name) + 1] = Space
         /\ \A x \in 1 .. Len(e.addr) : Line(e)[Len(e.name) + 1 + x] = e.addr[x]
<1>1. /\ e.name \in Seq(Nat) /\ e.addr \in Seq(DOMAIN DigitValue) /\ e.value \in Nat
      /\ Len(e.name) \in Nat /\ Len(e.addr) \in Nat
  BY LenProperties DEF Entry
<1>2. e.addr \in Seq(Nat)
  BY <1>1, DigitsAreNumbers, SeqMonotonic
<1>3. <<Space>> \in Seq(Nat) /\ Len(<<Space>>) = 1 /\ <<Space>>[1] = Space
  BY DEF Space
<1>. DEFINE b == e.name \o <<Space>>
<1>4. /\ b \in Seq(Nat) /\ Len(b) = Len(e.name) + 1
      /\ \A x \in 1 .. Len(e.name) + 1 : b[x] = IF x <= Len(e.name) THEN e.name[x]
                                                ELSE <<Space>>[x - Len(e.name)]
  BY <1>1, <1>3, ConcatProperties
<1>. HIDE DEF b
<1>5. /\ b \o e.addr \in Seq(Nat) /\ Len(b \o e.addr) = Len(b) + Len(e.addr)
      /\ \A x \in 1 .. Len(b) + Len(e.addr) : (b \o e.addr)[x] =
            IF x <= Len(b) THEN b[x] ELSE e.addr[x - Len(b)]
  <2>. DEFINE a == e.addr
  <2>1. a \in Seq(Nat) /\ b \in Seq(Nat)
    BY <1>2, <1>4
  <2>. HIDE DEF a
  <2>2. /\ b \o a \in Seq(Nat) /\ Len(b \o a) = Len(b) + Len(a)
        /\ \A x \in 1 .. Len(b) + Len(a) : (b \o a)[x] =
              IF x <= Len(b) THEN b[x] ELSE a[x - Len(b)]
    BY <2>1, ConcatProperties
  <2>. QED
    BY <2>2 DEF a
<1>6. Line(e) = b \o e.addr
  BY DEF Line, b
<1>7. ASSUME NEW x \in 1 .. Len(e.name)
      PROVE  Line(e)[x] = e.name[x]
  <2>. DEFINE p == Len(e.name)
              q == Len(e.addr)
              r == Len(b)
  <2>1. r = p + 1 /\ p \in Nat /\ q \in Nat /\ x \in 1 .. p
    BY <1>1, <1>4
  <2>. HIDE DEF p, q, r
  <2>2. x \in 1 .. r + q /\ x <= r /\ x \in 1 .. p + 1 /\ x <= p
    BY <2>1
  <2>3. Line(e)[x] = b[x]
    BY <1>5, <1>6, <2>2 DEF r, q
  <2>. QED
    BY <1>4, <2>2, <2>3 DEF p
<1>8. Line(e)[Len(e.name) + 1] = Space
  <2>1. Len(e.name) + 1 \in 1 .. Len(b) + Len(e.addr) /\ (Len(e.name) + 1) - Len(e.name) = 1
    <3>. DEFINE p == Len(e.name)
                q == Len(e.addr)
                r == Len(b)
    <3>1. r = p + 1 /\ p \in Nat /\ q \in Nat
      BY <1>1, <1>4
    <3>. HIDE DEF p, q, r
    <3>2. p + 1 \in 1 .. r + q /\ (p + 1) - p = 1
      BY <3>1
    <3>. QED
      BY <3>2 DEF p, q, r
  <2>2. Line(e)[Len(e.name) + 1] = b[Len(e.name) + 1]
    BY <1>1, <1>4, <1>5, <1>6, <2>1
  <2>3. b[Len(e.name) + 1] = Space
    <3>. DEFINE p == Len(e.name)
    <3>1. /\ p \in Nat
          /\ \A x \in 1 .. p + 1 : b[x] = IF x <= p THEN e.name[x] ELSE <<Space>>[x - p]
      BY <1>1, <1>4
    <3>. HIDE DEF p
    <3>2. p + 1 \in 1 .. p + 1 /\ ~(p + 1 <= p) /\ (p + 1) - p = 1
      BY <3>1
    <3>3. b[p + 1] = <<Space>>[1]
      BY <3>1, <3>2
    <3>. QED
      BY <1>3, <3>3 DEF p
  <2>. QED
    BY <2>2, <2>3
<1>9. \A x \in 1 .. Len(e.addr) : Line(e)[Len(e.name) + 1 + x] = e.addr[x]
  <2>. SUFFICES ASSUME NEW x \in 1 .. Len(e.addr)
                PROVE  Line(e)[Len(e.name) + 1 + x] = e.addr[x]
    OBVIOUS
  <2>1. /\ Len(e.name) + 1 + x \in 1 .. Len(b) + Len(e.addr)
        /\ ~(Len(e.name) + 1 + x <= Len(b))
        /\ (Len(e.name) + 1 + x) - Len(b) = x
    <3>. DEFINE p == Len(e.name)
                q == Len(e.addr)
                r == Len(b)
    <3>1. r = p + 1 /\ p \in Nat /\ q \in Nat /\ x \in 1 .. q
      BY <1>1, <1>4
    <3>. HIDE DEF p, q, r
    <3>2. p + 1 + x \in 1 .. r + q /\ ~(p + 1 + x <= r) /\ (p + 1 + x) - r = x
      BY <3>1
    <3>. QED
      BY <3>2 DEF p, q, r
  <2>. QED
    BY <1>5, <1>6, <2>1
<1>. QED
  BY <1>1, <1>4, <1>5, <1>6, <1>7, <1>8, <1>9

(* The texts of the beginnings of a configuration. *)
LEMMA TextsAre ==
  ASSUME NEW es \in Seq(Entry)
  PROVE  LET f == Texts(es) IN
         /\ f[0] = <<>>
         /\ \A n \in 1 .. Len(es) : f[n] = (f[n - 1] \o Separator(n)) \o Line(es[n])
         /\ \A n \in 0 .. Len(es) : f[n] \in Seq(Nat)
<1>. DEFINE F == [n \in 1 .. Len(es) |->
                    [y \in Seq(Nat) |-> (y \o Separator(n)) \o Line(es[n])]]
            Body(g) == [n \in 0 .. Len(es) |->
                          IF n = 0 THEN <<>>
                          ELSE (g[n - 1] \o IF n = 1 THEN <<>> ELSE <<Newline>>) \o Line(es[n])]
            f == Texts(es)
<1>1. Len(es) \in Nat /\ \A n \in 1 .. Len(es) : es[n] \in Entry
  BY LenProperties, ElementOfSeq
<1>2. ASSUME NEW n \in 1 .. Len(es), NEW s \in Seq(Nat)
      PROVE  (s \o Separator(n)) \o Line(es[n]) \in Seq(Nat)
  <2>1. Separator(n) \in Seq(Nat) /\ Line(es[n]) \in Seq(Nat)
    <3>1. <<>> \in Seq(Nat) /\ <<Newline>> \in Seq(Nat)
      BY DEF Newline
    <3>2. es[n] \in Entry
      BY <1>1
    <3>. QED
      BY <3>1, <3>2, LineIs DEF Separator
  <2>2. s \o Separator(n) \in Seq(Nat)
    BY <2>1, ConcatProperties
  <2>. QED
    BY <2>1, <2>2, ConcatProperties
<1>3. F \in [1 .. Len(es) -> [Seq(Nat) -> Seq(Nat)]]
  BY <1>2
<1>4. \E g : g = Body(g)
  <2>1. PICK g : Recursive(g, Len(es), Seq(Nat), <<>>, F)
    <3>1. Len(es) \in Nat /\ <<>> \in Seq(Nat)
      BY <1>1, EmptySeq
    <3>. HIDE DEF F
    <3>. QED
      BY <1>3, <3>1, RecursiveFunction, Zenon
  <2>2. /\ g \in [0 .. Len(es) -> Seq(Nat)] /\ g[0] = <<>>
        /\ \A n \in 1 .. Len(es) : g[n] = F[n][g[n - 1]]
    <3>. HIDE DEF F
    <3>. QED
      BY <2>1 DEF Recursive
  <2>3. ASSUME NEW n \in 1 .. Len(es)
        PROVE  g[n] = (g[n - 1] \o Separator(n)) \o Line(es[n])
    <3>1. \A y \in Seq(Nat) : F[n][y] = (y \o Separator(n)) \o Line(es[n])
      OBVIOUS
    <3>2. g[n - 1] \in Seq(Nat)
      <4>1. n - 1 \in 0 .. Len(es)
        BY <1>1
      <4>. HIDE DEF F
      <4>. QED
        BY <2>2, <4>1
    <3>. HIDE DEF F
    <3>3. g[n] = F[n][g[n - 1]]
      BY <2>2
    <3>. QED
      BY <3>1, <3>2, <3>3
  <2>4. g = [n \in 0 .. Len(es) |-> IF n = 0 THEN <<>>
                                    ELSE (g[n - 1] \o Separator(n)) \o Line(es[n])]
    <3>. DEFINE G(n) == (g[n - 1] \o Separator(n)) \o Line(es[n])
    <3>1. \A n \in 1 .. Len(es) : g[n] = G(n)
      BY <2>3
    <3>. HIDE DEF G, F
    <3>2. g = [n \in 0 .. Len(es) |-> IF n = 0 THEN <<>> ELSE G(n)]
      BY <1>1, <2>2, <3>1
    <3>. QED
      BY <3>2 DEF G
  <2>. QED
    BY <2>4 DEF Separator
<1>5. f = Body(f)
  BY <1>4 DEF Texts
<1>. HIDE DEF f
<1>6. f = [n \in 0 .. Len(es) |-> IF n = 0 THEN <<>>
                                  ELSE (f[n - 1] \o Separator(n)) \o Line(es[n])]
  BY <1>5 DEF Separator
<1>7. f[0] = <<>> /\ \A n \in 1 .. Len(es) : f[n] = (f[n - 1] \o Separator(n)) \o Line(es[n])
  BY <1>1, <1>6
<1>8. 0 .. Len(es) \subseteq {n \in 0 .. Len(es) : f[n] \in Seq(Nat)}
  <2>. DEFINE P == {n \in 0 .. Len(es) : f[n] \in Seq(Nat)}
  <2>1. 0 \in P
    <3>1. f[0] \in Seq(Nat) /\ 0 \in 0 .. Len(es)
      BY <1>1, <1>7, EmptySeq
    <3>. QED
      BY <3>1
  <2>2. ASSUME NEW n \in 0 .. Len(es) - 1, n \in P
        PROVE  n + 1 \in P
    <3>1. n + 1 \in 1 .. Len(es) /\ (n + 1) - 1 = n /\ f[n] \in Seq(Nat)
      BY <1>1, <2>2
    <3>2. f[n + 1] = (f[n] \o Separator(n + 1)) \o Line(es[n + 1])
      BY <1>7, <3>1
    <3>3. f[n + 1] \in Seq(Nat)
      BY <1>2, <3>1, <3>2
    <3>. QED
      BY <1>1, <3>1, <3>3
  <2>. HIDE DEF P
  <2>3. 0 .. Len(es) \subseteq P
    BY <1>1, <2>1, <2>2, BoundedInduction
  <2>. QED
    BY <2>3 DEF P
<1>. QED
  BY <1>7, <1>8 DEF f

---------------------------------------------------------------------------------
(* Where the lines are *)

(* s is the beginning of z. *)
Begins(s, z) ==
  /\ s \in Seq(Nat) /\ z \in Seq(Nat) /\ Len(s) <= Len(z)
  /\ \A x \in 1 .. Len(s) : z[x] = s[x]

(* Beginnings of beginnings. *)
LEMMA BeginsAgain ==
  ASSUME NEW s, NEW z, NEW y, Begins(s, z), Begins(z, y)
  PROVE  Begins(s, y)
<1>1. Len(s) \in Nat /\ Len(z) \in Nat /\ Len(y) \in Nat
  BY LenProperties DEF Begins
<1>. QED
  BY <1>1 DEF Begins

(* What is continued, and the continuation. *)
LEMMA Continued ==
  ASSUME NEW s \in Seq(Nat), NEW c \in Seq(Nat)
  PROVE  /\ s \o c \in Seq(Nat) /\ Len(s) \in Nat /\ Len(c) \in Nat
         /\ Begins(s, s \o c) /\ Len(s \o c) = Len(s) + Len(c)
         /\ \A x \in 1 .. Len(c) : (s \o c)[Len(s) + x] = c[x]
<1>1. Len(s) \in Nat /\ Len(c) \in Nat
  BY LenProperties
<1>2. /\ s \o c \in Seq(Nat) /\ Len(s \o c) = Len(s) + Len(c)
      /\ \A x \in 1 .. Len(s) + Len(c) : (s \o c)[x] = IF x <= Len(s) THEN s[x]
                                                       ELSE c[x - Len(s)]
  BY ConcatProperties
<1>. DEFINE z == s \o c
            p == Len(s)
            q == Len(c)
<1>3. \A x \in 1 .. p + q : z[x] = IF x <= p THEN s[x] ELSE c[x - p]
  BY <1>2
<1>4. p \in Nat /\ q \in Nat
  BY <1>1
<1>. HIDE DEF z, p, q
<1>5. \A x \in 1 .. p : z[x] = s[x]
  BY <1>3, <1>4
<1>6. ASSUME NEW x \in 1 .. q
      PROVE  z[p + x] = c[x]
  <2>1. p + x \in 1 .. p + q /\ ~(p + x <= p) /\ (p + x) - p = x
    BY <1>4
  <2>. QED
    BY <1>3, <2>1
<1>7. p <= p + q
  BY <1>4
<1>. QED
  BY <1>1, <1>2, <1>5, <1>6, <1>7 DEF Begins, z, p, q

(* The place in front of line n. *)
Begin(es, n) == IF n = 1 THEN 0 ELSE Len(Texts(es)[n - 1]) + 1

(* The end of the text of the first n entries is line n. *)
LEMMA LastLine ==
  ASSUME NEW es \in Seq(Entry), NEW n \in 1 .. Len(es)
  PROVE  LET f == Texts(es)
             b == Begin(es, n)
             l == Line(es[n]) IN
         /\ b \in Nat /\ Len(l) \in Nat
         /\ Begins(f[n - 1], f[n])
         /\ Len(f[n]) = b + Len(l)
         /\ \A x \in 1 .. Len(l) : f[n][b + x] = l[x]
         /\ n # 1 => Len(f[n - 1]) = b - 1 /\ f[n][b] = Newline
<1>. DEFINE f == Texts(es)
            b == Begin(es, n)
            l == Line(es[n])
            p == f[n - 1]
            c == p \o Separator(n)
<1>1. Len(es) \in Nat /\ es[n] \in Entry
  BY LenProperties, ElementOfSeq
<1>2. p \in Seq(Nat) /\ f[n] = c \o l /\ l \in Seq(Nat) /\ (n = 1 => p = <<>>)
  <2>1. n - 1 \in 0 .. Len(es)
    BY <1>1
  <2>2. /\ f[0] = <<>> /\ f[n] = (f[n - 1] \o Separator(n)) \o Line(es[n])
        /\ f[n - 1] \in Seq(Nat)
    BY <2>1, TextsAre
  <2>3. n = 1 => n - 1 = 0
    OBVIOUS
  <2>. QED
    BY <1>1, <2>2, <2>3, LineIs
<1>3. Separator(n) \in Seq(Nat) /\ Len(Separator(n)) = IF n = 1 THEN 0 ELSE 1
  <2>1. /\ <<>> \in Seq(Nat) /\ <<Newline>> \in Seq(Nat)
        /\ Len(<<>>) = 0 /\ Len(<<Newline>>) = 1
    BY DEF Newline
  <2>. QED
    BY <2>1 DEF Separator
<1>. HIDE DEF f, l, p
<1>4. /\ c \in Seq(Nat) /\ Len(p) \in Nat /\ Begins(p, c)
      /\ Len(c) = Len(p) + Len(Separator(n))
      /\ \A x \in 1 .. Len(Separator(n)) : c[Len(p) + x] = Separator(n)[x]
  BY <1>2, <1>3, Continued
<1>. HIDE DEF c
<1>5. /\ Len(l) \in Nat /\ Begins(c, f[n]) /\ Len(f[n]) = Len(c) + Len(l)
      /\ \A x \in 1 .. Len(l) : f[n][Len(c) + x] = l[x]
  <2>1. /\ Len(l) \in Nat /\ Begins(c, c \o l) /\ Len(c \o l) = Len(c) + Len(l)
        /\ \A x \in 1 .. Len(l) : (c \o l)[Len(c) + x] = l[x]
    BY <1>2, <1>4, Continued, Zenon
  <2>2. f[n] = c \o l
    BY <1>2 DEF c
  <2>. QED
    BY <2>1, <2>2
<1>6. Begins(p, f[n])
  BY <1>4, <1>5, BeginsAgain
<1>7. b = Len(c)
  <2>1. CASE n = 1
    <3>1. Len(p) = 0
      BY <1>2, <2>1, EmptySeq
    <3>. QED
      BY <1>3, <1>4, <2>1, <3>1 DEF Begin
  <2>2. CASE n # 1
    BY <1>3, <1>4, <2>2 DEF Begin, f, p
  <2>. QED
    BY <2>1, <2>2
<1>8. Len(c) \in Nat
  BY <1>4, LenProperties
<1>9. ASSUME n # 1
      PROVE  Len(p) = b - 1 /\ f[n][b] = Newline
  <2>1. Len(Separator(n)) = 1 /\ Separator(n)[1] = Newline
    BY <1>3, <1>9 DEF Separator
  <2>2. Len(c) = Len(p) + 1 /\ 1 \in 1 .. Len(Separator(n))
    BY <1>4, <2>1
  <2>3. c[Len(p) + 1] = Newline
    BY <1>4, <2>1, <2>2
  <2>4. Len(c) \in 1 .. Len(c)
    BY <1>4, <2>2
  <2>5. f[n][Len(c)] = c[Len(c)]
    BY <1>5, <2>4 DEF Begins
  <2>. HIDE DEF b
  <2>. QED
    BY <1>4, <1>7, <2>2, <2>3, <2>5
<1>. QED
  BY <1>5, <1>6, <1>7, <1>8, <1>9 DEF f, l, p

(* The text of fewer entries is the beginning of that of more. *)
LEMMA TextsBegin ==
  ASSUME NEW es \in Seq(Entry), NEW n \in 0 .. Len(es), NEW m \in 0 .. n
  PROVE  Begins(Texts(es)[m], Texts(es)[n])
<1>. DEFINE f == Texts(es)
            S == {k \in 0 .. Len(es) : \A j \in 0 .. k : Begins(f[j], f[k])}
<1>1. Len(es) \in Nat
  BY LenProperties
<1>2. \A k \in 0 .. Len(es) : Begins(f[k], f[k])
  <2>1. \A k \in 0 .. Len(es) : f[k] \in Seq(Nat)
    BY TextsAre
  <2>. QED
    BY <2>1, LenProperties DEF Begins
<1>3. 0 \in S
  BY <1>1, <1>2
<1>4. ASSUME NEW k \in 0 .. Len(es) - 1, k \in S
      PROVE  k + 1 \in S
  <2>1. k + 1 \in 1 .. Len(es) /\ (k + 1) - 1 = k
    BY <1>1
  <2>2. Begins(f[k], f[k + 1])
    BY <2>1, LastLine
  <2>. HIDE DEF f
  <2>3. ASSUME NEW j \in 0 .. k + 1
        PROVE  Begins(f[j], f[k + 1])
    <3>1. CASE j = k + 1
      BY <1>2, <2>1, <3>1
    <3>2. CASE j # k + 1
      <4>1. Begins(f[j], f[k])
        BY <1>4, <3>2
      <4>. QED
        BY <2>2, <4>1, BeginsAgain
    <3>. QED
      BY <3>1, <3>2
  <2>. QED
    BY <2>1, <2>3
<1>. HIDE DEF S
<1>5. 0 .. Len(es) \subseteq S
  BY <1>1, <1>3, <1>4, BoundedInduction
<1>. QED
  BY <1>5 DEF S

(* What follows the last line. *)
Ends == {<<>>, <<Newline>>}

(* Where line n stands in a file with these entries. *)
LEMMA LineAt ==
  ASSUME NEW es \in Seq(Entry), NEW t \in Ends, NEW n \in 1 .. Len(es)
  PROVE  LET z == Written(es) \o t
             b == Begin(es, n)
             l == Line(es[n]) IN
         /\ z \in Seq(Nat) /\ b \in Nat /\ Len(l) \in Nat
         /\ \A x \in 1 .. Len(l) : z[b + x] = l[x]
         /\ b + Len(l) <= Len(z)
         /\ n < Len(es) => /\ z[b + Len(l) + 1] = Newline
                           /\ Begin(es, n + 1) = b + Len(l) + 1
                           /\ b + Len(l) < Len(z)
         /\ n = Len(es) => /\ Len(z) = b + Len(l) + Len(t)
                           /\ t = <<Newline>> => z[b + Len(l) + 1] = Newline
<1>. DEFINE N == Len(es)
            f == Texts(es)
            z == Written(es) \o t
            b == Begin(es, n)
            l == Line(es[n])
<1>1. N \in Nat /\ N \in 1 .. N
  BY LenProperties
<1>2. t \in Seq(Nat) /\ (t = <<>> => Len(t) = 0) /\ (t = <<Newline>> => Len(t) = 1 /\ t[1] = Newline)
  <2>1. /\ <<>> \in Seq(Nat) /\ <<Newline>> \in Seq(Nat)
        /\ Len(<<>>) = 0 /\ Len(<<Newline>>) = 1 /\ <<Newline>>[1] = Newline
    BY DEF Newline
  <2>. QED
    BY <2>1 DEF Ends
<1>3. Written(es) = f[N] /\ f[N] \in Seq(Nat)
  <2>1. N \in 0 .. N
    BY <1>1
  <2>. QED
    BY <2>1, TextsAre DEF Written
<1>4. /\ z \in Seq(Nat) /\ Begins(f[N], z) /\ Len(z) = Len(f[N]) + Len(t)
      /\ Len(f[N]) \in Nat /\ Len(t) \in Nat
      /\ \A x \in 1 .. Len(t) : z[Len(f[N]) + x] = t[x]
  <2>. DEFINE a == Written(es)
  <2>1. a \in Seq(Nat) /\ a = f[N] /\ z = a \o t
    BY <1>3
  <2>. HIDE DEF a, z, f, N
  <2>2. /\ a \o t \in Seq(Nat) /\ Len(a) \in Nat /\ Len(t) \in Nat
        /\ Begins(a, a \o t) /\ Len(a \o t) = Len(a) + Len(t)
        /\ \A x \in 1 .. Len(t) : (a \o t)[Len(a) + x] = t[x]
    BY <1>2, <2>1, Continued
  <2>. QED
    BY <2>1, <2>2
<1>5. /\ b \in Nat /\ Len(l) \in Nat /\ Len(f[n]) = b + Len(l)
      /\ \A x \in 1 .. Len(l) : f[n][b + x] = l[x]
  BY LastLine
<1>6. Begins(f[n], z)
  <2>1. Begins(f[n], f[N])
    BY <1>1, TextsBegin
  <2>. QED
    BY <1>4, <2>1, BeginsAgain
<1>. HIDE DEF z, b, l, f
<1>7. ASSUME NEW x \in 1 .. Len(l)
      PROVE  z[b + x] = l[x]
  <2>1. b + x \in 1 .. Len(f[n])
    BY <1>5
  <2>. QED
    BY <1>5, <1>6, <2>1 DEF Begins
<1>8. b + Len(l) <= Len(z)
  BY <1>5, <1>6 DEF Begins
<1>9. ASSUME n < N
      PROVE  /\ z[b + Len(l) + 1] = Newline
             /\ Begin(es, n + 1) = b + Len(l) + 1
             /\ b + Len(l) < Len(z)
  <2>. DEFINE c == Begin(es, n + 1)
  <2>1. n + 1 \in 1 .. N /\ n + 1 # 1 /\ (n + 1) - 1 = n
    BY <1>1, <1>9
  <2>2. /\ c \in Nat /\ Len(Line(es[n + 1])) \in Nat
        /\ Len(f[n + 1]) = c + Len(Line(es[n + 1]))
        /\ Len(f[n]) = c - 1 /\ f[n + 1][c] = Newline
    BY <2>1, LastLine DEF f
  <2>3. Begins(f[n + 1], z)
    <3>1. Begins(f[n + 1], f[N])
      BY <1>1, <2>1, TextsBegin DEF f
    <3>. QED
      BY <1>4, <3>1, BeginsAgain
  <2>. HIDE DEF c
  <2>4. c = b + Len(l) + 1
    <3>. DEFINE k == Len(f[n])
                m == Len(l)
    <3>1. k = b + m /\ k = c - 1 /\ b \in Nat /\ m \in Nat /\ c \in Nat
      BY <1>5, <2>2
    <3>. HIDE DEF k, m
    <3>2. c = b + m + 1
      BY <3>1
    <3>. QED
      BY <3>2 DEF m
  <2>5. c \in 1 .. Len(f[n + 1])
    BY <1>5, <2>2, <2>4
  <2>6. z[c] = Newline
    BY <2>2, <2>3, <2>5 DEF Begins
  <2>7. Len(z) \in Nat /\ Len(f[n + 1]) <= Len(z) /\ Len(f[n + 1]) \in Nat
    BY <1>4, <2>3, LenProperties DEF Begins
  <2>8. b + Len(l) < Len(z)
    BY <1>5, <2>4, <2>5, <2>7
  <2>. QED
    BY <2>4, <2>6, <2>8 DEF c
<1>10. ASSUME n = N
       PROVE  /\ Len(z) = b + Len(l) + Len(t)
              /\ t = <<Newline>> => z[b + Len(l) + 1] = Newline
  <2>1. Len(f[N]) = b + Len(l)
    BY <1>5, <1>10
  <2>2. ASSUME t = <<Newline>>
        PROVE  z[b + Len(l) + 1] = Newline
    <3>1. 1 \in 1 .. Len(t) /\ t[1] = Newline
      BY <1>2, <2>2
    <3>. QED
      BY <1>4, <2>1, <3>1
  <2>. QED
    BY <1>4, <2>1, <2>2
<1>. QED
  BY <1>4, <1>5, <1>7, <1>8, <1>9, <1>10 DEF z, b, l

---------------------------------------------------------------------------------
(* The loop *)

(* The variables of the loop. *)
States ==
  [state : {"name", "addr"}, name : Seq(Nat), files : Seq(Seq(Nat)), addrs : Seq(Nat),
   digit : Nat, outside : BOOLEAN]

(* A configuration that fits the arrays. *)
Fits(es) ==
  Len(es) <= MaxFiles /\ \A k \in 1 .. Len(es) : Len(es[k].name) < MaxName

(* The place of the first digit of entry k. *)
Digits(es, k) == Begin(es, k) + Len(es[k].name) + 1

(* After n characters of the configuration, in the name of the next entry   *)
(* or, after a final newline, at the end of the file.                      *)
InName(es, t, n, s) ==
  LET k == Len(s.files) IN
  \/ /\ k < Len(es) /\ n = Begin(es, k + 1) + Len(s.name)
     /\ Begins(s.name, es[k + 1].name)
  \/ k = Len(es) /\ n = Len(Written(es) \o t)

(* In the address of the last entry, whose digits so far are its value.     *)
InAddr(es, n, s) ==
  LET k == Len(s.files)
      d == n - Digits(es, k) IN
  /\ k # 0 /\ s.name = <<>> /\ d \in 0 .. Len(es[k].addr)
  /\ s.addrs[k] = Values(es[k].addr)[d] % AddrMod

(* After n characters: the rows are those of the first entries, and the     *)
(* loop stands in the name or in the address of an entry.                  *)
Right(es, t, n, s) ==
  LET k == Len(s.files) IN
  /\ s \in States
  /\ k <= Len(es) /\ Len(s.addrs) = k
  /\ \A j \in 1 .. k : s.files[j] = es[j].name
  /\ \A j \in 1 .. k : j < k \/ s.state = "name" => s.addrs[j] = es[j].value % AddrMod
  /\ s.state = "name" => InName(es, t, n, s)
  /\ s.state = "addr" => InAddr(es, n, s)
  /\ Fits(es) => ~s.outside

(* What the loop does with a character. *)
LEMMA StepIs ==
  ASSUME NEW s \in States, NEW c \in Nat
  PROVE  LET z == Step(s, c) IN
         /\ s.state = "name" /\ c = Space =>
              /\ z.state = "addr" /\ z.name = <<>> /\ z.files = Append(s.files, s.name)
              /\ z.addrs = Append(s.addrs, 0) /\ z.outside = (s.outside \/ Outside(s))
              /\ z \in States
         /\ s.state = "name" /\ c # Space =>
              /\ z.state = "name" /\ z.name = Append(s.name, c) /\ z.files = s.files
              /\ z.addrs = s.addrs /\ z.outside = (s.outside \/ Outside(s))
              /\ z \in States
         /\ s.state = "addr" /\ c = Newline =>
              /\ z.state = "name" /\ z.name = s.name /\ z.files = s.files
              /\ z.addrs = s.addrs /\ z.outside = s.outside
              /\ z \in States
         /\ s.state = "addr" /\ c \in DOMAIN DigitValue /\ s.addrs # <<>> =>
              /\ z.state = "addr" /\ z.name = s.name /\ z.files = s.files
              /\ z.addrs = [s.addrs EXCEPT ![Len(s.addrs)] = (@ * 16 + DigitValue[c]) % AddrMod]
              /\ z.outside = s.outside
              /\ z \in States
<1>. DEFINE z == Step(s, c)
<1>1. /\ s.name \in Seq(Nat) /\ s.files \in Seq(Seq(Nat)) /\ s.addrs \in Seq(Nat)
      /\ s.outside \in BOOLEAN /\ Outside(s) \in BOOLEAN
  BY DEF States, Outside
<1>2. /\ Append(s.files, s.name) \in Seq(Seq(Nat)) /\ Append(s.addrs, 0) \in Seq(Nat)
      /\ Append(s.name, c) \in Seq(Nat) /\ <<>> \in Seq(Nat)
  BY <1>1, AppendProperties, EmptySeq
<1>3. CASE s.state = "name" /\ c = Space
  <2>1. z = [s EXCEPT !.state = "addr", !.name = <<>>,
                      !.files = Append(s.files, s.name),
                      !.addrs = Append(s.addrs, 0),
                      !.outside = s.outside \/ Outside(s)]
    BY <1>3 DEF Step, NameStep
  <2>. HIDE DEF z
  <2>. QED
    BY <1>1, <1>2, <1>3, <2>1 DEF States, z
<1>4. CASE s.state = "name" /\ c # Space
  <2>1. z = [s EXCEPT !.name = Append(s.name, c), !.outside = s.outside \/ Outside(s)]
    BY <1>4 DEF Step, NameStep
  <2>. HIDE DEF z
  <2>. QED
    BY <1>1, <1>2, <1>4, <2>1 DEF States, z
<1>5. CASE s.state = "addr" /\ c = Newline
  <2>1. z = [s EXCEPT !.state = "name"] /\ c \notin DOMAIN DigitValue
    BY <1>5, DigitsAreNumbers DEF Step, AddrStep
  <2>. HIDE DEF z
  <2>. QED
    BY <1>1, <1>5, <2>1 DEF States, z
<1>6. CASE s.state = "addr" /\ c \in DOMAIN DigitValue /\ s.addrs # <<>>
  <2>. DEFINE a == [s.addrs EXCEPT ![Len(s.addrs)] = (s.addrs[Len(s.addrs)] * 16 + DigitValue[c]) % AddrMod]
  <2>1. z = [s EXCEPT !.digit = DigitValue[c], !.addrs = a] /\ c # Newline
    BY <1>6, DigitsAreNumbers DEF Step, AddrStep
  <2>2. a \in Seq(Nat)
    <3>1. Len(s.addrs) \in 1 .. Len(s.addrs) /\ s.addrs[Len(s.addrs)] \in Nat
      BY <1>1, <1>6, EmptySeq, LenProperties, ElementOfSeq
    <3>2. \A y \in Nat : (y * 16 + DigitValue[c]) % AddrMod \in Nat
      BY <1>6, DigitsAreNumbers
    <3>. QED
      BY <1>1, <3>1, <3>2, ExceptSeq
  <2>3. DigitValue[c] \in Nat
    BY <1>6, DigitsAreNumbers
  <2>4. a = [s.addrs EXCEPT ![Len(s.addrs)] = (@ * 16 + DigitValue[c]) % AddrMod]
    OBVIOUS
  <2>. HIDE DEF z, a
  <2>. QED
    BY <1>1, <1>6, <2>1, <2>2, <2>3, <2>4 DEF States, z
<1>. QED
  BY <1>3, <1>4, <1>5, <1>6

(* The remainder is the only number below m that differs by a multiple.     *)
LEMMA RemainderIs ==
  ASSUME NEW m \in Nat \ {0}, NEW a \in Nat, NEW s \in 0 .. m - 1
  PROVE  (m * a + s) % m = s
<1>. DEFINE z == m * a + s
            q == z \div m
            r == z % m
<1>1. z \in Nat
  OBVIOUS
<1>2. z = m * q + r /\ q \in Nat /\ r \in 0 .. m - 1
  <2>. HIDE DEF z
  <2>. QED
    BY <1>1
<1>3. m * a + s = m * q + r
  BY <1>2
<1>. HIDE DEF z, q, r
<1>4. m * (a - q) = r - s
  BY <1>2, <1>3
<1>5. ~(a - q >= 1)
  <2>1. \A k \in Int : k >= 1 => m * k >= m
    OBVIOUS
  <2>. QED
    BY <1>2, <1>4, <2>1
<1>6. ~(a - q <= -1)
  <2>1. \A k \in Int : k <= -1 => m * k <= -m
    OBVIOUS
  <2>. QED
    BY <1>2, <1>4, <2>1
<1>7. a = q
  BY <1>2, <1>5, <1>6
<1>. QED
  BY <1>2, <1>3, <1>7 DEF r, z

(* A number modulo m, times 16 and plus a digit. *)
LEMMA DigitModulo ==
  ASSUME NEW m \in Nat \ {0}, NEW v \in Nat, NEW d \in Nat
  PROVE  ((v % m) * 16 + d) % m = (v * 16 + d) % m
<1>. DEFINE q == v \div m
            r == v % m
            x == r * 16 + d
<1>1. v = m * q + r /\ q \in Nat /\ r \in Nat
  OBVIOUS
<1>. HIDE DEF q, r
<1>2. v * 16 + d = x + m * (16 * q) /\ x \in Nat
  BY <1>1
<1>3. ASSUME NEW y \in Nat, NEW k \in Nat
      PROVE  (y + m * k) % m = y % m
  <2>. DEFINE p == y \div m
              s == y % m
  <2>1. y = m * p + s /\ p \in Nat /\ s \in 0 .. m - 1
    OBVIOUS
  <2>. HIDE DEF p, s
  <2>2. y + m * k = m * (p + k) + s /\ p + k \in Nat
    BY <2>1
  <2>3. (m * (p + k) + s) % m = s
    BY <2>1, <2>2, RemainderIs
  <2>. QED
    BY <2>2, <2>3 DEF s
<1>4. 16 * q \in Nat
  BY <1>1
<1>. HIDE DEF x
<1>5. (x + m * (16 * q)) % m = x % m
  BY <1>2, <1>3, <1>4
<1>. QED
  BY <1>2, <1>5 DEF x, r

(* What is assumed of a configuration. *)
LEMMA EntriesAre ==
  ASSUME NEW es \in Entries
  PROVE  /\ es \in Seq(Entry) /\ Len(es) \in Nat \ {0}
         /\ \A k \in 1 .. Len(es) :
              /\ es[k] \in Entry /\ es[k].name \in Seq(Nat) /\ es[k].addr \in Seq(DOMAIN DigitValue)
              /\ Len(es[k].name) \in Nat /\ Len(es[k].addr) \in Nat
              /\ \A c \in 1 .. Len(es[k].name) : es[k].name[c] # Space
              /\ es[k].value = Values(es[k].addr)[Len(es[k].addr)]
<1>1. es \in Seq(Entry) /\ es # <<>>
  BY EntriesAssumption, DigitsAreConverted DEF Entry
<1>2. \A k \in 1 .. Len(es) :
        /\ \A c \in 1 .. Len(es[k].name) : es[k].name[c] # Space
        /\ es[k].value = Values(es[k].addr)[Len(es[k].addr)]
  BY EntriesAssumption
<1>3. Len(es) \in Nat \ {0}
  BY <1>1, LenProperties, EmptySeq
<1>4. \A k \in 1 .. Len(es) : es[k] \in Entry
  BY <1>1, ElementOfSeq
<1>5. \A k \in 1 .. Len(es) : /\ es[k].name \in Seq(Nat) /\ es[k].addr \in Seq(DOMAIN DigitValue)
                              /\ Len(es[k].name) \in Nat /\ Len(es[k].addr) \in Nat
  BY <1>4, LineIs
<1>. QED
  BY <1>1, <1>2, <1>3, <1>4, <1>5

(* A character of a name is added to it, the space behind it begins an      *)
(* address.                                                                *)
LEMMA NameRight ==
  ASSUME NEW es \in Entries, NEW t \in Tails, NEW n \in Nat, NEW s,
         n < Len(Written(es) \o t), Right(es, t, n, s), s.state = "name"
  PROVE  Right(es, t, n + 1, Step(s, (Written(es) \o t)[n + 1]))
<1>. DEFINE w == Written(es) \o t
            k == Len(s.files)
            e == es[k + 1]
            b == Begin(es, k + 1)
            p == Len(s.name)
            q == Len(e.name)
            r == Len(e.addr)
            c == w[n + 1]
            z == Step(s, c)
<1>1. /\ s \in States /\ k \in Nat /\ k < Len(es) /\ Len(s.addrs) = k /\ n = b + p
      /\ Begins(s.name, e.name) /\ s.name \in Seq(Nat) /\ p \in Nat
      /\ s.files \in Seq(Seq(Nat)) /\ s.addrs \in Seq(Nat)
      /\ \A j \in 1 .. k : s.files[j] = es[j].name /\ s.addrs[j] = es[j].value % AddrMod
  <2>1. s \in States /\ InName(es, t, n, s) /\ Len(es) \in Nat
    BY EntriesAre DEF Right
  <2>2. s.files \in Seq(Seq(Nat)) /\ s.name \in Seq(Nat) /\ s.addrs \in Seq(Nat)
    BY <2>1 DEF States
  <2>3. k \in Nat /\ p \in Nat
    BY <2>2, LenProperties
  <2>. QED
    BY <2>1, <2>2, <2>3 DEF Right, InName
<1>2. k + 1 \in 1 .. Len(es) /\ Len(es) \in Nat
  <2>. HIDE DEF k
  <2>. QED
    BY <1>1, EntriesAre
<1>. HIDE DEF k
<1>3. /\ e.name \in Seq(Nat) /\ q \in Nat /\ r \in Nat /\ e \in Entry
      /\ e.addr \in Seq(DOMAIN DigitValue)
      /\ \A x \in 1 .. q : e.name[x] # Space
  BY <1>2, EntriesAre
<1>4. /\ b \in Nat /\ \A x \in 1 .. q + 1 + r : w[b + x] = Line(e)[x]
      /\ Len(Line(e)) = q + 1 + r
      /\ \A x \in 1 .. q : Line(e)[x] = e.name[x]
      /\ Line(e)[q + 1] = Space
  <2>1. t \in Ends /\ es \in Seq(Entry)
    BY TailsAssumption, EntriesAre DEF Ends
  <2>. HIDE DEF e
  <2>2. /\ Len(Line(e)) = q + 1 + r
        /\ \A x \in 1 .. q : Line(e)[x] = e.name[x]
        /\ Line(e)[q + 1] = Space
    BY <1>3, LineIs
  <2>3. /\ Begin(es, k + 1) \in Nat
        /\ \A x \in 1 .. Len(Line(es[k + 1])) : (Written(es) \o t)[Begin(es, k + 1) + x] = Line(es[k + 1])[x]
    BY <1>2, <2>1, LineAt
  <2>. QED
    BY <2>2, <2>3 DEF e
<1>5. p <= q /\ \A x \in 1 .. p : e.name[x] = s.name[x]
  BY <1>1 DEF Begins
<1>6. \A x \in 1 .. q : e.name[x] \in Nat
  <2>. HIDE DEF e
  <2>. QED
    BY <1>3, ElementOfSeq
<1>7. Fits(es) => Len(es) <= MaxFiles /\ q < MaxName
  BY <1>2 DEF Fits
<1>8. Fits(es) => ~s.outside
  BY DEF Right
<1>9. Outside(s) <=> k >= MaxFiles \/ p >= MaxName
  BY DEF Outside, k
<1>10. \A m, y : InName(es, t, m, y) <=>
         LET l == Len(y.files) IN
         \/ /\ l < Len(es) /\ m = Begin(es, l + 1) + Len(y.name)
            /\ Begins(y.name, es[l + 1].name)
         \/ l = Len(es) /\ m = Len(w)
  BY DEF InName
<1>11. /\ s.state = "name" /\ c = Space =>
            /\ z.state = "addr" /\ z.name = <<>> /\ z.files = Append(s.files, s.name)
            /\ z.addrs = Append(s.addrs, 0) /\ z.outside = (s.outside \/ Outside(s))
            /\ z \in States
       /\ s.state = "name" /\ c # Space /\ c \in Nat =>
            /\ z.state = "name" /\ z.name = Append(s.name, c) /\ z.files = s.files
            /\ z.addrs = s.addrs /\ z.outside = (s.outside \/ Outside(s))
            /\ z \in States
  <2>1. Space \in Nat
    BY DEF Space
  <2>. HIDE DEF c
  <2>2. ASSUME s.state = "name", c = Space
        PROVE  /\ z.state = "addr" /\ z.name = <<>> /\ z.files = Append(s.files, s.name)
               /\ z.addrs = Append(s.addrs, 0) /\ z.outside = (s.outside \/ Outside(s))
               /\ z \in States
    <3>1. c \in Nat
      BY <2>1, <2>2
    <3>. QED
      BY <1>1, <2>2, <3>1, StepIs
  <2>3. ASSUME s.state = "name", c # Space, c \in Nat
        PROVE  /\ z.state = "name" /\ z.name = Append(s.name, c) /\ z.files = s.files
               /\ z.addrs = s.addrs /\ z.outside = (s.outside \/ Outside(s))
               /\ z \in States
    BY <1>1, <2>3, StepIs
  <2>. QED
    BY <2>2, <2>3
<1>12. b = Begin(es, k + 1) /\ e = es[k + 1] /\ k = Len(s.files)
  BY DEF k
<1>13. Digits(es, k + 1) = b + q + 1
  BY DEF Digits
<1>. HIDE DEF w, e, b, p, q, r, c, z
<1>14. n + 1 = b + (p + 1) /\ p + 1 \in 1 .. q + 1 + r
  BY <1>1, <1>3, <1>4, <1>5
<1>15. c = Line(e)[p + 1]
  BY <1>4, <1>14 DEF c
<1>16. Fits(es) => ~s.outside /\ ~Outside(s)
  <2>1. MaxFiles \in Nat /\ MaxName \in Nat
    BY MemConfigAssumption
  <2>. QED
    BY <1>1, <1>2, <1>3, <1>5, <1>7, <1>8, <1>9, <2>1
<1>17. ASSUME p < q
       PROVE  Right(es, t, n + 1, z)
  <2>1. p + 1 \in 1 .. q
    BY <1>1, <1>3, <1>17
  <2>2. c = e.name[p + 1] /\ c \in Nat /\ c # Space
    BY <1>3, <1>4, <1>6, <1>15, <2>1
  <2>3. /\ z.state = "name" /\ z.name = Append(s.name, c) /\ z.files = s.files
        /\ z.addrs = s.addrs /\ z.outside = (s.outside \/ Outside(s)) /\ z \in States
    BY <1>11, <2>2
  <2>4. /\ Append(s.name, c) \in Seq(Nat) /\ Len(Append(s.name, c)) = p + 1
        /\ \A x \in 1 .. p + 1 : Append(s.name, c)[x] = e.name[x]
    <3>1. /\ Append(s.name, c) \in Seq(Nat) /\ Len(Append(s.name, c)) = p + 1
          /\ \A x \in 1 .. p : Append(s.name, c)[x] = s.name[x]
          /\ Append(s.name, c)[p + 1] = c
      BY <1>1, <2>2, AppendProperties DEF p
    <3>2. ASSUME NEW x \in 1 .. p + 1
          PROVE  Append(s.name, c)[x] = e.name[x]
      <4>1. x = p + 1 \/ x \in 1 .. p
        BY <1>1
      <4>. QED
        BY <1>5, <2>2, <3>1, <4>1
    <3>. QED
      BY <3>1, <3>2
  <2>5. Begins(z.name, e.name) /\ Len(z.name) = p + 1
    <3>1. p + 1 <= q /\ q = Len(e.name)
      BY <2>1, <1>3 DEF q
    <3>2. z.name = Append(s.name, c)
      BY <2>3
    <3>3. Len(z.name) = p + 1 /\ \A x \in 1 .. p + 1 : z.name[x] = e.name[x]
      BY <2>4, <3>2
    <3>4. z.name \in Seq(Nat)
      BY <2>4, <3>2
    <3>. QED
      BY <1>3, <3>1, <3>3, <3>4 DEF Begins
  <2>6. InName(es, t, n + 1, z)
    <3>1. Len(z.files) = k
      BY <1>12, <2>3
    <3>2. n + 1 \in Nat
      OBVIOUS
    <3>. QED
      BY <1>1, <1>10, <1>12, <1>14, <2>5, <3>1, <3>2
  <2>7. Fits(es) => ~z.outside
    BY <1>16, <2>3
  <2>8. Len(z.files) = k /\ Len(z.addrs) = k /\ k <= Len(es)
    BY <1>1, <1>2, <1>12, <2>3
  <2>9. \A j \in 1 .. k : z.files[j] = es[j].name /\ z.addrs[j] = es[j].value % AddrMod
    BY <1>1, <2>3
  <2>. QED
    <3>1. /\ Len(z.files) <= Len(es) /\ Len(z.addrs) = Len(z.files)
          /\ \A j \in 1 .. Len(z.files) : z.files[j] = es[j].name
          /\ \A j \in 1 .. Len(z.files) : z.addrs[j] = es[j].value % AddrMod
      BY <2>8, <2>9
    <3>2. z.state = "name" /\ z.state # "addr"
      BY <2>3
    <3>3. z \in States
      BY <2>3
    <3>. QED
      BY <2>6, <2>7, <3>1, <3>2, <3>3 DEF Right
<1>18. ASSUME p = q
       PROVE  Right(es, t, n + 1, z)
  <2>1. c = Space
    BY <1>4, <1>15, <1>18
  <2>2. /\ z.state = "addr" /\ z.name = <<>> /\ z.files = Append(s.files, s.name)
        /\ z.addrs = Append(s.addrs, 0) /\ z.outside = (s.outside \/ Outside(s))
        /\ z \in States
    BY <1>11, <2>1
  <2>3. s.name = e.name
    BY <1>1, <1>3, <1>5, <1>18, SeqEqual DEF p, q
  <2>4. /\ Len(z.files) = k + 1 /\ Len(z.addrs) = k + 1
        /\ \A j \in 1 .. k : z.files[j] = s.files[j] /\ z.addrs[j] = s.addrs[j]
        /\ z.files[k + 1] = e.name /\ z.addrs[k + 1] = 0
    <3>1. /\ Len(Append(s.files, s.name)) = k + 1
          /\ \A j \in 1 .. k : Append(s.files, s.name)[j] = s.files[j]
          /\ Append(s.files, s.name)[k + 1] = s.name
      BY <1>1, <1>12, AppendProperties
    <3>2. /\ Len(Append(s.addrs, 0)) = k + 1
          /\ \A j \in 1 .. k : Append(s.addrs, 0)[j] = s.addrs[j]
          /\ Append(s.addrs, 0)[k + 1] = 0
      <4>1. /\ Len(Append(s.addrs, 0)) = Len(s.addrs) + 1
            /\ \A j \in 1 .. Len(s.addrs) : Append(s.addrs, 0)[j] = s.addrs[j]
            /\ Append(s.addrs, 0)[Len(s.addrs) + 1] = 0
        <5>1. 0 \in Nat /\ s.addrs \in Seq(Nat)
          BY <1>1
        <5>. QED
          BY <5>1, AppendProperties
      <4>. QED
        BY <1>1, <4>1
    <3>. QED
      BY <2>2, <2>3, <3>1, <3>2
  <2>5. (n + 1) - Digits(es, k + 1) = 0
    <3>1. n + 1 = b + p + 1
      BY <1>1, <1>4
    <3>. QED
      BY <1>1, <1>4, <1>13, <1>18, <3>1
  <2>6. Values(e.addr)[0] = 0 /\ 0 % AddrMod = 0 /\ 0 \in 0 .. Len(e.addr)
    <3>1. AddrMod \in Nat \ {0}
      BY MemConfigAssumption
    <3>2. Values(e.addr)[0] = 0 
      BY <1>3, ValuesAre
    <3>. QED
      BY <1>3, <3>1, <3>2 DEF r
  <2>7. InAddr(es, n + 1, z)
    <3>1. Len(z.files) = k + 1 /\ k + 1 # 0
      BY <1>1, <2>4
    <3>. QED
      BY <1>12, <2>2, <2>4, <2>5, <2>6, <3>1 DEF InAddr
  <2>8. ASSUME NEW j \in 1 .. k + 1
        PROVE  z.files[j] = es[j].name /\ (j < k + 1 => z.addrs[j] = es[j].value % AddrMod)
    <3>1. CASE j = k + 1
      BY <1>1, <1>12, <2>4, <3>1
    <3>2. CASE j # k + 1
      <4>1. j \in 1 .. k
        BY <1>1, <3>2
      <4>. QED
        BY <1>1, <2>4, <4>1
    <3>. QED
      BY <3>1, <3>2
  <2>9. Fits(es) => ~z.outside
    BY <1>16, <2>2
  <2>10. k + 1 <= Len(es)
    BY <1>2
  <2>. QED
    <3>1. /\ Len(z.files) <= Len(es) /\ Len(z.addrs) = Len(z.files)
          /\ \A j \in 1 .. Len(z.files) : z.files[j] = es[j].name
          /\ \A j \in 1 .. Len(z.files) : j < Len(z.files) => z.addrs[j] = es[j].value % AddrMod
      BY <2>4, <2>8, <2>10
    <3>2. z.state # "name" /\ z.state = "addr"
      BY <2>2
    <3>3. z \in States
      BY <2>2
    <3>. QED
      BY <2>7, <2>9, <3>1, <3>2, <3>3 DEF Right
<1>. QED
  BY <1>1, <1>3, <1>5, <1>17, <1>18 DEF c, z, w

(* A digit of an address is added to its value, the newline ends the entry. *)
LEMMA AddrRight ==
  ASSUME NEW es \in Entries, NEW t \in Tails, NEW n \in Nat, NEW s,
         n < Len(Written(es) \o t), Right(es, t, n, s), s.state = "addr"
  PROVE  Right(es, t, n + 1, Step(s, (Written(es) \o t)[n + 1]))
<1>. DEFINE w == Written(es) \o t
            k == Len(s.files)
            e == es[k]
            b == Begin(es, k)
            q == Len(e.name)
            r == Len(e.addr)
            v == Values(e.addr)
            d == n - Digits(es, k)
            c == w[n + 1]
            z == Step(s, c)
<1>1. /\ s \in States /\ k \in Nat /\ k <= Len(es) /\ Len(s.addrs) = k /\ k # 0
      /\ s.files \in Seq(Seq(Nat)) /\ s.addrs \in Seq(Nat) /\ s.name = <<>>
      /\ d \in 0 .. r /\ s.addrs[k] = v[d] % AddrMod
      /\ \A j \in 1 .. k : s.files[j] = es[j].name
      /\ \A j \in 1 .. k : j < k => s.addrs[j] = es[j].value % AddrMod
  <2>1. s \in States /\ InAddr(es, n, s)
    BY DEF Right
  <2>2. s.files \in Seq(Seq(Nat)) /\ s.addrs \in Seq(Nat)
    BY <2>1 DEF States
  <2>3. k \in Nat
    BY <2>2, LenProperties
  <2>4. /\ k <= Len(es) /\ Len(s.addrs) = k
        /\ \A j \in 1 .. k : s.files[j] = es[j].name
        /\ \A j \in 1 .. k : j < k => s.addrs[j] = es[j].value % AddrMod
    BY DEF Right
  <2>. QED
    BY <2>1, <2>2, <2>3, <2>4 DEF InAddr
<1>2. k \in 1 .. Len(es) /\ Len(es) \in Nat
  <2>. HIDE DEF k
  <2>. QED
    BY <1>1, EntriesAre
<1>3. s.addrs # <<>> /\ k = Len(s.addrs)
  BY <1>1, EmptySeq
<1>4. Fits(es) => ~s.outside
  BY DEF Right
<1>. HIDE DEF k
<1>5. /\ e.name \in Seq(Nat) /\ q \in Nat /\ r \in Nat /\ e \in Entry
      /\ e.addr \in Seq(DOMAIN DigitValue) /\ e.value = v[r]
  BY <1>2, EntriesAre
<1>6. t \in Ends /\ es \in Seq(Entry) /\ (t = <<>> \/ t = <<Newline>>)
      /\ Len(<<>>) = 0 /\ Len(<<Newline>>) = 1
  BY TailsAssumption, EntriesAre DEF Ends
<1>7. /\ Len(Line(e)) = q + 1 + r
      /\ \A x \in 1 .. r : Line(e)[q + 1 + x] = e.addr[x]
  <2>. HIDE DEF e
  <2>. QED
    BY <1>5, LineIs
<1>8. /\ w \in Seq(Nat) /\ b \in Nat
      /\ \A x \in 1 .. Len(Line(e)) : w[b + x] = Line(e)[x]
      /\ k < Len(es) => /\ w[b + Len(Line(e)) + 1] = Newline
                        /\ Begin(es, k + 1) = b + Len(Line(e)) + 1
      /\ k = Len(es) => /\ Len(w) = b + Len(Line(e)) + Len(t)
                        /\ t = <<Newline>> => w[b + Len(Line(e)) + 1] = Newline
  <2>. DEFINE j == k
  <2>1. j \in 1 .. Len(es)
    BY <1>2
  <2>. HIDE DEF j
  <2>2. LET zz == Written(es) \o t
            bb == Begin(es, j)
            ll == Line(es[j]) IN
        /\ zz \in Seq(Nat) /\ bb \in Nat
        /\ \A x \in 1 .. Len(ll) : zz[bb + x] = ll[x]
        /\ j < Len(es) => /\ zz[bb + Len(ll) + 1] = Newline
                          /\ Begin(es, j + 1) = bb + Len(ll) + 1
        /\ j = Len(es) => /\ Len(zz) = bb + Len(ll) + Len(t)
                          /\ t = <<Newline>> => zz[bb + Len(ll) + 1] = Newline
    BY <1>6, <2>1, LineAt, ZenonT(30)
  <2>. QED
    BY <2>2 DEF j
<1>9. /\ v[0] = 0
      /\ \A x \in 1 .. r : v[x] = v[x - 1] * 16 + DigitValue[e.addr[x]]
      /\ \A x \in 0 .. r : v[x] \in Nat
  <2>. HIDE DEF e
  <2>. QED
    BY <1>5, ValuesAre
<1>10. \A x \in 1 .. r : e.addr[x] \in DOMAIN DigitValue
  <2>. HIDE DEF e
  <2>. QED
    BY <1>5, ElementOfSeq
<1>11. d = n - (b + q + 1) /\ Digits(es, k) = b + q + 1
  BY DEF Digits
<1>12. n < Len(w) /\ k = Len(s.files) /\ e = es[k] /\ v = Values(e.addr)
  BY DEF k
<1>13. c = w[n + 1] /\ z = Step(s, c) /\ r = Len(e.addr)
  OBVIOUS
<1>. HIDE DEF w, e, b, q, r, v, d, c, z
<1>14. /\ d \in Nat /\ n + 1 = b + (q + 1 + (d + 1)) /\ n = b + q + 1 + d
  <2>1. d \in 0 .. r /\ q \in Nat /\ r \in Nat /\ b \in Nat /\ d = n - (b + q + 1)
    BY <1>1, <1>5, <1>8, <1>11
  <2>. QED
    BY <2>1
<1>15. ASSUME d < r
       PROVE  Right(es, t, n + 1, z)
  <2>1. d + 1 \in 1 .. r /\ (d + 1) - 1 = d /\ d + 1 \in 0 .. r
    <3>1. d \in Nat /\ r \in Nat /\ d < r
      BY <1>5, <1>14, <1>15
    <3>. QED
      BY <3>1
  <2>2. q + 1 + (d + 1) \in 1 .. Len(Line(e))
    BY <1>5, <1>7, <2>1
  <2>3. c = e.addr[d + 1] /\ c \in DOMAIN DigitValue
    BY <1>7, <1>8, <1>10, <1>13, <1>14, <2>1, <2>2
  <2>4. c \in Nat /\ DigitValue[c] \in Nat
    BY <2>3, DigitsAreNumbers
  <2>. DEFINE y == (s.addrs[Len(s.addrs)] * 16 + DigitValue[c]) % AddrMod
  <2>5. /\ z.state = "addr" /\ z.name = s.name /\ z.files = s.files
        /\ z.addrs = [s.addrs EXCEPT ![Len(s.addrs)] = y]
        /\ z.outside = s.outside
        /\ z \in States
    BY <1>1, <1>3, <1>13, <2>3, <2>4, StepIs
  <2>6. y = v[d + 1] % AddrMod
    <3>1. v[d + 1] = v[d] * 16 + DigitValue[c]
      BY <1>9, <2>1, <2>3
    <3>2. AddrMod \in Nat \ {0} /\ v[d] \in Nat
      BY <1>1, <1>9, MemConfigAssumption
    <3>3. ((v[d] % AddrMod) * 16 + DigitValue[c]) % AddrMod = (v[d] * 16 + DigitValue[c]) % AddrMod
      BY <2>4, <3>2, DigitModulo
    <3>. QED
      BY <1>1, <1>3, <3>1, <3>3
  <2>. HIDE DEF y
  <2>7. /\ Len(z.files) = k /\ Len(z.addrs) = k
        /\ \A j \in 1 .. k : z.files[j] = s.files[j]
        /\ \A j \in 1 .. k : j < k => z.addrs[j] = s.addrs[j]
        /\ z.addrs[k] = y
    <3>1. DOMAIN s.addrs = 1 .. k
      BY <1>1
    <3>2. Len([s.addrs EXCEPT ![k] = y]) = k
      BY <1>1
    <3>3. k \in 1 .. k
      BY <1>2
    <3>4. z.addrs = [s.addrs EXCEPT ![k] = y]
      BY <1>3, <2>5
    <3>5. /\ \A j \in 1 .. k : j < k => z.addrs[j] = s.addrs[j]
          /\ z.addrs[k] = y
      BY <1>1, <3>1, <3>3, <3>4
    <3>. QED
      BY <1>12, <2>5, <3>2, <3>4, <3>5
  <2>8. InAddr(es, n + 1, z)
    <3>1. (n + 1) - Digits(es, k) = d + 1
      BY <1>5, <1>8, <1>11, <1>14
    <3>2. Len(z.files) = k /\ k # 0 /\ z.name = <<>>
      BY <1>1, <2>5, <2>7
    <3>3. d + 1 \in 0 .. Len(es[k].addr)
      BY <1>12, <1>13, <2>1
    <3>4. z.addrs[k] = Values(es[k].addr)[d + 1] % AddrMod
      BY <1>12, <2>6, <2>7
    <3>. QED
      BY <3>1, <3>2, <3>3, <3>4 DEF InAddr
  <2>9. /\ Len(z.files) <= Len(es) /\ Len(z.addrs) = Len(z.files)
        /\ \A j \in 1 .. Len(z.files) : z.files[j] = es[j].name
        /\ \A j \in 1 .. Len(z.files) : j < Len(z.files) => z.addrs[j] = es[j].value % AddrMod
    BY <1>1, <2>7
  <2>10. z.state # "name" /\ z.state = "addr" /\ z \in States
    BY <2>5
  <2>11. Fits(es) => ~z.outside
    BY <1>4, <2>5
  <2>. QED
    BY <2>8, <2>9, <2>10, <2>11 DEF Right
<1>16. ASSUME d = r
       PROVE  Right(es, t, n + 1, z)
  <2>1. n + 1 = b + Len(Line(e)) + 1 /\ Len(Line(e)) \in Nat
    BY <1>5, <1>7, <1>8, <1>14, <1>16
  <2>2. ASSUME k = Len(es)
        PROVE  t = <<Newline>> /\ n + 1 = Len(w)
    <3>1. Len(w) = b + Len(Line(e)) + Len(t)
      BY <1>8, <2>2
    <3>. QED
      <4>. DEFINE l == Len(Line(e))
                  u == Len(t)
                  m == Len(w)
      <4>1. m = b + l + u /\ n < m /\ n + 1 = b + l + 1 /\ b \in Nat /\ l \in Nat
            /\ (t = <<>> => u = 0) /\ (t = <<Newline>> => u = 1)
        BY <1>6, <1>8, <1>12, <2>1, <3>1
      <4>. HIDE DEF l, u, m
      <4>2. t # <<>>
        BY <4>1
      <4>3. t = <<Newline>>
        BY <1>6, <4>2
      <4>4. n + 1 = m
        BY <4>1, <4>3
      <4>. QED
        BY <4>3, <4>4 DEF m
  <2>3. c = Newline
    <3>1. k < Len(es) \/ k = Len(es)
      BY <1>2
    <3>. QED
      BY <1>8, <1>13, <2>1, <2>2, <3>1
  <2>4. /\ z.state = "name" /\ z.name = s.name /\ z.files = s.files
        /\ z.addrs = s.addrs /\ z.outside = s.outside
        /\ z \in States
    <3>1. Newline \in Nat
      BY DEF Newline
    <3>. QED
      <4>1. /\ Step(s, Newline).state = "name" /\ Step(s, Newline).name = s.name
            /\ Step(s, Newline).files = s.files /\ Step(s, Newline).addrs = s.addrs
            /\ Step(s, Newline).outside = s.outside /\ Step(s, Newline) \in States
        BY <1>1, <3>1, StepIs
      <4>. QED
        BY <1>13, <2>3, <4>1
  <2>5. s.addrs[k] = es[k].value % AddrMod
    BY <1>1, <1>5, <1>12, <1>16
  <2>6. /\ Len(z.files) <= Len(es) /\ Len(z.addrs) = Len(z.files)
        /\ \A j \in 1 .. Len(z.files) : z.files[j] = es[j].name
        /\ \A j \in 1 .. Len(z.files) : z.addrs[j] = es[j].value % AddrMod
    <3>1. ASSUME NEW j \in 1 .. k
          PROVE  s.addrs[j] = es[j].value % AddrMod
      <4>1. j < k \/ j = k
        BY <1>1
      <4>. QED
        BY <1>1, <2>5, <4>1
    <3>. QED
      BY <1>1, <1>12, <2>4, <3>1
  <2>7. InName(es, t, n + 1, z)
    <3>1. Len(z.files) = k /\ z.name = <<>> /\ Len(z.name) = 0
      BY <1>1, <1>6, <1>12, <2>4
    <3>2. CASE k < Len(es)
      <4>1. k + 1 \in 1 .. Len(es)
        BY <1>1, <1>2, <3>2
      <4>2. es[k + 1].name \in Seq(Nat) /\ Len(es[k + 1].name) \in Nat
        BY <4>1, EntriesAre
      <4>3. Begins(z.name, es[k + 1].name)
        BY <3>1, <4>2, EmptySeq DEF Begins
      <4>4. n + 1 = Begin(es, k + 1) + 0
        BY <1>8, <2>1, <3>2
      <4>. QED
        BY <3>1, <3>2, <4>3, <4>4 DEF InName
    <3>3. CASE k = Len(es)
      BY <2>2, <3>1, <3>3 DEF InName, w
    <3>. QED
      BY <1>2, <3>2, <3>3
  <2>8. z.state # "addr" /\ z.state = "name" /\ z \in States
    BY <2>4
  <2>9. Fits(es) => ~z.outside
    BY <1>4, <2>4
  <2>. QED
    BY <2>6, <2>7, <2>8, <2>9 DEF Right
<1>. QED
  BY <1>1, <1>5, <1>15, <1>16 DEF c, z, w


(* At the end of the file every entry has been read, its address included. *)
LEMMA AllRead ==
  ASSUME NEW es \in Entries, NEW t \in Tails, NEW s,
         Right(es, t, Len(Written(es) \o t), s)
  PROVE  /\ Len(s.files) = Len(es)
         /\ \A j \in 1 .. Len(es) : s.addrs[j] = es[j].value % AddrMod
<1>. DEFINE w == Written(es) \o t
            n == Len(w)
            k == Len(s.files)
<1>1. /\ s \in States /\ k <= Len(es) /\ Len(es) \in Nat \ {0} /\ es \in Seq(Entry)
      /\ s.state = "name" => InName(es, t, n, s)
      /\ s.state = "addr" => InAddr(es, n, s)
      /\ \A j \in 1 .. k : j < k \/ s.state = "name" => s.addrs[j] = es[j].value % AddrMod
  BY EntriesAre DEF Right
<1>2. k \in Nat /\ (s.state = "name" \/ s.state = "addr")
  <2>1. s.files \in Seq(Seq(Nat)) /\ s.state \in {"name", "addr"}
    BY <1>1 DEF States
  <2>. QED
    BY <2>1, LenProperties
<1>3. t \in Ends /\ (t = <<>> \/ t = <<Newline>>)
  BY TailsAssumption DEF Ends
<1>4. CASE s.state = "name"
  <2>1. SUFFICES ASSUME k < Len(es)
                 PROVE  FALSE
    BY <1>1, <1>2, <1>4
  <2>. DEFINE e == es[k + 1]
              b == Begin(es, k + 1)
              p == Len(s.name)
              q == Len(e.name)
              r == Len(e.addr)
  <2>2. n = b + p /\ Begins(s.name, e.name)
    BY <1>1, <1>4, <2>1 DEF InName
  <2>3. p <= q /\ s.name \in Seq(Nat)
    BY <2>2 DEF Begins
  <2>. HIDE DEF k
  <2>4. k + 1 \in 1 .. Len(es)
    BY <1>1, <1>2, <2>1
  <2>5. e \in Entry /\ q \in Nat /\ r \in Nat /\ p \in Nat
    BY <2>3, <2>4, EntriesAre, LenProperties
  <2>6. b \in Nat /\ b + Len(Line(e)) <= n
    BY <1>1, <1>3, <2>4, LineAt
  <2>7. Len(Line(e)) = q + 1 + r
    <3>. HIDE DEF e
    <3>. QED
      BY <2>5, LineIs
  <2>. HIDE DEF n, b, p, q, r, e
  <2>. QED
    BY <2>2, <2>3, <2>5, <2>6, <2>7
<1>5. CASE s.state = "addr"
  <2>. DEFINE e == es[k]
              b == Begin(es, k)
              q == Len(e.name)
              r == Len(e.addr)
              v == Values(e.addr)
              d == n - Digits(es, k)
  <2>1. k # 0 /\ d \in 0 .. r /\ s.addrs[k] = v[d] % AddrMod
    BY <1>1, <1>5 DEF InAddr
  <2>2. d = n - (b + q + 1)
    BY DEF Digits
  <2>3. \A j \in 1 .. k : j < k => s.addrs[j] = es[j].value % AddrMod
    BY <1>1
  <2>. HIDE DEF k
  <2>4. k \in 1 .. Len(es)
    BY <1>1, <1>2, <2>1
  <2>5. e \in Entry /\ q \in Nat /\ r \in Nat /\ e.value = v[r]
    BY <2>4, EntriesAre
  <2>6. /\ w \in Seq(Nat) /\ b \in Nat
        /\ k < Len(es) => b + Len(Line(e)) < n
        /\ k = Len(es) => n = b + Len(Line(e)) + Len(t)
    BY <1>1, <1>3, <2>4, LineAt
  <2>7. Len(Line(e)) = q + 1 + r
    <3>. HIDE DEF e
    <3>. QED
      BY <2>5, LineIs
  <2>8. n \in Nat /\ Len(t) \in Nat
    <3>1. Len(<<>>) = 0 /\ Len(<<Newline>>) = 1
      OBVIOUS
    <3>. QED
      BY <1>3, <2>6, <3>1, LenProperties
  <2>9. e.value = v[r] /\ e = es[k] /\ k = Len(s.files)
    BY <2>5 DEF k
  <2>. HIDE DEF n, b, q, r, v, d, e
  <2>10. k = Len(es) /\ d = r
    <3>1. n = b + q + 1 + d /\ d <= r /\ d \in Nat
      BY <2>1, <2>2, <2>5, <2>6, <2>8
    <3>2. ~(k < Len(es))
      BY <2>5, <2>6, <2>7, <3>1
    <3>3. k = Len(es)
      BY <1>1, <2>4, <3>2
    <3>. QED
      BY <2>5, <2>6, <2>7, <2>8, <3>1, <3>3
  <2>11. s.addrs[k] = es[k].value % AddrMod
    BY <2>1, <2>9, <2>10
  <2>12. ASSUME NEW j \in 1 .. Len(es)
         PROVE  s.addrs[j] = es[j].value % AddrMod
    <3>1. j \in 1 .. k /\ (j < k \/ j = k)
      BY <1>1, <2>10
    <3>. QED
      BY <2>3, <2>11, <3>1
  <2>. QED
    BY <2>9, <2>10, <2>12
<1>. QED
  BY <1>2, <1>4, <1>5

(* The loop begins in the name of the first entry. *)
LEMMA StartRight ==
  ASSUME NEW es \in Entries, NEW t \in Tails
  PROVE  Right(es, t, 0, Start)
<1>1. /\ Start.state = "name" /\ Start.name = <<>> /\ Start.files = <<>> /\ Start.addrs = <<>>
      /\ Start.digit = 0 /\ Start.outside = FALSE
      /\ Start = [state |-> Start.state, name |-> Start.name, files |-> Start.files,
                  addrs |-> Start.addrs, digit |-> Start.digit, outside |-> Start.outside]
  BY DEF Start
<1>2. <<>> \in Seq(Nat) /\ <<>> \in Seq(Seq(Nat)) /\ Len(<<>>) = 0
  BY EmptySeq
<1>3. Start \in States
  <2>1. [state |-> "name", name |-> <<>>, files |-> <<>>, addrs |-> <<>>,
         digit |-> 0, outside |-> FALSE] \in States
    BY <1>2 DEF States
  <2>. QED
    BY <2>1 DEF Start
<1>4. 1 \in 1 .. Len(es) /\ 0 < Len(es) /\ Len(es) \in Nat /\ 0 + 1 = 1
  BY EntriesAre
<1>5. InName(es, t, 0, Start)
  <2>1. es[1].name \in Seq(Nat) /\ Len(es[1].name) \in Nat
    BY <1>4, EntriesAre
  <2>2. Begins(Start.name, es[1].name)
    BY <1>1, <1>2, <2>1 DEF Begins
  <2>3. Begin(es, 1) = 0
    BY DEF Begin
  <2>4. Len(Start.files) = 0 /\ Len(Start.name) = 0
    BY <1>1, <1>2
  <2>. QED
    BY <1>4, <2>2, <2>3, <2>4 DEF InName
<1>6. Len(Start.files) = 0 /\ Len(Start.addrs) = 0 /\ 1 .. 0 = {}
  BY <1>1, <1>2
<1>. QED
  BY <1>1, <1>3, <1>4, <1>5, <1>6 DEF Right

---------------------------------------------------------------------------------
(* The inductive invariant: the loop is in the file of a configuration, and *)
(* has read its beginning rightly.                                         *)
Reading ==
  /\ entries \in Entries
  /\ \E t \in Tails : /\ text = Written(entries) \o t
                      /\ i \in 0 .. Len(text)
                      /\ Right(entries, t, i, st)

THEOREM LoopInduction == Spec => []Reading
<1>1. Init => Reading
  <2>1. SUFFICES ASSUME Init
                 PROVE  Reading
    OBVIOUS
  <2>2. PICK t \in Tails : text = Written(entries) \o t
    BY <2>1 DEF Init
  <2>3. entries \in Entries /\ i = 0 /\ st = Start
    BY <2>1 DEF Init
  <2>4. text \in Seq(Nat)
    <3>1. t \in Ends /\ entries \in Seq(Entry) /\ Len(entries) \in 1 .. Len(entries)
      BY <2>3, TailsAssumption, EntriesAre DEF Ends
    <3>. QED
      BY <2>2, <3>1, LineAt
  <2>5. Right(entries, t, i, st)
    BY <2>3, StartRight
  <2>6. i \in 0 .. Len(text)
    BY <2>3, <2>4, LenProperties
  <2>. QED
    BY <2>2, <2>3, <2>5, <2>6 DEF Reading
<1>2. Reading /\ [Next]_vars => Reading'
  <2>1. SUFFICES ASSUME Reading, [Next]_vars
                 PROVE  Reading'
    OBVIOUS
  <2>2. CASE Read
    <3>1. PICK t \in Tails : /\ text = Written(entries) \o t
                             /\ i \in 0 .. Len(text)
                             /\ Right(entries, t, i, st)
      BY <2>1 DEF Reading
    <3>2. /\ entries \in Entries /\ entries' = entries /\ text' = text /\ i' = i + 1
          /\ i < Len(text) /\ st' = Step(st, text[i + 1])
      BY <2>1, <2>2 DEF Reading, Read
    <3>3. st.state = "name" \/ st.state = "addr"
      BY <3>1 DEF Right, States
    <3>4. i \in Nat
      BY <3>1
    <3>5. Right(entries, t, i + 1, Step(st, (Written(entries) \o t)[i + 1]))
      <4>1. i < Len(Written(entries) \o t)
        BY <3>1, <3>2
      <4>2. CASE st.state = "name"
        BY <3>1, <3>2, <3>4, <4>1, <4>2, NameRight
      <4>3. CASE st.state = "addr"
        BY <3>1, <3>2, <3>4, <4>1, <4>3, AddrRight
      <4>. QED
        BY <3>3, <4>2, <4>3
    <3>6. Right(entries, t, i', st')
      BY <3>1, <3>2, <3>5
    <3>7. i' \in 0 .. Len(text)
      BY <3>1, <3>2
    <3>. QED
      BY <3>1, <3>2, <3>6, <3>7 DEF Reading
  <2>3. CASE Return \/ UNCHANGED vars
    BY <2>1, <2>3 DEF Reading, Return, vars
  <2>. QED
    BY <2>1, <2>2, <2>3 DEF Next
<1>. QED
  BY <1>1, <1>2, PTL DEF Spec

(* At every turn the rows of the arrays are the names and the addresses of  *)
(* the first lines of the file.                                            *)
THEOREM FilesOfTheEntries == Spec => []FilesAreTheEntries
<1>1. Reading => FilesAreTheEntries
  <2>1. SUFFICES ASSUME Reading
                 PROVE  FilesAreTheEntries
    OBVIOUS
  <2>2. PICK t \in Tails : /\ text = Written(entries) \o t
                           /\ i \in 0 .. Len(text)
                           /\ Right(entries, t, i, st)
    BY <2>1 DEF Reading
  <2>. DEFINE k == Len(st.files)
  <2>3. /\ entries \in Entries /\ st \in States /\ k <= Len(entries) /\ Len(st.addrs) = k
        /\ \A j \in 1 .. k : st.files[j] = entries[j].name
        /\ \A j \in 1 .. k : j < k \/ st.state = "name" => st.addrs[j] = entries[j].value % AddrMod
    BY <2>1, <2>2 DEF Reading, Right
  <2>4. k \in Nat /\ (st.state = "name" \/ st.state = "addr") /\ Len(text) \in Nat
    <3>1. st.files \in Seq(Seq(Nat)) /\ (st.state = "name" \/ st.state = "addr")
      BY <2>3 DEF States
    <3>2. t \in Ends /\ entries \in Seq(Entry) /\ Len(entries) \in 1 .. Len(entries)
      BY <2>3, TailsAssumption, EntriesAre DEF Ends
    <3>3. text \in Seq(Nat)
      BY <2>2, <3>2, LineAt
    <3>. QED
      BY <3>1, <3>3, LenProperties
  <2>5. ASSUME NEW j \in 1 .. FinishedFiles
        PROVE  st.addrs[j] = entries[j].value % AddrMod
    <3>1. CASE st.state = "addr" /\ i < Len(text)
      <4>1. j \in 1 .. k - 1
        BY <3>1 DEF FinishedFiles
      <4>2. j \in 1 .. k /\ j < k
        BY <2>4, <4>1
      <4>. QED
        BY <2>3, <4>2
    <3>2. CASE st.state = "name"
      <4>1. j \in 1 .. k
        BY <3>2 DEF FinishedFiles
      <4>. QED
        BY <2>3, <3>2, <4>1
    <3>3. CASE st.state = "addr" /\ ~(i < Len(text))
      <4>1. j \in 1 .. k
        BY <3>3 DEF FinishedFiles
      <4>2. i = Len(text)
        BY <2>2, <2>4, <3>3
      <4>3. Right(entries, t, Len(Written(entries) \o t), st)
        BY <2>2, <4>2
      <4>4. /\ k = Len(entries)
            /\ \A x \in 1 .. Len(entries) : st.addrs[x] = entries[x].value % AddrMod
        BY <2>3, <4>3, AllRead
      <4>. QED
        BY <4>1, <4>4
    <3>. QED
      BY <2>4, <3>1, <3>2, <3>3
  <2>. QED
    BY <2>3, <2>5 DEF FilesAreTheEntries
<1>. QED
  BY <1>1, LoopInduction, PTL

(* A file that fits the arrays is read without leaving them. *)
THEOREM TheArraysAreLargeEnough == Spec => []FitsTheArrays
<1>1. Reading => FitsTheArrays
  BY DEF Reading, Right, Fits, FitsTheArrays
<1>. QED
  BY <1>1, LoopInduction, PTL

(* When the loop returns it has found every line of the file, and the       *)
(* address of each is the value of its digits.                             *)
THEOREM ReturnsWithAllFiles ==
  Spec => [](i = Len(text) =>
               /\ Len(st.files) = Len(entries)
               /\ \A k \in 1 .. Len(entries) : st.addrs[k] = entries[k].value % AddrMod)
<1>1. ASSUME Reading, i = Len(text)
      PROVE  /\ Len(st.files) = Len(entries)
             /\ \A k \in 1 .. Len(entries) : st.addrs[k] = entries[k].value % AddrMod
  BY <1>1, AllRead DEF Reading
<1>. QED
  BY <1>1, LoopInduction, PTL


(* The loop as a function of the file: Parse, which the model of the whole  *)
(* loading uses for it, lists the names and the addresses of every          *)
(* configuration.                                                          *)
THEOREM ParseListsTheEntries ==
  ASSUME NEW es \in Entries, NEW t \in Tails
  PROVE  LET p == Parse(Written(es) \o t) IN
         /\ p.files = [k \in 1 .. Len(es) |-> es[k].name]
         /\ p.addrs = [k \in 1 .. Len(es) |-> es[k].value % AddrMod]
         /\ Fits(es) => ~p.outside
<1>. DEFINE w == Written(es) \o t
            N == Len(w)
            Before(n, s) == s \in States /\ Right(es, t, n - 1, s)
            F == [n \in 1 .. N |-> [s \in States |-> IF Before(n, s) THEN Step(s, w[n]) ELSE s]]
            Body(g) == [n \in 0 .. N |-> IF n = 0 THEN Start ELSE Step(g[n - 1], w[n])]
            f == Turns(w)
<1>1. w \in Seq(Nat) /\ N \in Nat
  <2>1. t \in Ends /\ es \in Seq(Entry) /\ Len(es) \in 1 .. Len(es)
    BY TailsAssumption, EntriesAre DEF Ends
  <2>2. w \in Seq(Nat)
    BY <2>1, LineAt
  <2>. HIDE DEF w
  <2>. QED
    BY <2>2, LenProperties
<1>2. ASSUME NEW n \in 1 .. N, NEW s, Right(es, t, n - 1, s)
      PROVE  Right(es, t, n, Step(s, w[n]))
  <2>1. n - 1 \in Nat /\ n - 1 < N /\ (n - 1) + 1 = n
    BY <1>1, <1>2
  <2>2. s.state = "name" \/ s.state = "addr"
    BY <1>2 DEF Right, States
  <2>. DEFINE m == n - 1
  <2>. HIDE DEF m
  <2>3. m \in Nat /\ m < Len(Written(es) \o t) /\ Right(es, t, m, s) /\ m + 1 = n
    BY <1>2, <2>1 DEF m
  <2>4. CASE s.state = "name"
    <3>1. Right(es, t, m + 1, Step(s, (Written(es) \o t)[m + 1]))
      BY <2>3, <2>4, NameRight
    <3>. QED
      BY <2>3, <3>1
  <2>5. CASE s.state = "addr"
    <3>1. Right(es, t, m + 1, Step(s, (Written(es) \o t)[m + 1]))
      BY <2>3, <2>5, AddrRight
    <3>. QED
      BY <2>3, <3>1
  <2>. QED
    BY <2>2, <2>4, <2>5
<1>3. Right(es, t, 0, Start)
  BY StartRight
<1>4. \A n, s : Right(es, t, n, s) => s \in States
  BY DEF Right
<1>. HIDE DEF w
<1>5. F \in [1 .. N -> [States -> States]]
  <2>1. ASSUME NEW n \in 1 .. N, NEW s \in States
        PROVE  (IF Before(n, s) THEN Step(s, w[n]) ELSE s) \in States
    <3>1. CASE Before(n, s)
      BY <1>2, <1>4, <3>1
    <3>2. CASE ~Before(n, s)
      BY <3>2
    <3>. QED
      BY <3>1, <3>2
  <2>. HIDE DEF Before
  <2>. QED
    BY <2>1
<1>6. \E g : g = Body(g)
  <2>1. PICK g : Recursive(g, N, States, Start, F)
    <3>1. N \in Nat /\ Start \in States
      BY <1>1, <1>3, <1>4
    <3>. HIDE DEF F, N
    <3>. QED
      BY <1>5, <3>1, RecursiveFunction, Zenon
  <2>2. /\ g \in [0 .. N -> States] /\ g[0] = Start
        /\ \A n \in 1 .. N : g[n] = F[n][g[n - 1]]
    <3>. HIDE DEF F, N
    <3>. QED
      BY <2>1 DEF Recursive
  <2>3. ASSUME NEW n \in 1 .. N, Right(es, t, n - 1, g[n - 1])
        PROVE  g[n] = Step(g[n - 1], w[n]) /\ Right(es, t, n, g[n])
    <3>1. g[n - 1] \in States /\ Before(n, g[n - 1])
      BY <1>4, <2>3
    <3>2. F[n][g[n - 1]] = Step(g[n - 1], w[n])
      <4>. DEFINE s == g[n - 1]
      <4>1. s \in States /\ Before(n, s)
        BY <3>1
      <4>. HIDE DEF s
      <4>2. F[n][s] = Step(s, w[n])
        <5>1. F[n] = [y \in States |-> IF Before(n, y) THEN Step(y, w[n]) ELSE y]
          OBVIOUS
        <5>. HIDE DEF Before, F
        <5>. QED
          BY <4>1, <5>1
      <4>. QED
        BY <4>2 DEF s
    <3>. HIDE DEF F
    <3>3. g[n] = Step(g[n - 1], w[n])
      BY <2>2, <3>2
    <3>. QED
      BY <1>2, <2>3, <3>3
  <2>. HIDE DEF F
  <2>4. 0 .. N \subseteq {n \in 0 .. N : Right(es, t, n, g[n])}
    <3>. DEFINE P == {n \in 0 .. N : Right(es, t, n, g[n])}
    <3>1. 0 \in P
      BY <1>1, <1>3, <2>2
    <3>2. ASSUME NEW n \in 0 .. N - 1, n \in P
          PROVE  n + 1 \in P
      <4>1. n + 1 \in 1 .. N /\ (n + 1) - 1 = n /\ n + 1 \in 0 .. N /\ Right(es, t, n, g[n])
        BY <1>1, <3>2
      <4>. QED
        BY <2>3, <4>1
    <3>. HIDE DEF P
    <3>3. 0 .. N \subseteq P
      BY <1>1, <3>1, <3>2, BoundedInduction
    <3>. QED
      BY <3>3 DEF P
  <2>5. \A n \in 1 .. N : g[n] = Step(g[n - 1], w[n])
    <3>1. ASSUME NEW n \in 1 .. N
          PROVE  g[n] = Step(g[n - 1], w[n])
      <4>1. n - 1 \in 0 .. N
        BY <1>1, <3>1
      <4>2. Right(es, t, n - 1, g[n - 1])
        BY <2>4, <4>1
      <4>. QED
        BY <2>3, <4>2
    <3>. QED
      BY <3>1
  <2>. QED
    BY <1>1, <2>2, <2>5
<1>7. f = Body(f)
  BY <1>6 DEF Turns
<1>. HIDE DEF f
<1>8. f[0] = Start /\ \A n \in 1 .. N : f[n] = Step(f[n - 1], w[n])
  BY <1>1, <1>7, SMTT(30)
<1>9. 0 .. N \subseteq {n \in 0 .. N : Right(es, t, n, f[n])}
  <2>. DEFINE P == {n \in 0 .. N : Right(es, t, n, f[n])}
  <2>1. 0 \in P
    BY <1>1, <1>3, <1>8
  <2>2. ASSUME NEW n \in 0 .. N - 1, n \in P
        PROVE  n + 1 \in P
    <3>1. n + 1 \in 1 .. N /\ (n + 1) - 1 = n /\ n + 1 \in 0 .. N /\ Right(es, t, n, f[n])
      BY <1>1, <2>2
    <3>2. f[n + 1] = Step(f[n], w[n + 1])
      BY <1>8, <3>1
    <3>3. Right(es, t, n + 1, Step(f[n], w[n + 1]))
      BY <1>2, <3>1
    <3>. QED
      BY <3>1, <3>2, <3>3
  <2>. HIDE DEF P
  <2>3. 0 .. N \subseteq P
    BY <1>1, <2>1, <2>2, BoundedInduction
  <2>. QED
    BY <2>3 DEF P
<1>. DEFINE p == f[N]
<1>10. Right(es, t, Len(Written(es) \o t), p) /\ Parse(Written(es) \o t) = p
  <2>1. N \in 0 .. N
    BY <1>1
  <2>2. Right(es, t, N, f[N])
    BY <1>9, <2>1
  <2>. QED
    BY <2>2 DEF w, f, Parse
<1>. HIDE DEF p
<1>11. /\ Len(p.files) = Len(es)
       /\ \A j \in 1 .. Len(es) : p.addrs[j] = es[j].value % AddrMod
  BY <1>10, AllRead
<1>12. /\ p \in States /\ Len(p.addrs) = Len(p.files)
       /\ \A j \in 1 .. Len(p.files) : p.files[j] = es[j].name
       /\ Fits(es) => ~p.outside
  BY <1>10 DEF Right
<1>13. p.files \in Seq(Seq(Nat)) /\ p.addrs \in Seq(Nat)
  BY <1>12 DEF States
<1>14. p.files = [k \in 1 .. Len(es) |-> es[k].name]
  <2>1. p.files = [k \in 1 .. Len(p.files) |-> p.files[k]]
    BY <1>13
  <2>. QED
    BY <1>11, <1>12, <2>1
<1>15. p.addrs = [k \in 1 .. Len(es) |-> es[k].value % AddrMod]
  <2>1. p.addrs = [k \in 1 .. Len(p.addrs) |-> p.addrs[k]]
    BY <1>13
  <2>. QED
    BY <1>11, <1>12, <2>1
<1>. QED
  BY <1>10, <1>12, <1>14, <1>15
=================================================================================
