-------------------------- MODULE TestVectors_proofs ----------------------------
(***************************************************************************)
(* The known-answer tests, for files of any number of records, whose last  *)
(* may break off, all sizes of keys, blocks and digests, and every arena   *)
(* that each test fits alone: what the arena holds at each point of a      *)
(* test, and where in the text the parser is.                              *)
(***************************************************************************)
EXTENDS TestVectors, SequenceTheorems, FiniteSetTheorems, WellFoundedInduction, TLAPS


(* Induction: a set with 0 and with the successor of each of its numbers    *)
(* has all numbers.                                                        *)
LEMMA SetInduction ==
  ASSUME NEW S, 0 \in S, \A n \in Nat : n \in S => n + 1 \in S
  PROVE  Nat \subseteq S
<1>. SUFFICES ASSUME NEW n \in Nat, n \notin S
              PROVE  FALSE
  OBVIOUS
<1>. DEFINE I == 1 .. n
            R == StrictSubsetOrdering(I)
            D == FiniteSubsetsOf(I)
            T == {1 .. k : k \in {j \in 0 .. n : j \notin S}}
<1>1. IsFiniteSet(I)
  BY FS_Interval
<1>2. IsWellFoundedOn(R, D)
  BY FS_StrictSubsetOrderingWellFounded
<1>3. D = SUBSET I
  BY <1>1, FS_FiniteSubsetsOfFinite
<1>4. R = {ss \in (SUBSET I) \X (SUBSET I) : ss[1] \subseteq ss[2] /\ ss[1] # ss[2]}
  BY DEF StrictSubsetOrdering
<1>5. T \subseteq D /\ T # {}
  BY <1>3
<1>. HIDE DEF R, T, D
<1>6. \E x \in T : \A y \in T : ~ (<<y, x>> \in R)
  BY <1>2, <1>5, WFMin
<1>7. PICK k \in 0 .. n : k \notin S /\ \A y \in T : ~ (<<y, 1 .. k>> \in R)
  BY <1>6 DEF T
<1>8. k # 0 /\ k - 1 \in 0 .. n /\ k - 1 \notin S
  BY <1>7
<1>9. 1 .. (k - 1) \in T
  BY <1>8 DEF T
<1>10. /\ 1 .. (k - 1) \subseteq 1 .. k /\ 1 .. (k - 1) # 1 .. k
       /\ 1 .. k \subseteq I /\ 1 .. (k - 1) \subseteq I
  BY <1>7, <1>8
<1>. QED
  BY <1>4, <1>7, <1>9, <1>10

(* Induction up to a bound. *)
LEMMA BoundedInduction ==
  ASSUME NEW N \in Nat, NEW S, 0 \in S, \A n \in 0 .. N - 1 : n \in S => n + 1 \in S
  PROVE  0 .. N \subseteq S
<1>. DEFINE P == {n \in Nat : n <= N => n \in S}
<1>1. 0 \in P /\ \A n \in Nat : n \in P => n + 1 \in P
  OBVIOUS
<1>2. Nat \subseteq P
  <2>. HIDE DEF P
  <2>. QED
    BY <1>1, SetInduction
<1>. QED
  BY <1>2

(* g is the function on 0 .. k that begins with b and has each value from   *)
(* the one before.                                                         *)
Recursive(g, k, D, b, F) ==
  /\ g \in [0 .. k -> D]
  /\ g[0] = b
  /\ \A n \in 1 .. k : g[n] = F[n][g[n - 1]]

(* There is such a function. *)
LEMMA RecursiveFunction ==
  ASSUME NEW N \in Nat, NEW D, NEW b \in D, NEW F \in [1 .. N -> [D -> D]]
  PROVE  \E g : Recursive(g, N, D, b, F)
<1>. DEFINE S == {k \in 0 .. N : \E g : Recursive(g, k, D, b, F)}
<1>1. 0 \in S
  <2>. DEFINE g == [n \in 0 .. 0 |-> b]
  <2>1. Recursive(g, 0, D, b, F)
    BY DEF Recursive
  <2>. HIDE DEF g
  <2>. QED
    BY <2>1
<1>2. ASSUME NEW k \in 0 .. N - 1, k \in S
      PROVE  k + 1 \in S
  <2>1. PICK g : Recursive(g, k, D, b, F)
    BY <1>2
  <2>2. /\ g \in [0 .. k -> D] /\ g[0] = b /\ F[k + 1] \in [D -> D]
        /\ \A n \in 1 .. k : g[n] = F[n][g[n - 1]]
    BY <2>1 DEF Recursive
  <2>. DEFINE h == [n \in 0 .. k + 1 |-> IF n = k + 1 THEN F[k + 1][g[k]] ELSE g[n]]
  <2>3. h \in [0 .. k + 1 -> D]
    BY <2>2
  <2>4. h[0] = b
    BY <2>2
  <2>5. ASSUME NEW n \in 1 .. k + 1
        PROVE  h[n] = F[n][h[n - 1]]
    <3>1. CASE n = k + 1
      <4>1. h[n] = F[k + 1][g[k]] /\ n - 1 = k /\ h[k] = g[k]
        BY <3>1
      <4>. QED
        BY <3>1, <4>1
    <3>2. CASE n # k + 1
      <4>1. n \in 1 .. k /\ h[n] = g[n] /\ h[n - 1] = g[n - 1]
        BY <3>2
      <4>. QED
        BY <2>2, <4>1
    <3>. QED
      BY <3>1, <3>2
  <2>6. k + 1 \in 0 .. N
    OBVIOUS
  <2>. HIDE DEF h
  <2>7. Recursive(h, k + 1, D, b, F)
    BY <2>3, <2>4, <2>5 DEF Recursive
  <2>. QED
    BY <2>6, <2>7
<1>. HIDE DEF S
<1>3. 0 .. N \subseteq S
  BY <1>1, <1>2, BoundedInduction
<1>. QED
  BY <1>3 DEF S

---------------------------------------------------------------------------------
(* The text *)

(* v appends the sequences s to b one after the other. *)
Appends(v, N, b, s) == v[0] = b /\ \A n \in 1 .. N : v[n] = v[n - 1] \o s[n]

(* There is such a function. *)
LEMMA Appending ==
  ASSUME NEW N \in Nat, NEW S, NEW b \in Seq(S), NEW s \in [1 .. N -> Seq(S)]
  PROVE  \E g : DOMAIN g = 0 .. N /\ g = [n \in 0 .. N |-> g[n]] /\ Appends(g, N, b, s)
<1>. DEFINE F == [n \in 1 .. N |-> [y \in Seq(S) |-> y \o s[n]]]
<1>1. F \in [1 .. N -> [Seq(S) -> Seq(S)]]
  <2>1. \A n \in 1 .. N : \A y \in Seq(S) : y \o s[n] \in Seq(S)
    BY ConcatProperties
  <2>. QED
    BY <2>1
<1>2. PICK g : Recursive(g, N, Seq(S), b, F)
  <2>. HIDE DEF F
  <2>. QED
    BY <1>1, RecursiveFunction, Zenon
<1>3. g \in [0 .. N -> Seq(S)] /\ g[0] = b
  BY <1>2 DEF Recursive
<1>4. ASSUME NEW n \in 1 .. N
      PROVE  g[n] = g[n - 1] \o s[n]
  <2>1. F[n] = [y \in Seq(S) |-> y \o s[n]]
    OBVIOUS
  <2>. HIDE DEF F
  <2>2. g[n] = F[n][g[n - 1]]
    BY <1>2 DEF Recursive
  <2>3. n - 1 \in 0 .. N
    OBVIOUS
  <2>4. g[n - 1] \in Seq(S)
    BY <1>3, <2>3
  <2>. QED
    BY <2>1, <2>2, <2>4
<1>. QED
  BY <1>3, <1>4 DEF Appends

(* Sequences, each a beginning of the later ones. *)
Chain(v, N, S, s) ==
  /\ \A n \in 0 .. N : v[n] \in Seq(S)
  /\ \A n \in 1 .. N : /\ Len(v[n]) = Len(v[n - 1]) + Len(s[n])
                       /\ \A i \in 1 .. Len(s[n]) : v[n][Len(v[n - 1]) + i] = s[n][i]
  /\ \A n \in 0 .. N : \A m \in n .. N :
       Len(v[n]) <= Len(v[m]) /\ \A i \in 1 .. Len(v[n]) : v[m][i] = v[n][i]

(* What it has appended. *)
LEMMA Appended ==
  ASSUME NEW N \in Nat, NEW S, NEW b \in Seq(S), NEW s \in [1 .. N -> Seq(S)],
         NEW v, Appends(v, N, b, s)
  PROVE  Chain(v, N, S, s)
<1>1. v[0] = b /\ \A n \in 1 .. N : v[n] = v[n - 1] \o s[n]
  BY DEF Appends
<1>2. \A n \in 0 .. N : v[n] \in Seq(S)
  <2>. DEFINE P == {n \in 0 .. N : v[n] \in Seq(S)}
  <2>1. 0 \in P
    BY <1>1
  <2>2. ASSUME NEW n \in 0 .. N - 1, n \in P
        PROVE  n + 1 \in P
    <3>1. v[n + 1] = v[n] \o s[n + 1] /\ s[n + 1] \in Seq(S) /\ v[n] \in Seq(S)
      <4>1. n + 1 \in 1 .. N /\ (n + 1) - 1 = n /\ v[n] \in Seq(S)
        BY <2>2
      <4>. QED
        BY <1>1, <4>1
    <3>2. v[n + 1] \in Seq(S)
      BY <3>1, ConcatProperties
    <3>. QED
      BY <3>2
  <2>. HIDE DEF P
  <2>3. 0 .. N \subseteq P
    BY <2>1, <2>2, BoundedInduction
  <2>. QED
    BY <2>3 DEF P
<1>3. ASSUME NEW n \in 1 .. N
      PROVE  /\ Len(v[n]) = Len(v[n - 1]) + Len(s[n])
             /\ Len(v[n - 1]) \in Nat /\ Len(s[n]) \in Nat
             /\ \A i \in 1 .. Len(s[n]) : v[n][Len(v[n - 1]) + i] = s[n][i]
             /\ \A i \in 1 .. Len(v[n - 1]) : v[n][i] = v[n - 1][i]
  <2>. DEFINE x == v[n - 1]
              y == s[n]
  <2>1. x \in Seq(S) /\ y \in Seq(S) /\ v[n] = x \o y
    BY <1>1, <1>2
  <2>. HIDE DEF x, y
  <2>2. Len(x) \in Nat /\ Len(y) \in Nat
    BY <2>1, LenProperties
  <2>3. /\ Len(x \o y) = Len(x) + Len(y)
        /\ \A i \in 1 .. Len(x) + Len(y) : (x \o y)[i] = IF i <= Len(x) THEN x[i] ELSE y[i - Len(x)]
    BY <2>1, ConcatProperties
  <2>4. \A i \in 1 .. Len(y) : (x \o y)[Len(x) + i] = y[i]
    BY <2>2, <2>3
  <2>5. \A i \in 1 .. Len(x) : (x \o y)[i] = x[i]
    BY <2>2, <2>3
  <2>. QED
    BY <2>1, <2>2, <2>3, <2>4, <2>5 DEF x, y
<1>4. ASSUME NEW n \in 0 .. N
      PROVE  \A m \in n .. N :
               Len(v[n]) <= Len(v[m]) /\ \A i \in 1 .. Len(v[n]) : v[m][i] = v[n][i]
  <2>. DEFINE Longer(m) == Len(v[n]) <= Len(v[m]) /\ \A i \in 1 .. Len(v[n]) : v[m][i] = v[n][i]
              P == {k \in 0 .. N - n : Longer(n + k)}
  <2>0. \A k \in 0 .. N : Len(v[k]) \in Nat
    BY <1>2, LenProperties
  <2>1. 0 \in P
    BY <2>0
  <2>2. ASSUME NEW k \in 0 .. (N - n) - 1, k \in P
        PROVE  k + 1 \in P
    <3>. DEFINE x == v[n + k]
                y == v[(n + k) + 1]
                z == v[n]
    <3>1. (n + k) + 1 \in 1 .. N /\ ((n + k) + 1) - 1 = n + k /\ n + k \in 0 .. N
      OBVIOUS
    <3>2. Len(y) = Len(x) + Len(s[(n + k) + 1]) /\ Len(s[(n + k) + 1]) \in Nat
          /\ \A i \in 1 .. Len(x) : y[i] = x[i]
      <4>. DEFINE j == (n + k) + 1
      <4>1. j \in 1 .. N /\ j - 1 = n + k
        BY <3>1
      <4>. HIDE DEF j
      <4>2. /\ Len(v[j]) = Len(v[j - 1]) + Len(s[j]) /\ Len(s[j]) \in Nat
            /\ \A i \in 1 .. Len(v[j - 1]) : v[j][i] = v[j - 1][i]
        BY <1>3, <4>1
      <4>. QED
        BY <4>1, <4>2 DEF j
    <3>3. Len(z) <= Len(x) /\ \A i \in 1 .. Len(z) : x[i] = z[i]
      BY <2>2
    <3>4. Len(x) \in Nat /\ Len(z) \in Nat
      BY <2>0, <3>1
    <3>. HIDE DEF x, y, z
    <3>5. Len(z) <= Len(y) /\ \A i \in 1 .. Len(z) : y[i] = z[i]
      BY <3>2, <3>3, <3>4
    <3>6. Longer((n + k) + 1)
      BY <3>5 DEF y, z
    <3>7. (n + k) + 1 = n + (k + 1) /\ k + 1 \in 0 .. N - n
      OBVIOUS
    <3>. HIDE DEF Longer
    <3>. QED
      BY <3>6, <3>7
  <2>. HIDE DEF P
  <2>3. 0 .. N - n \subseteq P
    <3>1. N - n \in Nat
      OBVIOUS
    <3>. QED
      BY <2>1, <2>2, <3>1, BoundedInduction
  <2>4. ASSUME NEW m \in n .. N
        PROVE  Longer(m)
    <3>1. m - n \in 0 .. N - n /\ n + (m - n) = m
      OBVIOUS
    <3>2. m - n \in P
      BY <2>3, <3>1
    <3>. HIDE DEF Longer
    <3>. QED
      BY <3>1, <3>2 DEF P
  <2>. QED
    BY <2>4
<1>. QED
  BY <1>2, <1>3, <1>4 DEF Chain

(* Joined is such a function. *)
LEMMA JoinedIs ==
  ASSUME NEW N \in Nat, NEW S, NEW b \in Seq(S), NEW s \in [1 .. N -> Seq(S)]
  PROVE  Joined(b, s)[0] = b /\ Chain(Joined(b, s), N, S, s)
<1>. DEFINE v == Joined(b, s)
            Body(g) == [n \in 0 .. N |-> IF n = 0 THEN b ELSE g[n - 1] \o s[n]]
<1>0. Len(s) = N
  <2>1. s \in Seq(Seq(S))
    OBVIOUS
  <2>. QED
    BY LenProperties, <2>1
<1>1. \E g : g = Body(g)
  <2>1. PICK g : DOMAIN g = 0 .. N /\ g = [n \in 0 .. N |-> g[n]] /\ Appends(g, N, b, s)
    BY Appending
  <2>2. ASSUME NEW n \in 0 .. N
        PROVE  g[n] = IF n = 0 THEN b ELSE g[n - 1] \o s[n]
    <3>1. CASE n = 0
      BY <2>1, <3>1 DEF Appends
    <3>2. CASE n # 0
      <4>1. n \in 1 .. N
        BY <3>2
      <4>. QED
        BY <2>1, <3>2, <4>1 DEF Appends
    <3>. QED
      BY <3>1, <3>2
  <2>. QED
    BY <2>1, <2>2
<1>. HIDE DEF v
<1>2. v = Body(v)
  BY <1>0, <1>1 DEF Joined, v
<1>3. v[0] = b
  BY <1>2
<1>4. ASSUME NEW n \in 1 .. N
      PROVE  v[n] = v[n - 1] \o s[n]
  <2>1. n \in 0 .. N /\ n # 0
    OBVIOUS
  <2>. QED
    BY <1>2, <2>1
<1>5. Appends(v, N, b, s)
  BY <1>3, <1>4 DEF Appends
<1>6. Chain(v, N, S, s)
  BY <1>5, Appended, Zenon
<1>. QED
  BY <1>3, <1>6 DEF v

(* the number of messages that a test sends *)
InputCount(kind) == IF kind = "AES" THEN 2 ELSE 1

(* The cells of a text: none of them is its end. *)
Names == {"LEN", "MSG", "MD", "COUNT", "KEY", "PLAINTEXT", "CIPHERTEXT",
          "SEED", "PK", "SK", "PKL", "SKL"}
TextCell == {"label", "number", "hex", "other"} \X (Nat \cup Names)

(* The fields of a record: a number, the messages, the expected values. *)
LEMMA FieldsAre ==
  ASSUME NEW kind \in Kinds
  PROVE  /\ Len(Fields(kind)) \in Nat /\ Len(Fields(kind)) \in 3 .. 6
         /\ Len(Fields(kind)) >= InputCount(kind) + 2
         /\ \A j \in 1 .. Len(Fields(kind)) :
              /\ Fields(kind)[j].label \in Names
              /\ Fields(kind)[j].role = IF j = 1 THEN "number"
                                        ELSE IF j <= InputCount(kind) + 1 THEN "input"
                                        ELSE "expected"
<1>1. CASE kind = "SHA"
  BY <1>1 DEF Fields, Field, Names, InputCount
<1>2. CASE kind = "AES"
  BY <1>2 DEF Fields, Field, Names, InputCount
<1>3. CASE kind = "MCE"
  BY <1>3 DEF Fields, Field, Names, InputCount
<1>4. CASE kind = "SHORT"
  BY <1>4 DEF Fields, Field, Names, InputCount
<1> QED
  BY <1>1, <1>2, <1>3, <1>4 DEF Kinds

(* A line is a label, the cells of the value and one more. *)
LEMMA LineIs ==
  ASSUME NEW kind \in Kinds, NEW j \in 1 .. Len(Fields(kind)), NEW value \in Seq(Nat)
  PROVE  LET f == Fields(kind)[j]
             line == Line(f, value)
         IN
         /\ line \in Seq(TextCell)
         /\ Len(line) = Len(value) + 2
         /\ line[1] = Label(f.label)
         /\ \A i \in 1 .. Len(value) :
              line[1 + i] = IF j = 1 THEN Number(value[i]) ELSE Hex(value[i])
         /\ line[Len(value) + 2] = Other
<1>. DEFINE f == Fields(kind)[j]
            n == Len(value)
            cells == [i \in 1 .. n |->
                        IF f.role = "number" THEN Number(value[i]) ELSE Hex(value[i])]
<1>1. f.label \in Names /\ (f.role = "number" <=> j = 1)
  BY FieldsAre
<1>2. n \in Nat /\ \A i \in 1 .. n : value[i] \in Nat
  BY LenProperties, ElementOfSeq
<1>. HIDE DEF f, n
<1>3. <<Label(f.label)>> \in Seq(TextCell) /\ <<Other>> \in Seq(TextCell)
  <2>1. Label(f.label) \in TextCell /\ Other \in TextCell
    BY <1>1 DEF Label, Other, TextCell
  <2>. QED
    BY <2>1
<1>4. cells \in Seq(TextCell) /\ Len(cells) = n
  <2>1. \A i \in 1 .. n : Number(value[i]) \in TextCell /\ Hex(value[i]) \in TextCell
    BY <1>2 DEF Number, Hex, TextCell
  <2>2. cells \in [1 .. n -> TextCell]
    BY <2>1
  <2>. HIDE DEF cells
  <2>. QED
    BY <1>2, <2>2
<1>5. \A i \in 1 .. n : cells[i] = IF j = 1 THEN Number(value[i]) ELSE Hex(value[i])
  BY <1>1
<1>. HIDE DEF cells
<1>. DEFINE b == <<Label(f.label)>> \o cells
<1>6. b \in Seq(TextCell) /\ Len(b) = n + 1 /\ b[1] = Label(f.label)
      /\ \A i \in 1 .. n : b[1 + i] = cells[i]
  <2>1. /\ b \in Seq(TextCell) /\ Len(b) = 1 + Len(cells)
        /\ \A i \in 1 .. 1 + Len(cells) : b[i] = IF i <= 1 THEN <<Label(f.label)>>[i]
                                                          ELSE cells[i - 1]
    <3>1. Len(<<Label(f.label)>>) = 1
      OBVIOUS
    <3>. QED
      BY <1>3, <1>4, <3>1, ConcatProperties
  <2>. HIDE DEF b
  <2>2. \A i \in 1 .. n : b[1 + i] = cells[i]
    BY <1>2, <1>4, <2>1
  <2>. QED
    BY <1>2, <1>4, <2>1, <2>2
<1>. HIDE DEF b
<1>7. /\ b \o <<Other>> \in Seq(TextCell) /\ Len(b \o <<Other>>) = n + 2
      /\ \A i \in 1 .. n + 1 : (b \o <<Other>>)[i] = b[i]
      /\ (b \o <<Other>>)[n + 2] = Other
  BY <1>2, <1>3, <1>6, ConcatProperties
<1>8. Line(f, value) = b \o <<Other>>
  <2>1. <<Label(f.label)>> \o cells \o <<Other>> = b \o <<Other>>
    BY DEF b
  <2>. QED
    BY <2>1 DEF Line, cells, n
<1>9. \A i \in 1 .. n : (b \o <<Other>>)[1 + i] = IF j = 1 THEN Number(value[i]) ELSE Hex(value[i])
  <2>1. \A i \in 1 .. n : 1 + i \in 1 .. n + 1
    BY <1>2
  <2>. QED
    BY <1>5, <1>6, <1>7, <2>1
<1> QED
  <2>. DEFINE line == b \o <<Other>>
  <2>1. line[1] = Label(f.label)
    BY <1>2, <1>6, <1>7
  <2>. HIDE DEF line
  <2>2. /\ line \in Seq(TextCell) /\ Len(line) = n + 2 /\ line[n + 2] = Other
        /\ \A i \in 1 .. n : line[1 + i] = IF j = 1 THEN Number(value[i]) ELSE Hex(value[i])
    BY <1>7, <1>9 DEF line
  <2>. QED
    BY <1>8, <2>1, <2>2 DEF f, n, line

(* A record that a file may have. *)
Proper(kind, rec) == rec \in Seq(Seq(Nat)) /\ Len(rec) \in 1 .. Len(Fields(kind))

(* The line of field j is where the lines before it end. *)
LineInRecord(kind, rec, j) ==
  LET w == Lines(kind, rec) IN
  /\ Len(w[j]) = Len(w[j - 1]) + Len(rec[j]) + 2
  /\ \A i \in 1 .. Len(rec[j]) + 2 :
       Written(kind, rec)[Len(w[j - 1]) + i] = Line(Fields(kind)[j], rec[j])[i]

(* The text of a record is that of its fields. *)
LEMMA LinesAre ==
  ASSUME NEW kind \in Kinds, NEW rec, Proper(kind, rec)
  PROVE  LET w == Lines(kind, rec) IN
         /\ Written(kind, rec) \in Seq(TextCell)
         /\ Len(w[0]) = 0
         /\ \A j \in 0 .. Len(rec) : Len(w[j]) \in Nat /\ Len(w[j]) <= Len(Written(kind, rec))
         /\ Len(w[Len(rec)]) = Len(Written(kind, rec))
         /\ \A j \in 1 .. Len(rec) : LineInRecord(kind, rec, j)
<1>. DEFINE N == Len(rec)
            s == [n \in 1 .. N |-> Line(Fields(kind)[n], rec[n])]
            w == Lines(kind, rec)
<1>1. N \in Nat /\ Len(Fields(kind)) \in Nat /\ \A n \in 1 .. N : n \in 1 .. Len(Fields(kind)) /\ rec[n] \in Seq(Nat)
  BY FieldsAre, LenProperties, ElementOfSeq DEF Proper
<1>2. \A n \in 1 .. N : /\ Line(Fields(kind)[n], rec[n]) \in Seq(TextCell)
                        /\ Len(Line(Fields(kind)[n], rec[n])) = Len(rec[n]) + 2
                        /\ Len(rec[n]) \in Nat
  BY <1>1, LineIs, LenProperties
<1>3. s \in [1 .. N -> Seq(TextCell)]
  BY <1>2
<1>4. \A n \in 1 .. N : s[n] = Line(Fields(kind)[n], rec[n])
  OBVIOUS
<1>5. <<>> \in Seq(TextCell) /\ Len(<<>>) = 0
  BY EmptySeq
<1>6. w = Joined(<<>>, s)
  BY DEF Lines
<1>. HIDE DEF s, N, w
<1>10. w[0] = <<>> /\ Chain(w, N, TextCell, s)
  <2>1. N \in Nat /\ <<>> \in Seq(TextCell)
    BY <1>1, <1>5
  <2>2. Joined(<<>>, s)[0] = <<>> /\ Chain(Joined(<<>>, s), N, TextCell, s)
    BY <1>3, <2>1, JoinedIs, Zenon
  <2>. QED
    BY <1>6, <2>2
<1>11. Written(kind, rec) = w[N]
  BY DEF Written, w, N
<1>12. \A j \in 0 .. N : Len(w[j]) \in Nat /\ Len(w[j]) <= Len(w[N])
  <2>1. \A j \in 0 .. N : N \in j .. N /\ w[j] \in Seq(TextCell)
    BY <1>1, <1>10 DEF Chain
  <2>. QED
    BY <1>10, <2>1, LenProperties DEF Chain
<1>13. ASSUME NEW j \in 1 .. N
       PROVE  /\ Len(w[j]) = Len(w[j - 1]) + Len(rec[j]) + 2
              /\ \A i \in 1 .. Len(rec[j]) + 2 :
                   w[N][Len(w[j - 1]) + i] = Line(Fields(kind)[j], rec[j])[i]
  <2>1. Len(s[j]) = Len(rec[j]) + 2 /\ Len(rec[j]) \in Nat /\ s[j] = Line(Fields(kind)[j], rec[j])
    BY <1>2, <1>4
  <2>2. j \in 0 .. N /\ N \in j .. N /\ j - 1 \in 0 .. N
    BY <1>1
  <2>. DEFINE p == Len(w[j - 1])
  <2>3. /\ Len(w[j]) = p + Len(s[j]) /\ p \in Nat
        /\ \A i \in 1 .. Len(s[j]) : w[j][p + i] = s[j][i]
        /\ \A i \in 1 .. Len(w[j]) : w[N][i] = w[j][i]
    BY <1>10, <1>12, <2>2 DEF Chain
  <2>. HIDE DEF p
  <2>4. \A i \in 1 .. Len(s[j]) : w[N][p + i] = s[j][i]
    <3>. DEFINE q == Len(s[j])
                r == Len(w[j])
    <3>1. q \in Nat
      BY <2>1
    <3>. HIDE DEF q, r
    <3>2. \A i \in 1 .. q : p + i \in 1 .. r
      BY <2>3, <3>1 DEF q, r
    <3>. QED
      BY <2>3, <3>2 DEF q, r
  <2>5. Len(w[j]) = p + Len(rec[j]) + 2
    BY <2>1, <2>3
  <2>6. \A i \in 1 .. Len(rec[j]) + 2 : w[N][p + i] = Line(Fields(kind)[j], rec[j])[i]
    BY <2>1, <2>4
  <2>. QED
    BY <2>5, <2>6 DEF p
<1> QED
  <2>1. w[N] \in Seq(TextCell) /\ w[0] = <<>>
    BY <1>1, <1>10 DEF Chain
  <2>2. \A j \in 1 .. N : LineInRecord(kind, rec, j)
    BY <1>11, <1>13, Zenon DEF w, LineInRecord
  <2>3. Written(kind, rec) = w[N]
    BY <1>11
  <2>4. Len(w[0]) = 0
    BY <1>5, <2>1
  <2>5. Len(w[N]) = Len(Written(kind, rec))
    BY <2>3
  <2>. QED
    BY <1>12, <2>1, <2>2, <2>3, <2>4, <2>5 DEF w, N

(* address of the label of field j of the n-th record *)
Place(kind, records, n, j) ==
  Len(Texts(kind, records)[n - 1]) + Len(Lines(kind, records[n])[j - 1])

(* A file that may be received. *)
LEMMA FilesAre ==
  ASSUME NEW kind \in Kinds, NEW records \in Files(kind)
  PROVE  /\ records \in Seq(Seq(Seq(Nat)))
         /\ Len(records) \in Nat
         /\ \A n \in 1 .. Len(records) : Proper(kind, records[n]) /\ Len(records[n]) \in Nat
         /\ \A n \in 1 .. Len(records) : \A j \in 1 .. Len(records[n]) :
              records[n][j] \in Seq(Nat) /\ Len(records[n][j]) \in Nat
<1>1. records \in Seq(Seq(Seq(Nat))) /\ Len(records) \in Nat
  BY FilesAssumption, LenProperties
<1>2. \A n \in 1 .. Len(records) : records[n] \in Seq(Seq(Nat))
  BY <1>1, ElementOfSeq
<1>3. ASSUME NEW n \in 1 .. Len(records)
      PROVE  /\ Proper(kind, records[n]) /\ Len(records[n]) \in Nat
             /\ \A j \in 1 .. Len(records[n]) : records[n][j] \in Seq(Nat) /\ Len(records[n][j]) \in Nat
  <2>1. records[n] \in Seq(Seq(Nat))
    BY <1>2
  <2>2. Len(records[n]) \in 1 .. Len(Fields(kind))
    BY FilesAssumption
  <2>3. \A j \in 1 .. Len(records[n]) : records[n][j] \in Seq(Nat)
    BY <2>1, ElementOfSeq
  <2>. QED
    BY <2>1, <2>2, <2>3, LenProperties DEF Proper
<1> QED
  BY <1>1, <1>3

(* A text is the header and the texts of the records. *)
LEMMA TextIs ==
  ASSUME NEW kind \in Kinds, NEW records \in Files(kind)
  PROVE  LET T == Text(kind, records)
             t == Texts(kind, records)
         IN
         /\ T \in Seq(TextCell) /\ Len(T) \in Nat
         /\ Len(t[0]) = Header /\ Header <= Len(T)
         /\ \A i \in 1 .. Header : T[i] = Other
         /\ Len(t[Len(records)]) = Len(T)
         /\ \A n \in 0 .. Len(records) :
              Len(t[n]) \in Nat /\ Header <= Len(t[n]) /\ Len(t[n]) <= Len(T)
         /\ \A n \in 1 .. Len(records) :
              /\ Len(t[n]) = Len(t[n - 1]) + Len(Written(kind, records[n]))
              /\ \A i \in 1 .. Len(Written(kind, records[n])) :
                   T[Len(t[n - 1]) + i] = Written(kind, records[n])[i]
<1>. DEFINE N == Len(records)
            s == [n \in 1 .. N |-> Written(kind, records[n])]
            t == Texts(kind, records)
            T == Text(kind, records)
<1>1. N \in Nat /\ Header \in Nat
  BY FilesAre, SizeAssumption
<1>2. \A n \in 1 .. N : Written(kind, records[n]) \in Seq(TextCell)
  BY FilesAre, LinesAre
<1>3. s \in [1 .. N -> Seq(TextCell)]
  BY <1>2
<1>4. \A n \in 1 .. N : s[n] = Written(kind, records[n])
  OBVIOUS
<1>5. Blank \in Seq(TextCell) /\ Len(Blank) = Header /\ \A i \in 1 .. Header : Blank[i] = Other
  <2>1. Other \in TextCell
    BY DEF Other, TextCell
  <2>2. Blank \in [1 .. Header -> TextCell] /\ \A i \in 1 .. Header : Blank[i] = Other
    BY <1>1, <2>1 DEF Blank
  <2>. QED
    BY <1>1, <2>2
<1>6. t = Joined(Blank, s)
  BY DEF Texts
<1>7. T = t[N]
  BY DEF Text
<1>. HIDE DEF s, N, t, T
<1>8. t[0] = Blank /\ Chain(t, N, TextCell, s)
  <2>1. Joined(Blank, s)[0] = Blank /\ Chain(Joined(Blank, s), N, TextCell, s)
    <3>1. N \in Nat /\ Blank \in Seq(TextCell)
      BY <1>1, <1>5
    <3>. QED
      BY <1>3, <3>1, JoinedIs, Zenon
  <2>. QED
    BY <1>6, <2>1
<1>9. \A n \in 0 .. N : t[n] \in Seq(TextCell) /\ Len(t[n]) \in Nat
  BY <1>8, LenProperties DEF Chain
<1>10. ASSUME NEW n \in 0 .. N
       PROVE  /\ Len(t[n]) <= Len(T) /\ \A i \in 1 .. Len(t[n]) : T[i] = t[n][i]
              /\ Header <= Len(t[n])
  <2>1. N \in n .. N /\ n \in 0 .. N /\ 0 \in 0 .. N
    BY <1>1
  <2>. QED
    BY <1>5, <1>7, <1>8, <2>1 DEF Chain
<1>11. ASSUME NEW n \in 1 .. N
       PROVE  /\ Len(t[n]) = Len(t[n - 1]) + Len(s[n])
              /\ \A i \in 1 .. Len(s[n]) : T[Len(t[n - 1]) + i] = s[n][i]
  <2>. DEFINE p == Len(t[n - 1])
              q == Len(s[n])
              r == Len(t[n])
  <2>1. n \in 0 .. N /\ n - 1 \in 0 .. N
    BY <1>1
  <2>2. r = p + q /\ \A i \in 1 .. q : t[n][p + i] = s[n][i]
    BY <1>8 DEF Chain
  <2>3. p \in Nat /\ q \in Nat /\ \A i \in 1 .. r : T[i] = t[n][i]
    BY <1>3, <1>9, <1>10, <2>1, LenProperties
  <2>. HIDE DEF p, q, r
  <2>4. \A i \in 1 .. q : p + i \in 1 .. r
    BY <2>2, <2>3
  <2>. QED
    BY <2>2, <2>3, <2>4 DEF p, q, r
<1>12. T \in Seq(TextCell) /\ Len(T) = Len(t[N]) /\ Len(T) \in Nat
  BY <1>1, <1>7, <1>9
<1>13. \A i \in 1 .. Header : T[i] = Other
  BY <1>1, <1>5, <1>8, <1>10
<1>14. Len(t[0]) = Header /\ Header <= Len(T)
  BY <1>1, <1>5, <1>8, <1>10
<1> QED
  <2>1. ASSUME NEW n \in 1 .. N
        PROVE  LET W == Written(kind, records[n]) IN
               /\ Len(t[n]) = Len(t[n - 1]) + Len(W)
               /\ \A i \in 1 .. Len(W) : T[Len(t[n - 1]) + i] = W[i]
    BY <1>4, <1>11
  <2>2. \A n \in 0 .. N : Len(t[n]) \in Nat /\ Header <= Len(t[n]) /\ Len(t[n]) <= Len(T)
    BY <1>9, <1>10
  <2>. QED
    BY <1>12, <1>13, <1>14, <2>1, <2>2 DEF N, t, T

(* The field j of the n-th record in the text, and what follows it. *)
LEMMA FieldAt ==
  ASSUME NEW kind \in Kinds, NEW records \in Files(kind),
         NEW n \in 1 .. Len(records), NEW j \in 1 .. Len(records[n])
  PROVE  LET T == Text(kind, records)
             p == Place(kind, records, n, j)
             v == records[n][j]
         IN
         /\ p \in Nat /\ Header <= p /\ Len(v) \in Nat /\ p + Len(v) + 2 <= Len(T)
         /\ T[p + 1] = Label(Fields(kind)[j].label)
         /\ \A i \in 1 .. Len(v) : T[p + 1 + i] = IF j = 1 THEN Number(v[i]) ELSE Hex(v[i])
         /\ T[p + Len(v) + 2] = Other
         /\ p + Len(v) + 2 = IF j < Len(records[n]) THEN Place(kind, records, n, j + 1)
                             ELSE IF n < Len(records) THEN Place(kind, records, n + 1, 1)
                             ELSE Len(T)
<1>. DEFINE T == Text(kind, records)
            rec == records[n]
            v == rec[j]
            line == Line(Fields(kind)[j], v)
            W == Written(kind, rec)
            top == Len(Texts(kind, records)[n - 1])
            off == Len(Lines(kind, rec)[j - 1])
            p == top + off
            len1 == Len(v)
<1>1. /\ Proper(kind, rec) /\ Len(rec) \in Nat /\ j \in 1 .. Len(Fields(kind))
      /\ v \in Seq(Nat) /\ len1 \in Nat /\ Len(records) \in Nat
      /\ Len(Fields(kind)) \in Nat
  BY FilesAre, FieldsAre DEF Proper
<1>2. /\ Len(line) = len1 + 2
      /\ line[1] = Label(Fields(kind)[j].label)
      /\ \A i \in 1 .. len1 : line[1 + i] = IF j = 1 THEN Number(v[i]) ELSE Hex(v[i])
      /\ line[len1 + 2] = Other
  BY <1>1, LineIs
<1>3. /\ Len(Lines(kind, rec)[j]) = off + len1 + 2
      /\ off \in Nat /\ Len(W) \in Nat /\ off + len1 + 2 <= Len(W)
      /\ \A i \in 1 .. len1 + 2 : W[off + i] = line[i]
      /\ j = Len(rec) => off + len1 + 2 = Len(W)
  <2>1. j - 1 \in 0 .. Len(rec) /\ j \in 0 .. Len(rec)
    BY <1>1
  <2>. DEFINE w == Lines(kind, rec)
              m == Len(rec)
  <2>0. Proper(kind, rec)
    BY <1>1
  <2>2. /\ W \in Seq(TextCell)
        /\ \A k \in 0 .. m : Len(w[k]) \in Nat /\ Len(w[k]) <= Len(W)
        /\ Len(w[m]) = Len(W)
    BY <2>0, LinesAre
  <2>3. /\ Len(w[j]) = Len(w[j - 1]) + Len(rec[j]) + 2
        /\ \A i \in 1 .. Len(rec[j]) + 2 : W[Len(w[j - 1]) + i] = Line(Fields(kind)[j], rec[j])[i]
    <3>1. LineInRecord(kind, rec, j)
      BY <2>0, LinesAre
    <3>. QED
      BY <3>1 DEF LineInRecord
  <2>4. Len(W) \in Nat
    BY <2>2, LenProperties
  <2>. HIDE DEF w, m, W
  <2>5. Len(w[j - 1]) \in Nat /\ Len(w[j]) <= Len(W) /\ (j = m => Len(w[j]) = Len(W))
    BY <2>1, <2>2 DEF m
  <2>. QED
    BY <2>3, <2>4, <2>5 DEF w, m
<1>4. /\ top \in Nat /\ Header <= top /\ Len(T) \in Nat /\ top + Len(W) <= Len(T)
      /\ \A i \in 1 .. Len(W) : T[top + i] = W[i]
      /\ Len(Texts(kind, records)[n]) = top + Len(W)
      /\ n = Len(records) => top + Len(W) = Len(T)
  <2>1. n - 1 \in 0 .. Len(records) /\ n \in 0 .. Len(records)
    BY <1>1
  <2>2. /\ top \in Nat /\ Header <= top /\ Len(T) \in Nat
        /\ Len(Texts(kind, records)[n]) <= Len(T)
        /\ Len(Texts(kind, records)[n]) = top + Len(W)
        /\ \A i \in 1 .. Len(W) : T[top + i] = W[i]
        /\ Len(Texts(kind, records)[Len(records)]) = Len(T)
    BY <2>1, TextIs
  <2>. HIDE DEF T, W, top
  <2>. QED
    BY <2>2
<1>5. Place(kind, records, n, j) = p
  BY DEF Place
<1>6. j < Len(rec) => Place(kind, records, n, j + 1) = top + Len(Lines(kind, rec)[j])
  BY <1>1 DEF Place
<1>7. n < Len(records) => Place(kind, records, n + 1, 1) = Len(Texts(kind, records)[n])
  <2>1. ASSUME n < Len(records)
        PROVE  Len(Lines(kind, records[n + 1])[0]) = 0 /\ Len(Texts(kind, records)[n]) \in Nat
    <3>1. n + 1 \in 1 .. Len(records) /\ n \in 0 .. Len(records)
      BY <1>1, <2>1
    <3>2. Proper(kind, records[n + 1])
      BY <3>1, FilesAre
    <3>. QED
      BY <3>1, <3>2, LinesAre, TextIs
  <2>2. (n + 1) - 1 = n /\ 1 - 1 = 0
    OBVIOUS
  <2>3. Place(kind, records, n + 1, 1) =
          Len(Texts(kind, records)[n]) + Len(Lines(kind, records[n + 1])[0])
    BY <2>2 DEF Place
  <2>4. ASSUME NEW x \in Nat, NEW y, y = 0 PROVE x + y = x
    BY <2>4
  <2>. QED
    BY <2>1, <2>3, <2>4
<1>8. Header \in Nat
  BY SizeAssumption
<1>13. off \in Nat /\ top \in Nat /\ len1 \in Nat /\ Len(W) \in Nat
  BY <1>1, <1>3, <1>4
<1>. HIDE DEF T, W, top, off, line, len1
<1>9. \A i \in 1 .. len1 + 2 : T[p + i] = line[i]
  <2>1. \A i \in 1 .. len1 + 2 : off + i \in 1 .. Len(W) /\ top + (off + i) = p + i
    BY <1>1, <1>3, <1>4
  <2>. HIDE DEF p
  <2>. QED
    BY <1>3, <1>4, <2>1
<1>10. /\ T[p + 1] = Label(Fields(kind)[j].label)
       /\ \A i \in 1 .. len1 : T[p + 1 + i] = IF j = 1 THEN Number(v[i]) ELSE Hex(v[i])
       /\ T[p + len1 + 2] = Other
  <2>. HIDE DEF v
  <2>0. p \in Nat /\ len1 \in Nat
    BY <1>13
  <2>. HIDE DEF p
  <2>1. T[p + 1] = line[1]
    BY <1>9, <2>0
  <2>2. T[p + len1 + 2] = line[len1 + 2]
    <3>1. len1 + 2 \in 1 .. len1 + 2 /\ p + (len1 + 2) = p + len1 + 2
      BY <2>0
    <3>. QED
      BY <1>9, <3>1
  <2>3. ASSUME NEW i \in 1 .. len1
        PROVE  T[p + 1 + i] = line[1 + i]
    <3>1. 1 + i \in 1 .. len1 + 2 /\ p + (1 + i) = p + 1 + i
      BY <2>0
    <3>. QED
      BY <1>9, <3>1
  <2>. QED
    BY <1>2, <2>1, <2>2, <2>3
<1>11. p \in Nat /\ Header <= p /\ p + len1 + 2 <= Len(T)
  BY <1>1, <1>3, <1>4, <1>8, SMTT(40)
<1>12. p + len1 + 2 = IF j < Len(rec) THEN Place(kind, records, n, j + 1)
                      ELSE IF n < Len(records) THEN Place(kind, records, n + 1, 1)
                      ELSE Len(T)
  <2>1. CASE j < Len(rec)
    BY <1>1, <1>3, <1>4, <1>6, <2>1
  <2>2. CASE ~(j < Len(rec))
    <3>1. j = Len(rec)
      BY <1>1, <2>2
    <3>2. p + len1 + 2 = top + Len(W)
      <4>1. off + len1 + 2 = Len(W)
        BY <1>3, <3>1
      <4>. QED
        BY <1>13, <4>1
    <3>. QED
      BY <1>1, <1>4, <1>7, <2>2, <3>2
  <2>. QED
    BY <2>1, <2>2
<1> QED
  BY <1>1, <1>5, <1>10, <1>11, <1>12 DEF T, len1

---------------------------------------------------------------------------------
(* The memory *)

(* The least element of a set of numbers. *)
LEMMA MinIs ==
  ASSUME NEW S, S \subseteq Int, NEW m \in S, \A y \in S : m <= y
  PROVE  Min(S) = m
<1>1. \E x \in S : \A y \in S : x <= y
  OBVIOUS
<1>2. Min(S) \in S /\ \A y \in S : Min(S) <= y
  BY <1>1, Zenon DEF Min
<1>3. \A x \in S : (\A y \in S : x <= y) => x = m
  OBVIOUS
<1> QED
  BY <1>2, <1>3, Zenon

(* The cells from p to e are those of a text that ends there. *)
TextFrom(p, e) ==
  /\ p \in Nat /\ e \in Nat /\ p <= e /\ e <= ArenaSize
  /\ mem[e] = End
  /\ \A a \in p .. e - 1 : mem[a] \in TextCell

(* Between p and q there is no label. *)
Gap(p, q) == \A a \in p .. q - 1 : mem[a][1] # "label"

(* No cell of a text is its end. *)
LEMMA EndIsNoText == \A c \in TextCell : c # End
BY DEF TextCell, End

(* The search stops at the end of the text. *)
LEMMA SearchRange ==
  ASSUME NEW p, NEW e, TextFrom(p, e)
  PROVE  LET ends == {a \in p .. ArenaSize : mem[a] = End} IN
         ends # {} /\ Min(ends) = e
<1>. DEFINE ends == {a \in p .. ArenaSize : mem[a] = End}
<1>1. ArenaSize \in Nat
  BY SizeAssumption
<1>2. e \in ends /\ ends \subseteq Int
  BY <1>1 DEF TextFrom
<1>3. ASSUME NEW a \in ends
      PROVE  e <= a
  <2>1. a \in p .. e - 1 => mem[a] # End
    BY EndIsNoText DEF TextFrom
  <2>. QED
    BY <1>1, <2>1 DEF TextFrom
<1>. HIDE DEF ends
<1>4. Min(ends) = e
  BY <1>2, <1>3, MinIs
<1> QED
  BY <1>2, <1>4 DEF ends

(* SearchAndAdvance finds a label that is the next one. *)
LEMMA SearchFinds ==
  ASSUME NEW p, NEW e, TextFrom(p, e), NEW l, NEW q \in Nat, p <= q, q < e,
         Gap(p, q), mem[q] = Label(l)
  PROVE  Search(p, l) = q + 1
<1>. DEFINE ends == {a \in p .. ArenaSize : mem[a] = End}
            stop == IF ends = {} THEN ArenaSize ELSE Min(ends)
            hits == {a \in p .. stop - 1 : mem[a] = Label(l)}
<1>1. stop = e
  BY SearchRange
<1>. HIDE DEF stop
<1>2. p \in Nat /\ e \in Nat
  BY DEF TextFrom
<1>3. q \in hits /\ hits \subseteq Int
  BY <1>1, <1>2
<1>4. ASSUME NEW a \in hits
      PROVE  q <= a
  <2>1. Label(l)[1] = "label"
    BY DEF Label
  <2>2. a \in p .. q - 1 => mem[a] # Label(l)
    BY <2>1 DEF Gap
  <2>. QED
    BY <1>1, <1>2, <2>2
<1>. HIDE DEF hits
<1>5. Min(hits) = q /\ hits # {}
  BY <1>3, <1>4, MinIs
<1>6. Search(p, l) = Min(hits) + 1
  BY <1>5 DEF Search, hits, stop, ends
<1> QED
  BY <1>5, <1>6

(* It finds none where no label follows. *)
LEMMA SearchFails ==
  ASSUME NEW p, NEW e, TextFrom(p, e), NEW l, Gap(p, e)
  PROVE  Search(p, l) = NULL
<1>. DEFINE ends == {a \in p .. ArenaSize : mem[a] = End}
            stop == IF ends = {} THEN ArenaSize ELSE Min(ends)
            hits == {a \in p .. stop - 1 : mem[a] = Label(l)}
<1>1. stop = e
  BY SearchRange
<1>. HIDE DEF stop
<1>2. Label(l)[1] = "label"
  BY DEF Label
<1>3. hits = {}
  BY <1>1, <1>2 DEF Gap
<1>. HIDE DEF hits
<1> QED
  BY <1>3 DEF Search, hits, stop, ends

(* ParseNumber and HexStringToHex on a value of the text. *)
LEMMA NumberIs ==
  ASSUME NEW p, NEW x, mem[p] = Number(x)
  PROVE  ParseNumber(p) = x
BY DEF ParseNumber, Number

LEMMA DecodedIs ==
  ASSUME NEW p \in Nat, NEW v \in Seq(Nat), p + Len(v) <= ArenaSize,
         \A i \in 1 .. Len(v) : mem[p + i - 1] = Hex(v[i]),
         mem[p + Len(v)] = Other
  PROVE  Decoded(p) = [i \in 1 .. Len(v) |-> Raw(v[i])]
<1>. DEFINE n == Len(v)
            others == {a \in p .. ArenaSize : mem[a][1] # "hex"}
            stop == Min(others)
<1>1. n \in Nat /\ ArenaSize \in Nat
  BY LenProperties, SizeAssumption
<1>. HIDE DEF n
<1>2. \A i \in 1 .. n : mem[p + i - 1][1] = "hex" /\ mem[p + i - 1][2] = v[i]
  BY DEF Hex, n
<1>3. p + n \in others /\ others \subseteq Int
  <2>1. mem[p + n][1] = "other"
    BY DEF Other, n
  <2>2. p + n \in p .. ArenaSize
    BY <1>1 DEF n
  <2>. QED
    BY <1>1, <2>1, <2>2
<1>4. ASSUME NEW a \in others
      PROVE  p + n <= a
  <2>1. CASE a < p + n
    <3>1. a - p + 1 \in 1 .. n /\ p + (a - p + 1) - 1 = a
      BY <1>1, <2>1
    <3>2. mem[a][1] = "hex"
      BY <1>2, <3>1
    <3>. QED
      BY <3>2
  <2>. QED
    BY <1>1, <2>1
<1>. HIDE DEF others
<1>5. stop = p + n
  BY <1>3, <1>4, MinIs
<1>. HIDE DEF stop
<1>6. Decoded(p) = [i \in 1 .. stop - p |-> Raw(mem[p + i - 1][2])]
  BY DEF Decoded, stop, others
<1>7. stop - p = n
  BY <1>1, <1>5
<1> QED
  BY <1>2, <1>6, <1>7 DEF n

(* Rounding up. *)
LEMMA AlignedIs == \A n \in Nat : Aligned(n) \in Nat /\ n <= Aligned(n)
BY DEF Aligned

(* A function from addresses to cells. *)
IsMemory(m) == m = [a \in Memory |-> m[a]]

(* What Write does. *)
LEMMA WriteIs ==
  ASSUME NEW m, NEW at, NEW cells
  PROVE  /\ IsMemory(Write(m, at, cells)) /\ DOMAIN Write(m, at, cells) = Memory
         /\ \A a \in Memory : Write(m, at, cells)[a] =
              IF a \in at .. at + Len(cells) - 1 THEN cells[a - at + 1] ELSE m[a]
BY DEF Write, IsMemory

(* Addresses are in order, each item with its terminator between two. *)
Spaced(a, u, sizes) ==
  /\ a[0] = u
  /\ \A k \in 0 .. Len(sizes) : a[k] \in Nat /\ u <= a[k] /\ a[k] <= a[Len(sizes)]
  /\ \A k \in 1 .. Len(sizes) : \A j \in k .. Len(sizes) : a[k - 1] + sizes[k] + 1 <= a[j]

LEMMA AddressesAre ==
  ASSUME NEW u \in Nat, NEW sizes \in Seq(Nat)
  PROVE  Spaced(Addresses(u, sizes), u, sizes)
<1>. DEFINE N == Len(sizes)
            F == [n \in 1 .. N |-> [y \in Nat |-> y + Aligned(sizes[n] + 1)]]
            Body(g) == [k \in 0 .. N |-> IF k = 0 THEN u ELSE g[k - 1] + Aligned(sizes[k] + 1)]
            a == Addresses(u, sizes)
<1>1. N \in Nat /\ \A k \in 1 .. N : sizes[k] \in Nat
  BY LenProperties, ElementOfSeq
<1>2. \A k \in 1 .. N : Aligned(sizes[k] + 1) \in Nat /\ sizes[k] + 1 <= Aligned(sizes[k] + 1)
  <2>1. \A k \in 1 .. N : sizes[k] + 1 \in Nat
    BY <1>1
  <2>. QED
    BY <2>1, AlignedIs
<1>. HIDE DEF N
<1>3. \E g : g = Body(g)
  <2>1. F \in [1 .. N -> [Nat -> Nat]]
    BY <1>2
  <2>2. PICK g : Recursive(g, N, Nat, u, F)
    <3>. HIDE DEF F
    <3>. QED
      BY <1>1, <2>1, RecursiveFunction, Zenon
  <2>3. g \in [0 .. N -> Nat] /\ g[0] = u
    BY <2>2 DEF Recursive
  <2>4. ASSUME NEW n \in 1 .. N
        PROVE  g[n] = g[n - 1] + Aligned(sizes[n] + 1)
    <3>1. F[n] = [y \in Nat |-> y + Aligned(sizes[n] + 1)]
      OBVIOUS
    <3>. HIDE DEF F
    <3>2. g[n] = F[n][g[n - 1]]
      BY <2>2 DEF Recursive
    <3>3. n - 1 \in 0 .. N
      BY <1>1
    <3>4. g[n - 1] \in Nat
      BY <2>3, <3>3
    <3>. QED
      BY <3>1, <3>2, <3>4
  <2>5. ASSUME NEW n \in 0 .. N
        PROVE  g[n] = IF n = 0 THEN u ELSE g[n - 1] + Aligned(sizes[n] + 1)
    <3>1. n # 0 => n \in 1 .. N
      BY <1>1
    <3>. QED
      BY <2>3, <2>4, <3>1
  <2>. HIDE DEF F
  <2>. QED
    BY <2>3, <2>5
<1>. HIDE DEF F, a
<1>4. a = Body(a)
  BY <1>3 DEF Addresses, a, N
<1>5. a[0] = u
  BY <1>1, <1>4
<1>6. ASSUME NEW k \in 1 .. N
      PROVE  a[k] = a[k - 1] + Aligned(sizes[k] + 1)
  <2>1. k \in 0 .. N /\ k # 0
    BY <1>1
  <2>. QED
    BY <1>4, <2>1
<1>7. \A k \in 0 .. N : a[k] \in Nat /\ u <= a[k]
  <2>. DEFINE P == {k \in 0 .. N : a[k] \in Nat /\ u <= a[k]}
  <2>1. 0 \in P
    BY <1>1, <1>5
  <2>2. ASSUME NEW k \in 0 .. N - 1, k \in P
        PROVE  k + 1 \in P
    <3>1. k + 1 \in 1 .. N /\ (k + 1) - 1 = k /\ k + 1 \in 0 .. N
      BY <1>1
    <3>2. a[k + 1] = a[k] + Aligned(sizes[k + 1] + 1) /\ Aligned(sizes[k + 1] + 1) \in Nat
      BY <1>2, <1>6, <3>1
    <3>. QED
      BY <2>2, <3>1, <3>2
  <2>. HIDE DEF P
  <2>3. 0 .. N \subseteq P
    BY <1>1, <2>1, <2>2, BoundedInduction
  <2>. QED
    BY <2>3 DEF P
<1>8. ASSUME NEW k \in 0 .. N
      PROVE  \A j \in k .. N : a[k] <= a[j]
  <2>. DEFINE P == {i \in 0 .. N - k : a[k] <= a[k + i]}
  <2>1. 0 \in P
    BY <1>1, <1>7
  <2>2. ASSUME NEW i \in 0 .. (N - k) - 1, i \in P
        PROVE  i + 1 \in P
    <3>. DEFINE j == k + i
    <3>1. j + 1 \in 1 .. N /\ (j + 1) - 1 = j /\ j \in 0 .. N /\ i + 1 \in 0 .. N - k
          /\ j + 1 = k + (i + 1) /\ j + 1 \in 0 .. N
      BY <1>1
    <3>2. a[k] <= a[j]
      BY <2>2
    <3>. HIDE DEF j
    <3>3. a[j + 1] = a[j] + Aligned(sizes[j + 1] + 1) /\ Aligned(sizes[j + 1] + 1) \in Nat
      BY <1>2, <1>6, <3>1
    <3>4. a[k] \in Nat /\ a[j] \in Nat
      BY <1>7, <3>1
    <3>5. a[k] <= a[j + 1]
      BY <3>2, <3>3, <3>4
    <3>. QED
      BY <3>1, <3>5
  <2>. HIDE DEF P
  <2>3. 0 .. N - k \subseteq P
    <3>1. N - k \in Nat
      BY <1>1
    <3>. QED
      BY <2>1, <2>2, <3>1, BoundedInduction
  <2>4. ASSUME NEW j \in k .. N
        PROVE  a[k] <= a[j]
    <3>1. j - k \in 0 .. N - k /\ k + (j - k) = j
      BY <1>1
    <3>2. j - k \in P
      BY <2>3, <3>1
    <3>. QED
      BY <3>1, <3>2 DEF P
  <2>. QED
    BY <2>4
<1>9. ASSUME NEW k \in 1 .. N, NEW j \in k .. N
      PROVE  a[k - 1] + sizes[k] + 1 <= a[j]
  <2>1. k \in 0 .. N /\ j \in 0 .. N /\ k - 1 \in 0 .. N
    BY <1>1
  <2>2. a[k] <= a[j] /\ a[k] \in Nat /\ a[j] \in Nat /\ a[k - 1] \in Nat
    BY <1>7, <1>8, <2>1
  <2>. QED
    BY <1>1, <1>2, <1>6, <2>2, SMTT(40)
<1>10. ASSUME NEW k \in 0 .. N
       PROVE  a[k] <= a[N]
  <2>1. N \in k .. N
    BY <1>1
  <2>. QED
    BY <1>8, <2>1
<1> QED
  BY <1>5, <1>7, <1>9, <1>10 DEF Spaced, N, a

(* The memory r has the items at these addresses, and is m below u. *)
HasItems(r, m, u, at, items, n) ==
  /\ IsMemory(r)
  /\ \A a \in Memory : a < u => r[a] = m[a]
  /\ \A k \in 1 .. n : \A i \in 1 .. Len(items[k]) : r[at[k - 1] + i - 1] = items[k][i]

(* One more item. *)
LEMMA ItemStored ==
  ASSUME NEW m, NEW u \in Nat, NEW at, NEW sizes, Spaced(at, u, sizes),
         NEW C, NEW items \in Seq(Seq(C)), Len(sizes) = Len(items),
         \A k \in 1 .. Len(items) : sizes[k] = Len(items[k]),
         at[Len(items)] <= ArenaSize,
         NEW r, NEW n \in 0 .. Len(items) - 1, HasItems(r, m, u, at, items, n)
  PROVE  HasItems(Write(r, at[n], items[n + 1] \o <<End>>), m, u, at, items, n + 1)
<1>. DEFINE N == Len(items)
            q == items[n + 1]
            cells == q \o <<End>>
            r1 == Write(r, at[n], cells)
            b == at[n]
            L == Len(q)
<1>1. N \in Nat /\ n + 1 \in 1 .. N /\ n \in 0 .. N /\ N \in n + 1 .. N /\ (n + 1) - 1 = n
  BY LenProperties
<1>2. q \in Seq(C) /\ L \in Nat
  BY <1>1, ElementOfSeq, LenProperties
<1>3. Len(cells) = L + 1 /\ \A i \in 1 .. L : cells[i] = q[i]
  <2>1. q \in Seq(C \cup {End}) /\ <<End>> \in Seq(C \cup {End}) /\ Len(<<End>>) = 1
    BY <1>2, SeqMonotonic
  <2>. HIDE DEF q
  <2>2. Len(q \o <<End>>) = Len(q) + Len(<<End>>)
    BY <2>1, ConcatProperties
  <2>3. \A i \in 1 .. Len(q) + Len(<<End>>) :
          (q \o <<End>>)[i] = IF i <= Len(q) THEN q[i] ELSE <<End>>[i - Len(q)]
    BY <2>1, ConcatProperties
  <2>. QED
    BY <1>2, <2>1, <2>2, <2>3
<1>4. /\ b \in Nat /\ u <= b /\ ArenaSize \in Nat /\ SeedLen \in Nat
      /\ b + L + 1 <= at[N] /\ at[N] \in Nat
  <2>1. b \in Nat /\ u <= b /\ at[N] \in Nat
    BY <1>1 DEF Spaced
  <2>2. at[(n + 1) - 1] + sizes[n + 1] + 1 <= at[N]
    BY <1>1 DEF Spaced
  <2>3. sizes[n + 1] = L
    BY <1>1
  <2>. QED
    BY <1>1, <2>1, <2>2, <2>3, SizeAssumption
<1>10. b + L + 1 <= ArenaSize
  <2>1. at[N] <= ArenaSize
    OBVIOUS
  <2>. HIDE DEF b, L, N
  <2>. QED
    BY <1>2, <1>4, <2>1
<1>. HIDE DEF cells, L, N, q, b
<1>5. IsMemory(r1) /\ \A a \in Memory : r1[a] = IF a \in b .. b + L THEN cells[a - b + 1] ELSE r[a]
  <2>1. b + Len(cells) - 1 = b + L
    BY <1>2, <1>3, <1>4
  <2>2. r1 = Write(r, b, cells)
    BY DEF b
  <2>. HIDE DEF r1
  <2>. QED
    BY <2>1, <2>2, WriteIs
<1>. HIDE DEF r1
<1>6. ASSUME NEW a \in Memory, a < u
      PROVE  r1[a] = m[a]
  <2>1. a \notin b .. b + L
    BY <1>2, <1>4, <1>6 DEF Memory
  <2>. QED
    BY <1>5, <1>6, <2>1 DEF HasItems
<1>7. ASSUME NEW k \in 1 .. n, NEW i \in 1 .. Len(items[k])
      PROVE  r1[at[k - 1] + i - 1] = items[k][i]
  <2>. DEFINE a == at[k - 1] + i - 1
  <2>1. /\ k \in 1 .. N /\ k - 1 \in 0 .. N /\ n \in k .. N /\ Len(items[k]) \in Nat
    BY <1>1, ElementOfSeq, LenProperties DEF N
  <2>2. at[k - 1] \in Nat /\ at[k - 1] + Len(items[k]) + 1 <= b
    BY <2>1 DEF Spaced, N, b
  <2>3. a \in Memory /\ a < b
    <3>. DEFINE x == at[k - 1]
                y == Len(items[k])
    <3>1. x \in Nat /\ y \in Nat /\ x + y + 1 <= b /\ i \in 1 .. y
      BY <2>1, <2>2
    <3>. HIDE DEF x, y
    <3>2. x + i - 1 \in Memory /\ x + i - 1 < b
      BY <1>2, <1>4, <1>10, <3>1 DEF Memory
    <3>. QED
      BY <3>2 DEF x
  <2>4. r[a] = items[k][i]
    BY DEF HasItems
  <2>. HIDE DEF a
  <2>5. r1[a] = items[k][i]
    BY <1>4, <1>5, <2>3, <2>4
  <2>. QED
    BY <2>5 DEF a
<1>8. ASSUME NEW i \in 1 .. L
      PROVE  r1[b + i - 1] = q[i]
  <2>. DEFINE a == b + i - 1
  <2>1. a \in Memory /\ a \in b .. b + L /\ a - b + 1 = i
    BY <1>2, <1>4, <1>10 DEF Memory
  <2>. HIDE DEF a
  <2>2. r1[a] = q[i]
    BY <1>3, <1>5, <2>1
  <2>. QED
    BY <2>2 DEF a
<1>9. ASSUME NEW k \in 1 .. n + 1, NEW i \in 1 .. Len(items[k])
      PROVE  r1[at[k - 1] + i - 1] = items[k][i]
  <2>1. CASE k = n + 1
    <3>1. at[k - 1] = b /\ items[k] = q /\ Len(items[k]) = L
      BY <1>1, <2>1 DEF b, q, L
    <3>. QED
      BY <1>8, <3>1
  <2>2. CASE k # n + 1
    <3>1. k \in 1 .. n
      BY <1>1, <2>2
    <3>. QED
      BY <1>7, <3>1
  <2>. QED
    BY <2>1, <2>2
<1> QED
  BY <1>5, <1>6, <1>9 DEF HasItems, r1, cells, b, q

(* All of them. *)
LEMMA StoredIs ==
  ASSUME NEW m, IsMemory(m), NEW u \in Nat, NEW at, NEW sizes, Spaced(at, u, sizes),
         NEW C, NEW items \in Seq(Seq(C)), Len(sizes) = Len(items),
         \A k \in 1 .. Len(items) : sizes[k] = Len(items[k]),
         at[Len(items)] <= ArenaSize
  PROVE  HasItems(Stored(m, at, items), m, u, at, items, Len(items))
<1>. DEFINE N == Len(items)
            V == {m[a] : a \in Memory} \cup C \cup {End}
            D == [Memory -> V]
            F == [n \in 1 .. N |-> [y \in D |-> Write(y, at[n - 1], items[n] \o <<End>>)]]
            Body(g) == [k \in 0 .. N |-> IF k = 0 THEN m ELSE Write(g[k - 1], at[k - 1], items[k] \o <<End>>)]
            w == Storing(m, at, items)
<1>1. N \in Nat /\ m \in D
  BY LenProperties DEF IsMemory
<1>2. ASSUME NEW n \in 1 .. N, NEW y \in D
      PROVE  Write(y, at[n - 1], items[n] \o <<End>>) \in D
  <2>. DEFINE cells == items[n] \o <<End>>
              b == at[n - 1]
              r == Write(y, b, cells)
  <2>1. items[n] \in Seq(C)
    BY ElementOfSeq
  <2>2. items[n] \in Seq(V) /\ <<End>> \in Seq(V)
    BY <2>1, SeqMonotonic
  <2>3. cells \in Seq(V)
    BY <2>2, ConcatProperties
  <2>4. b \in Nat
    <3>1. n - 1 \in 0 .. Len(sizes)
      BY <1>1
    <3>. QED
      BY <3>1 DEF Spaced
  <2>. HIDE DEF cells, b
  <2>5. r = [a \in Memory |-> r[a]] /\
        \A a \in Memory : r[a] = IF a \in b .. b + Len(cells) - 1 THEN cells[a - b + 1] ELSE y[a]
    BY WriteIs DEF IsMemory
  <2>6. ASSUME NEW a \in Memory
        PROVE  r[a] \in V
    <3>1. CASE a \in b .. b + Len(cells) - 1
      <4>1. a - b + 1 \in 1 .. Len(cells)
        BY <2>3, <2>4, <3>1, LenProperties
      <4>2. r[a] = cells[a - b + 1]
        BY <2>5, <3>1
      <4>. HIDE DEF V, r
      <4>. QED
        BY <2>3, <4>1, <4>2, ElementOfSeq
    <3>2. CASE a \notin b .. b + Len(cells) - 1
      <4>1. r[a] = y[a]
        BY <2>5, <3>2
      <4>. HIDE DEF V, r
      <4>. QED
        BY <4>1
    <3>. QED
      BY <3>1, <3>2
  <2>. HIDE DEF V, r
  <2>7. r \in D
    BY <2>5, <2>6
  <2>. QED
    BY <2>7 DEF r, cells, b
<1>. HIDE DEF D
<1>3. F \in [1 .. N -> [D -> D]]
  BY <1>2
<1>4. \E g : g = Body(g)
  <2>1. PICK g : Recursive(g, N, D, m, F)
    <3>. HIDE DEF F, N
    <3>. QED
      BY <1>1, <1>3, RecursiveFunction, Zenon
  <2>2. g \in [0 .. N -> D] /\ g[0] = m
    BY <2>1 DEF Recursive
  <2>3. ASSUME NEW n \in 1 .. N
        PROVE  g[n] = Write(g[n - 1], at[n - 1], items[n] \o <<End>>)
    <3>1. F[n] = [y \in D |-> Write(y, at[n - 1], items[n] \o <<End>>)]
      OBVIOUS
    <3>. HIDE DEF F, N
    <3>2. g[n] = F[n][g[n - 1]]
      BY <2>1 DEF Recursive
    <3>3. n - 1 \in 0 .. N
      BY <1>1
    <3>4. g[n - 1] \in D
      BY <2>2, <3>3
    <3>. QED
      BY <3>1, <3>2, <3>4
  <2>. HIDE DEF F, N
  <2>4. ASSUME NEW n \in 0 .. N
        PROVE  g[n] = IF n = 0 THEN m ELSE Write(g[n - 1], at[n - 1], items[n] \o <<End>>)
    <3>1. n # 0 => n \in 1 .. N
      BY <1>1
    <3>. QED
      BY <2>2, <2>3, <3>1
  <2>. QED
    BY <2>2, <2>4
<1>. HIDE DEF w, F
<1>5. w = Body(w)
  BY <1>4 DEF Storing, w
<1>6. w[0] = m
  BY <1>1, <1>5
<1>7. ASSUME NEW n \in 0 .. N - 1
      PROVE  w[n + 1] = Write(w[n], at[n], items[n + 1] \o <<End>>)
  <2>1. n + 1 \in 0 .. N /\ n + 1 # 0 /\ (n + 1) - 1 = n
    BY <1>1
  <2>. HIDE DEF N
  <2>. QED
    BY <1>5, <2>1
<1>8. HasItems(m, m, u, at, items, 0)
  BY DEF HasItems
<1>. DEFINE P == {n \in 0 .. N : HasItems(w[n], m, u, at, items, n)}
<1>9. 0 \in P
  BY <1>1, <1>6, <1>8
<1>10. ASSUME NEW n \in 0 .. N - 1, n \in P
       PROVE  n + 1 \in P
  <2>1. HasItems(w[n], m, u, at, items, n)
    BY <1>10
  <2>2. HasItems(Write(w[n], at[n], items[n + 1] \o <<End>>), m, u, at, items, n + 1)
    BY <2>1, ItemStored
  <2>3. n + 1 \in 0 .. N
    BY <1>1
  <2>. QED
    BY <1>7, <2>2, <2>3
<1>. HIDE DEF P
<1>11. 0 .. N \subseteq P
  BY <1>1, <1>9, <1>10, BoundedInduction
<1>12. N \in P
  BY <1>1, <1>11
<1> QED
  BY <1>12 DEF P, Stored, w

---------------------------------------------------------------------------------
(* The invariant *)

LastField == Len(Fields(Kind))

(* what ptr is behind the label of field j of the n-th record *)
At(n, j) == Place(Kind, file, n, j) + 1

(* The text occupies the arena up to here. *)
Behind == Aligned(Len(Text(Kind, file)) + 1)

(* where the k-th message is decoded *)
InputAt(k) ==
  IF Kind \in {"MCE", "SHORT"} THEN Stack
  ELSE IF k = 1 THEN Behind ELSE Behind + Aligned(KeyLen + 1)

(* The record that is tested, and its number. *)
Now    == tally.tests + 1
Record == file[Now]

(* After the first d fields of the record: messages decoded, expected       *)
(* values found, and what the messages have taken from the arena.          *)
InputsFound(d) ==
  IF d <= 1 THEN 0 ELSE IF d - 1 <= InputCount(Kind) THEN d - 1 ELSE InputCount(Kind)
ExpectedFound(d) ==
  IF d <= InputCount(Kind) + 1 THEN 0 ELSE d - 1 - InputCount(Kind)
Held(d) ==
  CASE d <= 1 -> 0
    [] d > 1 /\ Kind = "SHA" -> Aligned(Record[1][1])
    [] d = 2 /\ Kind = "AES" -> Aligned(KeyLen + 1)
    [] d > 2 /\ Kind = "AES" -> Aligned(KeyLen + 1) + Aligned(BlockLen + 1)
    [] OTHER -> 0

(* The parser has read d fields of the record. *)
Reads(d) ==
  /\ Now <= Len(file) /\ d <= Len(Record)
  /\ cursor = At(Now, d)
  /\ testMark = Behind
  /\ expected = [k \in 1 .. ExpectedFound(d) |-> At(Now, InputCount(Kind) + 1 + k)]

(* The messages among them are decoded. *)
Decodes(d) ==
  /\ len = Record[1][1]
  /\ inputs = [k \in 1 .. InputsFound(d) |->
                 [at |-> InputAt(k), size |-> Len(Record[k + 1])]]
  /\ \A k \in 1 .. InputsFound(d) : \A i \in 1 .. Len(Record[k + 1]) :
       mem[InputAt(k) + i - 1] = Raw(Record[k + 1][i])
  /\ used = Behind + Held(d)

(* Before the first field of the next record. *)
BetweenRecords ==
  step = "find" /\ field = 1 =>
    /\ cursor = IF tally.tests = 0 THEN 0 ELSE At(tally.tests, LastField)
    /\ used = Behind

(* After some fields of a record, and after all of them. *)
WithinRecord ==
  step = "find" /\ field > 1 => Reads(field - 1) /\ Decodes(field - 1) /\ field <= LastField

RecordRead ==
  step \in {"send", "receive"} => field = 1 /\ Reads(LastField) /\ Decodes(LastField)

(* The answer is in memory, in hexadecimal. *)
Received ==
  step = "judge" =>
    /\ field = 1 /\ Reads(LastField)
    /\ Len(result) = Len(Compared(Kind))
    /\ \A k \in 1 .. Len(Compared(Kind)) : \A i \in 0 .. Compared(Kind)[k] - 1 :
         mem[result[k] + i] = Hex(answered[Now][k][i + 1])

(* A small answer overwrites the header, and nothing else of the text. *)
TextHeld ==
  /\ mem[Len(Text(Kind, file))] = End
  /\ \A a \in 0 .. Len(Text(Kind, file)) - 1 :
       answered = <<>> \/ a >= Header => mem[a] = Text(Kind, file)[a + 1]

(* PassesWith, for any kind of test; the tests passed among the first n. *)
Passes(kind, rec, answer) ==
  LET n == Len(Compared(kind)) IN
  \A k \in 1 .. n : \A i \in 1 .. Compared(kind)[k] :
    answer[k][i] = SubSeq(rec, Len(rec) - n + 1, Len(rec))[k][i]
Passed(kind, records, answers, n) ==
  {m \in 1 .. n : Passes(kind, records[m], answers[m])}

(* Each record so far was complete, and is counted. *)
Counted ==
  /\ tally.tests <= Len(file)
  /\ Kind = "MCE" => tally.tests <= 2
  /\ \A n \in 1 .. tally.tests : IsComplete(Kind, file[n])
  /\ tally.good = Cardinality(Passed(Kind, file, answered, tally.tests))
  /\ step # "report" => ~tally.early /\ ~Enough(Kind, tally.tests)

(* What was sent and received, test by test. *)
Recorded ==
  /\ asked \in Seq(Seq(Seq(Nat))) /\ answered \in Seq(Seq(Seq(Nat)))
  /\ Len(asked) = IF step \in {"receive", "judge"} THEN Now ELSE tally.tests
  /\ Len(answered) = IF step = "judge" THEN Now ELSE tally.tests
  /\ \A n \in 1 .. Len(asked) : asked[n] = InputsOf(Kind, file[n])

(* Why the tests of the file are over. *)
Reported ==
  step = "report" =>
    /\ cursor >= Header \/ answered = <<>>
    /\ IF tally.early
         THEN Now = Len(file) /\ ~IsComplete(Kind, file[Now]) /\ ~Enough(Kind, tally.tests)
         ELSE tally.tests = Len(file) \/ Enough(Kind, tally.tests)

InFile ==
  Testing =>
    /\ file \in Files(Kind) /\ content = 0 /\ mark = 0
    /\ TextHeld /\ Counted /\ Recorded
    /\ BetweenRecords /\ WithinRecord /\ RecordRead /\ Received /\ Reported

(* The Tester is connected to the SUT, and no byte went elsewhere. *)
Connection == base = "sut" /\ BytesGoToTheirLine

Inv ==
  /\ TypeOK
  /\ IsMemory(mem)
  /\ step = "file" => used = 0
  /\ Connection
  /\ InFile


(* What holds while a file is used. *)
LEMMA FileInUse ==
  ASSUME Inv, Testing
  PROVE  /\ Kind \in Kinds /\ file \in Files(Kind) /\ Len(file) \in Nat
         /\ LastField \in Nat /\ LastField \in 3 .. 6 /\ LastField >= InputCount(Kind) + 2
         /\ tally.tests \in Nat /\ Now = tally.tests + 1 /\ tally.tests <= Len(file)
         /\ Len(Text(Kind, file)) \in Nat /\ Header <= Len(Text(Kind, file))
         /\ Behind \in Nat /\ Len(Text(Kind, file)) < Behind /\ Behind <= ArenaSize
<1>1. Kind \in Kinds
  BY DEF Inv, TypeOK, Kind, Tests, Kinds
<1>2. file \in Files(Kind) /\ tally.tests <= Len(file)
  BY DEF Inv, InFile, Counted
<1>3. Len(file) \in Nat
  BY <1>1, <1>2, FilesAre
<1>4. LastField \in Nat /\ LastField \in 3 .. 6 /\ LastField >= InputCount(Kind) + 2
  BY <1>1, FieldsAre DEF LastField
<1>5. tally.tests \in Nat /\ Now = tally.tests + 1
  BY DEF Inv, TypeOK, Now
<1>6. Len(Text(Kind, file)) \in Nat /\ Header <= Len(Text(Kind, file))
  BY <1>1, <1>2, TextIs
<1>7. Len(Text(Kind, file)) + 1 \in Nat
  BY <1>6
<1>8. Behind \in Nat /\ Len(Text(Kind, file)) + 1 <= Behind
  BY <1>7, AlignedIs DEF Behind
<1>9. Behind <= ArenaSize
  BY <1>1, <1>2, ArenaAssumption DEF Behind
<1> QED
  BY <1>1, <1>2, <1>3, <1>4, <1>5, <1>6, <1>8, <1>9

(* Only the last record of the file may be incomplete. *)
LEMMA RecordsAre ==
  ASSUME Inv, Testing, NEW n \in 1 .. Len(file)
  PROVE  /\ Len(file[n]) \in Nat /\ Len(file[n]) \in 1 .. LastField
         /\ IsComplete(Kind, file[n]) <=> Len(file[n]) = LastField
         /\ n < Len(file) => IsComplete(Kind, file[n])
         /\ \A j \in 1 .. Len(file[n]) :
              /\ file[n][j] \in Seq(Nat) /\ Len(file[n][j]) \in Nat
              /\ Len(file[n][j]) = ValueLen(Kind, file[n][1][1])[j]
         /\ Len(file[n][1]) = 1 /\ file[n][1][1] \in Nat
<1>1. Kind \in Kinds /\ file \in Files(Kind)
  BY FileInUse
<1>2. /\ Len(file[n]) \in 1 .. Len(Fields(Kind))
      /\ n < Len(file) => Len(file[n]) = Len(Fields(Kind))
      /\ \A j \in 1 .. Len(file[n]) : Len(file[n][j]) = ValueLen(Kind, file[n][1][1])[j]
  BY <1>1, FilesAssumption
<1>3. /\ Len(file[n]) \in Nat
      /\ \A j \in 1 .. Len(file[n]) : file[n][j] \in Seq(Nat) /\ Len(file[n][j]) \in Nat
  BY <1>1, FilesAre
<1>4. 1 \in 1 .. Len(file[n])
  BY <1>2, <1>3
<1>5. ValueLen(Kind, file[n][1][1])[1] = 1
  BY <1>1 DEF ValueLen, Kinds
<1>6. Len(file[n][1]) = 1 /\ file[n][1] \in Seq(Nat)
  BY <1>2, <1>3, <1>4, <1>5
<1>7. file[n][1][1] \in Nat
  BY <1>6
<1> QED
  BY <1>2, <1>3, <1>6, <1>7 DEF IsComplete, LastField

(* What follows the label of a field. *)
LEMMA BehindLabel ==
  ASSUME Inv, Testing, NEW n \in 1 .. Len(file), NEW j \in 1 .. Len(file[n])
  PROVE  LET T == Text(Kind, file)
             p == At(n, j)
             v == file[n][j]
         IN
         /\ p \in Nat /\ Header < p /\ p + Len(v) < Len(T)
         /\ T[p] = Label(Fields(Kind)[j].label)
         /\ \A i \in 1 .. Len(v) : T[p + i] = IF j = 1 THEN Number(v[i]) ELSE Hex(v[i])
         /\ T[p + Len(v) + 1] = Other
         /\ p + Len(v) + 2 = IF j < Len(file[n]) THEN At(n, j + 1)
                             ELSE IF n < Len(file) THEN At(n + 1, 1)
                             ELSE Len(T) + 1
<1> DEFINE T == Text(Kind, file)
           q == Place(Kind, file, n, j)
           v == file[n][j]
<1>1. Kind \in Kinds /\ file \in Files(Kind) /\ Len(T) \in Nat /\ Header \in Nat
  BY FileInUse, SizeAssumption
<1>2. /\ q \in Nat /\ Header <= q /\ Len(v) \in Nat /\ q + Len(v) + 2 <= Len(T)
      /\ T[q + 1] = Label(Fields(Kind)[j].label)
      /\ \A i \in 1 .. Len(v) : T[q + 1 + i] = IF j = 1 THEN Number(v[i]) ELSE Hex(v[i])
      /\ T[q + Len(v) + 2] = Other
      /\ q + Len(v) + 2 = IF j < Len(file[n]) THEN Place(Kind, file, n, j + 1)
                          ELSE IF n < Len(file) THEN Place(Kind, file, n + 1, 1)
                          ELSE Len(T)
  BY <1>1, FieldAt
<1>3. At(n, j) = q + 1
  BY DEF At
<1>4. /\ At(n, j + 1) = Place(Kind, file, n, j + 1) + 1
      /\ At(n + 1, 1) = Place(Kind, file, n + 1, 1) + 1
  BY DEF At
<1> HIDE DEF T, q, v
<1>5. /\ q + 1 \in Nat /\ Header < q + 1 /\ q + 1 + Len(v) < Len(T)
      /\ q + 1 + Len(v) + 1 = q + Len(v) + 2
      /\ q + 1 + Len(v) + 2 = q + Len(v) + 2 + 1
  BY <1>1, <1>2
<1>6. q + Len(v) + 2 + 1 = IF j < Len(file[n]) THEN At(n, j + 1)
                           ELSE IF n < Len(file) THEN At(n + 1, 1)
                           ELSE Len(T) + 1
  BY <1>2, <1>4
<1>7. T[q + 1 + Len(v) + 1] = Other
  BY <1>2, <1>5
<1>8. /\ q + 1 \in Nat /\ Header < q + 1 /\ q + 1 + Len(v) < Len(T)
      /\ T[q + 1] = Label(Fields(Kind)[j].label)
      /\ \A i \in 1 .. Len(v) : T[q + 1 + i] = IF j = 1 THEN Number(v[i]) ELSE Hex(v[i])
      /\ T[q + 1 + Len(v) + 1] = Other
      /\ q + 1 + Len(v) + 2 = IF j < Len(file[n]) THEN At(n, j + 1)
                              ELSE IF n < Len(file) THEN At(n + 1, 1)
                              ELSE Len(T) + 1
  BY <1>2, <1>5, <1>6, <1>7
<1> QED
  BY <1>3, <1>8 DEF T, v

(* The parser has read d fields of the current record. *)
LEMMA ReadsAre ==
  ASSUME Inv, Testing, NEW d \in Nat, d >= 1, Reads(d)
  PROVE  /\ Now \in 1 .. Len(file) /\ d \in 1 .. Len(file[Now])
         /\ Len(file[Now]) \in Nat
         /\ cursor = At(Now, d) /\ cursor \in Nat /\ Header < cursor
<1>1. Now \in 1 .. Len(file)
  BY FileInUse DEF Reads
<1>2. Len(file[Now]) \in Nat
  BY <1>1, RecordsAre
<1>3. d \in 1 .. Len(file[Now]) /\ cursor = At(Now, d)
  BY <1>2 DEF Reads, Record
<1>4. At(Now, d) \in Nat /\ Header < At(Now, d)
  BY <1>1, <1>3, BehindLabel
<1> QED
  BY <1>1, <1>2, <1>3, <1>4

(* The records before the current one are complete. *)
LEMMA DoneAre ==
  ASSUME Inv, Testing, NEW n \in 1 .. tally.tests
  PROVE  n \in 1 .. Len(file) /\ Len(file[n]) = LastField /\ LastField \in 1 .. Len(file[n])
<1>1. n \in 1 .. Len(file)
  BY FileInUse
<1>2. IsComplete(Kind, file[n])
  BY DEF Inv, InFile, Counted
<1>3. Len(file[n]) = LastField /\ Len(file[n]) \in Nat /\ Len(file[n]) \in 1 .. LastField
  BY <1>1, <1>2, RecordsAre
<1> QED
  BY <1>1, <1>3

(* Where the parser is, and that the text from there on is in memory. *)
LEMMA CursorIs ==
  ASSUME Inv, Testing
  PROVE  cursor \in Nat /\ (answered = <<>> \/ cursor >= Header)
<1>1. cursor \in Nat /\ Header \in Nat
  BY SizeAssumption DEF Inv, TypeOK, Memory
<1>2. CASE step = "report"
  BY <1>1, <1>2 DEF Inv, InFile, Reported
<1>3. CASE step = "find" /\ field = 1 /\ tally.tests = 0
  <2>1. Len(answered) = 0 /\ answered \in Seq(Seq(Seq(Nat)))
    BY <1>3 DEF Inv, InFile, Recorded
  <2> QED
    BY <2>1, <1>1
<1>4. CASE step = "find" /\ field = 1 /\ tally.tests # 0
  <2>1. cursor = At(tally.tests, LastField)
    BY <1>4 DEF Inv, InFile, BetweenRecords
  <2>2. tally.tests \in 1 .. tally.tests
    BY <1>4, FileInUse
  <2>3. tally.tests \in 1 .. Len(file) /\ LastField \in 1 .. Len(file[tally.tests])
    BY <2>2, DoneAre
  <2>4. At(tally.tests, LastField) \in Nat /\ Header < At(tally.tests, LastField)
    BY <2>3, BehindLabel
  <2> QED
    BY <1>1, <2>1, <2>4
<1>5. CASE step = "find" /\ field # 1
  <2>1. field \in 1 .. 6
    BY DEF Inv, TypeOK
  <2>2. Reads(field - 1)
    BY <1>5, <2>1 DEF Inv, InFile, WithinRecord
  <2>3. field - 1 \in Nat /\ field - 1 >= 1
    BY <1>5, <2>1
  <2>4. Header < cursor
    BY <2>2, <2>3, ReadsAre
  <2> QED
    BY <1>1, <2>4
<1>6. CASE step \in {"send", "receive", "judge"}
  <2>1. Reads(LastField)
    BY <1>6 DEF Inv, InFile, RecordRead, Received
  <2>2. LastField \in Nat /\ LastField >= 1
    BY FileInUse
  <2>3. Header < cursor
    BY <2>1, <2>2, ReadsAre
  <2> QED
    BY <1>1, <2>3
<1> QED
  BY <1>2, <1>3, <1>4, <1>5, <1>6 DEF Testing

LEMMA TextAhead ==
  ASSUME Inv, Testing
  PROVE  /\ \A a \in 0 .. Len(Text(Kind, file)) - 1 :
              a >= cursor => mem[a] = Text(Kind, file)[a + 1]
         /\ mem[Len(Text(Kind, file))] = End
<1> DEFINE L == Len(Text(Kind, file))
<1>1. cursor \in Nat /\ (answered = <<>> \/ cursor >= Header)
  BY CursorIs
<1>2. TextHeld /\ L \in Nat /\ Header \in Nat
  BY FileInUse, SizeAssumption DEF Inv, InFile
<1>3. ASSUME NEW a \in 0 .. L - 1, a >= cursor
      PROVE  mem[a] = Text(Kind, file)[a + 1]
  <2>1. answered = <<>> \/ a >= Header
    BY <1>1, <1>2, <1>3
  <2> QED
    BY <1>2, <1>3, <2>1 DEF TextHeld
<1> QED
  BY <1>2, <1>3 DEF TextHeld


(* No label follows before the end of the line. *)
LEMMA NoLabelInValue ==
  ASSUME Inv, Testing, NEW n \in 1 .. Len(file), NEW j \in 1 .. Len(file[n]),
         cursor = At(n, j)
  PROVE  Gap(cursor, cursor + Len(file[n][j]) + 1)
<1> DEFINE T == Text(Kind, file)
           p == At(n, j)
           v == file[n][j]
<1>1. /\ p \in Nat /\ Header < p /\ p + Len(v) < Len(T)
      /\ \A i \in 1 .. Len(v) : T[p + i] = IF j = 1 THEN Number(v[i]) ELSE Hex(v[i])
      /\ T[p + Len(v) + 1] = Other
  BY BehindLabel
<1>2. \A a \in 0 .. Len(T) - 1 : a >= p => mem[a] = T[a + 1]
  BY TextAhead
<1>3. Len(T) \in Nat /\ Len(v) \in Nat
  BY FileInUse, RecordsAre
<1> HIDE DEF T, p, v
<1>4. ASSUME NEW a \in p .. p + Len(v)
      PROVE  mem[a][1] # "label"
  <2>0. a \in 0 .. Len(T) - 1 /\ a >= p
    BY <1>1, <1>3
  <2>1. mem[a] = T[a + 1]
    BY <1>2, <2>0
  <2>2. CASE a = p + Len(v)
    <3>1. T[a + 1] = Other
      BY <1>1, <2>2
    <3> QED
      BY <2>1, <3>1 DEF Other
  <2>3. CASE a # p + Len(v)
    <3>1. a - p + 1 \in 1 .. Len(v) /\ p + (a - p + 1) = a + 1
      BY <1>1, <1>3, <2>3
    <3>2. T[a + 1] = Number(v[a - p + 1]) \/ T[a + 1] = Hex(v[a - p + 1])
      BY <1>1, <3>1
    <3> QED
      BY <2>1, <3>2 DEF Number, Hex
  <2> QED
    BY <2>2, <2>3
<1> DEFINE e == p + Len(v) + 1
<1>5. \A a \in p .. e - 1 : a \in p .. p + Len(v)
  BY <1>1, <1>3
<1> HIDE DEF e
<1>6. \A a \in p .. e - 1 : mem[a][1] # "label"
  BY <1>4, <1>5
<1>7. Gap(p, e)
  BY <1>6 DEF Gap
<1> QED
  BY <1>7 DEF e, p, v

(* Where the next label is, or the text ends. *)
NextPlace ==
  IF Now <= Len(file) /\ field <= Len(Record) THEN At(Now, field) - 1
  ELSE Len(Text(Kind, file))

LEMMA Upcoming ==
  ASSUME Inv, step = "find"
  PROVE  cursor \in Nat /\ cursor <= NextPlace /\ Gap(cursor, NextPlace)
<1> DEFINE T == Text(Kind, file)
<1>1. Testing
  BY DEF Testing
<1>2. /\ tally.tests \in Nat /\ Now = tally.tests + 1 /\ tally.tests <= Len(file)
      /\ Len(file) \in Nat /\ LastField \in Nat /\ LastField >= 3 /\ Len(T) \in Nat
      /\ cursor \in Nat /\ field \in 1 .. 6
  <2>1. field \in 1 .. 6
    BY DEF Inv, TypeOK
  <2>2. cursor \in Nat
    BY <1>1, CursorIs
  <2>3. LastField >= 3
    BY <1>1, FileInUse
  <2> QED
    BY <1>1, <2>1, <2>2, <2>3, FileInUse
<1>3. Now \in 1 .. Len(file) => Len(Record) \in Nat /\ Len(Record) \in 1 .. LastField
  BY <1>1, RecordsAre DEF Record
<1>4. CASE field = 1 /\ tally.tests = 0
  <2>1. cursor = 0 /\ Now = 1
    BY <1>2, <1>4 DEF Inv, InFile, Testing, BetweenRecords
  <2>2. /\ Len(Texts(Kind, file)[0]) = Header /\ Header <= Len(T)
        /\ Len(Texts(Kind, file)[Len(file)]) = Len(T)
        /\ \A i \in 1 .. Header : T[i] = Other
        /\ Header \in Nat
    BY <1>1, FileInUse, TextIs, SizeAssumption
  <2>3. \A a \in 0 .. Len(T) - 1 : a >= 0 => mem[a] = T[a + 1]
    BY <1>1, <2>1, TextAhead
  <2>4. ASSUME NEW a \in 0 .. Header - 1
        PROVE  mem[a][1] # "label"
    <3>1. a \in 0 .. Len(T) - 1 /\ a + 1 \in 1 .. Header /\ a >= 0
      BY <1>2, <2>2
    <3>2. mem[a] = Other
      BY <2>2, <2>3, <3>1
    <3> QED
      BY <3>2 DEF Other
  <2>5. Gap(cursor, Header)
    BY <2>1, <2>4 DEF Gap
  <2>6. NextPlace = Header
    <3>1. CASE Len(file) = 0
      BY <1>2, <2>1, <2>2, <3>1 DEF NextPlace
    <3>2. CASE Len(file) # 0
      <4>1. Now \in 1 .. Len(file) /\ field <= Len(Record)
        BY <1>2, <1>3, <1>4, <2>1, <3>2
      <4>2. Proper(Kind, file[1])
        BY <1>1, <2>1, <4>1, FileInUse, FilesAre
      <4>3. Len(Lines(Kind, file[1])[0]) = 0
        BY <1>1, <4>2, FileInUse, LinesAre
      <4>4. Place(Kind, file, 1, 1) = Header
        <5>1. 1 - 1 = 0
          OBVIOUS
        <5>2. Len(Texts(Kind, file)[1 - 1]) = Header /\ Len(Lines(Kind, file[1])[1 - 1]) = 0
          BY <2>2, <4>3, <5>1
        <5> QED
          BY <2>2, <5>2 DEF Place
      <4>5. At(1, 1) - 1 = Header
        BY <2>2, <4>4 DEF At
      <4>6. Now <= Len(file)
        BY <1>2, <4>1
      <4> QED
        BY <1>4, <2>1, <4>1, <4>5, <4>6 DEF NextPlace
    <3> QED
      BY <3>1, <3>2
  <2> QED
    BY <1>2, <2>1, <2>2, <2>5, <2>6
<1>5. CASE field = 1 /\ tally.tests # 0
  <2> DEFINE n == tally.tests
             v == file[n][LastField]
  <2>1. cursor = At(n, LastField)
    BY <1>5 DEF Inv, InFile, Testing, BetweenRecords
  <2>2. n \in 1 .. tally.tests
    BY <1>2, <1>5
  <2>3. n \in 1 .. Len(file) /\ Len(file[n]) = LastField /\ LastField \in 1 .. Len(file[n])
    BY <1>1, <2>2, DoneAre
  <2>4. Gap(cursor, cursor + Len(v) + 1) /\ Len(v) \in Nat
    BY <1>1, <2>1, <2>3, NoLabelInValue, RecordsAre
  <2>5. cursor + Len(v) + 2 = IF n < Len(file) THEN At(n + 1, 1) ELSE Len(T) + 1
    <3>1. cursor + Len(v) + 2 = IF LastField < Len(file[n]) THEN At(n, LastField + 1)
                                ELSE IF n < Len(file) THEN At(n + 1, 1)
                                ELSE Len(T) + 1
      BY <1>1, <2>1, <2>3, BehindLabel
    <3>2. ~(LastField < Len(file[n]))
      BY <1>2, <2>3
    <3> QED
      BY <3>1, <3>2
  <2>6. NextPlace = cursor + Len(v) + 1
    <3>1. CASE n < Len(file)
      <4>1. Now \in 1 .. Len(file) /\ Now <= Len(file)
        BY <1>2, <3>1
      <4>2. field <= Len(Record)
        BY <1>2, <1>3, <1>5, <4>1
      <4>3. NextPlace = At(n + 1, 1) - 1
        BY <1>2, <1>5, <4>1, <4>2 DEF NextPlace
      <4> HIDE DEF n, v
      <4> QED
        BY <1>2, <2>4, <2>5, <3>1, <4>3
    <3>2. CASE ~(n < Len(file))
      <4>1. NextPlace = Len(T)
        BY <1>2, <3>2 DEF NextPlace
      <4> HIDE DEF n, v, T
      <4> QED
        BY <1>2, <2>4, <2>5, <3>2, <4>1
    <3> QED
      BY <3>1, <3>2
  <2> HIDE DEF n, v
  <2> QED
    BY <1>2, <2>4, <2>6
<1>6. CASE field # 1
  <2> DEFINE d == field - 1
             v == file[Now][d]
  <2>1. Reads(d) /\ field <= LastField /\ d \in Nat /\ d >= 1
    BY <1>2, <1>6 DEF Inv, InFile, Testing, WithinRecord
  <2>2. Now \in 1 .. Len(file) /\ d \in 1 .. Len(file[Now]) /\ cursor = At(Now, d)
    BY <1>1, <2>1, ReadsAre
  <2>3. Gap(cursor, cursor + Len(v) + 1) /\ Len(v) \in Nat
    BY <1>1, <2>2, NoLabelInValue, RecordsAre
  <2>4. cursor + Len(v) + 2 = IF d < Len(file[Now]) THEN At(Now, d + 1)
                              ELSE IF Now < Len(file) THEN At(Now + 1, 1)
                              ELSE Len(T) + 1
    BY <1>1, <2>2, BehindLabel
  <2>5. NextPlace = cursor + Len(v) + 1
    <3>1. CASE d < Len(file[Now])
      <4>1. field <= Len(Record) /\ Now <= Len(file) /\ d + 1 = field
        BY <1>2, <1>3, <2>2, <3>1 DEF Record
      <4>2. NextPlace = At(Now, field) - 1
        BY <4>1 DEF NextPlace
      <4>3. cursor + Len(v) + 2 = At(Now, field)
        BY <2>4, <3>1, <4>1
      <4> HIDE DEF v
      <4> QED
        BY <1>2, <2>3, <4>2, <4>3
    <3>2. CASE ~(d < Len(file[Now]))
      <4>1. d = Len(file[Now]) /\ Len(file[Now]) # LastField
        BY <1>2, <1>3, <2>1, <2>2, <3>2, SMTT(40) DEF Record
      <4>2. ~(Now < Len(file))
        BY <1>1, <2>2, <4>1, RecordsAre
      <4>3. ~(field <= Len(Record))
        BY <1>2, <4>1 DEF Record
      <4>4. NextPlace = Len(T)
        BY <4>3 DEF NextPlace
      <4>5. cursor + Len(v) + 2 = Len(T) + 1
        BY <2>4, <3>2, <4>2
      <4> HIDE DEF v, T
      <4> QED
        BY <1>2, <2>3, <4>4, <4>5
    <3> QED
      BY <3>1, <3>2
  <2> HIDE DEF d, v
  <2> QED
    BY <1>2, <2>3, <2>5
<1> QED
  BY <1>4, <1>5, <1>6

(* The text that is searched. *)
LEMMA TextFromCursor ==
  ASSUME Inv, Testing, cursor <= Len(Text(Kind, file))
  PROVE  TextFrom(cursor, Len(Text(Kind, file)))
<1> DEFINE T == Text(Kind, file)
<1>1. cursor \in Nat /\ Len(T) \in Nat /\ Len(T) <= ArenaSize
  BY FileInUse, CursorIs, SizeAssumption
<1>2. T \in Seq(TextCell)
  BY FileInUse, TextIs
<1>3. \A a \in 1 .. Len(T) : T[a] \in TextCell
  BY <1>2
<1>4. /\ \A a \in 0 .. Len(T) - 1 : a >= cursor => mem[a] = T[a + 1]
      /\ mem[Len(T)] = End
  BY TextAhead
<1> HIDE DEF T
<1>5. ASSUME NEW a \in cursor .. Len(T) - 1
      PROVE  mem[a] \in TextCell
  <2>1. a \in 0 .. Len(T) - 1 /\ a >= cursor /\ a + 1 \in 1 .. Len(T)
    BY <1>1
  <2> QED
    BY <1>3, <1>4, <2>1
<1>6. TextFrom(cursor, Len(T))
  BY <1>1, <1>4, <1>5 DEF TextFrom, T
<1> QED
  BY <1>6 DEF T

(* The search finds the next field of the record, if the file has it. *)
LEMMA FieldFound ==
  ASSUME Inv, step = "find", Now <= Len(file), field <= Len(Record)
  PROVE  /\ Search(cursor, Fields(Kind)[field].label) = At(Now, field)
         /\ Now \in 1 .. Len(file) /\ field \in 1 .. Len(file[Now])
         /\ At(Now, field) \in Nat
<1> DEFINE q == At(Now, field) - 1
           T == Text(Kind, file)
<1>1. Testing
  BY DEF Testing
<1>2. Now \in 1 .. Len(file)
  BY <1>1, FileInUse
<1>3. field \in 1 .. Len(file[Now])
  BY <1>1, <1>2, RecordsAre DEF Inv, TypeOK, Record
<1>4. /\ At(Now, field) \in Nat /\ Header < At(Now, field)
      /\ At(Now, field) + Len(file[Now][field]) < Len(T)
      /\ T[At(Now, field)] = Label(Fields(Kind)[field].label)
      /\ Len(file[Now][field]) \in Nat /\ Header \in Nat /\ Len(T) \in Nat
  BY <1>1, <1>2, <1>3, BehindLabel, RecordsAre, FileInUse, SizeAssumption
<1>5. NextPlace = q
  BY DEF NextPlace
<1>6. cursor \in Nat /\ cursor <= q /\ Gap(cursor, q)
  BY <1>5, Upcoming
<1>7. q \in Nat /\ q < Len(T) /\ q + 1 = At(Now, field) /\ q \in 0 .. Len(T) - 1
  BY <1>4, SMTT(40)
<1>8. mem[q] = Label(Fields(Kind)[field].label)
  BY <1>1, <1>4, <1>6, <1>7, TextAhead
<1>9. cursor <= Len(T)
  BY <1>4, <1>6, <1>7
<1>10. TextFrom(cursor, Len(T))
  BY <1>1, <1>9, TextFromCursor
<1> HIDE DEF q, T
<1>11. Search(cursor, Fields(Kind)[field].label) = q + 1
  BY <1>6, <1>7, <1>8, <1>10, SearchFinds
<1> QED
  BY <1>2, <1>3, <1>4, <1>7, <1>11

(* It finds nothing, if the file does not have it. *)
LEMMA FieldMissing ==
  ASSUME Inv, step = "find", ~(Now <= Len(file) /\ field <= Len(Record))
  PROVE  Search(cursor, Fields(Kind)[field].label) = NULL
<1>1. Testing
  BY DEF Testing
<1>2. NextPlace = Len(Text(Kind, file))
  BY DEF NextPlace
<1>3. cursor \in Nat /\ cursor <= Len(Text(Kind, file)) /\ Gap(cursor, Len(Text(Kind, file)))
  BY <1>2, Upcoming
<1> QED
  BY <1>1, <1>3, TextFromCursor, SearchFails

(* What the program takes a field for. *)
LEMMA FieldIs ==
  ASSUME Inv, step = "find", Now <= Len(file), field <= Len(Record)
  PROVE  /\ field = 1 => ParseNumber(At(Now, field)) = Record[1][1]
         /\ field # 1 => Decoded(At(Now, field))
                           = [i \in 1 .. Len(Record[field]) |-> Raw(Record[field][i])]
<1> DEFINE p == At(Now, field)
           T == Text(Kind, file)
           v == Record[field]
<1>1. Testing
  BY DEF Testing
<1>2. Now \in 1 .. Len(file) /\ field \in 1 .. Len(file[Now]) /\ p \in Nat
  BY FieldFound
<1>3. v = file[Now][field] /\ v \in Seq(Nat) /\ Len(v) \in Nat
  BY <1>1, <1>2, RecordsAre DEF Record
<1>4. /\ Header < p /\ p + Len(v) < Len(T)
      /\ \A i \in 1 .. Len(v) : T[p + i] = IF field = 1 THEN Number(v[i]) ELSE Hex(v[i])
      /\ T[p + Len(v) + 1] = Other
  BY <1>1, <1>2, <1>3, BehindLabel
<1>5. /\ Len(T) \in Nat /\ Len(T) <= ArenaSize /\ ArenaSize \in Nat
  BY <1>1, FileInUse, SizeAssumption
<1>6. cursor \in Nat /\ cursor <= p - 1
  BY Upcoming DEF NextPlace
<1>7. \A a \in 0 .. Len(T) - 1 : a >= cursor => mem[a] = T[a + 1]
  BY <1>1, TextAhead
<1> HIDE DEF p, T
<1>8. \A a \in p .. Len(T) - 1 : mem[a] = T[a + 1]
  BY <1>2, <1>5, <1>6, <1>7
<1>9. CASE field = 1
  <2>1. Len(v) = 1 /\ v = Record[1]
    BY <1>1, <1>2, <1>3, <1>9, RecordsAre
  <2>2. T[p + 1] = Number(Record[1][1])
    BY <1>4, <1>9, <2>1
  <2>3. mem[p] = T[p + 1]
    BY <1>2, <1>3, <1>4, <1>5, <1>8
  <2>4. ParseNumber(p) = Record[1][1]
    BY <2>2, <2>3, NumberIs
  <2> QED
    BY <1>9, <2>4 DEF p
<1>10. CASE field # 1
  <2> HIDE DEF v
  <2>1. p + Len(v) <= ArenaSize
    BY <1>2, <1>3, <1>4, <1>5
  <2>2. ASSUME NEW i \in 1 .. Len(v)
        PROVE  mem[p + i - 1] = Hex(v[i])
    <3>1. p + i - 1 \in p .. Len(T) - 1 /\ p + i - 1 + 1 = p + i
      BY <1>2, <1>3, <1>4, <1>5
    <3>2. mem[p + i - 1] = T[p + i]
      BY <1>8, <3>1
    <3> QED
      BY <1>4, <1>10, <3>2
  <2>3. mem[p + Len(v)] = Other
    <3>1. p + Len(v) \in p .. Len(T) - 1
      BY <1>2, <1>3, <1>4, <1>5, SMTT(40)
    <3> QED
      BY <1>4, <1>8, <3>1
  <2>4. Decoded(p) = [i \in 1 .. Len(v) |-> Raw(v[i])]
    BY <1>2, <1>3, <2>1, <2>2, <2>3, DecodedIs
  <2> QED
    BY <1>10, <2>4 DEF p, v
<1> QED
  BY <1>9, <1>10


---------------------------------------------------------------------------------
(* The steps *)

(* Most steps keep the file. *)
LEMMA SameFile ==
  ASSUME UNCHANGED fileVars
  PROVE  linux' = linux /\ turn' = turn /\ file' = file /\ Kind' = Kind
BY DEF fileVars, Kind, Tests

(* A text on the console. *)
LEMMA TextOnConsole ==
  ASSUME Connection, NEW what \in {"request", "text"}, PutText(what)
  PROVE  Connection'
<1>1. base' = "sut" /\ routed' = routed \cup {<<what, "console">>}
  BY DEF Connection, PutText, Restored
<1>2. \A r \in routed :
        r[2] = IF r[1] \in {"command", "message", "end"} THEN "sut" ELSE "console"
  BY DEF Connection, BytesGoToTheirLine
<1>3. \A r \in routed' :
        r[2] = IF r[1] \in {"command", "message", "end"} THEN "sut" ELSE "console"
  BY <1>1, <1>2
<1> QED
  BY <1>1, <1>3 DEF Connection, BytesGoToTheirLine

LEMMA NothingSent ==
  ASSUME Connection, UNCHANGED <<base, routed>>
  PROVE  Connection'
BY DEF Connection, BytesGoToTheirLine

LEMMA InitInv ==
  ASSUME Init
  PROVE  Inv
<1>1. ArenaSize \in Nat /\ SeedLen \in Nat
  BY SizeAssumption
<1>2. TypeOK
  <2>1. NoTests \in [tests : Nat, good : Nat, early : BOOLEAN]
    BY DEF NoTests
  <2>2. DOMAIN mem = Memory
    BY DEF Init
  <2>3. {used, mark, testMark, content} \subseteq 0 .. ArenaSize /\ cursor \in Memory
    BY <1>1 DEF Init, Memory
  <2>4. /\ inputs \in Seq([at : Memory, size : Nat]) /\ expected \in Seq(Memory)
        /\ result \in Seq(Memory)
        /\ tallies \in Seq([tests : Nat, good : Nat, early : BOOLEAN])
    BY DEF Init
  <2> QED
    BY <2>1, <2>2, <2>3, <2>4 DEF Init, TypeOK
<1>3. IsMemory(mem)
  BY DEF Init, IsMemory
<1>4. Connection
  BY DEF Init, Connection, BytesGoToTheirLine
<1> QED
  BY <1>2, <1>3, <1>4 DEF Init, Inv, InFile, Testing

LEMMA PushFileInv ==
  ASSUME Inv, PushFile
  PROVE  Inv'
<1>1. PICK records \in Files(Kind) :
        LET text == Text(Kind, records) IN
        /\ file' = records
        /\ mem' = Terminated(Write(mem, 0, text), used + Len(text))
        /\ used' = used + Aligned(Len(text) + 1)
  BY DEF PushFile
<1> DEFINE T == Text(Kind, records)
<1>2. Kind \in Kinds
  BY DEF Inv, TypeOK, Kind, Tests, Kinds
<1>3. T \in Seq(TextCell) /\ Len(T) \in Nat /\ Header <= Len(T)
  BY <1>2, TextIs
<1>4. used = 0 /\ step' = "find" /\ field' = 1 /\ linux' = linux /\ turn' = turn
  BY DEF PushFile, Inv
<1>5. Kind' = Kind
  BY <1>4 DEF Kind, Tests
<1>6. ArenaSize \in Nat /\ SeedLen \in Nat /\ Header \in Nat
  BY SizeAssumption
<1>7. Len(T) + 1 \in Nat
  BY <1>3
<1>8. Aligned(Len(T) + 1) \in Nat /\ Len(T) + 1 <= Aligned(Len(T) + 1)
  BY <1>7, AlignedIs
<1>9. Aligned(Len(T) + 1) <= ArenaSize
  BY <1>2, ArenaAssumption
<1>10. used' = Aligned(Len(T) + 1) /\ mem' = Write(Write(mem, 0, T), Len(T), <<End>>)
  BY <1>1, <1>3, <1>4, <1>8 DEF Terminated
<1>11. file' \in Files(Kind')
  BY <1>1, <1>5
<1>12. mark' = 0 /\ content' = 0 /\ cursor' = 0 /\ tally' = NoTests /\ asked' = <<>> /\ answered' = <<>>
  BY <1>4 DEF PushFile
<1>13. UNCHANGED <<testMark, len, inputs, expected, result, tallies>>
  BY DEF PushFile
<1>14. IsMemory(mem') /\ DOMAIN mem' = Memory
  BY <1>10, WriteIs
<1>15. TypeOK'
  <2>1. {used', mark', testMark', content'} \subseteq 0 .. ArenaSize
    BY <1>6, <1>8, <1>9, <1>10, <1>12, <1>13 DEF Inv, TypeOK
  <2>2. cursor' \in Memory
    BY <1>6, <1>12 DEF Memory
  <2>3. tally' \in [tests : Nat, good : Nat, early : BOOLEAN]
    BY <1>12 DEF NoTests
  <2>4. base' \in {"console", "sut"}
    BY DEF Inv, TypeOK, PushFile, PutText, Restored
  <2> QED
    BY <1>4, <1>13, <1>14, <2>1, <2>2, <2>3, <2>4 DEF Inv, TypeOK
<1>16. Connection'
  BY TextOnConsole DEF Inv, PushFile
<1>17. TextHeld'
  <2>1. Len(T) \in Memory
    BY <1>3, <1>6, <1>8, <1>9 DEF Memory
  <2>2. mem'[Len(T)] = End
    <3>1. mem'[Len(T)] = <<End>>[Len(T) - Len(T) + 1]
      <4>1. Len(T) \in Len(T) .. Len(T) + Len(<<End>>) - 1
        BY <1>3
      <4> QED
        BY <1>10, <2>1, <4>1, WriteIs
    <3>2. Len(T) - Len(T) + 1 = 1
      BY <1>3
    <3> QED
      BY <3>1, <3>2
  <2>3. ASSUME NEW a \in 0 .. Len(T) - 1
        PROVE  mem'[a] = T[a + 1]
    <3>1. a \in Memory /\ a \notin Len(T) .. Len(T) + Len(<<End>>) - 1
      BY <1>3, <1>6, <1>8, <1>9 DEF Memory
    <3>2. mem'[a] = Write(mem, 0, T)[a]
      BY <1>10, <3>1, WriteIs
    <3>3. a \in 0 .. 0 + Len(T) - 1 /\ a - 0 + 1 = a + 1
      BY <1>3
    <3>4. Write(mem, 0, T)[a] = T[a - 0 + 1]
      BY <3>1, <3>3, WriteIs
    <3> QED
      BY <3>2, <3>3, <3>4
  <2> QED
    BY <1>1, <1>5, <2>2, <2>3 DEF TextHeld
<1>18. Counted'
  <2>1. tally'.tests = 0 /\ tally'.good = 0 /\ tally'.early = FALSE
    BY <1>12 DEF NoTests
  <2>2. 0 <= Len(file')
    BY <1>1, <1>2, FilesAre
  <2>3. Passed(Kind', file', answered', 0) = {}
    BY DEF Passed
  <2>4. Cardinality(Passed(Kind', file', answered', 0)) = 0
    BY <2>3, FS_EmptySet
  <2>5. ~Enough(Kind', 0)
    BY DEF Enough
  <2> QED
    BY <2>1, <2>2, <2>4, <2>5 DEF Counted
<1>19. Recorded'
  BY <1>4, <1>12 DEF Recorded, NoTests
<1>20. BetweenRecords'
  BY <1>1, <1>5, <1>10, <1>12 DEF BetweenRecords, NoTests, Behind
<1>21. WithinRecord' /\ RecordRead' /\ Received' /\ Reported'
  BY <1>4 DEF WithinRecord, RecordRead, Received, Reported
<1>22. InFile'
  BY <1>11, <1>12, <1>17, <1>18, <1>19, <1>20, <1>21 DEF InFile
<1> QED
  BY <1>4, <1>14, <1>15, <1>16, <1>22 DEF Inv

LEMMA NotFoundInv ==
  ASSUME Inv, NotFound
  PROVE  Inv'
<1>1. step = "find" /\ Testing /\ step' = "report"
  BY DEF NotFound, Testing
<1>2. linux' = linux /\ turn' = turn /\ file' = file /\ Kind' = Kind
  BY SameFile DEF NotFound
<1>3. UNCHANGED <<arenaVars, parserVars, result, tallies, historyVars, base, routed>>
  BY DEF NotFound
<1>4. ~(Now <= Len(file) /\ field <= Len(Record))
  <2>1. NULL \notin Nat
    BY DEF NULL
  <2> QED
    BY <1>1, <2>1, FieldFound DEF NotFound
<1>5. /\ tally \in [tests : Nat, good : Nat, early : BOOLEAN] /\ field \in 1 .. 6
      /\ tally' = [tally EXCEPT !.early = field > 1]
  BY DEF Inv, TypeOK, NotFound
<1>6. tally' \in [tests : Nat, good : Nat, early : BOOLEAN]
  <2>1. (field > 1) = TRUE \/ (field > 1) = FALSE
    OBVIOUS
  <2>2. tally' = [tally EXCEPT !.early = TRUE] \/ tally' = [tally EXCEPT !.early = FALSE]
    BY <1>5, <2>1
  <2> QED
    BY <1>5, <2>2
<1>7. tally'.tests = tally.tests /\ tally'.good = tally.good /\ (tally'.early <=> field > 1)
  BY <1>5
<1>8. TypeOK'
  BY <1>1, <1>2, <1>3, <1>6 DEF Inv, TypeOK, arenaVars, parserVars
<1>9. IsMemory(mem)' /\ Connection'
  BY <1>3, NothingSent DEF Inv, arenaVars
<1>10. file' \in Files(Kind') /\ content' = 0 /\ mark' = 0
  BY <1>1, <1>2, <1>3 DEF Inv, InFile, arenaVars, parserVars
<1>11. TextHeld'
  BY <1>1, <1>2, <1>3 DEF Inv, InFile, TextHeld, arenaVars, historyVars
<1>12. Counted'
  BY <1>1, <1>2, <1>3, <1>7 DEF Inv, InFile, Counted, historyVars
<1>13. Recorded'
  BY <1>1, <1>2, <1>3, <1>7 DEF Inv, InFile, Recorded, historyVars, Now
<1>14. BetweenRecords' /\ WithinRecord' /\ RecordRead' /\ Received'
  BY <1>1 DEF BetweenRecords, WithinRecord, RecordRead, Received
<1>15. Reported'
  <2>1. cursor' >= Header \/ answered' = <<>>
    BY <1>1, <1>3, CursorIs DEF parserVars, historyVars
  <2>2. ~Enough(Kind, tally.tests)
    BY <1>1 DEF Inv, InFile, Counted
  <2>3. /\ tally.tests \in Nat /\ Now = tally.tests + 1 /\ tally.tests <= Len(file)
        /\ Len(file) \in Nat /\ LastField \in Nat
    BY <1>1, FileInUse
  <2>4. CASE field > 1
    <3>1. Reads(field - 1) /\ field <= LastField
      BY <1>1, <2>4 DEF Inv, InFile, WithinRecord
    <3>2. field - 1 \in Nat /\ field - 1 >= 1
      BY <1>5, <2>4
    <3>3. Now \in 1 .. Len(file)
      BY <1>1, <3>1, <3>2, ReadsAre
    <3>4. Len(file[Now]) # LastField
      BY <1>4, <1>5, <2>3, <3>1, <3>3, <1>1, RecordsAre DEF Record
    <3>5. ~IsComplete(Kind, file[Now]) /\ ~(Now < Len(file))
      BY <1>1, <3>3, <3>4, RecordsAre
    <3>6. Now = Len(file)
      BY <2>3, <3>3, <3>5
    <3> QED
      BY <1>2, <1>7, <2>1, <2>2, <2>4, <3>5, <3>6 DEF Reported, Now
  <2>5. CASE ~(field > 1)
    <3>1. field = 1
      BY <1>5, <2>5
    <3>2. ~(Now <= Len(file))
      <4>1. Now \in 1 .. Len(file) => Len(Record) >= 1
        BY <1>1, RecordsAre DEF Record
      <4> QED
        BY <1>4, <2>3, <3>1, <4>1
    <3>3. tally.tests = Len(file)
      BY <2>3, <3>2
    <3> QED
      BY <1>2, <1>7, <2>1, <2>5, <3>3 DEF Reported
  <2> QED
    BY <2>4, <2>5
<1>16. InFile'
  BY <1>10, <1>11, <1>12, <1>13, <1>14, <1>15 DEF InFile
<1> QED
  BY <1>1, <1>8, <1>9, <1>16 DEF Inv

LEMMA ReportInv ==
  ASSUME Inv, Report
  PROVE  Inv'
<1>1. step = "report" /\ Testing /\ step' \in {"finish", "file"}
  BY DEF Report, Testing
<1>2. mark = 0
  BY <1>1 DEF Inv, InFile
<1>3. used' = 0
  BY <1>2 DEF Report, Released
<1>4. turn' \in 1 .. 3
  BY DEF Report, Inv, TypeOK
<1>5. tallies' \in Seq([tests : Nat, good : Nat, early : BOOLEAN])
  BY DEF Report, Inv, TypeOK
<1>6. UNCHANGED <<linux, file, mem, mark, testMark, parserVars, result, tally, historyVars>>
  BY DEF Report
<1>7. {used', mark', testMark', content'} \subseteq 0 .. ArenaSize
  BY <1>3, <1>6, SizeAssumption DEF Inv, TypeOK, parserVars
<1>8. Connection'
  BY TextOnConsole DEF Report, Inv
<1>9. base' \in {"console", "sut"}
  BY <1>8 DEF Connection
<1>10. TypeOK'
  BY <1>1, <1>4, <1>5, <1>6, <1>7, <1>9 DEF Inv, TypeOK, parserVars
<1>11. IsMemory(mem)' /\ InFile'
  BY <1>1, <1>6 DEF Inv, InFile, Testing
<1> QED
  BY <1>3, <1>8, <1>10, <1>11 DEF Inv

LEMMA FinishInv ==
  ASSUME Inv, Finish
  PROVE  Inv'
<1>1. step' = "end" /\ routed' = routed \cup {<<"end", base>>}
  BY DEF Finish
<1>2. UNCHANGED <<fileVars, arenaVars, parserVars, result, tally, tallies, historyVars, base>>
  BY DEF Finish
<1>3. TypeOK'
  BY <1>1, <1>2 DEF Inv, TypeOK, fileVars, arenaVars, parserVars
<1>4. Connection'
  <2>1. base = "sut" /\ \A r \in routed :
          r[2] = IF r[1] \in {"command", "message", "end"} THEN "sut" ELSE "console"
    BY DEF Inv, Connection, BytesGoToTheirLine
  <2>2. \A r \in routed' :
          r[2] = IF r[1] \in {"command", "message", "end"} THEN "sut" ELSE "console"
    BY <1>1, <2>1
  <2> QED
    BY <1>2, <2>1, <2>2 DEF Connection, BytesGoToTheirLine
<1>5. IsMemory(mem)' /\ InFile'
  BY <1>1, <1>2 DEF Inv, InFile, Testing, arenaVars
<1> QED
  BY <1>1, <1>3, <1>4, <1>5 DEF Inv


(* How the sizes that are sent and compared relate to those of a record. *)
LEMMA SizesOfFields ==
  ASSUME NEW kind \in Kinds, NEW x \in Nat
  PROVE  /\ Len(Compared(kind)) \in Nat
         /\ Len(Fields(kind)) = Len(Compared(kind)) + 1 + InputCount(kind)
         /\ \A k \in 1 .. Len(Compared(kind)) :
              /\ Compared(kind)[k] \in Nat
              /\ Compared(kind)[k] <= ValueLen(kind, x)[InputCount(kind) + 1 + k]
<1>1. {HashLen, BlockLen, PublicLen, SecretLen, PartLen} \subseteq Nat
  BY SizeAssumption
<1>2. \A m \in Nat : m \div 2 \in Nat /\ m \div 2 <= m
  OBVIOUS
<1>3. CASE kind = "SHA"
  BY <1>1, <1>3 DEF Compared, Fields, InputCount, ValueLen
<1>4. CASE kind = "AES"
  BY <1>1, <1>2, <1>4 DEF Compared, Fields, InputCount, ValueLen
<1>5. CASE kind = "MCE"
  BY <1>1, <1>2, <1>5 DEF Compared, Fields, InputCount, ValueLen
<1>6. CASE kind = "SHORT"
  <2>1. /\ Len(Compared(kind)) = 4 /\ Len(Fields(kind)) = 6 /\ InputCount(kind) = 1
        /\ \A k \in 1 .. 4 : Compared(kind)[k] = PartLen
    BY <1>6 DEF Compared, Parts, Fields, InputCount
  <2>2. \A k \in 1 .. 4 : ValueLen(kind, x)[1 + 1 + k] = PartLen
    BY <1>6 DEF ValueLen
  <2> QED
    BY <1>1, <2>1, <2>2
<1> QED
  BY <1>3, <1>4, <1>5, <1>6 DEF Kinds

(* A function with the items of a sequence. *)
LEMMA SameItems ==
  ASSUME NEW S, NEW s \in Seq(S), NEW f, f = [k \in 1 .. Len(s) |-> f[k]],
         \A k \in 1 .. Len(s) : f[k] = s[k]
  PROVE  f = s
<1>1. s = [k \in 1 .. Len(s) |-> s[k]]
  OBVIOUS
<1> QED
  BY <1>1

(* A test sends the messages of its record. *)
LEMMA SentIs ==
  ASSUME Inv, step = "send"
  PROVE  /\ [k \in 1 .. Len(inputs) |->
               [i \in 1 .. SizesSent[k] |-> mem[inputs[k].at + i - 1][2]]]
              = InputsOf(Kind, file[Now])
         /\ InputsOf(Kind, file[Now]) \in Seq(Seq(Nat))
         /\ Now \in 1 .. Len(file)
<1> DEFINE IC == InputCount(Kind)
           rec == file[Now]
           sent == [k \in 1 .. Len(inputs) |->
                      [i \in 1 .. SizesSent[k] |-> mem[inputs[k].at + i - 1][2]]]
<1>1. Testing
  BY DEF Testing
<1>2. Reads(LastField) /\ Decodes(LastField)
  BY DEF Inv, InFile, Testing, RecordRead
<1>3. /\ Kind \in Kinds /\ LastField \in Nat /\ LastField >= IC + 2 /\ LastField >= 1
      /\ IC \in Nat /\ IC >= 1
  <2>1. IC \in {1, 2}
    BY DEF InputCount
  <2> QED
    BY <1>1, <2>1, FileInUse
<1>4. Now \in 1 .. Len(file) /\ LastField \in 1 .. Len(rec)
  BY <1>1, <1>2, <1>3, ReadsAre
<1>5. InputsFound(LastField) = IC
  BY <1>3 DEF InputsFound
<1>6. /\ len = rec[1][1]
      /\ inputs = [k \in 1 .. IC |-> [at |-> InputAt(k), size |-> Len(rec[k + 1])]]
      /\ \A k \in 1 .. IC : \A i \in 1 .. Len(rec[k + 1]) :
           mem[InputAt(k) + i - 1] = Raw(rec[k + 1][i])
  BY <1>2, <1>5 DEF Decodes, Record
<1>7. \A j \in 1 .. Len(rec) : /\ rec[j] \in Seq(Nat) /\ Len(rec[j]) \in Nat
                               /\ Len(rec[j]) = ValueLen(Kind, rec[1][1])[j]
  BY <1>1, <1>4, RecordsAre
<1>8. Len(rec[1]) = 1 /\ rec[1][1] \in Nat
  BY <1>1, <1>4, RecordsAre
<1>9. \A k \in 1 .. IC : k + 1 \in 1 .. Len(rec)
  BY <1>3, <1>4
<1>10. Len(inputs) = IC
  BY <1>3, <1>6
<1> HIDE DEF IC, rec
<1>a. sent = [k \in 1 .. IC |-> sent[k]]
  BY <1>10
<1>b. \A k \in 1 .. IC : sent[k] = [i \in 1 .. SizesSent[k] |-> mem[inputs[k].at + i - 1][2]]
  BY <1>10
<1> HIDE DEF sent
<1>c. ASSUME InputsOf(Kind, rec) \in Seq(Seq(Nat)), Len(InputsOf(Kind, rec)) = IC,
             \A k \in 1 .. IC : sent[k] = InputsOf(Kind, rec)[k]
      PROVE  sent = InputsOf(Kind, rec)
  BY <1>a, <1>c, SameItems
<1> SUFFICES /\ InputsOf(Kind, rec) \in Seq(Seq(Nat)) /\ Len(InputsOf(Kind, rec)) = IC
             /\ \A k \in 1 .. IC : sent[k] = InputsOf(Kind, rec)[k]
  BY <1>4, <1>c DEF rec, sent
<1>11. ASSUME NEW k \in 1 .. IC
       PROVE  /\ [i \in 1 .. Len(rec[k + 1]) |-> mem[inputs[k].at + i - 1][2]] = rec[k + 1]
              /\ inputs[k].size = Len(rec[k + 1])
  <2>1. inputs[k].at = InputAt(k) /\ inputs[k].size = Len(rec[k + 1])
    BY <1>6
  <2>2. rec[k + 1] \in Seq(Nat)
    BY <1>7, <1>9
  <2>3. ASSUME NEW i \in 1 .. Len(rec[k + 1])
        PROVE  mem[inputs[k].at + i - 1][2] = rec[k + 1][i]
    BY <1>6, <2>1 DEF Raw
  <2>4. rec[k + 1] = [i \in 1 .. Len(rec[k + 1]) |-> rec[k + 1][i]]
    BY <2>2
  <2> QED
    BY <2>1, <2>3, <2>4
<1>12. CASE Kind = "SHA"
  <2>1. IC = 1
    BY <1>12 DEF IC, InputCount
  <2>2. 1 \in 1 .. IC /\ 1 + 1 = 2
    BY <2>1
  <2>3. [i \in 1 .. Len(rec[2]) |-> mem[inputs[1].at + i - 1][2]] = rec[2]
        /\ inputs[1].size = Len(rec[2])
    BY <1>11, <2>2
  <2>4. rec[2] \in Seq(Nat)
    BY <1>7, <1>9, <2>2
  <2>5. rec[1] = <<0>> <=> len = 0
    <3>1. 1 \in 1 .. Len(rec)
      BY <1>3, <1>4
    <3>2. rec[1] \in Seq(Nat)
      BY <1>7, <3>1
    <3> QED
      BY <1>6, <1>8, <3>2
  <2>6. SizesSent = <<IF len = 0 THEN 0 ELSE Len(rec[2])>>
    BY <1>12, <2>3 DEF SizesSent
  <2>7. CASE len = 0
    <3>1. InputsOf(Kind, rec) = << <<>> >>
      BY <1>12, <2>5, <2>7 DEF InputsOf
    <3>2. sent[1] = [i \in 1 .. 0 |-> mem[inputs[1].at + i - 1][2]]
      BY <1>b, <2>2, <2>6, <2>7
    <3>3. sent[1] = <<>>
      BY <3>2
    <3> QED
      BY <2>1, <3>1, <3>3
  <2>8. CASE len # 0
    <3>1. InputsOf(Kind, rec) = <<rec[2]>>
      BY <1>12, <2>5, <2>8 DEF InputsOf
    <3>2. sent[1] = [i \in 1 .. Len(rec[2]) |-> mem[inputs[1].at + i - 1][2]]
      BY <1>b, <2>2, <2>6, <2>8
    <3>3. sent[1] = rec[2]
      BY <2>3, <3>2
    <3> QED
      BY <2>1, <2>4, <3>1, <3>3
  <2> QED
    BY <2>7, <2>8
<1>13. CASE Kind = "AES"
  <2>1. IC = 2
    BY <1>13 DEF IC, InputCount
  <2>2. 1 \in 1 .. IC /\ 1 + 1 = 2 /\ 2 \in 1 .. IC /\ 2 + 1 = 3
    BY <2>1
  <2>3. /\ [i \in 1 .. Len(rec[2]) |-> mem[inputs[1].at + i - 1][2]] = rec[2]
        /\ [i \in 1 .. Len(rec[3]) |-> mem[inputs[2].at + i - 1][2]] = rec[3]
    BY <1>11, <2>2
  <2>4. rec[2] \in Seq(Nat) /\ rec[3] \in Seq(Nat)
    BY <1>7, <1>9, <2>2
  <2>5. Len(rec[2]) = KeyLen /\ Len(rec[3]) = BlockLen
    <3>1. Len(rec[2]) = ValueLen(Kind, rec[1][1])[2] /\ Len(rec[3]) = ValueLen(Kind, rec[1][1])[3]
      BY <1>7, <1>9, <2>2
    <3> QED
      BY <1>13, <3>1 DEF ValueLen
  <2>6. SizesSent = <<Len(rec[2]), Len(rec[3])>>
    BY <1>13, <2>5 DEF SizesSent
  <2>7. InputsOf(Kind, rec) = <<rec[2], rec[3]>>
    BY <1>13 DEF InputsOf
  <2>8. /\ sent[1] = [i \in 1 .. Len(rec[2]) |-> mem[inputs[1].at + i - 1][2]]
        /\ sent[2] = [i \in 1 .. Len(rec[3]) |-> mem[inputs[2].at + i - 1][2]]
    BY <1>b, <2>2, <2>6
  <2>9. sent[1] = rec[2] /\ sent[2] = rec[3]
    BY <2>3, <2>8
  <2> QED
    BY <2>1, <2>4, <2>7, <2>9
<1>14. CASE Kind \in {"MCE", "SHORT"}
  <2>1. IC = 1
    BY <1>14 DEF IC, InputCount
  <2>2. 1 \in 1 .. IC /\ 1 + 1 = 2
    BY <2>1
  <2>3. [i \in 1 .. Len(rec[2]) |-> mem[inputs[1].at + i - 1][2]] = rec[2]
    BY <1>11, <2>2
  <2>4. rec[2] \in Seq(Nat)
    BY <1>7, <1>9, <2>2
  <2>5. Len(rec[2]) = SeedLen
    <3>1. Len(rec[2]) = ValueLen(Kind, rec[1][1])[2]
      BY <1>7, <1>9, <2>2
    <3> QED
      BY <1>14, <3>1 DEF ValueLen
  <2>6. SizesSent = <<Len(rec[2])>>
    BY <1>14, <2>5 DEF SizesSent
  <2>7. InputsOf(Kind, rec) = <<rec[2]>>
    BY <1>14 DEF InputsOf
  <2>8. sent[1] = [i \in 1 .. Len(rec[2]) |-> mem[inputs[1].at + i - 1][2]]
    BY <1>b, <2>2, <2>6
  <2>9. sent[1] = rec[2]
    BY <2>3, <2>8
  <2> QED
    BY <2>1, <2>4, <2>7, <2>9
<1> QED
  BY <1>3, <1>12, <1>13, <1>14 DEF Kinds

(* The comparison with the text is one with the record. *)
LEMMA GoodIs ==
  ASSUME Inv, step = "judge"
  PROVE  (\A k \in 1 .. Len(expected) : \A i \in 0 .. Compared(Kind)[k] - 1 :
            mem[result[k] + i] = mem[expected[k] + i])
         <=> Passes(Kind, file[Now], answered[Now])
<1> DEFINE IC == InputCount(Kind)
           N == Len(Compared(Kind))
           rec == file[Now]
           answer == answered[Now]
           T == Text(Kind, file)
<1>1. Testing
  BY DEF Testing
<1>2. Reads(LastField)
  BY DEF Inv, InFile, Testing, Received
<1>3. Kind \in Kinds /\ LastField \in Nat /\ LastField >= 3 /\ LastField >= 1 /\ Len(T) \in Nat
  BY <1>1, FileInUse
<1>4. IC \in Nat
  BY DEF InputCount
<1>5. Now \in 1 .. Len(file) /\ LastField \in 1 .. Len(rec)
  BY <1>1, <1>2, <1>3, ReadsAre
<1>6. /\ Len(rec) = LastField /\ rec[1][1] \in Nat
      /\ \A j \in 1 .. Len(rec) : Len(rec[j]) = ValueLen(Kind, rec[1][1])[j] /\ Len(rec[j]) \in Nat
  BY <1>1, <1>3, <1>5, RecordsAre
<1>7. /\ N \in Nat /\ LastField = N + 1 + IC
      /\ \A k \in 1 .. N : /\ Compared(Kind)[k] \in Nat
                           /\ Compared(Kind)[k] <= ValueLen(Kind, rec[1][1])[IC + 1 + k]
  BY <1>3, <1>6, SizesOfFields DEF LastField
<1>8. ExpectedFound(LastField) = N
  BY <1>4, <1>7 DEF ExpectedFound
<1>9. expected = [k \in 1 .. N |-> At(Now, IC + 1 + k)]
  BY <1>2, <1>8 DEF Reads
<1>10. \A k \in 1 .. N : \A i \in 0 .. Compared(Kind)[k] - 1 :
         mem[result[k] + i] = Hex(answer[k][i + 1])
  BY <1>1 DEF Inv, InFile, Received
<1>11. TextHeld
  BY <1>1 DEF Inv, InFile
<1>12. ASSUME NEW k \in 1 .. N
       PROVE  /\ IC + 1 + k \in 1 .. Len(rec)
              /\ SubSeq(rec, Len(rec) - N + 1, Len(rec))[k] = rec[IC + 1 + k]
  <2>1. IC + 1 + k \in 1 .. Len(rec) /\ Len(rec) - N + 1 + k - 1 = IC + 1 + k
    BY <1>4, <1>6, <1>7, SMTT(40)
  <2> HIDE DEF N, rec, IC
  <2>2. Len(rec) \in Nat /\ Len(rec) - N + 1 \in Nat /\ Len(rec) - N + 1 >= 1
        /\ Len(rec) - (Len(rec) - N + 1) + 1 = N
    BY <1>3, <1>4, <1>6, <1>7, SMTT(40)
  <2>3. SubSeq(rec, Len(rec) - N + 1, Len(rec))[k] = rec[Len(rec) - N + 1 + k - 1]
    BY <2>2
  <2> QED
    BY <2>1, <2>3
<1>13. ASSUME NEW k \in 1 .. N, NEW i \in 0 .. Compared(Kind)[k] - 1
       PROVE  mem[expected[k] + i] = Hex(rec[IC + 1 + k][i + 1])
  <2> DEFINE p == At(Now, IC + 1 + k)
             v == rec[IC + 1 + k]
  <2>1. expected[k] = p
    BY <1>9
  <2>2. IC + 1 + k \in 1 .. Len(rec) /\ IC + 1 + k # 1
    BY <1>4, <1>12
  <2>3. /\ p \in Nat /\ Header < p /\ p + Len(v) < Len(T) /\ Len(v) \in Nat
        /\ \A m \in 1 .. Len(v) : T[p + m] = IF IC + 1 + k = 1 THEN Number(v[m]) ELSE Hex(v[m])
    BY <1>1, <1>5, <1>6, <2>2, BehindLabel, SMTT(40)
  <2>4. Compared(Kind)[k] \in Nat /\ Compared(Kind)[k] <= Len(v)
    BY <1>6, <1>7, <2>2
  <2>5. Header \in Nat
    BY SizeAssumption
  <2> HIDE DEF p, v, T
  <2>6. /\ i + 1 \in 1 .. Len(v) /\ p + i \in 0 .. Len(T) - 1 /\ p + i >= Header
        /\ p + i + 1 = p + (i + 1)
    BY <1>3, <2>3, <2>4, <2>5
  <2>7. T[p + i + 1] = Hex(v[i + 1])
    BY <2>2, <2>3, <2>6
  <2>8. mem[p + i] = T[p + i + 1]
    BY <1>11, <2>6 DEF TextHeld, T
  <2> QED
    BY <2>1, <2>7, <2>8 DEF v
<1>14. Len(expected) = N
  BY <1>7, <1>9
<1> HIDE DEF IC, N, rec, answer
<1>15. ASSUME NEW k \in 1 .. N
       PROVE  (\A i \in 0 .. Compared(Kind)[k] - 1 : mem[result[k] + i] = mem[expected[k] + i])
              <=> \A i \in 1 .. Compared(Kind)[k] :
                    answer[k][i] = SubSeq(rec, Len(rec) - N + 1, Len(rec))[k][i]
  <2> DEFINE c == Compared(Kind)[k]
             v == rec[IC + 1 + k]
  <2>1. c \in Nat
    BY <1>7
  <2>2. \A i \in 0 .. c - 1 : mem[result[k] + i] = mem[expected[k] + i]
                              <=> answer[k][i + 1] = v[i + 1]
    <3> SUFFICES ASSUME NEW i \in 0 .. c - 1
                 PROVE  mem[result[k] + i] = mem[expected[k] + i]
                        <=> answer[k][i + 1] = v[i + 1]
      OBVIOUS
    <3>1. mem[result[k] + i] = Hex(answer[k][i + 1])
      BY <1>10
    <3>2. mem[expected[k] + i] = Hex(v[i + 1])
      BY <1>13
    <3> QED
      BY <3>1, <3>2 DEF Hex
  <2>3. SubSeq(rec, Len(rec) - N + 1, Len(rec))[k] = v
    BY <1>12
  <2> HIDE DEF c, v
  <2>4. \A i \in 1 .. c : i - 1 \in 0 .. c - 1 /\ (i - 1) + 1 = i
    BY <2>1
  <2>5. \A i \in 0 .. c - 1 : i + 1 \in 1 .. c
    BY <2>1
  <2>6. (\A i \in 0 .. c - 1 : answer[k][i + 1] = v[i + 1])
        <=> (\A i \in 1 .. c : answer[k][i] = v[i])
    BY <2>4, <2>5
  <2>7. (\A i \in 0 .. c - 1 : mem[result[k] + i] = mem[expected[k] + i])
        <=> (\A i \in 1 .. c : answer[k][i] = v[i])
    BY <2>2, <2>6
  <2> QED
    BY <2>3, <2>7 DEF c
<1>16. Passes(Kind, rec, answer) <=>
         \A k \in 1 .. N : \A i \in 1 .. Compared(Kind)[k] :
           answer[k][i] = SubSeq(rec, Len(rec) - N + 1, Len(rec))[k][i]
  BY DEF Passes, N
<1>17. (\A k \in 1 .. Len(expected) : \A i \in 0 .. Compared(Kind)[k] - 1 :
          mem[result[k] + i] = mem[expected[k] + i])
       <=> Passes(Kind, rec, answer)
  BY <1>14, <1>15, <1>16
<1> QED
  BY <1>17 DEF rec, answer


(* What was read stays read. *)
LEMMA SameReads ==
  ASSUME Reads(LastField), UNCHANGED <<fileVars, parserVars, testMark, tally>>
  PROVE  Reads(LastField)'
<1>1. file' = file /\ Kind' = Kind
  BY SameFile
<1>2. cursor' = cursor /\ expected' = expected /\ testMark' = testMark /\ tally' = tally
  BY DEF parserVars
<1>3. LastField' = LastField /\ Behind' = Behind /\ Now' = Now /\ Record' = Record
  BY <1>1, <1>2 DEF LastField, Behind, Now, Record
<1>4. At(Now, LastField)' = At(Now, LastField)
  BY <1>1, <1>2, <1>3 DEF At
<1>5. [k \in 1 .. ExpectedFound(LastField) |-> At(Now, InputCount(Kind) + 1 + k)]'
        = [k \in 1 .. ExpectedFound(LastField) |-> At(Now, InputCount(Kind) + 1 + k)]
  BY <1>1, <1>2, <1>3 DEF At, ExpectedFound
<1> QED
  BY <1>1, <1>2, <1>3, <1>4, <1>5 DEF Reads

LEMMA SameDecodes ==
  ASSUME Decodes(LastField), UNCHANGED <<fileVars, parserVars, mem, used, tally>>
  PROVE  Decodes(LastField)'
<1>1. file' = file /\ Kind' = Kind
  BY SameFile
<1>2. len' = len /\ inputs' = inputs /\ mem' = mem /\ used' = used /\ tally' = tally
  BY DEF parserVars
<1>3. LastField' = LastField /\ Behind' = Behind /\ Record' = Record
  BY <1>1, <1>2 DEF LastField, Behind, Now, Record
<1>4. InputsFound(LastField)' = InputsFound(LastField) /\ Held(LastField)' = Held(LastField)
  BY <1>1, <1>3 DEF InputsFound, Held
<1>5. \A k : InputAt(k)' = InputAt(k)
  BY <1>1, <1>3 DEF InputAt
<1> QED
  BY <1>2, <1>3, <1>4, <1>5 DEF Decodes

LEMMA SendInv ==
  ASSUME Inv, Send
  PROVE  Inv'
<1>1. step = "send" /\ Testing /\ step' = "receive" /\ Testing'
  BY DEF Send, Testing
<1>2. linux' = linux /\ turn' = turn /\ file' = file /\ Kind' = Kind
  BY SameFile DEF Send
<1>3. UNCHANGED <<fileVars, arenaVars, parserVars, result, tally, tallies, answered, base>>
  BY DEF Send
<1>4. asked' = Append(asked, InputsOf(Kind, file[Now]))
      /\ InputsOf(Kind, file[Now]) \in Seq(Seq(Nat)) /\ Now \in 1 .. Len(file)
  BY <1>1, SentIs DEF Send
<1>5. TypeOK'
  BY <1>1, <1>2, <1>3 DEF Inv, TypeOK, arenaVars, parserVars
<1>6. IsMemory(mem)'
  BY <1>3 DEF Inv, arenaVars
<1>7. Connection'
  <2>1. base = "sut" /\ \A r \in routed :
          r[2] = IF r[1] \in {"command", "message", "end"} THEN "sut" ELSE "console"
    BY DEF Inv, Connection, BytesGoToTheirLine
  <2>2. routed' = routed \cup {<<"command", "sut">>, <<"message", "sut">>}
    BY <2>1 DEF Send, PutCommand
  <2>3. \A r \in routed' :
          r[2] = IF r[1] \in {"command", "message", "end"} THEN "sut" ELSE "console"
    BY <2>1, <2>2
  <2> QED
    BY <1>3, <2>1, <2>3 DEF Connection, BytesGoToTheirLine
<1>8. file' \in Files(Kind') /\ content' = 0 /\ mark' = 0
  BY <1>1, <1>2, <1>3 DEF Inv, InFile, arenaVars, parserVars
<1>9. TextHeld'
  BY <1>1, <1>2, <1>3 DEF Inv, InFile, TextHeld, arenaVars
<1>10. Counted'
  BY <1>1, <1>2, <1>3 DEF Inv, InFile, Counted
<1>11. Recorded'
  <2>1. /\ asked \in Seq(Seq(Seq(Nat))) /\ answered \in Seq(Seq(Seq(Nat)))
        /\ Len(asked) = tally.tests /\ Len(answered) = tally.tests
        /\ \A n \in 1 .. Len(asked) : asked[n] = InputsOf(Kind, file[n])
    BY <1>1 DEF Inv, InFile, Recorded
  <2>2. Now = tally.tests + 1 /\ tally.tests \in Nat
    BY <1>1, FileInUse
  <2>3. asked' \in Seq(Seq(Seq(Nat))) /\ Len(asked') = Now
    BY <1>4, <2>1, <2>2
  <2>4. \A n \in 1 .. Now : asked'[n] = InputsOf(Kind, file[n])
    <3> SUFFICES ASSUME NEW n \in 1 .. Now
                 PROVE  asked'[n] = InputsOf(Kind, file[n])
      OBVIOUS
    <3>1. CASE n = Now
      BY <1>4, <2>1, <2>2, <3>1
    <3>2. CASE n # Now
      <4>1. n \in 1 .. Len(asked)
        BY <2>1, <2>2, <3>2
      <4>2. asked'[n] = asked[n]
        BY <1>4, <2>1, <4>1
      <4> QED
        BY <2>1, <4>1, <4>2
    <3> QED
      BY <3>1, <3>2
  <2>5. Now' = Now
    BY <1>3 DEF Now
  <2> QED
    BY <1>1, <1>2, <1>3, <2>1, <2>3, <2>4, <2>5 DEF Recorded
<1>12. BetweenRecords' /\ WithinRecord' /\ Received' /\ Reported'
  BY <1>1 DEF BetweenRecords, WithinRecord, Received, Reported
<1>13. RecordRead'
  <2>1. field = 1 /\ Reads(LastField) /\ Decodes(LastField)
    BY <1>1 DEF Inv, InFile, RecordRead
  <2>2. Reads(LastField)' /\ Decodes(LastField)'
    BY <1>3, <2>1, SameReads, SameDecodes DEF arenaVars
  <2> QED
    BY <1>3, <2>1, <2>2 DEF RecordRead, parserVars
<1>14. InFile'
  BY <1>8, <1>9, <1>10, <1>11, <1>12, <1>13 DEF InFile
<1> QED
  BY <1>1, <1>5, <1>6, <1>7, <1>14 DEF Inv

(* One more test among those counted. *)
LEMMA OneMore ==
  ASSUME NEW kind, NEW records, NEW answers, NEW n \in Nat
  PROVE  Cardinality(Passed(kind, records, answers, n + 1))
           = Cardinality(Passed(kind, records, answers, n))
             + IF Passes(kind, records[n + 1], answers[n + 1]) THEN 1 ELSE 0
<1> DEFINE P == Passed(kind, records, answers, n)
           Q == Passed(kind, records, answers, n + 1)
<1>1. IsFiniteSet(P)
  <2>1. P \subseteq 1 .. n
    BY DEF Passed
  <2>2. IsFiniteSet(1 .. n)
    BY FS_Interval
  <2> QED
    BY <2>1, <2>2, FS_Subset
<1>2. n + 1 \notin P
  BY DEF Passed
<1>3. 1 .. n + 1 = (1 .. n) \cup {n + 1}
  OBVIOUS
<1>4. CASE Passes(kind, records[n + 1], answers[n + 1])
  <2>1. Q = P \cup {n + 1}
    BY <1>3, <1>4 DEF Passed
  <2>2. Cardinality(P \cup {n + 1}) = Cardinality(P) + 1
    BY <1>1, <1>2, FS_AddElement
  <2> QED
    BY <1>4, <2>1, <2>2
<1>5. CASE ~Passes(kind, records[n + 1], answers[n + 1])
  <2>1. Q = P
    BY <1>3, <1>5 DEF Passed
  <2>2. Cardinality(P) \in Nat
    BY <1>1, FS_CardinalityType
  <2> HIDE DEF P, Q
  <2>3. Cardinality(Q) = Cardinality(P) + 0
    BY <2>1, <2>2
  <2> QED
    BY <1>5, <2>3 DEF P, Q
<1> QED
  BY <1>4, <1>5

LEMMA JudgeInv ==
  ASSUME Inv, Judge
  PROVE  Inv'
<1> DEFINE good == \A k \in 1 .. Len(expected) : \A i \in 0 .. Compared(Kind)[k] - 1 :
                     mem[result[k] + i] = mem[expected[k] + i]
<1>1. step = "judge" /\ Testing /\ field = 1
  BY DEF Judge, Testing, Inv, InFile, Received
<1>2. linux' = linux /\ turn' = turn /\ file' = file /\ Kind' = Kind
  BY SameFile DEF Judge
<1>3. UNCHANGED <<fileVars, mem, mark, testMark, parserVars, result, tallies, historyVars>>
  BY DEF Judge
<1>4. /\ tally.tests \in Nat /\ Now = tally.tests + 1 /\ tally.tests <= Len(file)
      /\ Len(file) \in Nat /\ LastField \in Nat /\ LastField >= 1 /\ Kind \in Kinds
  BY <1>1, FileInUse
<1>5. Reads(LastField)
  BY <1>1 DEF Inv, InFile, Received
<1>6. /\ Now \in 1 .. Len(file) /\ LastField \in 1 .. Len(file[Now]) /\ Len(file[Now]) \in Nat
      /\ cursor = At(Now, LastField) /\ Header < cursor /\ cursor \in Nat
  BY <1>1, <1>4, <1>5, ReadsAre
<1>7. IsComplete(Kind, file[Now])
  <2>1. Len(file[Now]) \in 1 .. LastField
    BY <1>1, <1>6, RecordsAre
  <2>2. Len(file[Now]) = LastField
    BY <1>4, <1>6, <2>1
  <2> QED
    BY <1>1, <1>6, <2>2, RecordsAre
<1>8. good <=> Passes(Kind, file[Now], answered[Now])
  BY <1>1, GoodIs
<1>9. /\ tally' = [tally EXCEPT !.tests = @ + 1, !.good = @ + (IF good THEN 1 ELSE 0)]
      /\ IF good THEN UNCHANGED <<base, routed>> ELSE PutText("text")
      /\ used' = testMark
      /\ step' = IF Enough(Kind, tally'.tests) THEN "report" ELSE "find"
  BY DEF Judge, Released
<1> HIDE DEF good
<1>10. tally \in [tests : Nat, good : Nat, early : BOOLEAN] /\ ~tally.early
  BY <1>1 DEF Inv, TypeOK, InFile, Counted
<1>11. /\ tally'.tests = Now /\ tally'.good = tally.good + (IF good THEN 1 ELSE 0)
       /\ ~tally'.early
  BY <1>4, <1>9, <1>10
<1>12. tally' \in [tests : Nat, good : Nat, early : BOOLEAN]
  <2> DEFINE t == [tally EXCEPT !.tests = @ + 1]
             g == IF good THEN 1 ELSE 0
  <2>1. t \in [tests : Nat, good : Nat, early : BOOLEAN]
    BY <1>10
  <2>2. g \in Nat
    OBVIOUS
  <2>3. tally' = [t EXCEPT !.good = @ + g]
    BY <1>9, <1>10
  <2> HIDE DEF t, g
  <2>4. t.good + g \in Nat
    BY <2>1, <2>2
  <2> QED
    BY <2>1, <2>3, <2>4
<1>13. used' = Behind /\ Behind \in Nat /\ Behind <= ArenaSize
  BY <1>1, <1>5, <1>9, FileInUse DEF Reads
<1>14. Connection'
  BY <1>9, TextOnConsole, NothingSent DEF Inv
<1>15. TypeOK'
  <2>1. base' \in {"console", "sut"}
    BY <1>14 DEF Connection
  <2>2. step' \in {"report", "find"}
    BY <1>9
  <2>3. {used', mark', testMark', content'} \subseteq 0 .. ArenaSize
    BY <1>3, <1>13, SizeAssumption DEF Inv, TypeOK, parserVars
  <2> QED
    BY <1>2, <1>3, <1>12, <2>1, <2>2, <2>3 DEF Inv, TypeOK, parserVars
<1>16. IsMemory(mem)' /\ step' # "file"
  BY <1>3, <1>9 DEF Inv
<1>17. file' \in Files(Kind') /\ content' = 0 /\ mark' = 0
  BY <1>1, <1>2, <1>3 DEF Inv, InFile, parserVars
<1>18. TextHeld'
  BY <1>1, <1>2, <1>3 DEF Inv, InFile, TextHeld, historyVars
<1>19. Counted'
  <2>1. /\ Kind = "MCE" => tally.tests <= 2
        /\ \A n \in 1 .. tally.tests : IsComplete(Kind, file[n])
        /\ tally.good = Cardinality(Passed(Kind, file, answered, tally.tests))
        /\ ~Enough(Kind, tally.tests)
    BY <1>1 DEF Inv, InFile, Counted
  <2>2. Kind = "MCE" => Now <= 2
    BY <1>4, <2>1 DEF Enough
  <2>3. \A n \in 1 .. Now : n \in 1 .. tally.tests \/ n = Now
    BY <1>4
  <2>4. \A n \in 1 .. Now : IsComplete(Kind, file[n])
    BY <1>7, <2>1, <2>3
  <2>5. tally'.good = Cardinality(Passed(Kind, file, answered, Now))
    BY <1>4, <1>8, <1>11, <2>1, OneMore, SMTT(40)
  <2>6. step' # "report" => ~Enough(Kind, tally'.tests)
    BY <1>9
  <2>7. Now <= Len(file)
    BY <1>6, <1>4
  <2> QED
    BY <1>2, <1>3, <1>11, <2>2, <2>4, <2>5, <2>6, <2>7 DEF Counted, historyVars
<1>20. Recorded'
  <2>1. step' \notin {"receive", "judge"}
    BY <1>9
  <2> QED
    BY <1>1, <1>2, <1>3, <1>11, <2>1 DEF Inv, InFile, Recorded, historyVars
<1>21. BetweenRecords'
  <2>1. LastField' = LastField /\ Behind' = Behind
    BY <1>2 DEF LastField, Behind
  <2>2. At(tally.tests, LastField)' = At(Now, LastField)
    BY <1>2, <1>11, <2>1 DEF At
  <2>3. tally'.tests # 0
    BY <1>4, <1>11
  <2>4. cursor' = cursor
    BY <1>3 DEF parserVars
  <2> QED
    BY <1>6, <1>13, <2>1, <2>2, <2>3, <2>4 DEF BetweenRecords
<1>22. WithinRecord' /\ RecordRead' /\ Received'
  BY <1>1, <1>3, <1>9 DEF WithinRecord, RecordRead, Received, parserVars
<1>23. Reported'
  <2>1. step' = "report" => Enough(Kind', tally'.tests)
    BY <1>2, <1>9
  <2>2. cursor' >= Header
    BY <1>3, <1>6, SizeAssumption DEF parserVars
  <2> QED
    BY <1>11, <2>1, <2>2 DEF Reported
<1>24. InFile'
  BY <1>17, <1>18, <1>19, <1>20, <1>21, <1>22, <1>23 DEF InFile
<1> QED
  BY <1>14, <1>15, <1>16, <1>24 DEF Inv

LEMMA StutterInv ==
  ASSUME Inv, UNCHANGED vars
  PROVE  Inv'
<1>1. linux' = linux /\ turn' = turn /\ file' = file /\ Kind' = Kind
  BY SameFile DEF vars
<1>2. UNCHANGED <<fileVars, step, arenaVars, parserVars, result, tally, tallies,
                  historyVars, base, routed>>
  BY DEF vars
<1>3. TypeOK'
  BY <1>1, <1>2 DEF Inv, TypeOK, arenaVars, parserVars
<1>4. IsMemory(mem)' /\ (step = "file" => used = 0)'
  BY <1>2 DEF Inv, arenaVars
<1>5. Connection'
  BY <1>2, NothingSent DEF Inv
<1>6. ASSUME Testing'
      PROVE  /\ file' \in Files(Kind') /\ content' = 0 /\ mark' = 0
             /\ TextHeld' /\ Counted' /\ Recorded'
             /\ BetweenRecords' /\ WithinRecord' /\ RecordRead' /\ Received' /\ Reported'
  <2>1. /\ Testing /\ step' = step /\ field' = field /\ tally' = tally /\ used' = used
        /\ cursor' = cursor /\ asked' = asked /\ answered' = answered /\ mem' = mem
        /\ result' = result /\ expected' = expected /\ testMark' = testMark /\ len' = len
        /\ inputs' = inputs /\ content' = content /\ mark' = mark
    BY <1>2, <1>6 DEF Testing, arenaVars, parserVars, historyVars
  <2>2. /\ file \in Files(Kind) /\ content = 0 /\ mark = 0
        /\ TextHeld /\ Counted /\ Recorded
        /\ BetweenRecords /\ WithinRecord /\ RecordRead /\ Received /\ Reported
    BY <2>1 DEF Inv, InFile
  <2>3. /\ Now' = Now /\ Record' = Record /\ LastField' = LastField /\ Behind' = Behind
        /\ \A n, j : At(n, j)' = At(n, j)
        /\ \A k : InputAt(k)' = InputAt(k)
        /\ \A d : InputsFound(d)' = InputsFound(d) /\ ExpectedFound(d)' = ExpectedFound(d)
    BY <1>1, <2>1 DEF Now, Record, LastField, Behind, At, InputAt, InputsFound, ExpectedFound
  <2>4. file' \in Files(Kind') /\ content' = 0 /\ mark' = 0
    BY <1>1, <2>1, <2>2
  <2>5. TextHeld'
    BY <1>1, <2>1, <2>2 DEF TextHeld
  <2>6. Counted' /\ Recorded' /\ Reported'
    BY <1>1, <2>1, <2>2, <2>3 DEF Counted, Recorded, Reported
  <2>7. BetweenRecords'
    <3>1. At(tally.tests, LastField)' = At(tally.tests, LastField)
      BY <1>1, <2>1, <2>3 DEF At
    <3> QED
      BY <2>1, <2>2, <2>3, <3>1 DEF BetweenRecords
  <2>8. Reads(LastField) => Reads(LastField)'
    BY <1>2, <2>1, SameReads
  <2>9. Decodes(LastField) => Decodes(LastField)'
    BY <1>2, <2>1, SameDecodes
  <2>10. RecordRead' /\ Received'
    BY <2>1, <2>2, <2>3, <2>8, <2>9, <1>1 DEF RecordRead, Received
  <2>11. WithinRecord'
    BY <1>1, <2>1, <2>2 DEF WithinRecord, Reads, Decodes, Now, Record, LastField, Behind, At,
       InputAt, InputsFound, ExpectedFound, Held
  <2> QED
    BY <2>4, <2>5, <2>6, <2>7, <2>10, <2>11
<1> QED
  BY <1>3, <1>4, <1>5, <1>6 DEF Inv, InFile


(* The labels of the messages, which say where they are decoded. *)
LEMMA InputLabels ==
  ASSUME NEW kind \in Kinds
  PROVE  /\ kind = "SHA" => InputCount(kind) = 1 /\ Fields(kind)[2].label = "MSG"
         /\ kind = "AES" => /\ InputCount(kind) = 2 /\ Fields(kind)[2].label = "KEY"
                            /\ Fields(kind)[3].label = "PLAINTEXT"
         /\ kind \in {"MCE", "SHORT"} => InputCount(kind) = 1 /\ Fields(kind)[2].label = "SEED"
BY DEF Kinds, InputCount, Fields, Field

(* Room is kept for what a test decodes. *)
LEMMA HeldFits ==
  ASSUME Inv, Testing, Now \in 1 .. Len(file), NEW d \in Nat
  PROVE  /\ Held(d) \in Nat /\ InputRoom(Kind, Record) \in Nat
         /\ Held(d) <= InputRoom(Kind, Record)
         /\ Behind + InputRoom(Kind, Record) <= ArenaSize
         /\ d > 2 => Held(d) = InputRoom(Kind, Record)
<1>1. Kind \in Kinds /\ file \in Files(Kind)
  BY FileInUse
<1>2. Record[1][1] \in Nat
  BY RecordsAre DEF Record
<1>3. KeyLen + 1 \in Nat /\ BlockLen + 1 \in Nat
  BY SizeAssumption
<1>4. Aligned(Record[1][1]) \in Nat /\ Aligned(KeyLen + 1) \in Nat /\ Aligned(BlockLen + 1) \in Nat
  BY <1>2, <1>3, AlignedIs
<1>5. Behind + InputRoom(Kind, Record) <= ArenaSize
  BY <1>1, ArenaAssumption DEF Behind, Record
<1>6. CASE Kind = "SHA"
  <2>1. InputRoom(Kind, Record) = Aligned(Record[1][1])
    BY <1>6 DEF InputRoom
  <2>2. Held(d) = IF d <= 1 THEN 0 ELSE Aligned(Record[1][1])
    BY <1>6 DEF Held
  <2> QED
    BY <1>4, <1>5, <2>1, <2>2
<1>7. CASE Kind = "AES"
  <2>1. InputRoom(Kind, Record) = Aligned(KeyLen + 1) + Aligned(BlockLen + 1)
    BY <1>7 DEF InputRoom
  <2>2. Held(d) = IF d <= 1 THEN 0
                  ELSE IF d = 2 THEN Aligned(KeyLen + 1)
                  ELSE Aligned(KeyLen + 1) + Aligned(BlockLen + 1)
    BY <1>7 DEF Held
  <2> QED
    BY <1>4, <1>5, <2>1, <2>2
<1>8. CASE Kind \in {"MCE", "SHORT"}
  <2>1. InputRoom(Kind, Record) = 0
    BY <1>8 DEF InputRoom
  <2>2. Held(d) = 0
    BY <1>8 DEF Held
  <2> QED
    BY <1>5, <2>1, <2>2
<1> QED
  BY <1>1, <1>6, <1>7, <1>8 DEF Kinds

(* Messages are decoded behind the text and behind each other. *)
LEMMA InputPlaces ==
  ASSUME Inv, Testing, Now \in 1 .. Len(file),
         NEW k \in 1 .. InputCount(Kind), k + 1 <= Len(Record)
  PROVE  /\ InputAt(k) \in Nat /\ Behind <= InputAt(k) /\ InputAt(k) \in Memory
         /\ Len(Record[k + 1]) \in Nat
         /\ \A i \in 1 .. Len(Record[k + 1]) : InputAt(k) + i - 1 \in Memory
         /\ \A m \in 1 .. k - 1 : InputAt(m) + Len(Record[m + 1]) <= InputAt(k)
<1>1. Kind \in Kinds /\ Behind \in Nat /\ Behind <= ArenaSize
  BY FileInUse
<1>2. /\ Record[1][1] \in Nat /\ Len(Record) \in Nat
      /\ \A j \in 1 .. Len(Record) : Len(Record[j]) \in Nat
                                     /\ Len(Record[j]) = ValueLen(Kind, Record[1][1])[j]
  BY RecordsAre DEF Record
<1>3. ArenaSize \in Nat /\ KeyLen \in Nat /\ BlockLen \in Nat /\ SeedLen \in Nat
  BY SizeAssumption
<1>4. KeyLen + 1 \in Nat /\ BlockLen + 1 \in Nat
  BY <1>3
<1>5. /\ Aligned(Record[1][1]) \in Nat /\ Record[1][1] <= Aligned(Record[1][1])
      /\ Aligned(KeyLen + 1) \in Nat /\ KeyLen + 1 <= Aligned(KeyLen + 1)
      /\ Aligned(BlockLen + 1) \in Nat /\ BlockLen + 1 <= Aligned(BlockLen + 1)
  BY <1>2, <1>4, AlignedIs
<1>6. Behind + InputRoom(Kind, Record) <= ArenaSize
  BY HeldFits
<1> DEFINE v == Record[k + 1]
<1>7. k \in {1, 2} /\ (Kind # "AES" => k = 1)
  BY DEF InputCount
<1>8. k + 1 \in 1 .. Len(Record)
  BY <1>2, <1>7
<1>9. Len(v) \in Nat /\ Len(v) = ValueLen(Kind, Record[1][1])[k + 1]
  BY <1>2, <1>8
<1>10. CASE Kind = "SHA"
  <2>1. k = 1 /\ InputAt(k) = Behind
    BY <1>7, <1>10 DEF InputAt
  <2>2. Len(v) = IF Record[1][1] = 0 THEN 1 ELSE Record[1][1] \div 8
    BY <1>9, <1>10, <2>1 DEF ValueLen
  <2>3. Behind + Aligned(Record[1][1]) <= ArenaSize
    BY <1>6, <1>10 DEF InputRoom
  <2> HIDE DEF v
  <2>4. Record[1][1] # 0 => Len(v) <= Aligned(Record[1][1])
    <3>1. \A m \in Nat : m \div 8 <= m
      OBVIOUS
    <3>2. Record[1][1] \div 8 <= Record[1][1] /\ Record[1][1] \div 8 \in Nat
      BY <1>2, <3>1
    <3> QED
      BY <1>2, <1>5, <2>2, <3>2
  <2>5. Behind + Len(v) - 1 <= ArenaSize
    <3>1. CASE Record[1][1] = 0
      <4>1. Len(v) = 1
        BY <2>2, <3>1
      <4> QED
        BY <1>1, <1>3, <4>1
    <3>2. CASE Record[1][1] # 0
      <4>1. Len(v) <= Aligned(Record[1][1])
        BY <2>4, <3>2
      <4> QED
        BY <1>1, <1>3, <1>5, <1>9, <2>3, <4>1, SMTT(40)
    <3> QED
      BY <3>1, <3>2
  <2>6. \A i \in 1 .. Len(v) : Behind + i - 1 \in 0 .. ArenaSize + SeedLen
    BY <1>1, <1>3, <1>9, <2>5
  <2>7. Behind \in 0 .. ArenaSize + SeedLen
    BY <1>1, <1>3
  <2> QED
    BY <1>1, <1>9, <2>1, <2>6, <2>7 DEF Memory, v
<1>11. CASE Kind = "AES" /\ k = 1
  <2>1. InputAt(k) = Behind
    BY <1>11 DEF InputAt
  <2>2. Len(v) = KeyLen
    BY <1>9, <1>11 DEF ValueLen
  <2>3. Behind + Aligned(KeyLen + 1) + Aligned(BlockLen + 1) <= ArenaSize
    BY <1>1, <1>5, <1>6, <1>11 DEF InputRoom
  <2> HIDE DEF v
  <2>4. \A i \in 1 .. Len(v) : Behind + i - 1 \in 0 .. ArenaSize + SeedLen
    BY <1>1, <1>3, <1>5, <2>2, <2>3
  <2>5. Behind \in 0 .. ArenaSize + SeedLen
    BY <1>1, <1>3
  <2> QED
    BY <1>1, <1>9, <1>11, <2>1, <2>4, <2>5 DEF Memory, v
<1>12. CASE Kind = "AES" /\ k = 2
  <2> DEFINE x == Behind + Aligned(KeyLen + 1)
  <2>1. InputAt(k) = x /\ InputAt(1) = Behind
    BY <1>12 DEF InputAt
  <2>2. Len(v) = BlockLen
    BY <1>9, <1>12 DEF ValueLen
  <2>3. Behind + Aligned(KeyLen + 1) + Aligned(BlockLen + 1) <= ArenaSize
    BY <1>1, <1>5, <1>6, <1>12 DEF InputRoom
  <2>4. Len(Record[2]) = KeyLen
    <3>1. 2 \in 1 .. Len(Record)
      BY <1>2, <1>8, <1>12
    <3>2. Len(Record[2]) = ValueLen(Kind, Record[1][1])[2]
      BY <1>2, <3>1
    <3> QED
      BY <1>12, <3>2 DEF ValueLen
  <2>5. x \in Nat /\ x + BlockLen <= ArenaSize /\ Behind <= x /\ Behind + KeyLen <= x
    <3> DEFINE a == Aligned(KeyLen + 1)
               b == Aligned(BlockLen + 1)
    <3>1. a \in Nat /\ b \in Nat /\ KeyLen + 1 <= a /\ BlockLen + 1 <= b /\ Behind + a + b <= ArenaSize
      BY <1>5, <2>3
    <3> HIDE DEF a, b
    <3>2. Behind + a \in Nat /\ Behind + a + BlockLen <= ArenaSize /\ Behind <= Behind + a
          /\ Behind + KeyLen <= Behind + a
      BY <1>1, <1>3, <3>1
    <3> QED
      BY <3>2 DEF a
  <2> HIDE DEF v, x
  <2>6. \A i \in 1 .. Len(v) : x + i - 1 \in 0 .. ArenaSize + SeedLen
    BY <1>3, <2>2, <2>5
  <2>7. x \in 0 .. ArenaSize + SeedLen
    BY <1>3, <2>5
  <2>8. \A m \in 1 .. k - 1 : m = 1 /\ m + 1 = 2
    BY <1>12
  <2>9. \A m \in 1 .. k - 1 : InputAt(m) + Len(Record[m + 1]) <= InputAt(k)
    BY <2>1, <2>4, <2>5, <2>8
  <2> QED
    BY <1>9, <2>1, <2>5, <2>6, <2>7, <2>9 DEF Memory, v
<1>13. CASE Kind \in {"MCE", "SHORT"}
  <2>1. k = 1 /\ InputAt(k) = ArenaSize
    BY <1>7, <1>13 DEF InputAt, Stack
  <2>2. Len(v) = SeedLen
    BY <1>9, <1>13, <2>1 DEF ValueLen
  <2> HIDE DEF v
  <2>3. \A i \in 1 .. Len(v) : ArenaSize + i - 1 \in 0 .. ArenaSize + SeedLen
    BY <1>3, <2>2
  <2>4. ArenaSize \in 0 .. ArenaSize + SeedLen
    BY <1>3
  <2> QED
    BY <1>1, <1>3, <1>9, <2>1, <2>3, <2>4 DEF Memory, v
<1> QED
  BY <1>1, <1>7, <1>10, <1>11, <1>12, <1>13 DEF Kinds

(* One item more at the end of a sequence. *)
LEMMA OneItemMore ==
  ASSUME NEW n \in Nat, NEW g, NEW s, s = [k \in 1 .. n |-> g[k]]
  PROVE  Append(s, g[n + 1]) = [k \in 1 .. n + 1 |-> g[k]]
<1>1. Len(s) = n
  OBVIOUS
<1>2. Append(s, g[n + 1]) = [i \in 1 .. Len(s) + 1 |-> IF i <= Len(s) THEN s[i] ELSE g[n + 1]]
  OBVIOUS
<1> QED
  BY <1>1, <1>2


(* What Find does, if the first d - 1 fields of the record were read. *)
LEMMA FindIs ==
  ASSUME Inv, Find, NEW d \in Nat, d = field
  PROVE  /\ step = "find" /\ Now <= Len(file) /\ Now \in 1 .. Len(file)
         /\ d <= Len(Record) /\ d \in 1 .. Len(file[Now]) /\ d >= 1
         /\ cursor' = At(Now, d) /\ At(Now, d) \in Nat
         /\ testMark' = Behind
         /\ len' = Record[1][1]
         /\ used' = Behind + Held(d)
<1>1. step = "find" /\ Testing
  BY DEF Find, Testing
<1>2. Now <= Len(file) /\ field <= Len(Record)
  BY <1>1, FieldMissing DEF Find
<1>3. /\ Search(cursor, Fields(Kind)[field].label) = At(Now, field)
      /\ Now \in 1 .. Len(file) /\ field \in 1 .. Len(file[Now]) /\ At(Now, field) \in Nat
  BY <1>1, <1>2, FieldFound
<1>4. cursor' = At(Now, d)
  BY <1>3 DEF Find
<1>5. Kind \in Kinds /\ Behind \in Nat /\ LastField \in Nat
  BY <1>1, FileInUse
<1>6. d \in 1 .. Len(Fields(Kind)) /\ d >= 1
  <2>1. Len(file[Now]) \in 1 .. LastField
    BY <1>1, <1>3, RecordsAre
  <2> QED
    BY <1>3, <1>5, <2>1 DEF LastField
<1>7. Fields(Kind)[d].role = IF d = 1 THEN "number"
                             ELSE IF d <= InputCount(Kind) + 1 THEN "input"
                             ELSE "expected"
  BY <1>5, <1>6, FieldsAre
<1>8. InputCount(Kind) \in {1, 2}
  BY DEF InputCount
<1>9. CASE d = 1
  <2>1. used = Behind
    BY <1>1, <1>9 DEF Inv, InFile, BetweenRecords
  <2>2. testMark' = Behind
    BY <1>9, <2>1 DEF Find
  <2>3. len' = Record[1][1]
    <3>1. ParseNumber(At(Now, field)) = Record[1][1]
      BY <1>1, <1>2, <1>9, FieldIs
    <3> QED
      BY <1>3, <1>7, <1>9, <3>1 DEF Find
  <2>4. used' = Behind
    BY <1>7, <1>9, <2>1 DEF Find
  <2>5. Held(d) = 0
    BY <1>9 DEF Held
  <2> QED
    BY <1>1, <1>2, <1>3, <1>4, <1>5, <1>9, <2>2, <2>3, <2>4, <2>5
<1>10. CASE d # 1
  <2>1. Reads(d - 1) /\ Decodes(d - 1)
    BY <1>1, <1>6, <1>10 DEF Inv, InFile, WithinRecord
  <2>2. testMark' = Behind
    BY <1>10, <2>1 DEF Find, Reads
  <2>3. len' = Record[1][1]
    BY <1>7, <1>10, <2>1 DEF Find, Decodes
  <2>4. used = Behind + Held(d - 1)
    BY <2>1 DEF Decodes
  <2>5. used' = IF Fields(Kind)[d].role = "input" /\ Fields(Kind)[d].label # "SEED"
                  THEN used + Aligned(Room(Fields(Kind)[d].label)) ELSE used
    BY DEF Find
  <2>6. used' = Behind + Held(d)
    <3>1. CASE d > InputCount(Kind) + 1
      <4>1. used' = used
        <5>1. Fields(Kind)[d].role = "expected"
          BY <1>7, <1>8, <1>10, <3>1
        <5> QED
          BY <2>5, <5>1
      <4>2. Held(d) = Held(d - 1)
        <5>1. Kind = "AES" => InputCount(Kind) = 2
          BY DEF InputCount
        <5>2. d > 1 /\ d - 1 > 1 /\ (Kind = "AES" => d > 2 /\ d - 1 > 2)
          BY <1>8, <3>1, <5>1
        <5> QED
          BY <1>5, <5>2 DEF Held, Kinds
      <4> QED
        BY <2>4, <4>1, <4>2
    <3>2. CASE d <= InputCount(Kind) + 1
      <4>1. Fields(Kind)[d].role = "input"
        BY <1>7, <1>10, <3>2
      <4>2. CASE Kind = "SHA"
        <5>1. d = 2 /\ Fields(Kind)[d].label = "MSG"
          BY <1>5, <1>6, <1>10, <3>2, <4>2, InputLabels
        <5>2. used' = used + Aligned(len)
          BY <2>5, <4>1, <5>1 DEF Room
        <5>3. Held(d - 1) = 0 /\ Held(d) = Aligned(Record[1][1]) /\ len = Record[1][1]
          BY <2>1, <4>2, <5>1 DEF Held, Decodes
        <5> QED
          BY <1>5, <2>4, <5>2, <5>3
      <4>3. CASE Kind = "AES"
        <5>1. d \in {2, 3} /\ Fields(Kind)[2].label = "KEY" /\ Fields(Kind)[3].label = "PLAINTEXT"
          BY <1>5, <1>6, <1>10, <3>2, <4>3, InputLabels
        <5>2. KeyLen + 1 \in Nat /\ BlockLen + 1 \in Nat
          BY SizeAssumption
        <5>3. Aligned(KeyLen + 1) \in Nat /\ Aligned(BlockLen + 1) \in Nat
          BY <5>2, AlignedIs
        <5>4. CASE d = 2
          <6>1. used' = used + Aligned(KeyLen + 1)
            BY <2>5, <4>1, <5>1, <5>4 DEF Room
          <6>2. Held(d - 1) = 0 /\ Held(d) = Aligned(KeyLen + 1)
            BY <4>3, <5>4 DEF Held
          <6> QED
            BY <1>5, <2>4, <5>3, <6>1, <6>2
        <5>5. CASE d = 3
          <6>1. used' = used + Aligned(BlockLen + 1)
            BY <2>5, <4>1, <5>1, <5>5 DEF Room
          <6>2. d - 1 = 2
            BY <5>5
          <6>3. Held(d - 1) = Aligned(KeyLen + 1)
                /\ Held(d) = Aligned(KeyLen + 1) + Aligned(BlockLen + 1)
            BY <4>3, <5>5, <6>2 DEF Held
          <6> QED
            BY <1>5, <2>4, <5>3, <6>1, <6>3
        <5> QED
          BY <5>1, <5>4, <5>5
      <4>4. CASE Kind \in {"MCE", "SHORT"}
        <5>1. d = 2 /\ Fields(Kind)[d].label = "SEED"
          BY <1>5, <1>6, <1>10, <3>2, <4>4, InputLabels
        <5>2. used' = used
          BY <2>5, <5>1
        <5>3. Held(d - 1) = 0 /\ Held(d) = 0
          BY <4>4, <5>1 DEF Held
        <5> QED
          BY <1>5, <2>4, <5>2, <5>3
      <4> QED
        BY <1>5, <4>2, <4>3, <4>4 DEF Kinds
    <3> QED
      BY <1>8, <3>1, <3>2
  <2> QED
    BY <1>1, <1>2, <1>3, <1>4, <1>6, <2>2, <2>3, <2>6
<1> QED
  BY <1>9, <1>10


LEMMA FindExpected ==
  ASSUME Inv, Find, NEW d \in Nat, d = field
  PROVE  expected' = [k \in 1 .. ExpectedFound(d) |-> At(Now, InputCount(Kind) + 1 + k)]
<1> DEFINE IC == InputCount(Kind)
           g == [k \in 1 .. 6 |-> At(Now, IC + 1 + k)]
           p == At(Now, d)
<1>1. step = "find" /\ Testing
  BY DEF Find, Testing
<1>2. /\ Now \in 1 .. Len(file) /\ d \in 1 .. Len(file[Now]) /\ d >= 1 /\ Kind \in Kinds
      /\ d \in 1 .. 6
  BY <1>1, FindIs, FileInUse DEF Inv, TypeOK
<1>3. Search(cursor, Fields(Kind)[d].label) = p
  BY <1>1, FindIs, FieldFound
<1>4. d \in 1 .. Len(Fields(Kind))
  <2>1. Len(file[Now]) \in 1 .. LastField /\ LastField \in Nat
    BY <1>1, <1>2, RecordsAre, FileInUse
  <2> QED
    BY <1>2, <2>1 DEF LastField
<1>5. Fields(Kind)[d].role = IF d = 1 THEN "number"
                             ELSE IF d <= IC + 1 THEN "input"
                             ELSE "expected"
  BY <1>2, <1>4, FieldsAre
<1>6. IC \in {1, 2}
  BY DEF InputCount
<1>7. expected' = CASE Fields(Kind)[d].role = "number" -> <<>>
                    [] Fields(Kind)[d].role = "expected" -> Append(expected, p)
                    [] OTHER -> expected
  BY <1>3 DEF Find
<1>8. d # 1 => expected = [k \in 1 .. ExpectedFound(d - 1) |-> At(Now, IC + 1 + k)]
  BY <1>1, <1>2 DEF Inv, InFile, WithinRecord, Reads
<1> HIDE DEF IC, p
<1>9. CASE d = 1
  <2>1. expected' = <<>>
    BY <1>5, <1>7, <1>9
  <2>2. ExpectedFound(d) = 0
    BY <1>6, <1>9 DEF ExpectedFound, IC
  <2> QED
    BY <2>1, <2>2
<1>10. CASE d # 1 /\ d <= IC + 1
  <2>1. expected' = expected
    BY <1>5, <1>7, <1>10
  <2>2. ExpectedFound(d) = 0 /\ ExpectedFound(d - 1) = 0
    BY <1>6, <1>10 DEF ExpectedFound, IC
  <2> QED
    BY <1>8, <1>10, <2>1, <2>2
<1>11. CASE d > IC + 1
  <2> DEFINE n == d - 2 - IC
  <2>1. expected' = Append(expected, p)
    BY <1>5, <1>6, <1>7, <1>11
  <2>2. ExpectedFound(d - 1) = n /\ n \in Nat /\ ExpectedFound(d) = n + 1 /\ IC + 1 + (n + 1) = d
        /\ n + 1 \in 1 .. 6 /\ d # 1
    BY <1>2, <1>6, <1>11 DEF ExpectedFound, IC
  <2>3. g[n + 1] = p
    BY <2>2 DEF p
  <2> HIDE DEF n
  <2>4. \A k \in 1 .. n + 1 : k \in 1 .. 6
    BY <2>2
  <2>5. \A k \in 1 .. n : k \in 1 .. 6
    BY <2>2
  <2>6. \A k \in 1 .. 6 : g[k] = At(Now, IC + 1 + k)
    OBVIOUS
  <2> HIDE DEF g
  <2>7. expected = [k \in 1 .. n |-> g[k]]
    BY <1>8, <2>2, <2>5, <2>6
  <2>8. Append(expected, g[n + 1]) = [k \in 1 .. n + 1 |-> g[k]]
    BY <2>2, <2>7, OneItemMore
  <2>9. [k \in 1 .. n + 1 |-> g[k]] = [k \in 1 .. n + 1 |-> At(Now, IC + 1 + k)]
    BY <2>4, <2>6
  <2> QED
    BY <2>1, <2>2, <2>3, <2>8, <2>9 DEF IC
<1> QED
  BY <1>6, <1>9, <1>10, <1>11

(* What is decoded for the k-th message, and what that leaves alone. *)
LEMMA FindDecodes ==
  ASSUME Inv, Find, NEW k \in 1 .. InputCount(Kind), k + 1 = field
  PROVE  LET v == Record[k + 1] IN
         /\ Len(v) \in Nat
         /\ inputs' = Append(inputs, [at |-> InputAt(k), size |-> Len(v)])
         /\ IsMemory(mem') /\ DOMAIN mem' = Memory
         /\ \A a \in Memory : a < InputAt(k) => mem'[a] = mem[a]
         /\ \A i \in 1 .. Len(v) : mem'[InputAt(k) + i - 1] = Raw(v[i])
<1> DEFINE v == Record[k + 1]
           cells == [i \in 1 .. Len(v) |-> Raw(v[i])]
           p == At(Now, k + 1)
<1>1. step = "find" /\ Testing
  BY DEF Find, Testing
<1>2. k \in Nat /\ k >= 1 /\ k + 1 \in Nat
  BY DEF InputCount
<1>3. /\ Now \in 1 .. Len(file) /\ Now <= Len(file) /\ k + 1 <= Len(Record)
      /\ k + 1 \in 1 .. Len(file[Now])
  BY <1>2, FindIs
<1>4. Kind \in Kinds /\ Behind \in Nat
  BY <1>1, FileInUse
<1>5. Search(cursor, Fields(Kind)[k + 1].label) = p
  BY <1>1, <1>3, FieldFound
<1>6. Decoded(p) = cells
  BY <1>1, <1>2, <1>3, FieldIs, SMTT(40)
<1>7. /\ InputAt(k) \in Nat /\ Len(v) \in Nat
      /\ \A i \in 1 .. Len(v) : InputAt(k) + i - 1 \in Memory
  BY <1>1, <1>3, InputPlaces
<1>8. Len(cells) = Len(v)
  BY <1>7
<1>9. Fields(Kind)[k + 1].role = "input"
  <2>1. k + 1 \in 1 .. Len(Fields(Kind))
    <3>1. Len(file[Now]) \in 1 .. LastField /\ LastField \in Nat
      BY <1>1, <1>3, RecordsAre, FileInUse
    <3> QED
      BY <1>2, <1>3, <3>1 DEF LastField
  <2>2. k + 1 # 1 /\ k + 1 <= InputCount(Kind) + 1
    BY DEF InputCount
  <2> QED
    BY <1>4, <2>1, <2>2, FieldsAre
<1>10. used = Behind + Held(k)
  <2>1. field > 1 /\ field - 1 = k
    BY <1>2
  <2> QED
    BY <1>1, <2>1 DEF Inv, InFile, WithinRecord, Decodes
<1>11. (IF Fields(Kind)[k + 1].label = "SEED" THEN Stack ELSE used) = InputAt(k)
  <2>1. CASE Kind = "SHA"
    <3>1. k = 1 /\ Fields(Kind)[2].label = "MSG"
      BY <2>1, InputLabels, <1>4
    <3>2. Held(k) = 0
      BY <3>1 DEF Held
    <3> QED
      BY <1>4, <1>10, <2>1, <3>1, <3>2 DEF InputAt
  <2>2. CASE Kind = "AES"
    <3>1. k \in {1, 2} /\ Fields(Kind)[2].label = "KEY" /\ Fields(Kind)[3].label = "PLAINTEXT"
      BY <2>2, InputLabels, <1>4
    <3>2. CASE k = 1
      <4>1. Held(k) = 0
        BY <3>2 DEF Held
      <4> QED
        BY <1>4, <1>10, <2>2, <3>1, <3>2, <4>1 DEF InputAt
    <3>3. CASE k = 2
      <4>1. Held(k) = Aligned(KeyLen + 1)
        BY <2>2, <3>3 DEF Held
      <4> QED
        BY <1>10, <2>2, <3>1, <3>3, <4>1 DEF InputAt
    <3> QED
      BY <3>1, <3>2, <3>3
  <2>3. CASE Kind \in {"MCE", "SHORT"}
    <3>1. k = 1 /\ Fields(Kind)[2].label = "SEED"
      BY <2>3, InputLabels, <1>4
    <3> QED
      BY <2>3, <3>1 DEF InputAt
  <2> QED
    BY <1>4, <2>1, <2>2, <2>3 DEF Kinds
<1>12. /\ inputs' = Append(inputs, [at |-> InputAt(k), size |-> Len(cells)])
       /\ mem' = Write(mem, InputAt(k), cells)
  BY <1>5, <1>6, <1>9, <1>11 DEF Find
<1>13. IsMemory(mem') /\ DOMAIN mem' = Memory
  BY <1>12, WriteIs
<1> HIDE DEF v
<1>14. ASSUME NEW a \in Memory, a < InputAt(k)
       PROVE  mem'[a] = mem[a]
  <2>1. a \notin InputAt(k) .. InputAt(k) + Len(cells) - 1
    BY <1>7, <1>14
  <2> QED
    BY <1>12, <2>1, WriteIs
<1>15. ASSUME NEW i \in 1 .. Len(v)
       PROVE  mem'[InputAt(k) + i - 1] = Raw(v[i])
  <2>1. /\ InputAt(k) + i - 1 \in Memory
        /\ InputAt(k) + i - 1 \in InputAt(k) .. InputAt(k) + Len(cells) - 1
        /\ InputAt(k) + i - 1 - InputAt(k) + 1 = i
    BY <1>7, <1>8
  <2> DEFINE x == InputAt(k) + i - 1
  <2> HIDE DEF x, cells
  <2>a. x \in Memory /\ x \in InputAt(k) .. InputAt(k) + Len(cells) - 1
    BY <2>1 DEF x
  <2>b. mem'[x] = cells[x - InputAt(k) + 1]
    BY <1>12, <2>a, WriteIs
  <2>2. cells[i] = Raw(v[i])
    BY DEF cells
  <2>3. x - InputAt(k) + 1 = i
    BY <1>7 DEF x
  <2>4. mem'[x] = Raw(v[i])
    BY <2>b, <2>2, <2>3
  <2> QED
    BY <2>4 DEF x
<1>16. /\ Len(v) \in Nat
       /\ inputs' = Append(inputs, [at |-> InputAt(k), size |-> Len(v)])
       /\ IsMemory(mem') /\ DOMAIN mem' = Memory
       /\ \A a \in Memory : a < InputAt(k) => mem'[a] = mem[a]
       /\ \A i \in 1 .. Len(v) : mem'[InputAt(k) + i - 1] = Raw(v[i])
  BY <1>7, <1>8, <1>12, <1>13, <1>14, <1>15
<1> QED
  BY <1>16 DEF v

(* The messages after Find. *)
LEMMA FindInputs ==
  ASSUME Inv, Find, NEW d \in Nat, d = field
  PROVE  /\ inputs' = [k \in 1 .. InputsFound(d) |->
                         [at |-> InputAt(k), size |-> Len(Record[k + 1])]]
         /\ \A k \in 1 .. InputsFound(d) : \A i \in 1 .. Len(Record[k + 1]) :
              mem'[InputAt(k) + i - 1] = Raw(Record[k + 1][i])
         /\ IsMemory(mem') /\ DOMAIN mem' = Memory
         /\ \A a \in Memory : a < Behind => mem'[a] = mem[a]
<1> DEFINE IC == InputCount(Kind)
           g == [k \in 1 .. 2 |-> [at |-> InputAt(k), size |-> Len(Record[k + 1])]]
<1>1. step = "find" /\ Testing
  BY DEF Find, Testing
<1>2. /\ Now \in 1 .. Len(file) /\ d \in 1 .. Len(file[Now]) /\ d >= 1 /\ Kind \in Kinds
      /\ d \in 1 .. 6 /\ d <= Len(Record)
  BY <1>1, FindIs, FileInUse DEF Inv, TypeOK
<1>3. d \in 1 .. Len(Fields(Kind))
  <2>1. Len(file[Now]) \in 1 .. LastField /\ LastField \in Nat
    BY <1>1, <1>2, RecordsAre, FileInUse
  <2> QED
    BY <1>2, <2>1 DEF LastField
<1>4. Fields(Kind)[d].role = IF d = 1 THEN "number"
                             ELSE IF d <= IC + 1 THEN "input"
                             ELSE "expected"
  BY <1>2, <1>3, FieldsAre
<1>5. IC \in {1, 2}
  BY DEF InputCount
<1>6. IsMemory(mem) /\ DOMAIN mem = Memory
  BY DEF Inv, TypeOK
<1>7. d # 1 =>
        /\ inputs = [k \in 1 .. InputsFound(d - 1) |->
                       [at |-> InputAt(k), size |-> Len(Record[k + 1])]]
        /\ \A k \in 1 .. InputsFound(d - 1) : \A i \in 1 .. Len(Record[k + 1]) :
             mem[InputAt(k) + i - 1] = Raw(Record[k + 1][i])
  BY <1>1, <1>2 DEF Inv, InFile, WithinRecord, Decodes
<1>8. CASE d = 1
  <2>1. inputs' = <<>> /\ mem' = mem
    BY <1>4, <1>8 DEF Find
  <2>2. InputsFound(d) = 0
    BY <1>8 DEF InputsFound
  <2> QED
    BY <1>6, <2>1, <2>2
<1>9. CASE d > IC + 1
  <2>1. inputs' = inputs /\ mem' = mem
    BY <1>4, <1>5, <1>9 DEF Find
  <2>2. InputsFound(d) = InputsFound(d - 1) /\ d # 1
    BY <1>2, <1>5, <1>9 DEF InputsFound
  <2> QED
    BY <1>6, <1>7, <2>1, <2>2
<1>10. CASE d # 1 /\ d <= IC + 1
  <2> DEFINE n == d - 2
             c == d - 1
  <2>1. /\ c \in 1 .. IC /\ c + 1 = d /\ n + 1 = c /\ n \in Nat /\ c \in 1 .. 2
        /\ InputsFound(d) = c /\ InputsFound(d - 1) = n
    BY <1>2, <1>5, <1>10 DEF InputsFound
  <2> HIDE DEF n, c
  <2>2. /\ Len(Record[c + 1]) \in Nat
        /\ inputs' = Append(inputs, [at |-> InputAt(c), size |-> Len(Record[c + 1])])
        /\ IsMemory(mem') /\ DOMAIN mem' = Memory
        /\ \A a \in Memory : a < InputAt(c) => mem'[a] = mem[a]
        /\ \A i \in 1 .. Len(Record[c + 1]) : mem'[InputAt(c) + i - 1] = Raw(Record[c + 1][i])
    BY <2>1, FindDecodes
  <2>3. /\ InputAt(c) \in Nat /\ Behind <= InputAt(c)
        /\ \A m \in 1 .. c - 1 : InputAt(m) + Len(Record[m + 1]) <= InputAt(c)
    BY <1>1, <1>2, <2>1, InputPlaces
  <2>4. inputs' = [k \in 1 .. c |-> [at |-> InputAt(k), size |-> Len(Record[k + 1])]]
    <3>1. \A k \in 1 .. 2 : g[k] = [at |-> InputAt(k), size |-> Len(Record[k + 1])]
      OBVIOUS
    <3> HIDE DEF g
    <3>2. \A k \in 1 .. n : k \in 1 .. 2
      BY <2>1
    <3>3. \A k \in 1 .. c : k \in 1 .. 2
      BY <2>1
    <3>4. inputs = [k \in 1 .. n |-> g[k]]
      BY <1>7, <1>10, <2>1, <3>1, <3>2
    <3>5. Append(inputs, g[n + 1]) = [k \in 1 .. n + 1 |-> g[k]]
      BY <2>1, <3>4, OneItemMore
    <3>6. inputs' = Append(inputs, g[c])
      BY <2>1, <2>2, <3>1
    <3>7. inputs' = [k \in 1 .. c |-> g[k]]
      BY <2>1, <3>5, <3>6
    <3> QED
      BY <3>1, <3>3, <3>7
  <2>5. ASSUME NEW k \in 1 .. c, NEW i \in 1 .. Len(Record[k + 1])
        PROVE  mem'[InputAt(k) + i - 1] = Raw(Record[k + 1][i])
    <3>1. CASE k = c
      BY <2>2, <3>1
    <3>2. CASE k # c
      <4>1. k \in 1 .. c - 1 /\ k \in 1 .. n /\ k \in 1 .. IC /\ k + 1 <= Len(Record)
        <5>1. Len(Record) \in Nat
          BY <1>1, <1>2, RecordsAre DEF Record
        <5> QED
          BY <1>2, <1>5, <2>1, <3>2, <5>1
      <4>2. /\ InputAt(k) \in Nat /\ Len(Record[k + 1]) \in Nat
            /\ InputAt(k) + i - 1 \in Memory
        BY <1>1, <1>2, <4>1, InputPlaces
      <4>3. InputAt(k) + i - 1 < InputAt(c)
        BY <2>3, <4>1, <4>2
      <4>4. mem'[InputAt(k) + i - 1] = mem[InputAt(k) + i - 1]
        BY <2>2, <4>2, <4>3
      <4> QED
        BY <1>7, <1>10, <2>1, <4>1, <4>4
    <3> QED
      BY <3>1, <3>2
  <2>6. \A a \in Memory : a < Behind => a < InputAt(c)
    <3>1. Behind \in Nat
      BY <1>1, FileInUse
    <3>2. \A a \in Memory : a \in Int
      BY SizeAssumption DEF Memory
    <3> QED
      BY <2>3, <3>1, <3>2
  <2> QED
    BY <2>1, <2>2, <2>4, <2>5, <2>6
<1> QED
  BY <1>2, <1>5, <1>8, <1>9, <1>10


(* Find reads one field more. *)
LEMMA FindReads ==
  ASSUME Inv, Find, NEW d \in Nat, d = field
  PROVE  Reads(d)' /\ Decodes(d)'
<1>1. /\ Now <= Len(file) /\ d <= Len(Record)
      /\ cursor' = At(Now, d) /\ testMark' = Behind
      /\ len' = Record[1][1] /\ used' = Behind + Held(d)
  BY FindIs
<1>2. expected' = [k \in 1 .. ExpectedFound(d) |-> At(Now, InputCount(Kind) + 1 + k)]
  BY FindExpected
<1>3. /\ inputs' = [k \in 1 .. InputsFound(d) |->
                      [at |-> InputAt(k), size |-> Len(Record[k + 1])]]
      /\ \A k \in 1 .. InputsFound(d) : \A i \in 1 .. Len(Record[k + 1]) :
           mem'[InputAt(k) + i - 1] = Raw(Record[k + 1][i])
  BY FindInputs
<1>4. file' = file /\ Kind' = Kind /\ tally' = tally
  BY SameFile DEF Find
<1>5. Now' = Now /\ Record' = Record /\ Behind' = Behind
  BY <1>4 DEF Now, Record, Behind
<1>6. At(Now, d)' = At(Now, d)
  BY <1>4, <1>5 DEF At
<1>7. [k \in 1 .. ExpectedFound(d) |-> At(Now, InputCount(Kind) + 1 + k)]'
        = [k \in 1 .. ExpectedFound(d) |-> At(Now, InputCount(Kind) + 1 + k)]
  BY <1>4, <1>5 DEF At, ExpectedFound
<1>8. InputsFound(d)' = InputsFound(d) /\ Held(d)' = Held(d)
  BY <1>4, <1>5 DEF InputsFound, Held
<1>9. \A k : InputAt(k)' = InputAt(k)
  BY <1>4, <1>5 DEF InputAt
<1>10. Reads(d)'
  BY <1>1, <1>2, <1>4, <1>5, <1>6, <1>7 DEF Reads
<1>11. Decodes(d)'
  BY <1>1, <1>3, <1>5, <1>8, <1>9 DEF Decodes
<1> QED
  BY <1>10, <1>11

LEMMA FindTypes ==
  ASSUME Inv, Find, NEW d \in Nat, d = field
  PROVE  /\ cursor' \in Memory /\ {used', testMark'} \subseteq 0 .. ArenaSize /\ len' \in Nat
         /\ inputs' \in Seq([at : Memory, size : Nat]) /\ expected' \in Seq(Memory)
<1>1. step = "find" /\ Testing
  BY DEF Find, Testing
<1>2. /\ Now \in 1 .. Len(file) /\ d <= Len(Record) /\ d \in 1 .. Len(file[Now])
      /\ cursor' = At(Now, d) /\ testMark' = Behind
      /\ len' = Record[1][1] /\ used' = Behind + Held(d)
  BY FindIs
<1>3. /\ Behind \in Nat /\ Len(Text(Kind, file)) \in Nat /\ Len(Text(Kind, file)) < Behind
      /\ Behind <= ArenaSize
  BY <1>1, FileInUse
<1>4. ArenaSize \in Nat /\ SeedLen \in Nat /\ Header \in Nat
  BY SizeAssumption
<1>5. ASSUME NEW j \in 1 .. d
      PROVE  At(Now, j) \in Memory
  <2>1. j \in 1 .. Len(file[Now])
    BY <1>2
  <2>2. At(Now, j) \in Nat /\ At(Now, j) + Len(file[Now][j]) < Len(Text(Kind, file))
        /\ Len(file[Now][j]) \in Nat
    BY <1>1, <1>2, <2>1, BehindLabel, RecordsAre
  <2>3. At(Now, j) \in 0 .. ArenaSize + SeedLen
    BY <1>3, <1>4, <2>2
  <2> QED
    BY <2>3 DEF Memory
<1>6. cursor' \in Memory
  BY <1>2, <1>5
<1>7. used' \in 0 .. ArenaSize /\ testMark' \in 0 .. ArenaSize
  <2>1. /\ Held(d) \in Nat /\ InputRoom(Kind, Record) \in Nat
        /\ Held(d) <= InputRoom(Kind, Record)
        /\ Behind + InputRoom(Kind, Record) <= ArenaSize
    BY <1>1, <1>2, HeldFits
  <2> QED
    BY <1>2, <1>3, <1>4, <2>1
<1>8. len' \in Nat
  BY <1>1, <1>2, RecordsAre DEF Record
<1>9. InputCount(Kind) \in {1, 2}
  BY DEF InputCount
<1>10. inputs' \in Seq([at : Memory, size : Nat])
  <2>1. inputs' = [k \in 1 .. InputsFound(d) |->
                     [at |-> InputAt(k), size |-> Len(Record[k + 1])]]
    BY FindInputs
  <2>2. InputsFound(d) \in Nat
    BY <1>2, <1>9 DEF InputsFound
  <2>3. ASSUME NEW k \in 1 .. InputsFound(d)
        PROVE  [at |-> InputAt(k), size |-> Len(Record[k + 1])] \in [at : Memory, size : Nat]
    <3>1. k \in 1 .. InputCount(Kind) /\ k + 1 <= d
      BY <1>2, <1>9 DEF InputsFound
    <3>2. Len(Record) \in Nat
      BY <1>1, <1>2, RecordsAre DEF Record
    <3>3. k + 1 <= Len(Record)
      BY <1>2, <1>9, <3>1, <3>2
    <3> QED
      BY <1>1, <1>2, <3>1, <3>3, InputPlaces
  <2> DEFINE n == InputsFound(d)
             S == [at : Memory, size : Nat]
             h == [k \in 1 .. n |-> [at |-> InputAt(k), size |-> Len(Record[k + 1])]]
  <2>4. h = [k \in 1 .. n |-> h[k]]
    OBVIOUS
  <2>5. \A k \in 1 .. n : h[k] \in S
    BY <2>3
  <2>6. inputs' = h /\ n \in Nat
    BY <2>1, <2>2
  <2> HIDE DEF n, S, h
  <2>7. h \in Seq(S)
    BY <2>4, <2>5, <2>6
  <2> QED
    BY <2>6, <2>7 DEF S
<1>11. expected' \in Seq(Memory)
  <2>1. expected' = [k \in 1 .. ExpectedFound(d) |-> At(Now, InputCount(Kind) + 1 + k)]
    BY FindExpected
  <2>2. ExpectedFound(d) \in Nat
    BY <1>9 DEF ExpectedFound
  <2>3. ASSUME NEW k \in 1 .. ExpectedFound(d)
        PROVE  At(Now, InputCount(Kind) + 1 + k) \in Memory
    <3>1. InputCount(Kind) + 1 + k \in 1 .. d
      BY <1>9 DEF ExpectedFound
    <3> QED
      BY <1>5, <3>1
  <2> QED
    BY <2>1, <2>2, <2>3
<1> QED
  BY <1>6, <1>7, <1>8, <1>10, <1>11

LEMMA FindInv ==
  ASSUME Inv, Find
  PROVE  Inv'
<1>1. step = "find" /\ Testing
  BY DEF Find, Testing
<1>2. PICK d \in Nat : d = field /\ d \in 1 .. 6
  BY DEF Inv, TypeOK
<1>3. linux' = linux /\ turn' = turn /\ file' = file /\ Kind' = Kind
  BY SameFile DEF Find
<1>4. UNCHANGED <<fileVars, mark, content, result, tally, tallies, historyVars, base, routed>>
  BY DEF Find
<1>5. LastField \in Nat /\ LastField >= 3 /\ LastField <= 6
  BY <1>1, FileInUse
<1>6. d \in 1 .. LastField
  <2>1. Now \in 1 .. Len(file) /\ d \in 1 .. Len(file[Now])
    BY <1>2, FindIs
  <2>2. Len(file[Now]) \in 1 .. LastField
    BY <1>1, <2>1, RecordsAre
  <2> QED
    BY <1>5, <2>1, <2>2
<1>7. IF d = LastField THEN field' = 1 /\ step' = "send"
                       ELSE field' = d + 1 /\ step' = "find"
  <2>1. IF field = LastField THEN field' = 1 /\ step' = "send"
                             ELSE field' = field + 1 /\ step' = "find"
    BY DEF Find, LastField
  <2> QED
    BY <1>2, <2>1
<1>8. LastField' = LastField /\ Behind' = Behind
  BY <1>3 DEF LastField, Behind
<1>9. Reads(d)' /\ Decodes(d)'
  BY <1>2, FindReads
<1>10. IsMemory(mem') /\ DOMAIN mem' = Memory /\ \A a \in Memory : a < Behind => mem'[a] = mem[a]
  BY <1>2, FindInputs
<1>11. TypeOK'
  <2>1. field' \in 1 .. 6 /\ step' \in {"find", "send"}
    BY <1>5, <1>6, <1>7
  <2>2. /\ cursor' \in Memory /\ {used', testMark'} \subseteq 0 .. ArenaSize /\ len' \in Nat
        /\ inputs' \in Seq([at : Memory, size : Nat]) /\ expected' \in Seq(Memory)
    BY <1>2, FindTypes
  <2> QED
    BY <1>3, <1>4, <1>10, <2>1, <2>2 DEF Inv, TypeOK
<1>12. Connection'
  BY <1>4, NothingSent DEF Inv
<1>13. file' \in Files(Kind') /\ content' = 0 /\ mark' = 0
  BY <1>1, <1>3, <1>4 DEF Inv, InFile
<1>14. TextHeld'
  <2> DEFINE L == Len(Text(Kind, file))
  <2>1. L \in Nat /\ L < Behind /\ Behind \in Nat /\ Behind <= ArenaSize
        /\ ArenaSize \in Nat /\ SeedLen \in Nat
    BY <1>1, FileInUse, SizeAssumption
  <2>2. TextHeld
    BY <1>1 DEF Inv, InFile
  <2>3. \A a \in 0 .. L : a \in 0 .. ArenaSize + SeedLen /\ a < Behind
    BY <2>1
  <2>4. \A a \in 0 .. L : mem'[a] = mem[a]
    BY <1>10, <2>3 DEF Memory
  <2>5. L \in 0 .. L /\ \A a \in 0 .. L - 1 : a \in 0 .. L
    BY <2>1
  <2>6. mem'[L] = mem[L] /\ \A a \in 0 .. L - 1 : mem'[a] = mem[a]
    BY <2>4, <2>5
  <2> QED
    BY <1>3, <1>4, <2>2, <2>6 DEF TextHeld, historyVars
<1>15. Counted'
  BY <1>1, <1>3, <1>4 DEF Inv, InFile, Counted, historyVars
<1>16. Recorded'
  <2>1. step' \notin {"receive", "judge"}
    BY <1>7
  <2> QED
    BY <1>1, <1>3, <1>4, <2>1 DEF Inv, InFile, Recorded, historyVars
<1>17. BetweenRecords' /\ Received' /\ Reported'
  BY <1>2, <1>7 DEF BetweenRecords, Received, Reported
<1>18. WithinRecord'
  <2> SUFFICES ASSUME step' = "find", field' > 1
               PROVE  Reads(field - 1)' /\ Decodes(field - 1)' /\ field' <= LastField'
    BY DEF WithinRecord
  <2>1. field' - 1 = d /\ field' <= LastField
    BY <1>2, <1>5, <1>6, <1>7
  <2> QED
    BY <1>8, <1>9, <2>1 DEF Reads, Decodes, ExpectedFound, InputsFound, Held, At
<1>19. RecordRead'
  <2> SUFFICES ASSUME step' \in {"send", "receive"}
               PROVE  field' = 1 /\ Reads(LastField)' /\ Decodes(LastField)'
    BY DEF RecordRead
  <2>1. field' = 1 /\ LastField' = d
    BY <1>7, <1>8
  <2> QED
    BY <1>9, <2>1 DEF Reads, Decodes, ExpectedFound, InputsFound, Held, At
<1>20. InFile'
  BY <1>13, <1>14, <1>15, <1>16, <1>17, <1>18, <1>19 DEF InFile
<1>21. step' # "file"
  BY <1>7
<1> QED
  BY <1>10, <1>11, <1>12, <1>20, <1>21 DEF Inv


(* A function on 1 .. n is a sequence. *)
LEMMA SequenceFrom ==
  ASSUME NEW n \in Nat, NEW D, NEW f, f = [k \in 1 .. n |-> f[k]],
         \A k \in 1 .. n : f[k] \in D
  PROVE  f \in Seq(D) /\ Len(f) = n
OBVIOUS

(* What receive_small_string leaves in memory. *)
LEMMA SmallReceived ==
  ASSUME NEW answer \in Seq(Nat), IsMemory(mem), used \in Nat,
         used + Aligned(Len(answer) + 1) <= ArenaSize, ReceiveSmall(answer)
  PROVE  /\ IsMemory(mem') /\ DOMAIN mem' = Memory
         /\ used' = used + Aligned(Len(answer) + 1) /\ used' \in Nat
         /\ result' = <<0>>
         /\ \A i \in 0 .. Len(answer) - 1 : mem'[i] = Hex(answer[i + 1])
         /\ \A a \in Memory : a > Len(answer) => mem'[a] = mem[a]
<1> DEFINE text == [i \in 1 .. Len(answer) |-> Hex(answer[i])]
           cells == text \o <<End>>
<1>1. Len(answer) \in Nat /\ Len(answer) + 1 \in Nat /\ ArenaSize \in Nat /\ SeedLen \in Nat
  BY SizeAssumption
<1>2. Aligned(Len(answer) + 1) \in Nat /\ Len(answer) + 1 <= Aligned(Len(answer) + 1)
  BY <1>1, AlignedIs
<1>3. Len(text) = Len(answer)
  BY <1>1
<1>4. mem' = Write(mem, 0, cells) /\ used' = used + Aligned(Len(text) + 1) /\ result' = <<0>>
  BY DEF ReceiveSmall
<1>5. Len(cells) = Len(answer) + 1
  <2>1. text \in Seq({"hex"} \X Nat)
    BY <1>1 DEF Hex
  <2> HIDE DEF text
  <2> QED
    BY <1>1, <1>3, <2>1
<1>6. \A i \in 1 .. Len(answer) : cells[i] = Hex(answer[i])
  <2>1. text \in Seq({"hex"} \X Nat)
    BY <1>1 DEF Hex
  <2>2. \A i \in 1 .. Len(answer) : text[i] = Hex(answer[i])
    OBVIOUS
  <2> HIDE DEF text
  <2>3. \A i \in 1 .. Len(text) : cells[i] = text[i]
    BY <2>1
  <2> QED
    BY <1>3, <2>2, <2>3
<1> HIDE DEF text, cells
<1>7. IsMemory(mem') /\ DOMAIN mem' = Memory
  BY <1>4, WriteIs
<1>8. ASSUME NEW i \in 0 .. Len(answer) - 1
      PROVE  mem'[i] = Hex(answer[i + 1])
  <2>1. Len(answer) < ArenaSize
    BY <1>1, <1>2
  <2>2. i \in Memory /\ i \in 0 .. 0 + Len(cells) - 1 /\ i - 0 + 1 = i + 1 /\ i + 1 \in 1 .. Len(answer)
    BY <1>1, <1>5, <2>1 DEF Memory
  <2>3. mem'[i] = cells[i - 0 + 1]
    BY <1>4, <2>2, WriteIs
  <2> QED
    BY <1>6, <2>2, <2>3
<1>9. ASSUME NEW a \in Memory, a > Len(answer)
      PROVE  mem'[a] = mem[a]
  <2>1. a \notin 0 .. 0 + Len(cells) - 1
    BY <1>1, <1>5, <1>9 DEF Memory
  <2> QED
    BY <1>4, <2>1, WriteIs
<1> QED
  BY <1>2, <1>3, <1>4, <1>7, <1>8, <1>9

(* What receive_large_data leaves in memory: the messages and, behind them, *)
(* the parts that are compared, in hexadecimal.                            *)
LEMMA LargeReceived ==
  ASSUME NEW messages \in Seq(Seq(Nat)), IsMemory(mem), used \in Nat,
         Parts(Kind) \in Seq(Nat), Len(messages) = Len(Parts(Kind)),
         \A k \in 1 .. Len(messages) : Len(messages[k]) >= Parts(Kind)[k],
         Addresses(Addresses(used, Sizes(messages))[Len(messages)], Parts(Kind))[Len(messages)]
           <= ArenaSize,
         ReceiveLarge(messages)
  PROVE  /\ IsMemory(mem') /\ DOMAIN mem' = Memory
         /\ used' \in 0 .. ArenaSize
         /\ Len(result') = Len(messages) /\ result' \in Seq(0 .. ArenaSize)
         /\ \A k \in 1 .. Len(messages) : \A i \in 0 .. Parts(Kind)[k] - 1 :
              mem'[result'[k] + i] = Hex(messages[k][i + 1])
         /\ \A a \in Memory : a < used => mem'[a] = mem[a]
<1> DEFINE n == Len(messages)
           raw == [k \in 1 .. n |-> [i \in 1 .. Len(messages[k]) |-> Raw(messages[k][i])]]
           at == Addresses(used, Sizes(messages))
           m == Stored(mem, at, raw)
           hex == [k \in 1 .. n |-> [i \in 1 .. Parts(Kind)[k] |-> Hex(m[at[k - 1] + i - 1][2])]]
           hexAt == Addresses(at[n], Parts(Kind))
           C == {"raw", "hex"} \X Nat
<1>1. /\ mem' = Stored(m, hexAt, hex)
      /\ used' = hexAt[n]
      /\ result' = [k \in 1 .. n |-> hexAt[k - 1]]
  BY DEF ReceiveLarge, LargeAt
<1>2. n \in Nat /\ \A k \in 1 .. n : messages[k] \in Seq(Nat) /\ Len(messages[k]) \in Nat
  OBVIOUS
<1>3. Sizes(messages) \in Seq(Nat) /\ Len(Sizes(messages)) = n
      /\ \A k \in 1 .. n : Sizes(messages)[k] = Len(messages[k])
  BY <1>2 DEF Sizes
<1>4. Spaced(at, used, Sizes(messages))
  BY <1>3, AddressesAre
<1>5. at[n] \in Nat /\ used <= at[n]
  <2>1. n \in 0 .. Len(Sizes(messages))
    BY <1>2, <1>3
  <2> HIDE DEF at, n
  <2> QED
    BY <1>4, <2>1 DEF Spaced
<1>6. Spaced(hexAt, at[n], Parts(Kind))
  BY <1>5, AddressesAre
<1>7. /\ \A k \in 0 .. n : hexAt[k] \in Nat /\ at[n] <= hexAt[k] /\ hexAt[k] <= hexAt[n]
      /\ hexAt[n] <= ArenaSize
  <2>1. n = Len(Parts(Kind)) /\ hexAt[n] <= ArenaSize
    OBVIOUS
  <2> HIDE DEF hexAt, at, n
  <2> QED
    BY <1>6, <2>1 DEF Spaced
<1>8. ArenaSize \in Nat
  BY SizeAssumption
<1>9. n \in 0 .. n /\ \A k \in 1 .. n : k - 1 \in 0 .. n
  BY <1>2
<1>10. /\ raw \in Seq(Seq(C)) /\ Len(raw) = n
       /\ \A k \in 1 .. n : Len(raw[k]) = Len(messages[k])
       /\ \A k \in 1 .. n : \A i \in 1 .. Len(messages[k]) : raw[k][i] = Raw(messages[k][i])
  <2>1. \A k \in 1 .. n : raw[k] = [i \in 1 .. Len(messages[k]) |-> Raw(messages[k][i])]
    OBVIOUS
  <2>2. ASSUME NEW k \in 1 .. n
        PROVE  raw[k] \in Seq(C) /\ Len(raw[k]) = Len(messages[k])
    <3>1. \A i \in 1 .. Len(messages[k]) : Raw(messages[k][i]) \in C
      BY <1>2, SMTT(40) DEF Raw
    <3>2. raw[k] = [i \in 1 .. Len(messages[k]) |-> Raw(messages[k][i])]
      BY <2>1
    <3> HIDE DEF raw, C, n
    <3> QED
      BY <1>2, <3>1, <3>2
  <2>3. raw = [k \in 1 .. n |-> raw[k]]
    OBVIOUS
  <2>4. \A k \in 1 .. n : \A i \in 1 .. Len(messages[k]) : raw[k][i] = Raw(messages[k][i])
    BY <2>1
  <2> HIDE DEF raw, C, n
  <2>5. raw \in Seq(Seq(C)) /\ Len(raw) = n
    <3>1. n \in Nat /\ \A k \in 1 .. n : raw[k] \in Seq(C)
      BY <1>2, <2>2
    <3> QED
      BY <2>3, <3>1, SequenceFrom
  <2> QED
    BY <2>2, <2>4, <2>5
<1>11. HasItems(m, mem, used, at, raw, n)
  <2>1. at[Len(raw)] <= ArenaSize
    <3>1. at[n] <= hexAt[n] /\ hexAt[n] \in Nat
      BY <1>7, <1>9
    <3> HIDE DEF at, hexAt, raw, n
    <3> QED
      BY <1>5, <1>7, <1>8, <1>10, <3>1
  <2>2. Len(Sizes(messages)) = Len(raw)
        /\ \A k \in 1 .. Len(raw) : Sizes(messages)[k] = Len(raw[k])
    BY <1>3, <1>10
  <2> HIDE DEF at, raw, n, C
  <2> QED
    BY <1>4, <1>10, <2>1, <2>2, StoredIs DEF m
<1>12. /\ IsMemory(m)
       /\ \A a \in Memory : a < used => m[a] = mem[a]
       /\ \A k \in 1 .. n : \A i \in 1 .. Len(messages[k]) :
            m[at[k - 1] + i - 1] = Raw(messages[k][i])
  <2> HIDE DEF m, at, raw, n
  <2>1. \A k \in 1 .. n : \A i \in 1 .. Len(raw[k]) : m[at[k - 1] + i - 1] = raw[k][i]
    BY <1>11 DEF HasItems
  <2>2. ASSUME NEW k \in 1 .. n, NEW i \in 1 .. Len(messages[k])
        PROVE  m[at[k - 1] + i - 1] = Raw(messages[k][i])
    <3>1. i \in 1 .. Len(raw[k]) /\ raw[k][i] = Raw(messages[k][i])
      BY <1>10
    <3> QED
      BY <2>1, <3>1
  <2> QED
    BY <1>11, <2>2 DEF HasItems
<1>13. \A k \in 1 .. n : Parts(Kind)[k] \in Nat /\ Parts(Kind)[k] <= Len(messages[k])
  BY <1>2
<1>14. \A k \in 1 .. n : \A i \in 1 .. Parts(Kind)[k] : hex[k][i] = Hex(messages[k][i])
  <2> SUFFICES ASSUME NEW k \in 1 .. n, NEW i \in 1 .. Parts(Kind)[k]
               PROVE  hex[k][i] = Hex(messages[k][i])
    OBVIOUS
  <2>1. hex[k][i] = Hex(m[at[k - 1] + i - 1][2])
    OBVIOUS
  <2>2. i \in 1 .. Len(messages[k])
    BY <1>2, <1>13
  <2>3. m[at[k - 1] + i - 1] = Raw(messages[k][i])
    BY <1>12, <2>2
  <2> HIDE DEF hex, m, at, n
  <2>4. m[at[k - 1] + i - 1][2] = messages[k][i]
    BY <2>3 DEF Raw
  <2> QED
    BY <2>1, <2>4
<1>15. hex = [k \in 1 .. n |-> hex[k]]
       /\ \A k \in 1 .. n : hex[k] = [i \in 1 .. Parts(Kind)[k] |-> hex[k][i]]
  OBVIOUS
<1>16. hex \in Seq(Seq(C)) /\ Len(hex) = n /\ \A k \in 1 .. n : Len(hex[k]) = Parts(Kind)[k]
  <2>1. ASSUME NEW k \in 1 .. n
        PROVE  hex[k] \in Seq(C) /\ Len(hex[k]) = Parts(Kind)[k]
    <3>1. ASSUME NEW i \in 1 .. Parts(Kind)[k]
          PROVE  hex[k][i] \in C
      <4>1. i \in 1 .. Len(messages[k])
        BY <1>2, <1>13
      <4>2. messages[k][i] \in Nat
        BY <1>2, <4>1
      <4>3. Hex(messages[k][i]) \in C
        BY <4>2 DEF Hex
      <4> HIDE DEF hex, C
      <4> QED
        BY <1>14, <4>3
    <3> HIDE DEF hex, C, n
    <3> QED
      BY <1>13, <1>15, <3>1, SequenceFrom
  <2> HIDE DEF hex, C, n
  <2>2. n \in Nat /\ \A k \in 1 .. n : hex[k] \in Seq(C)
    BY <1>2, <2>1
  <2>3. hex \in Seq(Seq(C)) /\ Len(hex) = n
    BY <1>15, <2>2, SequenceFrom
  <2> QED
    BY <2>1, <2>3
<1>17. HasItems(mem', m, at[n], hexAt, hex, n)
  <2> HIDE DEF m, at, hexAt, hex, n, C
  <2>1. hexAt[Len(hex)] <= ArenaSize
    BY <1>7, <1>16
  <2>2. Len(Parts(Kind)) = Len(hex) /\ \A k \in 1 .. Len(hex) : Parts(Kind)[k] = Len(hex[k])
    BY <1>16 DEF n
  <2> QED
    BY <1>1, <1>5, <1>6, <1>12, <1>16, <2>1, <2>2, StoredIs
<1>18. /\ IsMemory(mem')
       /\ \A a \in Memory : a < at[n] => mem'[a] = m[a]
       /\ \A k \in 1 .. n : \A i \in 1 .. Parts(Kind)[k] :
            mem'[hexAt[k - 1] + i - 1] = Hex(messages[k][i])
  <2> HIDE DEF m, at, hexAt, hex, n
  <2>1. \A k \in 1 .. n : \A i \in 1 .. Len(hex[k]) : mem'[hexAt[k - 1] + i - 1] = hex[k][i]
    BY <1>17 DEF HasItems
  <2>2. \A k \in 1 .. n : \A i \in 1 .. Parts(Kind)[k] : mem'[hexAt[k - 1] + i - 1] = hex[k][i]
    BY <1>16, <2>1
  <2> QED
    BY <1>14, <1>17, <2>2, SMTT(40) DEF HasItems
<1> HIDE DEF m, at, hexAt, hex, raw, C
<1>19. DOMAIN mem' = Memory
  BY <1>18 DEF IsMemory
<1>20. used' \in 0 .. ArenaSize
  BY <1>1, <1>7, <1>8, <1>9
<1>21. \A k \in 0 .. n : hexAt[k] \in 0 .. ArenaSize
  BY <1>7, <1>8, <1>9
<1>22. Len(result') = n /\ result' \in Seq(0 .. ArenaSize)
       /\ \A k \in 1 .. n : result'[k] = hexAt[k - 1] /\ hexAt[k - 1] \in Nat
  <2> HIDE DEF n
  <2> QED
    BY <1>1, <1>2, <1>7, <1>9, <1>21
<1>23. ASSUME NEW k \in 1 .. n, NEW i \in 0 .. Parts(Kind)[k] - 1
       PROVE  mem'[result'[k] + i] = Hex(messages[k][i + 1])
  <2>1. i + 1 \in 1 .. Parts(Kind)[k] /\ hexAt[k - 1] + (i + 1) - 1 = hexAt[k - 1] + i
    BY <1>13, <1>22
  <2>2. mem'[hexAt[k - 1] + (i + 1) - 1] = Hex(messages[k][i + 1])
    BY <1>18, <2>1
  <2> QED
    BY <1>22, <2>1, <2>2
<1>24. ASSUME NEW a \in Memory, a < used
       PROVE  mem'[a] = mem[a]
  <2>1. a < at[n]
    BY <1>5, <1>24, SizeAssumption DEF Memory
  <2> QED
    BY <1>12, <1>18, <1>24, <2>1
<1> QED
  BY <1>18, <1>19, <1>20, <1>22, <1>23, <1>24


(* The memory after an answer. *)
LEMMA ReceiveIs ==
  ASSUME Inv, Receive
  PROVE  \E answer \in Seq(Seq(Nat)) :
           /\ answered' = Append(answered, answer)
           /\ IsMemory(mem') /\ DOMAIN mem' = Memory
           /\ used' \in 0 .. ArenaSize
           /\ result' \in Seq(Memory) /\ Len(result') = Len(Compared(Kind))
           /\ \A k \in 1 .. Len(Compared(Kind)) : \A i \in 0 .. Compared(Kind)[k] - 1 :
                mem'[result'[k] + i] = Hex(answer[k][i + 1])
           /\ \A a \in Memory : a >= Header /\ a < Behind => mem'[a] = mem[a]
<1>1. step = "receive" /\ Testing
  BY DEF Receive, Testing
<1>2. Reads(LastField) /\ Decodes(LastField)
  BY <1>1 DEF Inv, InFile, RecordRead
<1>3. /\ Kind \in Kinds /\ file \in Files(Kind) /\ LastField \in Nat /\ LastField >= 3
      /\ LastField >= 1 /\ LastField > 2
      /\ Behind \in Nat /\ Now = tally.tests + 1 /\ tally.tests \in Nat
  BY <1>1, FileInUse
<1>4. /\ Now \in 1 .. Len(file) /\ LastField \in 1 .. Len(file[Now])
      /\ Len(file[Now]) \in Nat
  BY <1>1, <1>2, <1>3, ReadsAre
<1>5. IsComplete(Kind, file[Now])
  <2>1. Len(file[Now]) \in 1 .. LastField
    BY <1>1, <1>4, RecordsAre
  <2>2. Len(file[Now]) = LastField
    BY <1>3, <1>4, <2>1
  <2> QED
    BY <1>1, <1>4, <2>2, RecordsAre
<1>6. asked[Len(asked)] = InputsOf(Kind, file[Now])
  <2>1. Len(asked) = Now /\ \A n \in 1 .. Len(asked) : asked[n] = InputsOf(Kind, file[n])
    BY <1>1 DEF Inv, InFile, Recorded
  <2>2. Now \in 1 .. Now
    BY <1>3
  <2> QED
    BY <2>1, <2>2
<1>7. PICK answer \in Answers(Kind, InputsOf(Kind, file[Now])) :
        /\ answered' = Append(answered, answer)
        /\ IF IsSmall(Kind) THEN ReceiveSmall(answer[1]) ELSE ReceiveLarge(answer)
  BY <1>6 DEF Receive
<1>8. IsAnswer(Kind, answer)
  BY <1>3, <1>4, <1>5, AnswersAssumption
<1>9. used = Behind + InputRoom(Kind, file[Now])
  <2>1. Held(LastField) = InputRoom(Kind, Record)
    BY <1>1, <1>3, <1>4, HeldFits
  <2> QED
    BY <1>2, <2>1 DEF Decodes, Record
<1>10. InputRoom(Kind, file[Now]) \in Nat
  BY <1>1, <1>3, <1>4, HeldFits DEF Record
<1>11. used \in Nat /\ Behind <= used
  BY <1>3, <1>9, <1>10
<1>12. TestEnd(Kind, used, answer) <= ArenaSize
  BY <1>3, <1>4, <1>5, <1>9, ArenaAssumption DEF Behind
<1>13. IsMemory(mem) /\ DOMAIN mem = Memory
  BY DEF Inv, TypeOK
<1>14. /\ ArenaSize \in Nat /\ SeedLen \in Nat /\ Header \in Nat /\ HashLen \in Nat /\ BlockLen \in Nat
       /\ PublicLen \in Nat /\ SecretLen \in Nat /\ PartLen \in Nat
       /\ Header > HashLen /\ Header > BlockLen
  BY SizeAssumption, HeaderAssumption
<1>15. \A m \in Nat : m \div 2 \in Nat /\ m \div 2 <= m
  OBVIOUS
<1>16. answer \in Seq(Seq(Nat))
  BY <1>8 DEF IsAnswer
<1>17. 0 .. ArenaSize \subseteq Memory
  BY <1>14 DEF Memory
<1>18. CASE IsSmall(Kind)
  <2> DEFINE text == answer[1]
  <2>1. Len(answer) = 1 /\ text \in Seq(Nat) /\ Len(text) \in Nat /\ Len(text) < Header
        /\ Len(Compared(Kind)) = 1 /\ Compared(Kind)[1] \in Nat /\ Compared(Kind)[1] <= Len(text)
    <3>1. CASE Kind = "SHA"
      <4>1. Len(answer) = 1 /\ Len(text) = HashLen
        BY <1>8, <3>1 DEF IsAnswer
      <4>2. text \in Seq(Nat)
        <5>1. 1 \in 1 .. Len(answer)
          BY <4>1
        <5> QED
          BY <1>16, <5>1
      <4>3. Compared(Kind) = <<HashLen>>
        BY <3>1 DEF Compared
      <4> HIDE DEF text
      <4> QED
        BY <1>14, <4>1, <4>2, <4>3
    <3>2. CASE Kind = "AES"
      <4>1. Len(answer) = 1 /\ Len(text) = BlockLen
        BY <1>8, <3>2 DEF IsAnswer
      <4>2. text \in Seq(Nat)
        <5>1. 1 \in 1 .. Len(answer)
          BY <4>1
        <5> QED
          BY <1>16, <5>1
      <4>3. Compared(Kind) = <<BlockLen \div 2>>
        BY <3>2 DEF Compared
      <4>4. BlockLen \div 2 \in Nat /\ BlockLen \div 2 <= BlockLen
        BY <1>14, <1>15
      <4> HIDE DEF text
      <4> QED
        BY <1>14, <4>1, <4>2, <4>3, <4>4
    <3> QED
      BY <1>18, <3>1, <3>2 DEF IsSmall
  <2>2. used + Aligned(Len(text) + 1) <= ArenaSize
    BY <1>12, <1>18 DEF TestEnd
  <2>3. ReceiveSmall(text)
    BY <1>7, <1>18
  <2> HIDE DEF text
  <2>4. /\ IsMemory(mem') /\ DOMAIN mem' = Memory
        /\ used' = used + Aligned(Len(text) + 1) /\ used' \in Nat
        /\ result' = <<0>>
        /\ \A i \in 0 .. Len(text) - 1 : mem'[i] = Hex(text[i + 1])
        /\ \A a \in Memory : a > Len(text) => mem'[a] = mem[a]
    BY <1>11, <1>13, <2>1, <2>2, <2>3, SmallReceived
  <2>5. used' \in 0 .. ArenaSize
    BY <1>14, <2>2, <2>4
  <2>6. 0 \in Memory
    BY <1>14 DEF Memory
  <2>7. result' \in Seq(Memory) /\ Len(result') = 1 /\ result'[1] = 0
    BY <2>4, <2>6
  <2>8. \A i \in 0 .. Compared(Kind)[1] - 1 : i \in 0 .. Len(text) - 1 /\ 0 + i = i
    BY <2>1
  <2>9. \A i \in 0 .. Compared(Kind)[1] - 1 : mem'[result'[1] + i] = Hex(text[i + 1])
    BY <2>4, <2>7, <2>8
  <2>10. \A k \in 1 .. Len(Compared(Kind)) : k = 1
    BY <2>1
  <2>11. \A k \in 1 .. Len(Compared(Kind)) : \A i \in 0 .. Compared(Kind)[k] - 1 :
           mem'[result'[k] + i] = Hex(answer[k][i + 1])
    BY <2>9, <2>10 DEF text
  <2>12. \A a \in Memory : a >= Header /\ a < Behind => mem'[a] = mem[a]
    <3>1. \A a \in Memory : a >= Header => a > Len(text)
      BY <1>14, <2>1 DEF Memory
    <3> QED
      BY <2>4, <3>1
  <2> QED
    BY <1>7, <1>16, <2>1, <2>4, <2>5, <2>7, <2>11, <2>12
<1>19. CASE ~IsSmall(Kind)
  <2>1. Kind \in {"MCE", "SHORT"}
    BY <1>3, <1>19 DEF Kinds, IsSmall
  <2>2. Len(answer) = Len(Parts(Kind)) /\ \A k \in 1 .. Len(answer) : Len(answer[k]) >= Parts(Kind)[k]
    BY <1>8, <2>1 DEF IsAnswer
  <2>3. Parts(Kind) \in Seq(Nat)
    BY <1>14 DEF Parts
  <2>4. Len(Compared(Kind)) = Len(Parts(Kind))
        /\ \A k \in 1 .. Len(Parts(Kind)) : Compared(Kind)[k] \in Nat
                                            /\ Compared(Kind)[k] <= Parts(Kind)[k]
    <3>1. CASE Kind = "MCE"
      <4>1. Compared(Kind) = <<PublicLen \div 2, SecretLen \div 2>> /\ Parts(Kind) = <<PublicLen, SecretLen>>
        BY <3>1 DEF Compared, Parts
      <4>2. PublicLen \div 2 \in Nat /\ PublicLen \div 2 <= PublicLen
            /\ SecretLen \div 2 \in Nat /\ SecretLen \div 2 <= SecretLen
        BY <1>14, <1>15
      <4> QED
        BY <4>1, <4>2
    <3>2. CASE Kind = "SHORT"
      <4>1. Compared(Kind) = Parts(Kind)
        BY <3>2 DEF Compared
      <4>2. \A k \in 1 .. Len(Parts(Kind)) : Parts(Kind)[k] \in Nat
        BY <2>3
      <4>3. \A m \in Nat : m <= m
        OBVIOUS
      <4> QED
        BY <4>1, <4>2, <4>3
    <3> QED
      BY <2>1, <3>1, <3>2
  <2>5. Addresses(Addresses(used, Sizes(answer))[Len(answer)], Parts(Kind))[Len(answer)]
          <= ArenaSize
    BY <1>12, <1>19 DEF TestEnd
  <2>6. ReceiveLarge(answer)
    BY <1>7, <1>19
  <2>7. /\ IsMemory(mem') /\ DOMAIN mem' = Memory
        /\ used' \in 0 .. ArenaSize
        /\ Len(result') = Len(answer) /\ result' \in Seq(0 .. ArenaSize)
        /\ \A k \in 1 .. Len(answer) : \A i \in 0 .. Parts(Kind)[k] - 1 :
             mem'[result'[k] + i] = Hex(answer[k][i + 1])
        /\ \A a \in Memory : a < used => mem'[a] = mem[a]
    BY <1>11, <1>13, <1>16, <2>2, <2>3, <2>5, <2>6, LargeReceived
  <2>8. result' \in Seq(Memory)
    <3> DEFINE r == result'
               D == 0 .. ArenaSize
    <3>1. r \in Seq(D)
      BY <2>7
    <3> HIDE DEF r, D
    <3>2. r = [k \in 1 .. Len(r) |-> r[k]] /\ Len(r) \in Nat /\ \A k \in 1 .. Len(r) : r[k] \in D
      BY <3>1
    <3>3. \A k \in 1 .. Len(r) : r[k] \in Memory
      BY <1>17, <3>2 DEF D
    <3>4. r \in Seq(Memory)
      BY <3>2, <3>3, SequenceFrom
    <3> QED
      BY <3>4 DEF r
  <2>9. ASSUME NEW k \in 1 .. Len(Compared(Kind)), NEW i \in 0 .. Compared(Kind)[k] - 1
        PROVE  mem'[result'[k] + i] = Hex(answer[k][i + 1])
    <3>1. k \in 1 .. Len(answer) /\ k \in 1 .. Len(Parts(Kind))
      BY <2>2, <2>4
    <3>2. Compared(Kind)[k] \in Nat /\ Compared(Kind)[k] <= Parts(Kind)[k]
          /\ Parts(Kind)[k] \in Nat
      BY <2>3, <2>4, <3>1
    <3>3. i \in 0 .. Parts(Kind)[k] - 1
      BY <3>2
    <3> QED
      BY <2>7, <3>1, <3>3
  <2>10. \A a \in Memory : a < Behind => a < used
    BY <1>3, <1>11, <1>14 DEF Memory
  <2>11. \A a \in Memory : a >= Header /\ a < Behind => mem'[a] = mem[a]
    BY <2>7, <2>10
  <2> QED
    BY <1>7, <1>16, <2>2, <2>4, <2>7, <2>8, <2>9, <2>11
<1> QED
  BY <1>18, <1>19

LEMMA ReceiveInv ==
  ASSUME Inv, Receive
  PROVE  Inv'
<1>1. step = "receive" /\ Testing /\ step' = "judge"
  BY DEF Receive, Testing
<1>2. linux' = linux /\ turn' = turn /\ file' = file /\ Kind' = Kind
  BY SameFile DEF Receive
<1>3. UNCHANGED <<fileVars, mark, testMark, parserVars, tally, tallies, asked, base, routed>>
  BY DEF Receive
<1>4. PICK answer \in Seq(Seq(Nat)) :
        /\ answered' = Append(answered, answer)
        /\ IsMemory(mem') /\ DOMAIN mem' = Memory
        /\ used' \in 0 .. ArenaSize
        /\ result' \in Seq(Memory) /\ Len(result') = Len(Compared(Kind))
        /\ \A k \in 1 .. Len(Compared(Kind)) : \A i \in 0 .. Compared(Kind)[k] - 1 :
             mem'[result'[k] + i] = Hex(answer[k][i + 1])
        /\ \A a \in Memory : a >= Header /\ a < Behind => mem'[a] = mem[a]
  BY ReceiveIs
<1>5. /\ tally.tests \in Nat /\ Now = tally.tests + 1
      /\ Len(Text(Kind, file)) \in Nat /\ Header <= Len(Text(Kind, file))
      /\ Behind \in Nat /\ Len(Text(Kind, file)) < Behind /\ Behind <= ArenaSize
  BY <1>1, FileInUse
<1>6. /\ asked \in Seq(Seq(Seq(Nat))) /\ answered \in Seq(Seq(Seq(Nat)))
      /\ Len(asked) = Now /\ Len(answered) = tally.tests
      /\ \A n \in 1 .. Len(asked) : asked[n] = InputsOf(Kind, file[n])
  BY <1>1 DEF Inv, InFile, Recorded
<1>7. /\ answered' \in Seq(Seq(Seq(Nat))) /\ Len(answered') = Now
      /\ answered'[Now] = answer
      /\ \A n \in 1 .. tally.tests : answered'[n] = answered[n]
  BY <1>4, <1>5, <1>6
<1>8. TypeOK'
  <2>1. {used', mark', testMark', content'} \subseteq 0 .. ArenaSize
    BY <1>3, <1>4 DEF Inv, TypeOK, parserVars
  <2> QED
    BY <1>1, <1>2, <1>3, <1>4, <2>1 DEF Inv, TypeOK, parserVars
<1>9. Connection'
  BY <1>3, NothingSent DEF Inv
<1>10. file' \in Files(Kind') /\ content' = 0 /\ mark' = 0
  BY <1>1, <1>2, <1>3 DEF Inv, InFile, parserVars
<1>11. TextHeld'
  <2> DEFINE L == Len(Text(Kind, file))
  <2>1. L \in Nat /\ Header <= L /\ L < Behind /\ Behind \in Nat /\ Behind <= ArenaSize
        /\ ArenaSize \in Nat /\ SeedLen \in Nat /\ Header \in Nat
    BY <1>5, SizeAssumption
  <2>2. TextHeld
    BY <1>1 DEF Inv, InFile
  <2>3. answered' # <<>>
    BY <1>5, <1>7
  <2>4. \A a \in 0 .. L : a \in 0 .. ArenaSize + SeedLen /\ a < Behind
    BY <2>1
  <2>5. \A a \in 0 .. L : a >= Header => mem'[a] = mem[a]
    BY <1>4, <2>4 DEF Memory
  <2>6. L \in 0 .. L /\ \A a \in 0 .. L - 1 : a \in 0 .. L
    BY <2>1
  <2>7. mem'[L] = mem[L]
    BY <2>1, <2>5, <2>6
  <2>8. \A a \in 0 .. L - 1 : a >= Header => mem'[a] = mem[a]
    BY <2>5, <2>6
  <2>9. mem'[L] = End
    BY <2>2, <2>7 DEF TextHeld
  <2>10. \A a \in 0 .. L - 1 : a >= Header => mem'[a] = Text(Kind, file)[a + 1]
    BY <2>2, <2>8 DEF TextHeld
  <2> QED
    BY <1>2, <2>3, <2>9, <2>10 DEF TextHeld
<1>12. Counted'
  <2>1. Passed(Kind, file, answered', tally.tests) = Passed(Kind, file, answered, tally.tests)
    BY <1>7 DEF Passed
  <2> QED
    BY <1>1, <1>2, <1>3, <2>1 DEF Inv, InFile, Counted
<1>13. Recorded'
  <2>1. Now' = Now
    BY <1>3 DEF Now
  <2> QED
    BY <1>1, <1>2, <1>3, <1>6, <1>7, <2>1 DEF Recorded
<1>14. BetweenRecords' /\ WithinRecord' /\ RecordRead' /\ Reported'
  BY <1>1 DEF BetweenRecords, WithinRecord, RecordRead, Reported
<1>15. Received'
  <2>1. field = 1 /\ Reads(LastField)
    BY <1>1 DEF Inv, InFile, RecordRead
  <2>2. Reads(LastField)'
    BY <1>3, <2>1, SameReads
  <2>3. Now' = Now /\ field' = 1
    BY <1>3, <2>1 DEF Now, parserVars
  <2>4. \A k \in 1 .. Len(Compared(Kind)) : \A i \in 0 .. Compared(Kind)[k] - 1 :
          mem'[result'[k] + i] = Hex(answered'[Now][k][i + 1])
    BY <1>4, <1>7
  <2> QED
    BY <1>2, <1>4, <2>2, <2>3, <2>4 DEF Received
<1>16. InFile'
  BY <1>10, <1>11, <1>12, <1>13, <1>14, <1>15 DEF InFile
<1> QED
  BY <1>1, <1>4, <1>8, <1>9, <1>16 DEF Inv


---------------------------------------------------------------------------------
(* Theorems *)

LEMMA InvariantStep ==
  ASSUME Inv, [Next]_vars
  PROVE  Inv'
<1>1. CASE Next
  BY <1>1, PushFileInv, NotFoundInv, FindInv, SendInv, ReceiveInv, JudgeInv, ReportInv,
     FinishInv, StutterInv DEF Next, Ended
<1>2. CASE UNCHANGED vars
  BY <1>2, StutterInv
<1> QED
  BY <1>1, <1>2

(* Where the parser is in the text, what it has decoded and what the arena  *)
(* holds follows from the file and the number of tests, at every point of   *)
(* VersatCommonSHATests and its siblings.                                  *)
THEOREM TestVectorsInvariant == Spec => []Inv
<1>1. Init => Inv
  BY InitInv
<1>2. Inv /\ [Next]_vars => Inv'
  BY InvariantStep
<1> QED
  BY <1>1, <1>2, PTL DEF Spec

(* No test takes more than the arena has: what is in use, and every address *)
(* used, stays in the memory (PushBytes, PopArena).                        *)
THEOREM TypeCorrect == Spec => []TypeOK
<1>1. Inv => TypeOK
  BY DEF Inv
<1> QED
  BY <1>1, TestVectorsInvariant, PTL

(* The text that is still to be read is never overwritten by what is         *)
(* decoded from it or received.                                            *)
THEOREM TheTextIsIntact == Spec => []TextAheadIsIntact
<1>1. Inv => TextAheadIsIntact
  <2> SUFFICES ASSUME Inv, Testing, file # <<>>,
                      NEW i \in 1 .. Len(Text(Kind, file)),
                      content + i - 1 >= (IF step = "judge" THEN expected[1] ELSE cursor)
               PROVE  mem[content + i - 1] = Text(Kind, file)[i]
    BY DEF TextAheadIsIntact
  <2>1. content = 0 /\ TextHeld
    BY DEF Inv, InFile
  <2>2. Len(Text(Kind, file)) \in Nat /\ Header \in Nat
    BY FileInUse, SizeAssumption
  <2>3. content + i - 1 = i - 1 /\ i - 1 \in 0 .. Len(Text(Kind, file)) - 1 /\ (i - 1) + 1 = i
    BY <2>1, <2>2
  <2>4. answered = <<>> \/ i - 1 >= Header
    <3>1. CASE step # "judge"
      <4>1. cursor \in Nat /\ (answered = <<>> \/ cursor >= Header)
        BY CursorIs
      <4>2. i - 1 >= cursor
        BY <2>3, <3>1
      <4> QED
        BY <2>2, <2>3, <4>1, <4>2
    <3>2. CASE step = "judge"
      <4>1. Reads(LastField)
        BY <3>2 DEF Inv, InFile, Received
      <4>2. /\ LastField \in Nat /\ LastField >= InputCount(Kind) + 2 /\ LastField >= 1
            /\ Kind \in Kinds
        BY FileInUse
      <4>3. Now \in 1 .. Len(file) /\ LastField \in 1 .. Len(file[Now]) /\ Len(file[Now]) \in Nat
        BY <4>1, <4>2, ReadsAre
      <4>4. InputCount(Kind) \in {1, 2}
        BY DEF InputCount
      <4>5. 1 \in 1 .. ExpectedFound(LastField)
        BY <4>2, <4>4 DEF ExpectedFound
      <4>6. expected[1] = At(Now, InputCount(Kind) + 1 + 1)
        BY <4>1, <4>5 DEF Reads
      <4>7. InputCount(Kind) + 1 + 1 \in 1 .. Len(file[Now])
        BY <4>2, <4>3, <4>4
      <4>8. At(Now, InputCount(Kind) + 1 + 1) \in Nat /\ Header < At(Now, InputCount(Kind) + 1 + 1)
        BY <4>3, <4>7, BehindLabel
      <4>9. i - 1 >= expected[1]
        BY <2>3, <3>2
      <4> QED
        BY <2>2, <2>3, <4>6, <4>8, <4>9
    <3> QED
      BY <3>1, <3>2
  <2>5. mem[i - 1] = Text(Kind, file)[(i - 1) + 1]
    BY <2>1, <2>3, <2>4 DEF TextHeld
  <2> QED
    BY <2>3, <2>5
<1> QED
  BY <1>1, TestVectorsInvariant, PTL

(* Each test sends the messages of its record, decoded from the text.       *)
THEOREM TheInputsAreTheRecords == Spec => []InputsAreTheRecords
<1>1. Inv => InputsAreTheRecords
  BY DEF Inv, InFile, Recorded, InputsAreTheRecords
<1> QED
  BY <1>1, TestVectorsInvariant, PTL

(* The number of the tests, that of the good ones and the early exit follow *)
(* from the records of the file and the answers.                           *)
THEOREM TheTallyIsOfTheFile == Spec => []TallyIsOfTheFile
<1>1. Inv => TallyIsOfTheFile
  <2> SUFFICES ASSUME Inv, step = "report"
               PROVE  TallyIsOfTheFile
    BY DEF TallyIsOfTheFile
  <2> DEFINE complete == {n \in 1 .. Len(file) : IsComplete(Kind, file[n])}
             due == IF Kind = "MCE" /\ Cardinality(complete) > 2 THEN 1 .. 2 ELSE complete
             t == tally.tests
  <2>1. Testing
    BY DEF Testing
  <2>2. /\ t \in Nat /\ Now = t + 1 /\ t <= Len(file) /\ Len(file) \in Nat
    BY <2>1, FileInUse
  <2>3. /\ Kind = "MCE" => t <= 2
        /\ \A n \in 1 .. t : IsComplete(Kind, file[n])
        /\ tally.good = Cardinality(Passed(Kind, file, answered, t))
    BY <2>1 DEF Inv, InFile, Counted
  <2>4. IF tally.early
          THEN Now = Len(file) /\ ~IsComplete(Kind, file[Now]) /\ ~Enough(Kind, t)
          ELSE t = Len(file) \/ Enough(Kind, t)
    BY <2>1 DEF Inv, InFile, Reported
  <2>5. Cardinality(1 .. t) = t
    <3> HIDE DEF t
    <3>1. Cardinality(1 .. t) = IF 1 > t THEN 0 ELSE t - 1 + 1
      BY <2>2, FS_Interval
    <3> QED
      BY <2>2, <3>1
  <2>6. 1 .. t \subseteq complete
    BY <2>2, <2>3
  <2>7. IsFiniteSet(complete)
    <3>1. IsFiniteSet(1 .. Len(file))
      BY <2>2, FS_Interval
    <3>2. complete \subseteq 1 .. Len(file)
      OBVIOUS
    <3> QED
      BY <3>1, <3>2, FS_Subset
  <2>8. CASE ~Enough(Kind, t)
    <3>1. complete = 1 .. t
      <4>1. CASE tally.early
        <5>1. Len(file) = t + 1 /\ ~IsComplete(Kind, file[t + 1])
          BY <2>2, <2>4, <4>1
        <5>2. ASSUME NEW n \in 1 .. Len(file), IsComplete(Kind, file[n])
              PROVE  n \in 1 .. t
          BY <2>2, <5>1, <5>2
        <5> QED
          BY <2>6, <5>2
      <4>2. CASE ~tally.early
        <5>1. t = Len(file)
          BY <2>4, <2>8, <4>2
        <5> QED
          BY <2>3, <5>1
      <4> QED
        BY <4>1, <4>2
    <3>2. due = 1 .. t
      <4>1. CASE Kind = "MCE"
        <5>1. t < 2
          BY <2>2, <2>8, <4>1 DEF Enough
        <5> HIDE DEF complete, t
        <5>a. Cardinality(complete) = t
          BY <2>5, <3>1
        <5>2. ~(Cardinality(complete) > 2)
          BY <2>2, <5>1, <5>a
        <5> QED
          BY <3>1, <5>2
      <4>2. CASE Kind # "MCE"
        BY <3>1, <4>2
      <4> QED
        BY <4>1, <4>2
    <3>3. tally.early <=> complete # 1 .. Len(file)
      <4>1. CASE tally.early
        <5>1. Len(file) = t + 1
          BY <2>2, <2>4, <4>1
        <5>2. Len(file) \in 1 .. Len(file) /\ Len(file) \notin 1 .. t
          BY <2>2, <5>1
        <5> QED
          BY <3>1, <4>1, <5>2
      <4>2. CASE ~tally.early
        <5>1. t = Len(file)
          BY <2>4, <2>8, <4>2
        <5> QED
          BY <3>1, <4>2, <5>1
      <4> QED
        BY <4>1, <4>2
    <3>4. {n \in due : PassesWith(file[n], answered[n])} = Passed(Kind, file, answered, t)
      BY <3>2 DEF Passed, Passes, PassesWith, ExpectedOf
    <3> HIDE DEF due, complete, t
    <3>5. /\ tally.tests = Cardinality(due)
          /\ tally.good = Cardinality({n \in due : PassesWith(file[n], answered[n])})
          /\ tally.early <=> complete # 1 .. Len(file) /\ ~Enough(Kind, tally.tests)
      BY <2>3, <2>5, <2>8, <3>2, <3>3, <3>4 DEF t
    <3> QED
      BY <3>5 DEF TallyIsOfTheFile, due, complete
  <2>9. CASE Enough(Kind, t)
    <3>1. Kind = "MCE" /\ t = 2 /\ ~tally.early
      BY <2>2, <2>3, <2>4, <2>9 DEF Enough
    <3>2. due = 1 .. t
      <4>1. CASE Cardinality(complete) > 2
        BY <3>1, <4>1
      <4>2. CASE ~(Cardinality(complete) > 2)
        <5>1. Cardinality(complete) \in Nat
          BY <2>7, FS_CardinalityType
        <5>2. Cardinality(1 .. t) <= Cardinality(complete)
              /\ (Cardinality(1 .. t) = Cardinality(complete) => 1 .. t = complete)
          BY <2>6, <2>7, FS_Subset
        <5>3. Cardinality(1 .. t) = Cardinality(complete)
          BY <2>5, <3>1, <4>2, <5>1, <5>2
        <5> QED
          BY <4>2, <5>2, <5>3
      <4> QED
        BY <4>1, <4>2
    <3>3. {n \in due : PassesWith(file[n], answered[n])} = Passed(Kind, file, answered, t)
      BY <3>2 DEF Passed, Passes, PassesWith, ExpectedOf
    <3> HIDE DEF due, complete, t
    <3>4. /\ tally.tests = Cardinality(due)
          /\ tally.good = Cardinality({n \in due : PassesWith(file[n], answered[n])})
          /\ tally.early <=> complete # 1 .. Len(file) /\ ~Enough(Kind, tally.tests)
      BY <2>3, <2>5, <2>9, <3>1, <3>2, <3>3 DEF t
    <3> QED
      BY <3>4 DEF TallyIsOfTheFile, due, complete
  <2> QED
    BY <2>8, <2>9
<1> QED
  BY <1>1, TestVectorsInvariant, PTL

(* Every byte goes to the UART it is meant for, although one library serves *)
(* both on bare metal.                                                     *)
THEOREM TheBytesGoToTheirLine == Spec => []BytesGoToTheirLine
<1>1. Inv => BytesGoToTheirLine
  BY DEF Inv, Connection
<1> QED
  BY <1>1, TestVectorsInvariant, PTL
=================================================================================
