-------------------------- MODULE WovenCallsProofs --------------------------
(***************************************************************************)
(* What the listeners of a woven method are passed, and in which order     *)
(* they are called, for methods of any size: HooksInv is inductive.        *)
(***************************************************************************)
EXTENDS InstrumentationProofs

----------------------------------------------------------------------------
(* A piece in front of the instruction list.                               *)

\* d is s and then c, of which the first b instructions matter.
Prepended(c, s, d, b) ==
    LET N == Len(s) IN
    /\ N \in Nat /\ DOMAIN s = 1..N
    /\ \A j \in 1..N : j \in 1..(b + N - 1) /\ d[j] = s[j]
    /\ \A j \in 1..(b - 1) : j + N \in 1..(b + N - 1) /\ d[j + N] = c[j] /\ j \in Nat
    /\ \A h \in 1..(b + N - 1) : \/ h \in 1..N /\ d[h] = s[h]
                                 \/ \E j \in 1..(b - 1) : h = j + N /\ d[h] = c[j]

LEMMA PrependedFrom ==
    ASSUME NEW c, NEW s, NEW d, Inserted(c, 0, s, d), NEW b \in Nat, b # 0, b <= Len(c)
    PROVE  Prepended(c, s, d, b)
<1>1. /\ Len(c) \in Nat /\ Len(s) \in Nat /\ DOMAIN s = 1..Len(s)
  BY InsertedFrom
<1>2. /\ \A j \in 1..Len(s) : d[j + 0] = s[j]
      /\ \A j \in (0 + 1)..Len(c) : d[j + Len(s)] = c[j]
  BY DEF Inserted
<1> DEFINE L == Len(c)
           N == Len(s)
<1> HIDE DEF L, N
<1>3. \A j \in 1..N : d[j] = s[j] /\ j \in 1..(b + N - 1)
  BY <1>1, <1>2 DEF N
<1>4. \A j \in 1..(b - 1) : j + N \in 1..(b + N - 1) /\ d[j + N] = c[j] /\ j \in Nat
  BY <1>1, <1>2 DEF L, N
<1>5. ASSUME NEW h \in 1..(b + N - 1)
      PROVE  \/ h \in 1..N /\ d[h] = s[h]
             \/ \E j \in 1..(b - 1) : h = j + N /\ d[h] = c[j]
  <2>1. CASE h <= N
    BY <1>1, <1>3, <2>1
  <2>2. CASE ~ (h <= N)
    <3>1. h - N \in 1..(b - 1) /\ (h - N) + N = h
      BY <1>1, <2>2 DEF N
    <3> QED BY <1>4, <3>1
  <2> QED BY <2>1, <2>2
<1> QED BY <1>1, <1>3, <1>4, <1>5 DEF N, Prepended

\* The arguments come through the piece to where they arrived before; where
\* the piece begins with code that moves nothing they stay.
PlacesFollow(m, c, s, d, r, q, b) ==
    /\ \A j \in 1..b : Places(m, d, q, b + Len(s))[j + Len(s)] = Places(m, c, r, b)[j]
    /\ \A n \in 0..Len(s) : (\A j \in 1..n : s[j].op # "move") =>
           \A j \in 1..(n + 1) : Places(m, d, q, b + Len(s))[j] = Block(m, q - Ins(m))

LEMMA PlacesPrepended ==
    ASSUME NEW m, NEW c, NEW s, NEW d, NEW r, NEW q, NEW b \in Nat, b # 0, b <= Len(c),
           Inserted(c, 0, s, d), Carries(m, s, q - Ins(m), r - Ins(m))
    PROVE  PlacesFollow(m, c, s, d, r, q, b)
<1>0. /\ Len(c) \in Nat /\ Len(s) \in Nat
      /\ \A j \in 1..Len(s) : d[j] = s[j]
      /\ \A j \in 1..Len(c) : d[j + Len(s)] = c[j]
  <2>1. Len(c) \in Nat /\ Len(s) \in Nat
    BY InsertedFrom
  <2>2. /\ \A j \in 1..Len(s) : d[j + 0] = s[j]
        /\ \A j \in (0 + 1)..Len(c) : d[j + Len(s)] = c[j]
    BY DEF Inserted
  <2>3. \A j \in 1..Len(s) : j + 0 = j
    BY <2>1
  <2> QED BY <2>1, <2>2, <2>3
<1> DEFINE N == Len(s)
           B == b + N
           p == Places(m, c, r, b)
           P == Places(m, d, q, B)
<1>1. /\ Len(c) \in Nat /\ N \in Nat
      /\ \A j \in 1..N : d[j] = s[j]
      /\ \A j \in 1..Len(c) : d[j + N] = c[j]
  BY <1>0
<1>2. Chain(m, c, r, b, p)
  BY PlacesChain
<1>3. PICK x : /\ x[1] = Block(m, q - Ins(m)) /\ x[N + 1] = Block(m, r - Ins(m))
               /\ \A j \in 1..N : x[j + 1] = Moved(s[j], x[j])
  BY DEF Carries
<1>4. B \in Nat /\ B # 0
  BY <1>1
<1>5. Chain(m, d, q, B, P)
  BY <1>4, PlacesChain
<1> HIDE DEF N, p, P
<1> DEFINE y == [j \in 1..B |-> IF j <= N THEN x[j] ELSE p[j - N]]
<1>6. y[1] = Block(m, q - Ins(m))
  <2>1. 1 \in 1..B /\ (N = 0 => 1 - N = 1)
    BY <1>1
  <2>2. N = 0 => y[1] = p[1]
    BY <1>1, <2>1
  <2>3. N # 0 => y[1] = x[1]
    BY <1>1, <2>1
  <2>4. p[1] = Block(m, r - Ins(m))
    BY <1>2 DEF Chain
  <2> QED BY <1>1, <1>3, <2>2, <2>3, <2>4
<1>7. ASSUME NEW j \in 1..(B - 1)
      PROVE  y[j + 1] = Moved(d[j], y[j])
  <2>0. j \in 1..B /\ j + 1 \in 1..B /\ j \in Nat
    BY <1>1
  <2>1. CASE j <= N
    <3>1. j \in 1..N /\ y[j] = x[j] /\ d[j] = s[j]
      BY <1>1, <2>0, <2>1
    <3>2. y[j + 1] = x[j + 1]
      <4>1. CASE j = N
        <5>1. ~ (j + 1 <= N) /\ (j + 1) - N = 1
          BY <1>1, <4>1
        <5>2. y[j + 1] = p[1]
          BY <2>0, <5>1
        <5>3. p[1] = Block(m, r - Ins(m))
          BY <1>2 DEF Chain
        <5> QED BY <1>3, <4>1, <5>2, <5>3
      <4>2. CASE j < N
        <5>1. j + 1 <= N
          BY <1>1, <4>2
        <5> QED BY <2>0, <5>1
      <4> QED BY <1>1, <2>1, <4>1, <4>2
    <3> HIDE DEF y
    <3> QED BY <1>3, <3>1, <3>2
  <2>2. CASE ~ (j <= N)
    <3> DEFINE k == j - N
    <3>1. k \in 1..(b - 1) /\ k \in 1..Len(c) /\ j = k + N
      BY <1>1, <2>2
    <3>2. d[j] = c[k]
      BY <1>1, <3>1
    <3>3. y[j] = p[k]
      BY <2>0, <2>2
    <3>4. y[j + 1] = p[k + 1]
      <4>1. ~ (j + 1 <= N) /\ (j + 1) - N = k + 1
        BY <1>1, <2>2
      <4> QED BY <2>0, <4>1
    <3>5. p[k + 1] = Moved(c[k], p[k])
      BY <1>2, <3>1 DEF Chain
    <3> HIDE DEF k, y
    <3> QED BY <3>2, <3>3, <3>4, <3>5
  <2> QED BY <2>1, <2>2
<1>8. \A j \in 1..B : P[j] = y[j]
  <2> HIDE DEF y, B
  <2>1. Chain(m, d, q, B, y)
    BY <1>6, <1>7 DEF Chain
  <2> QED BY <1>4, <1>5, <2>1, ChainUnique
<1>9. ASSUME NEW j \in 1..b
      PROVE  P[j + N] = p[j]
  <2>1. j + N \in 1..B /\ ~ (j + N <= N) /\ (j + N) - N = j
    BY <1>1
  <2>2. y[j + N] = p[j]
    BY <2>1
  <2> HIDE DEF y
  <2> QED BY <1>8, <2>1, <2>2
<1> HIDE DEF y
<1>10. ASSUME NEW n \in 0..N, \A j \in 1..n : s[j].op # "move"
       PROVE  \A j \in 1..(n + 1) : P[j] = Block(m, q - Ins(m))
  <2> DEFINE T == {j \in 1..(n + 1) : P[j] # Block(m, q - Ins(m))}
  <2> SUFFICES ASSUME T # {}
               PROVE  FALSE
    OBVIOUS
  <2>1. T \in SUBSET Nat
    OBVIOUS
  <2>2. PICK j \in T : \A k \in T : j <= k
    <3> HIDE DEF T
    <3> QED BY <2>1, Least
  <2>3. j \in 1..(n + 1) /\ P[j] # Block(m, q - Ins(m))
    BY <2>2
  <2>4. j # 1
    BY <1>5, <2>3 DEF Chain
  <2>5. /\ j - 1 \in 1..(n + 1) /\ ~ (j <= j - 1) /\ j - 1 \in 1..n /\ j - 1 \in 1..N
        /\ j - 1 \in 1..(B - 1) /\ (j - 1) + 1 = j
    BY <1>1, <2>3, <2>4
  <2>6. P[j - 1] = Block(m, q - Ins(m))
    BY <2>2, <2>5
  <2>7. P[j] = Moved(d[j - 1], P[j - 1])
    <3> HIDE DEF B
    <3> QED BY <1>5, <2>5 DEF Chain
  <2>8. d[j - 1].op # "move"
    BY <1>1, <1>10, <2>5
  <2>9. Moved(d[j - 1], Block(m, q - Ins(m))) = Block(m, q - Ins(m))
    BY <2>8 DEF Moved, Block
  <2> QED BY <2>3, <2>6, <2>7, <2>9
<1> QED BY <1>9, <1>10 DEF N, p, P, PlacesFollow

\* What is inserted behind the method's own code does not move them.
LEMMA PlacesBefore ==
    ASSUME NEW m, NEW c, NEW i, NEW s, NEW d, NEW r, NEW b \in Nat, b # 0, b <= i,
           Inserted(c, i, s, d)
    PROVE  /\ \A j \in 1..b : Places(m, d, r, b)[j] = Places(m, c, r, b)[j]
           /\ \A j \in 1..b : d[j] = c[j]
<1>1. i \in Nat /\ \A j \in 1..i : d[j] = c[j]
  BY InsertedFrom DEF Inserted
<1>2. \A j \in 1..b : d[j] = c[j]
  BY <1>1
<1>3. \A j \in 1..(b - 1) : j \in 1..b
  OBVIOUS
<1>4. Chain(m, c, r, b, Places(m, c, r, b)) /\ Chain(m, d, r, b, Places(m, d, r, b))
  BY PlacesChain
<1>5. Chain(m, d, r, b, Places(m, c, r, b))
  BY <1>2, <1>3, <1>4 DEF Chain
<1> QED BY <1>2, <1>4, <1>5, ChainUnique

----------------------------------------------------------------------------
(* What is prepared, in a piece and in the instruction list.               *)

\* Instruction j of c, with the two before it, is instruction h of d.
Follows(c, j, d, h) ==
    /\ d[h] = c[j]
    /\ j > 1 => h > 1 /\ d[h - 1] = c[j - 1]
    /\ j > 2 => h > 2 /\ d[h - 2] = c[j - 2]

LEMMA PreparedElsewhere ==
    ASSUME NEW m, NEW c, NEW j \in Nat, NEW d, NEW h, NEW p, Follows(c, j, d, h)
    PROVE  /\ Prepared(m, c, j, p) => Prepared(m, d, h, p)
           /\ \A x : StoresElement(c, j, x) => StoresElement(d, h, x)
<1>1. \A x : StoresElement(c, j, x) => StoresElement(d, h, x)
  BY DEF Follows, StoresElement
<1>2. ASSUME Prepared(m, c, j, p), d[h].op = "aput"
      PROVE  \E x \in Elements(m) :
                 /\ StoresElement(d, h, x)
                 /\ IF IsBoxed(m, x)
                    THEN /\ h > 2 /\ d[h].src = 1
                         /\ d[h - 2] = BoxValue(p[ElementSlot(m, x)], Len(Slots(m.params[x])), 1)
                    ELSE d[h].src = p[ElementSlot(m, x)]
  <2>1. PICK x \in Elements(m) :
                 /\ StoresElement(c, j, x)
                 /\ IF IsBoxed(m, x)
                    THEN /\ j > 2 /\ c[j].src = 1
                         /\ c[j - 2] = BoxValue(p[ElementSlot(m, x)], Len(Slots(m.params[x])), 1)
                    ELSE c[j].src = p[ElementSlot(m, x)]
    BY <1>2 DEF Prepared, Follows
  <2> QED BY <1>1, <2>1 DEF Follows
<1>3. ASSUME Prepared(m, c, j, p), d[h].op = "invoke", d[h].hook = "modify"
      PROVE  /\ h > 2 /\ d[h - 2] = Const(0, Id) /\ d[h - 1] = Const(2, << Number(d[h].idx) >>)
             /\ d[h].args = << 0, 1, 2 >> \o (IF m.static THEN << >> ELSE << p[0] >>)
                  \o [i \in 1..Len(Slots(m.params[d[h].idx + 1])) |-> p[Slot(m, d[h].idx) + i - 1]]
  <2>1. /\ j > 2 /\ c[j - 2] = Const(0, Id) /\ c[j - 1] = Const(2, << Number(c[j].idx) >>)
        /\ c[j].args = << 0, 1, 2 >> \o (IF m.static THEN << >> ELSE << p[0] >>)
                  \o [i \in 1..Len(Slots(m.params[c[j].idx + 1])) |-> p[Slot(m, c[j].idx) + i - 1]]
    BY <1>3 DEF Prepared, Follows
  <2>2. h > 2 /\ d[h] = c[j] /\ d[h - 2] = c[j - 2]
    BY <2>1 DEF Follows
  <2>3. d[h - 1] = c[j - 1]
    <3>1. j > 1
      BY <2>1
    <3> QED BY <3>1 DEF Follows
  <2>4. h > 2 /\ d[h - 2] = Const(0, Id) /\ d[h - 1] = Const(2, << Number(d[h].idx) >>)
    BY <2>1, <2>2, <2>3
  <2>5. d[h].args = << 0, 1, 2 >> \o (IF m.static THEN << >> ELSE << p[0] >>)
             \o [i \in 1..Len(Slots(m.params[d[h].idx + 1])) |-> p[Slot(m, d[h].idx) + i - 1]]
    BY <2>1, <2>2, Zenon
  <2> QED BY <2>4, <2>5
<1>4. ASSUME Prepared(m, c, j, p), d[h].op = "new_array"
      PROVE  h > 1 /\ d[h - 1] = Const(0, << Number(1 + Len(m.params)) >>) /\ d[h] = NewArray(2, 0)
  BY <1>4 DEF Prepared, Follows
<1> QED BY <1>1, <1>2, <1>3, <1>4 DEF Prepared

\* A piece that makes its calls, and stores into the array, while the arguments
\* are in a block at register a.
Told(m, s, a) ==
    \A j \in 1..Len(s) : s[j].op \in {"invoke", "new_array", "aput"} =>
        Prepared(m, s, j, Block(m, a)) /\ \A i \in 1..j : s[i].op # "move"

LEMMA PreparedPrepended ==
    ASSUME NEW m, NEW c, NEW s, NEW d, NEW r, NEW q, NEW b \in Nat, b # 0, b <= Len(c),
           Inserted(c, 0, s, d), Carries(m, s, q - Ins(m), r - Ins(m)),
           Told(m, s, q - Ins(m)),
           \A j \in 1..(b - 1) : Prepared(m, c, j, Places(m, c, r, b)[j])
    PROVE  \A h \in 1..(b + Len(s) - 1) : Prepared(m, d, h, Places(m, d, q, b + Len(s))[h])
<1>1. Prepended(c, s, d, b)
  BY PrependedFrom
<1>2. /\ \A j \in 1..b : Places(m, d, q, b + Len(s))[j + Len(s)] = Places(m, c, r, b)[j]
      /\ \A n \in 0..Len(s) : (\A j \in 1..n : s[j].op # "move") =>
             \A j \in 1..(n + 1) : Places(m, d, q, b + Len(s))[j] = Block(m, q - Ins(m))
  <2>1. PlacesFollow(m, c, s, d, r, q, b)
    BY PlacesPrepended
  <2> QED BY <2>1 DEF PlacesFollow
<1> DEFINE N == Len(s)
           p == Places(m, c, r, b)
           P == Places(m, d, q, b + N)
<1> SUFFICES ASSUME NEW h \in 1..(b + N - 1)
             PROVE  Prepared(m, d, h, P[h])
  OBVIOUS
<1>3. /\ N \in Nat
      /\ \A j \in 1..N : d[j] = s[j]
      /\ \A j \in 1..(b - 1) : d[j + N] = c[j] /\ j \in Nat
      /\ \/ h \in 1..N /\ d[h] = s[h]
         \/ \E j \in 1..(b - 1) : h = j + N /\ d[h] = c[j]
  BY <1>1 DEF Prepended
<1> HIDE DEF N, p, P
<1>4. CASE h \in 1..N /\ d[h] = s[h]
  <2>1. CASE s[h].op \notin {"invoke", "new_array", "aput"}
    BY <1>4, <2>1 DEF Prepared
  <2>2. CASE s[h].op \in {"invoke", "new_array", "aput"}
    <3>1. Prepared(m, s, h, Block(m, q - Ins(m))) /\ \A i \in 1..h : s[i].op # "move"
      BY <1>4, <2>2 DEF Told, N
    <3>2. h \in Nat /\ h \in 0..N /\ h \in 1..(h + 1)
      BY <1>3, <1>4
    <3>3. P[h] = Block(m, q - Ins(m))
      BY <1>2, <3>1, <3>2 DEF N, P
    <3>4. Follows(s, h, d, h)
      <4>1. h > 1 => h - 1 \in 1..N
        BY <1>3, <1>4
      <4>2. h > 2 => h - 2 \in 1..N
        BY <1>3, <1>4
      <4> QED BY <1>3, <1>4, <4>1, <4>2 DEF Follows
    <3>5. Prepared(m, d, h, Block(m, q - Ins(m)))
      BY <3>1, <3>2, <3>4, PreparedElsewhere
    <3> QED BY <3>3, <3>5
  <2> QED BY <2>1, <2>2
<1>5. ASSUME NEW j \in 1..(b - 1), h = j + N, d[h] = c[j]
      PROVE  Prepared(m, d, h, P[h])
  <2>1. j \in Nat /\ j \in 1..b
    BY <1>3
  <2>2. P[h] = p[j]
    BY <1>2, <1>5, <2>1 DEF N, p, P
  <2>3. Prepared(m, c, j, p[j])
    BY DEF p
  <2>4. Follows(c, j, d, h)
    <3>1. j > 1 => j - 1 \in 1..(b - 1) /\ h - 1 = (j - 1) + N /\ h > 1
      BY <1>3, <1>5
    <3>2. j > 2 => j - 2 \in 1..(b - 1) /\ h - 2 = (j - 2) + N /\ h > 2
      BY <1>3, <1>5
    <3> QED BY <1>3, <1>5, <3>1, <3>2 DEF Follows
  <2>5. Prepared(m, d, h, p[j])
    BY <2>1, <2>3, <2>4, PreparedElsewhere
  <2> QED BY <2>2, <2>5
<1> QED BY <1>3, <1>4, <1>5

\* The array of a piece is built in it.
LEMMA ArrayPrepended ==
    ASSUME NEW m, NEW c, NEW s, NEW d, NEW b \in Nat, b # 0, b <= Len(c),
           Inserted(c, 0, s, d), ArrayBuilt(m, s, Len(s) + 1), ArrayBuilt(m, c, b)
    PROVE  ArrayBuilt(m, d, b + Len(s))
<1>1. Prepended(c, s, d, b)
  BY PrependedFrom
<1> DEFINE N == Len(s)
           B == b + N
<1>2. /\ N \in Nat /\ (N + 1) - 1 = N
      /\ \A j \in 1..N : j \in 1..(B - 1) /\ d[j] = s[j]
      /\ \A j \in 1..(b - 1) : j + N \in 1..(B - 1) /\ d[j + N] = c[j] /\ j \in Nat
      /\ \A h \in 1..(B - 1) : \/ h \in 1..N /\ d[h] = s[h]
                               \/ \E j \in 1..(b - 1) : h = j + N /\ d[h] = c[j]
  BY <1>1 DEF Prepended
<1>3. \A j \in 1..N : \A x : StoresElement(s, j, x) => StoresElement(d, j, x)
  <2> SUFFICES ASSUME NEW j \in 1..N, NEW x, StoresElement(s, j, x)
               PROVE  StoresElement(d, j, x)
    OBVIOUS
  <2>1. j > 1 => j - 1 \in 1..N
    BY <1>2
  <2> HIDE DEF N
  <2> QED BY <1>2, <2>1 DEF StoresElement
<1>4. \A j \in 1..(b - 1) : \A x : StoresElement(c, j, x) => StoresElement(d, j + N, x)
  <2> SUFFICES ASSUME NEW j \in 1..(b - 1), NEW x, StoresElement(c, j, x)
               PROVE  StoresElement(d, j + N, x)
    OBVIOUS
  <2>1. j > 1 => j - 1 \in 1..(b - 1) /\ (j - 1) + N = (j + N) - 1 /\ j + N > 1
    BY <1>2
  <2> HIDE DEF N
  <2> QED BY <1>2, <2>1 DEF StoresElement
<1>5. /\ \A e \in 1..N : s[e].op = "invoke" /\ s[e].hook = "enter" =>
             \E a \in 1..N : s[a].op = "new_array" /\ a < e
      /\ \A a \in 1..N, x \in Elements(m) : s[a].op = "new_array" =>
             \E j \in (a + 1)..N : StoresElement(s, j, x)
      /\ \A j \in 1..N : s[j].op \in {"new_array", "aput", "box"} =>
             \E e \in 1..N : s[e].op = "invoke" /\ s[e].hook = "enter" /\ j < e
  BY <1>2 DEF ArrayBuilt
<1>6. /\ \A e \in 1..(b - 1) : c[e].op = "invoke" /\ c[e].hook = "enter" =>
             \E a \in 1..(b - 1) : c[a].op = "new_array" /\ a < e
      /\ \A a \in 1..(b - 1), x \in Elements(m) : c[a].op = "new_array" =>
             \E j \in (a + 1)..(b - 1) : StoresElement(c, j, x)
      /\ \A j \in 1..(b - 1) : c[j].op \in {"new_array", "aput", "box"} =>
             \E e \in 1..(b - 1) : c[e].op = "invoke" /\ c[e].hook = "enter" /\ j < e
  BY DEF ArrayBuilt
<1> HIDE DEF N, B
<1>7. ASSUME NEW e \in 1..(B - 1), d[e].op = "invoke", d[e].hook = "enter"
      PROVE  \E a \in 1..(B - 1) : d[a].op = "new_array" /\ a < e
  <2>1. CASE e \in 1..N /\ d[e] = s[e]
    BY <1>2, <1>5, <1>7, <2>1
  <2>2. ASSUME NEW k \in 1..(b - 1), e = k + N, d[e] = c[k]
        PROVE  \E a \in 1..(B - 1) : d[a].op = "new_array" /\ a < e
    <3>1. PICK a \in 1..(b - 1) : c[a].op = "new_array" /\ a < k
      BY <1>6, <1>7, <2>2
    <3>2. a + N \in 1..(B - 1) /\ d[a + N] = c[a] /\ a + N < e
      BY <1>2, <2>2, <3>1
    <3> QED BY <3>1, <3>2
  <2> QED BY <1>2, <2>1, <2>2
<1>8. ASSUME NEW a \in 1..(B - 1), d[a].op = "new_array", NEW x \in Elements(m)
      PROVE  \E j \in (a + 1)..(B - 1) : StoresElement(d, j, x)
  <2>1. CASE a \in 1..N /\ d[a] = s[a]
    <3>1. PICK j \in (a + 1)..N : StoresElement(s, j, x)
      BY <1>5, <1>8, <2>1
    <3>2. j \in 1..N /\ j \in 1..(B - 1) /\ j >= a + 1
      BY <1>2, <2>1
    <3>3. j \in (a + 1)..(B - 1)
      BY <1>2, <2>1, <3>2 DEF B
    <3> QED BY <1>3, <3>1, <3>2, <3>3
  <2>2. ASSUME NEW k \in 1..(b - 1), a = k + N, d[a] = c[k]
        PROVE  \E j \in (a + 1)..(B - 1) : StoresElement(d, j, x)
    <3>1. PICK j \in (k + 1)..(b - 1) : StoresElement(c, j, x)
      BY <1>6, <1>8, <2>2
    <3>2. j \in 1..(b - 1) /\ j + N \in (a + 1)..(B - 1)
      BY <1>2, <2>2 DEF B
    <3> QED BY <1>4, <3>1, <3>2
  <2> QED BY <1>2, <2>1, <2>2
<1>9. ASSUME NEW j \in 1..(B - 1), d[j].op \in {"new_array", "aput", "box"}
      PROVE  \E e \in 1..(B - 1) : d[e].op = "invoke" /\ d[e].hook = "enter" /\ j < e
  <2>1. CASE j \in 1..N /\ d[j] = s[j]
    <3>1. PICK e \in 1..N : s[e].op = "invoke" /\ s[e].hook = "enter" /\ j < e
      BY <1>5, <1>9, <2>1
    <3>2. e \in 1..(B - 1) /\ d[e] = s[e]
      BY <1>2
    <3> QED BY <3>1, <3>2
  <2>2. ASSUME NEW k \in 1..(b - 1), j = k + N, d[j] = c[k]
        PROVE  \E e \in 1..(B - 1) : d[e].op = "invoke" /\ d[e].hook = "enter" /\ j < e
    <3>1. PICK e \in 1..(b - 1) : c[e].op = "invoke" /\ c[e].hook = "enter" /\ k < e
      BY <1>6, <1>9, <2>2
    <3>2. e + N \in 1..(B - 1) /\ d[e + N] = c[e] /\ j < e + N
      BY <1>2, <2>2, <3>1
    <3> QED BY <3>1, <3>2
  <2> QED BY <1>2, <2>1, <2>2
<1> QED BY <1>7, <1>8, <1>9 DEF ArrayBuilt, B, N

\* The first k instructions of c make the calls of Opening from the one after lo
\* to hi, in this order, and no others.
Covers(h, c, k, lo, hi) ==
    LET n == Len(Opening(h)) IN
    /\ \A j \in 1..k : c[j].op = "invoke" => \E t \in 1..n : lo < t /\ t <= hi /\ Makes(h, c, j, t)
    /\ \A i, j \in 1..k, s, t \in 1..n : Makes(h, c, i, s) /\ Makes(h, c, j, t) => (i < j <=> s < t)
    /\ \A t \in 1..n : lo < t /\ t <= hi => \E j \in 1..k : Makes(h, c, j, t)

\* No call is made twice.
Distinct(h) ==
    /\ Len(Opening(h)) \in Nat
    /\ \A s, t \in 1..Len(Opening(h)) : Opening(h)[s] = Opening(h)[t] => s = t

LEMMA CoversPrepended ==
    ASSUME NEW h, Distinct(h), NEW c, NEW s, NEW d, NEW b \in Nat, b # 0, b <= Len(c),
           Inserted(c, 0, s, d), NEW lo \in Int, NEW mid \in Int, NEW hi \in Int,
           lo <= mid, mid <= hi,
           Covers(h, s, Len(s), lo, mid), Covers(h, c, b - 1, mid, hi)
    PROVE  Covers(h, d, b + Len(s) - 1, lo, hi)
<1>1. Prepended(c, s, d, b)
  BY PrependedFrom
<1>0. /\ Len(s) \in Nat
      /\ \A j \in 1..Len(s) : j \in 1..(b + Len(s) - 1) /\ d[j] = s[j]
      /\ \A j \in 1..(b - 1) : j + Len(s) \in 1..(b + Len(s) - 1) /\ d[j + Len(s)] = c[j] /\ j \in Nat
  BY <1>1 DEF Prepended
<1> DEFINE N == Len(s)
           B == b + N
           n == Len(Opening(h))
<1>14. ASSUME NEW k \in 1..(B - 1)
       PROVE  \/ k \in 1..N /\ d[k] = s[k]
              \/ \E j \in 1..(b - 1) : k = j + N /\ d[k] = c[j]
  BY <1>1 DEF Prepended
<1>2. /\ N \in Nat
      /\ \A j \in 1..N : j \in 1..(B - 1) /\ d[j] = s[j]
      /\ \A j \in 1..(b - 1) : j + N \in 1..(B - 1) /\ d[j + N] = c[j] /\ j \in Nat
      /\ \A k \in 1..(B - 1) : \/ k \in 1..N /\ d[k] = s[k]
                               \/ \E j \in 1..(b - 1) : k = j + N /\ d[k] = c[j]
  BY <1>0, <1>14
<1>3. /\ \A j \in 1..N : s[j].op = "invoke" => \E t \in 1..n : lo < t /\ t <= mid /\ Makes(h, s, j, t)
      /\ \A i, j \in 1..N, u, t \in 1..n : Makes(h, s, i, u) /\ Makes(h, s, j, t) => (i < j <=> u < t)
      /\ \A t \in 1..n : lo < t /\ t <= mid => \E j \in 1..N : Makes(h, s, j, t)
  BY DEF Covers
<1>4. /\ \A j \in 1..(b - 1) : c[j].op = "invoke" => \E t \in 1..n : mid < t /\ t <= hi /\ Makes(h, c, j, t)
      /\ \A i, j \in 1..(b - 1), u, t \in 1..n : Makes(h, c, i, u) /\ Makes(h, c, j, t) => (i < j <=> u < t)
      /\ \A t \in 1..n : mid < t /\ t <= hi => \E j \in 1..(b - 1) : Makes(h, c, j, t)
  BY DEF Covers
<1>5. \A u, t \in 1..n : Opening(h)[u] = Opening(h)[t] => u = t
  BY DEF Distinct
<1>6. n \in Nat
  BY DEF Distinct
<1> HIDE DEF N, B, n
<1>7. \A j \in 1..N : \A t : Makes(h, d, j, t) <=> Makes(h, s, j, t)
  BY <1>2 DEF Makes
<1>8. \A j \in 1..(b - 1) : \A t : Makes(h, d, j + N, t) <=> Makes(h, c, j, t)
  BY <1>2 DEF Makes
<1>9. \A j \in 1..N, t \in 1..n : Makes(h, s, j, t) => lo < t /\ t <= mid
  BY <1>3, <1>5 DEF Makes
<1>10. \A j \in 1..(b - 1), t \in 1..n : Makes(h, c, j, t) => mid < t /\ t <= hi
  BY <1>4, <1>5 DEF Makes
<1>11. ASSUME NEW j \in 1..(B - 1), d[j].op = "invoke"
       PROVE  \E t \in 1..n : lo < t /\ t <= hi /\ Makes(h, d, j, t)
  <2>1. CASE j \in 1..N /\ d[j] = s[j]
    <3>1. PICK t \in 1..n : lo < t /\ t <= mid /\ Makes(h, s, j, t)
      BY <1>3, <1>11, <2>1
    <3>2. t <= hi /\ Makes(h, d, j, t)
      BY <1>6, <1>7, <2>1, <3>1
    <3> QED BY <3>1, <3>2
  <2>2. ASSUME NEW k \in 1..(b - 1), j = k + N, d[j] = c[k]
        PROVE  \E t \in 1..n : lo < t /\ t <= hi /\ Makes(h, d, j, t)
    <3>1. PICK t \in 1..n : mid < t /\ t <= hi /\ Makes(h, c, k, t)
      BY <1>4, <1>11, <2>2
    <3>2. lo < t /\ Makes(h, d, j, t)
      BY <1>6, <1>8, <2>2, <3>1
    <3> QED BY <3>1, <3>2
  <2> QED BY <1>2, <2>1, <2>2
<1>12. ASSUME NEW i \in 1..(B - 1), NEW j \in 1..(B - 1), NEW u \in 1..n, NEW t \in 1..n,
              Makes(h, d, i, u), Makes(h, d, j, t)
       PROVE  i < j <=> u < t
  <2>1. CASE i \in 1..N /\ j \in 1..N
    BY <1>3, <1>7, <1>12, <2>1
  <2>2. ASSUME i \in 1..N, NEW k \in 1..(b - 1), j = k + N
        PROVE  i < j <=> u < t
    <3>1. u <= mid /\ mid < t
      BY <1>7, <1>8, <1>9, <1>10, <1>12, <2>2
    <3>2. i < j
      BY <1>2, <2>2
    <3>3. u < t
      BY <1>6, <3>1
    <3> QED BY <3>2, <3>3
  <2>3. ASSUME j \in 1..N, NEW k \in 1..(b - 1), i = k + N
        PROVE  i < j <=> u < t
    <3>1. t <= mid /\ mid < u
      BY <1>7, <1>8, <1>9, <1>10, <1>12, <2>3
    <3>2. ~ (i < j)
      BY <1>2, <2>3
    <3>3. ~ (u < t)
      BY <1>6, <3>1
    <3> QED BY <3>2, <3>3
  <2>4. ASSUME NEW k \in 1..(b - 1), i = k + N, NEW l \in 1..(b - 1), j = l + N
        PROVE  i < j <=> u < t
    <3>1. k < l <=> u < t
      BY <1>4, <1>8, <1>12, <2>4
    <3>2. i < j <=> k < l
      BY <1>2, <2>4, SMTT(30)
    <3> QED BY <3>1, <3>2
  <2> QED BY <1>2, <2>1, <2>2, <2>3, <2>4
<1>13. ASSUME NEW t \in 1..n, lo < t, t <= hi
       PROVE  \E j \in 1..(B - 1) : Makes(h, d, j, t)
  <2>1. CASE t <= mid
    BY <1>2, <1>3, <1>7, <1>13, <2>1
  <2>2. CASE ~ (t <= mid)
    <3>1. mid < t
      BY <1>6, <2>2
    <3> QED BY <1>2, <1>4, <1>8, <1>13, <3>1
  <2> QED BY <2>1, <2>2
<1> QED BY <1>11, <1>12, <1>13 DEF Covers, n, B, N

LEMMA InOrderCovers ==
    ASSUME NEW h, NEW c, NEW b, NEW done \in Nat, Len(Opening(h)) \in Nat
    PROVE  InOrder(h, c, b, done) <=> Covers(h, c, b - 1, Len(Opening(h)) - done, Len(Opening(h)))
<1> DEFINE n == Len(Opening(h))
<1>1. \A t \in 1..n : t > n - done <=> n - done < t /\ t <= n
  OBVIOUS
<1> HIDE DEF n
<1> QED BY <1>1 DEF InOrder, Covers, n

\* A piece that makes the last calls that are not made yet.
LEMMA CallsPrepended ==
    ASSUME NEW m, NEW h, Distinct(h), NEW c, NEW s, NEW d, NEW r, NEW q,
           NEW b \in Nat, b # 0, b <= Len(c),
           Inserted(c, 0, s, d), Carries(m, s, q - Ins(m), r - Ins(m)),
           Told(m, s, q - Ins(m)), ArrayBuilt(m, s, Len(s) + 1),
           NEW done \in Nat, NEW more \in Nat,
           Covers(h, s, Len(s), Len(Opening(h)) - (done + more), Len(Opening(h)) - done),
           CallsWoven(m, h, c, r, b, done)
    PROVE  CallsWoven(m, h, d, q, b + Len(s), done + more)
<1> DEFINE n == Len(Opening(h))
           lo == n - (done + more)
           mid == n - done
<1>1. /\ InOrder(h, c, b, done)
      /\ \A j \in 1..(b - 1) : Prepared(m, c, j, Places(m, c, r, b)[j])
      /\ ArrayBuilt(m, c, b)
  BY DEF CallsWoven
<1>2. n \in Nat /\ lo \in Int /\ mid \in Int /\ lo <= mid /\ mid <= n
  BY DEF Distinct
<1>3. Covers(h, c, b - 1, mid, n) /\ Covers(h, s, Len(s), lo, mid)
  BY <1>1, <1>2, InOrderCovers
<1> HIDE DEF lo, mid, n
<1>4. Covers(h, d, b + Len(s) - 1, lo, n)
  BY <1>2, <1>3, CoversPrepended
<1>5. InOrder(h, d, b + Len(s), done + more)
  <2>1. done + more \in Nat
    OBVIOUS
  <2> QED BY <1>2, <1>4, <2>1, InOrderCovers DEF n, lo
<1>6. \A j \in 1..(b + Len(s) - 1) : Prepared(m, d, j, Places(m, d, q, b + Len(s))[j])
  BY <1>1, PreparedPrepended
<1>7. ArrayBuilt(m, d, b + Len(s))
  BY <1>1, ArrayPrepended
<1> QED BY <1>5, <1>6, <1>7 DEF CallsWoven

----------------------------------------------------------------------------
(* What is behind the method's own code.                                   *)

\* What is in front of the k-th return when the first n have their exit hook.
ExitOf(m, n, k) == IF k <= n THEN ExitCode(m, k, IdReg(m, k)) ELSE << >>

\* Instruction j of c ends its way from the method's own code at b.
Ending(m, c, b, n, j) ==
    LET e == ExitOf(m, n, c[j].k)
    IN  /\ c[j].k \in DOMAIN m.rets
        /\ j - Len(e) > b /\ c[(j - Len(e)) - 1].op \in {"body", "return"}
        /\ \A i \in 1..Len(e) : c[(j - Len(e)) + i - 1] = e[i]

LEMMA ExitOfPiece ==
    ASSUME NEW m, MethodShape(m), NEW k \in DOMAIN m.rets, NEW n
    PROVE  /\ IdReg(m, k) \in Nat
           /\ Piece(m, ExitOf(m, n, k))
           /\ Len(ExitOf(m, n, k)) \in Nat
           /\ DOMAIN ExitOf(m, n, k) = 1..Len(ExitOf(m, n, k))
<1> DEFINE out == IF m.ret = "void" THEN 0 ELSE m.rets[k].reg
           w   == RetCount(m)
<1>1. out \in Nat /\ w \in 0..2 /\ ThisIndex(m) \in Nat
  BY RetIsNat
<1>2. IdReg(m, k) = MethodIdReg(ThisIndex(m), m.static, out, w)
  BY DEF IdReg
<1> HIDE DEF out, w
<1>3. IdReg(m, k) \in Nat
  <2>1. ParamBegin(ThisIndex(m), m.static, out, w) \in Nat
    BY <1>1 DEF ParamBegin
  <2> QED BY <1>1, <1>2, <2>1 DEF MethodIdReg
<1>4. Piece(m, ExitCode(m, k, IdReg(m, k)))
  BY <1>3, ExitPiece
<1>5. Piece(m, << >>)
  BY NothingCarries
<1>6. Piece(m, ExitOf(m, n, k))
  BY <1>4, <1>5 DEF ExitOf
<1>7. ExitOf(m, n, k) \in Seq(Instruction)
  BY <1>6 DEF Piece
<1> QED BY <1>3, <1>6, <1>7

LEMMA EndingsAre ==
    ASSUME NEW m, MethodShape(m), NEW c, NEW b, NEW n
    PROVE  Endings(m, c, b, n) <=>
             /\ \A i, j \in DOMAIN c : c[i].op = "return" /\ c[i] = c[j] => i = j
             /\ \A j \in DOMAIN c : c[j].op = "return" => Ending(m, c, b, n, j)
<1>1. ASSUME NEW j \in DOMAIN c, c[j].k \in DOMAIN m.rets
      PROVE  DOMAIN ExitOf(m, n, c[j].k) = 1..Len(ExitOf(m, n, c[j].k))
  BY <1>1, ExitOfPiece
<1>2. ASSUME NEW j \in DOMAIN c, c[j].k \in DOMAIN m.rets
      PROVE  (LET e     == ExitOf(m, n, c[j].k)
                  start == j - Len(e)
              IN  /\ start > b /\ c[start - 1].op \in {"body", "return"}
                  /\ \A i \in DOMAIN e : c[start + i - 1] = e[i])
             <=> Ending(m, c, b, n, j)
  BY <1>1, <1>2 DEF Ending
<1>3. Endings(m, c, b, n) <=>
          /\ \A i, j \in DOMAIN c : c[i].op = "return" /\ c[i] = c[j] => i = j
          /\ \A j \in DOMAIN c : c[j].op = "return" =>
                /\ c[j].k \in DOMAIN m.rets
                /\ LET e     == ExitOf(m, n, c[j].k)
                       start == j - Len(e)
                   IN  /\ start > b /\ c[start - 1].op \in {"body", "return"}
                       /\ \A i \in DOMAIN e : c[start + i - 1] = e[i]
  BY Zenon DEF Endings, ExitOf
<1>4. \A j : Ending(m, c, b, n, j) => c[j].k \in DOMAIN m.rets
  BY DEF Ending
<1> QED BY <1>2, <1>3, <1>4

\* An ending is one elsewhere, with everything it has in front of the return.
LEMMA EndingMoves ==
    ASSUME NEW m, MethodShape(m), NEW c, NEW b \in Nat, NEW n, NEW j \in Nat, Ending(m, c, b, n, j),
           NEW d, NEW a, NEW i, NEW N \in Nat, ExitOf(m, i, c[j].k) = ExitOf(m, n, c[j].k),
           j - Len(ExitOf(m, n, c[j].k)) + N > a,
           \A h \in ((j - Len(ExitOf(m, n, c[j].k))) - 1)..j : d[h + N] = c[h]
    PROVE  Ending(m, d, a, i, j + N)
<1> DEFINE e == ExitOf(m, n, c[j].k)
           l == Len(e)
<1>1. c[j].k \in DOMAIN m.rets /\ j - l > b /\ c[(j - l) - 1].op \in {"body", "return"}
      /\ \A x \in 1..l : c[(j - l) + x - 1] = e[x]
  BY DEF Ending
<1>2. l \in Nat
  BY <1>1, ExitOfPiece
<1>3. \A h \in ((j - l) - 1)..j : d[h + N] = c[h]
  OBVIOUS
<1>4. j - l + N > a /\ ExitOf(m, i, c[j].k) = e
  OBVIOUS
<1> HIDE DEF e, l
<1>5. d[j + N] = c[j]
  <2>1. j \in ((j - l) - 1)..j
    BY <1>2
  <2> QED BY <1>3, <2>1
<1>6. d[((j + N) - l) - 1].op \in {"body", "return"}
  <2>1. (j - l) - 1 \in ((j - l) - 1)..j /\ ((j - l) - 1) + N = ((j + N) - l) - 1
    BY <1>2
  <2> QED BY <1>1, <1>3, <2>1
<1>7. ASSUME NEW x \in 1..l
      PROVE  d[((j + N) - l) + x - 1] = e[x]
  <2>1. (j - l) + x - 1 \in ((j - l) - 1)..j /\ ((j - l) + x - 1) + N = ((j + N) - l) + x - 1
    BY <1>2
  <2> QED BY <1>1, <1>3, <2>1
<1>8. (j + N) - l > a
  BY <1>2, <1>4
<1>9. ExitOf(m, i, d[j + N].k) = e
  BY <1>4, <1>5
<1> QED BY <1>1, <1>5, <1>6, <1>7, <1>8, <1>9 DEF Ending, l

LEMMA EndingsPrepended ==
    ASSUME NEW m, MethodShape(m), NEW c, NEW b \in DOMAIN c, NEW s, NEW d, NEW n,
           Inserted(c, 0, s, d), Piece(m, s), Endings(m, c, b, n)
    PROVE  Endings(m, d, b + Len(s), n)
<1> DEFINE N == Len(s)
<1>1. /\ Len(c) \in Nat /\ N \in Nat /\ DOMAIN c = 1..Len(c) /\ DOMAIN s = 1..N
      /\ \A h \in DOMAIN d :
            \/ h <= 0 /\ h \in DOMAIN c /\ d[h] = c[h]
            \/ 0 < h /\ h <= 0 + N /\ h - 0 \in DOMAIN s /\ d[h] = s[h - 0]
            \/ h > 0 + N /\ h - N \in DOMAIN c /\ d[h] = c[h - N]
  BY InsertedFrom
<1>2. \A j \in DOMAIN c : d[j + N] = c[j]
  <2>1. \A j \in (0 + 1)..Len(c) : d[j + N] = c[j]
    BY DEF Inserted
  <2> QED BY <1>1, <2>1
<1>3. ASSUME NEW h \in DOMAIN d, d[h].op = "return"
      PROVE  h - N \in DOMAIN c /\ d[h] = c[h - N] /\ h = (h - N) + N /\ h - N \in Nat
  <2>1. \A j \in DOMAIN s : s[j].op # "return"
    BY DEF Piece
  <2>2. h \in 1..Len(d) /\ Len(d) \in Nat
    BY DEF Inserted
  <2>3. h - N \in DOMAIN c /\ d[h] = c[h - N]
    BY <1>1, <1>3, <2>1, <2>2
  <2> QED BY <1>1, <2>2, <2>3
<1>4. /\ \A i, j \in DOMAIN c : c[i].op = "return" /\ c[i] = c[j] => i = j
      /\ \A j \in DOMAIN c : c[j].op = "return" => Ending(m, c, b, n, j)
  BY EndingsAre
<1> HIDE DEF N
<1>5. ASSUME NEW i \in DOMAIN d, NEW j \in DOMAIN d, d[i].op = "return", d[i] = d[j]
      PROVE  i = j
  <2>1. i - N \in DOMAIN c /\ j - N \in DOMAIN c /\ c[i - N] = d[i] /\ c[j - N] = d[j]
        /\ i = (i - N) + N /\ j = (j - N) + N
    BY <1>3, <1>5
  <2>2. i - N = j - N
    BY <1>4, <1>5, <2>1
  <2> QED BY <2>1, <2>2
<1>6. ASSUME NEW h \in DOMAIN d, d[h].op = "return"
      PROVE  Ending(m, d, b + N, n, h)
  <2> DEFINE j == h - N
             l == Len(ExitOf(m, n, c[j].k))
  <2>1. j \in DOMAIN c /\ d[h] = c[j] /\ h = j + N /\ j \in Nat
    BY <1>3, <1>6
  <2>2. Ending(m, c, b, n, j)
    BY <1>4, <1>6, <2>1
  <2>3. c[j].k \in DOMAIN m.rets /\ j - l > b
    BY <2>2 DEF Ending
  <2>4. l \in Nat
    BY <2>3, ExitOfPiece
  <2>5. b \in Nat /\ j - l + N > b + N
    BY <1>1, <2>1, <2>3, <2>4
  <2>6. \A x \in ((j - l) - 1)..j : d[x + N] = c[x]
    <3> SUFFICES ASSUME NEW x \in ((j - l) - 1)..j
                 PROVE  d[x + N] = c[x]
      OBVIOUS
    <3>1. x \in 1..Len(c)
      BY <1>1, <2>1, <2>3, <2>4
    <3> QED BY <1>1, <1>2, <3>1
  <2> HIDE DEF j
  <2>7. Ending(m, d, b + N, n, j + N)
    BY <1>1, <2>1, <2>2, <2>5, <2>6, EndingMoves
  <2> QED BY <2>1, <2>7
<1> QED BY <1>5, <1>6, EndingsAre DEF N

\* The code of the exit hook in front of the k-th return is one ending more.
LEMMA EndingsInserted ==
    ASSUME NEW m, MethodShape(m), NEW c, NEW b \in DOMAIN c, NEW k \in DOMAIN m.rets,
           NEW i, NEW s, NEW d, i >= b, c[i + 1] = Return(k), s = ExitCode(m, k, IdReg(m, k)),
           Inserted(c, i, s, d), NEW n, n = k - 1, Endings(m, c, b, n)
    PROVE  Endings(m, d, b, k)
<1> DEFINE N == Len(s)
           p == i + 1
<1>0. k \in Nat /\ n \in Nat /\ n < k
  <2>1. k \in Nat /\ k >= 1
    BY DEF MethodShape
  <2> QED BY <2>1
<1>1. /\ Len(c) \in Nat /\ N \in Nat /\ i \in Nat /\ i < Len(c) /\ DOMAIN c = 1..Len(c)
      /\ DOMAIN s = 1..N /\ c \in Seq(Instruction) /\ b \in Nat /\ b # 0 /\ b <= i
      /\ \A h \in DOMAIN d :
            \/ h <= i /\ h \in DOMAIN c /\ d[h] = c[h]
            \/ i < h /\ h <= i + N /\ h - i \in DOMAIN s /\ d[h] = s[h - i]
            \/ h > i + N /\ h - N \in DOMAIN c /\ d[h] = c[h - N]
  <2>1. /\ Len(c) \in Nat /\ N \in Nat /\ i \in Nat /\ i < Len(c) /\ DOMAIN c = 1..Len(c)
        /\ DOMAIN s = 1..N
        /\ \A h \in DOMAIN d :
              \/ h <= i /\ h \in DOMAIN c /\ d[h] = c[h]
              \/ i < h /\ h <= i + N /\ h - i \in DOMAIN s /\ d[h] = s[h - i]
              \/ h > i + N /\ h - N \in DOMAIN c /\ d[h] = c[h - N]
    BY InsertedFrom
  <2>2. c \in Seq(Instruction)
    BY DEF Inserted
  <2> QED BY <2>1, <2>2
<1>2. /\ \A j \in 1..i : d[j] = c[j]
      /\ \A j \in 1..N : d[j + i] = s[j]
      /\ \A j \in p..Len(c) : d[j + N] = c[j]
      /\ DOMAIN d = 1..(Len(c) + N)
  BY DEF Inserted
<1>3. /\ \A x, y \in DOMAIN c : c[x].op = "return" /\ c[x] = c[y] => x = y
      /\ \A j \in DOMAIN c : c[j].op = "return" => Ending(m, c, b, n, j)
  BY EndingsAre
<1>4. s = ExitOf(m, k, k) /\ ExitOf(m, n, k) = << >>
  BY <1>0 DEF ExitOf
<1>5. Piece(m, s) /\ \A j \in 1..N : s[j].op # "return"
  <2>1. Piece(m, s)
    BY <1>4, ExitOfPiece
  <2> QED BY <1>1, <2>1 DEF Piece
<1> HIDE DEF N
<1>6. p \in DOMAIN c /\ c[p].op = "return" /\ c[p] = Return(k) /\ c[p].k = k /\ p \in Nat
  <2>1. c[p] = Return(k) /\ p \in DOMAIN c /\ p \in Nat
    BY <1>1
  <2> HIDE DEF p
  <2> QED BY <2>1 DEF Return
<1>7. ASSUME NEW h \in DOMAIN d, d[h].op = "return"
      PROVE  \/ h \in DOMAIN c /\ h < p /\ d[h] = c[h]
             \/ h - N \in DOMAIN c /\ h - N >= p /\ d[h] = c[h - N] /\ (h - N) + N = h
  <2>1. h \in Nat
    BY <1>2
  <2>2. ~ (i < h /\ h <= i + N /\ h - i \in DOMAIN s /\ d[h] = s[h - i])
    BY <1>1, <1>5, <1>7
  <2>3. CASE h <= i /\ h \in DOMAIN c /\ d[h] = c[h]
    BY <1>1, <2>1, <2>3
  <2>4. CASE h > i + N /\ h - N \in DOMAIN c /\ d[h] = c[h - N]
    BY <1>1, <2>1, <2>4
  <2> QED BY <1>1, <2>2, <2>3, <2>4
<1>14. ASSUME NEW h \in DOMAIN d, d[h].op = "return"
       PROVE  \E j \in DOMAIN c : d[h] = c[j] /\ ((j < p /\ h = j) \/ (j >= p /\ h = j + N))
  <2>1. CASE h \in DOMAIN c /\ h < p /\ d[h] = c[h]
    BY <2>1
  <2>2. CASE h - N \in DOMAIN c /\ h - N >= p /\ d[h] = c[h - N] /\ (h - N) + N = h
    BY <2>2
  <2> QED BY <1>7, <1>14, <2>1, <2>2
<1> HIDE DEF p
<1>8. ASSUME NEW x \in DOMAIN d, NEW y \in DOMAIN d, d[x].op = "return", d[x] = d[y]
      PROVE  x = y
  <2>1. PICK v \in DOMAIN c : d[x] = c[v] /\ ((v < p /\ x = v) \/ (v >= p /\ x = v + N))
    BY <1>14, <1>8
  <2>2. PICK w \in DOMAIN c : d[y] = c[w] /\ ((w < p /\ y = w) \/ (w >= p /\ y = w + N))
    <3>1. d[y].op = "return"
      BY <1>8
    <3> QED BY <1>14, <3>1
  <2>3. v = w
    BY <1>3, <1>8, <2>1, <2>2
  <2>4. v \in Nat
    BY <1>1
  <2> QED BY <1>6, <2>1, <2>2, <2>3, <2>4
<1>9. ASSUME NEW j \in DOMAIN c, c[j].op = "return", j # p
      PROVE  /\ c[j].k # k /\ ExitOf(m, k, c[j].k) = ExitOf(m, n, c[j].k)
             /\ Ending(m, c, b, n, j) /\ j \in Nat
             /\ c[j].k \in DOMAIN m.rets /\ Len(ExitOf(m, n, c[j].k)) \in Nat
             /\ j - Len(ExitOf(m, n, c[j].k)) > b
  <2>1. c[j] = Return(c[j].k)
    <3>1. c[j] \in Instruction
      BY <1>1
    <3> DEFINE x == c[j]
    <3>2. x \in Instruction /\ x.op = "return"
      BY <1>9, <3>1
    <3> HIDE DEF x
    <3>3. x = Return(x.k)
      BY <3>2 DEF Instruction, Return
    <3> QED BY <3>3 DEF x
  <2>2. c[j].k # k
    BY <1>3, <1>6, <1>9, <2>1
  <2>3. Ending(m, c, b, n, j)
    BY <1>3, <1>9
  <2>4. c[j].k \in DOMAIN m.rets /\ j - Len(ExitOf(m, n, c[j].k)) > b
    BY <2>3 DEF Ending
  <2>5. c[j].k \in Nat
    BY <2>4 DEF MethodShape
  <2>6. ExitOf(m, k, c[j].k) = ExitOf(m, n, c[j].k)
    BY <1>0, <2>2, <2>5 DEF ExitOf
  <2>7. Len(ExitOf(m, n, c[j].k)) \in Nat
    BY <2>4, ExitOfPiece
  <2> QED BY <1>1, <2>2, <2>3, <2>4, <2>6, <2>7
<1>10. ASSUME NEW j \in DOMAIN c, c[j].op = "return", j < p
       PROVE  Ending(m, d, b, k, j)
  <2> DEFINE l == Len(ExitOf(m, n, c[j].k))
  <2>1. ExitOf(m, k, c[j].k) = ExitOf(m, n, c[j].k) /\ Ending(m, c, b, n, j) /\ j \in Nat /\ l \in Nat
        /\ j - l > b
    <3>1. j # p
      BY <1>6, <1>10, <1>1
    <3> QED BY <1>9, <1>10, <3>1
  <2>2. \A x \in ((j - l) - 1)..j : d[x + 0] = c[x]
    <3> SUFFICES ASSUME NEW x \in ((j - l) - 1)..j
                 PROVE  d[x + 0] = c[x]
      OBVIOUS
    <3> HIDE DEF l
    <3>1. x \in 1..i /\ x + 0 = x
      BY <1>1, <1>10, <2>1 DEF p
    <3> QED BY <1>2, <3>1
  <2>3. j - l + 0 > b
    <3> HIDE DEF l
    <3> QED BY <1>1, <2>1
  <2>4. Ending(m, d, b, k, j + 0)
    <3> DEFINE z == 0
    <3>1. z \in Nat /\ j - l + z > b /\ \A x \in ((j - l) - 1)..j : d[x + z] = c[x]
      BY <2>2, <2>3
    <3> HIDE DEF z
    <3>2. Ending(m, d, b, k, j + z)
      BY <1>1, <2>1, <3>1, EndingMoves
    <3> QED BY <3>2 DEF z
  <2> QED BY <2>1, <2>4
<1>11. ASSUME NEW j \in DOMAIN c, c[j].op = "return", j > p
       PROVE  Ending(m, d, b, k, j + N)
  <2> DEFINE e == ExitOf(m, n, c[j].k)
             l == Len(e)
  <2>1. ExitOf(m, k, c[j].k) = e /\ Ending(m, c, b, n, j) /\ j \in Nat /\ l \in Nat
        /\ j - l > b /\ c[j].k \in DOMAIN m.rets
    <3>1. j # p
      BY <1>6, <1>11, <1>1
    <3> QED BY <1>9, <1>11, <3>1
  <2>2. (j - l) - 1 >= p
    <3> SUFFICES ASSUME ~ ((j - l) - 1 >= p)
                 PROVE  FALSE
      OBVIOUS
    <3> DEFINE x == p - (j - l) + 1
    <3>1. \A y \in 1..l : c[(j - l) + y - 1] = e[y]
      BY <2>1 DEF Ending
    <3>2. \A y \in 1..l : e[y].op # "return"
      <4>1. Piece(m, e) /\ DOMAIN e = 1..l
        BY <2>1, ExitOfPiece
      <4> QED BY <4>1 DEF Piece
    <3> HIDE DEF l, e
    <3>3. x \in 1..l /\ (j - l) + x - 1 = p
      BY <1>6, <1>11, <2>1
    <3> QED BY <1>6, <3>1, <3>2, <3>3
  <2>3. \A x \in ((j - l) - 1)..j : d[x + N] = c[x]
    <3> SUFFICES ASSUME NEW x \in ((j - l) - 1)..j
                 PROVE  d[x + N] = c[x]
      OBVIOUS
    <3> HIDE DEF l
    <3>1. x \in p..Len(c)
      BY <1>1, <1>6, <2>1, <2>2
    <3> QED BY <1>2, <3>1
  <2>4. j - l + N > b
    <3> HIDE DEF l
    <3> QED BY <1>1, <2>1
  <2> QED BY <1>1, <2>1, <2>3, <2>4, EndingMoves
<1>12. Ending(m, d, b, k, p + N)
  <2>1. d[p + N] = c[p]
    <3>1. p \in p..Len(c)
      BY <1>1, <1>6
    <3> QED BY <1>2, <3>1
  <2>2. d[p + N].k = k
    BY <1>6, <2>1
  <2>3. (p + N) - N = p /\ p - 1 = i /\ p > b
    BY <1>1, <1>6 DEF p
  <2>4. c[i].op \in {"body", "return"}
    <3>1. Ending(m, c, b, n, p)
      BY <1>3, <1>6
    <3>2. Len(<< >>) = 0 /\ (p - 0) - 1 = i
      BY <1>1, <1>6 DEF p
    <3> QED BY <1>4, <1>6, <3>1, <3>2 DEF Ending
  <2>5. d[i] = c[i]
    <3>1. i \in 1..i
      BY <1>1
    <3> QED BY <1>2, <3>1
  <2>6. \A x \in 1..N : d[p + x - 1] = s[x]
    <3>1. \A x \in 1..N : p + x - 1 = x + i
      BY <1>1 DEF p
    <3> QED BY <1>2, <3>1
  <2> QED BY <1>4, <2>2, <2>3, <2>4, <2>5, <2>6 DEF Ending, N
<1>13. ASSUME NEW h \in DOMAIN d, d[h].op = "return"
       PROVE  Ending(m, d, b, k, h)
  <2>1. PICK j \in DOMAIN c : d[h] = c[j] /\ ((j < p /\ h = j) \/ (j >= p /\ h = j + N))
    BY <1>14, <1>13
  <2>2. CASE j < p /\ h = j
    BY <1>10, <1>13, <2>1, <2>2
  <2>3. CASE j = p /\ h = j + N
    BY <1>12, <2>3
  <2>4. CASE j > p /\ h = j + N
    BY <1>11, <1>13, <2>1, <2>4
  <2>5. j \in Nat
    BY <1>1
  <2> QED BY <1>6, <2>1, <2>2, <2>3, <2>4, <2>5
<1> QED BY <1>8, <1>13, EndingsAre

----------------------------------------------------------------------------
(* What has been woven, from transform to transform.                       *)

\* With r registers c makes the last `done' calls of Opening, and its first n
\* returns have their exit hook.
Weaves(m, h, r, c, done, n) ==
    /\ c \in Seq(Instruction)
    /\ \E b \in DOMAIN c : /\ Skeleton(m, c, b) /\ CallsWoven(m, h, c, r, b, done)
                           /\ Endings(m, c, b, n)

\* A piece at the start of the method that makes `more' of the calls.
Opens(m, h, s, q, r, done, more) ==
    /\ Piece(m, s) /\ Carries(m, s, q - Ins(m), r - Ins(m))
    /\ Told(m, s, q - Ins(m)) /\ ArrayBuilt(m, s, Len(s) + 1)
    /\ Covers(h, s, Len(s), Len(Opening(h)) - (done + more), Len(Opening(h)) - done)

LEMMA WeavesPrepended ==
    ASSUME NEW m, MethodShape(m), NEW h, Distinct(h), NEW r, NEW q, NEW c, NEW s, NEW n,
           NEW done \in Nat, NEW more \in Nat,
           Weaves(m, h, r, c, done, n), Opens(m, h, s, q, r, done, more)
    PROVE  Weaves(m, h, q, s \o c, done + more, n)
<1> DEFINE d == s \o c
           L == Len(Opening(h))
<1>1. PICK b \in DOMAIN c : /\ Skeleton(m, c, b) /\ CallsWoven(m, h, c, r, b, done)
                            /\ Endings(m, c, b, n)
  BY DEF Weaves
<1>2. /\ Piece(m, s) /\ Carries(m, s, q - Ins(m), r - Ins(m))
      /\ Told(m, s, q - Ins(m)) /\ ArrayBuilt(m, s, Len(s) + 1)
      /\ Covers(h, s, Len(s), L - (done + more), L - done)
  BY DEF Opens
<1>3. c \in Seq(Instruction) /\ s \in Seq(Instruction)
  BY <1>2 DEF Weaves, Piece
<1>4. b \in Nat /\ b # 0 /\ b <= Len(c) /\ c # << >> /\ ~ (b <= 0)
  BY <1>3
<1>5. Inserted(c, 0, s, d)
  BY <1>3, <1>4, ConcatInserted
<1> HIDE DEF d
<1>6. Skeleton(m, d, b + Len(s))
  <2>1. Skeleton(m, d, IF b <= 0 THEN b ELSE b + Len(s))
    BY <1>1, <1>2, <1>5, InsertedSkeleton
  <2> QED BY <1>4, <2>1
<1>7. CallsWoven(m, h, d, q, b + Len(s), done + more)
  BY <1>1, <1>2, <1>4, <1>5, CallsPrepended
<1>8. Endings(m, d, b + Len(s), n)
  BY <1>1, <1>2, <1>5, EndingsPrepended
<1>9. d \in Seq(Instruction) /\ b + Len(s) \in DOMAIN d
  BY <1>5, <1>6 DEF Inserted, Skeleton
<1>10. Weaves(m, h, q, d, done + more, n)
  BY <1>6, <1>7, <1>8, <1>9 DEF Weaves
<1> QED BY <1>10 DEF d

\* Code that only moves makes no calls.
LEMMA MovesOpen ==
    ASSUME NEW m, NEW h, Distinct(h), NEW s, NEW q, NEW r, NEW done \in Nat,
           Piece(m, s), Carries(m, s, q - Ins(m), r - Ins(m)),
           \A j \in DOMAIN s : s[j].op = "move"
    PROVE  Opens(m, h, s, q, r, done, 0)
<1>1. s \in Seq(Instruction) /\ Len(s) \in Nat /\ DOMAIN s = 1..Len(s)
  BY DEF Piece
<1>2. \A j \in 1..Len(s) : s[j].op = "move" /\ s[j].op # "invoke"
      /\ s[j].op \notin {"invoke", "new_array", "aput", "box"}
  BY <1>1
<1>3. Told(m, s, q - Ins(m))
  BY <1>2 DEF Told
<1>4. ArrayBuilt(m, s, Len(s) + 1)
  <2>1. (Len(s) + 1) - 1 = Len(s)
    BY <1>1
  <2> QED BY <1>2, <2>1 DEF ArrayBuilt
<1>5. Covers(h, s, Len(s), Len(Opening(h)) - (done + 0), Len(Opening(h)) - done)
  <2> DEFINE n == Len(Opening(h))
  <2>1. n \in Nat
    BY DEF Distinct
  <2> HIDE DEF n
  <2>2. \A j \in 1..Len(s) : \A t : ~Makes(h, s, j, t)
    BY <1>2 DEF Makes
  <2>3. \A t \in 1..n : ~ (n - (done + 0) < t /\ t <= n - done)
    BY <2>1
  <2> QED BY <1>2, <2>2, <2>3 DEF Covers, n
<1> QED BY <1>3, <1>4, <1>5 DEF Opens

LEMMA MovesWeave ==
    ASSUME NEW m, MethodShape(m), NEW h, Distinct(h), NEW r, NEW q, NEW c, NEW s, NEW n,
           NEW done \in Nat, Weaves(m, h, r, c, done, n),
           Piece(m, s), Carries(m, s, q - Ins(m), r - Ins(m)),
           \A j \in DOMAIN s : s[j].op = "move"
    PROVE  Weaves(m, h, q, s \o c, done, n)
<1> DEFINE more == 0
<1>1. Opens(m, h, s, q, r, done, more) /\ more \in Nat
  BY MovesOpen
<1>2. done + more = done
  OBVIOUS
<1> HIDE DEF more
<1>3. Weaves(m, h, q, s \o c, done + more, n)
  BY <1>1, WeavesPrepended
<1> QED BY <1>2, <1>3

\* A piece with one call makes this one.
LEMMA OneCall ==
    ASSUME NEW h, Distinct(h), NEW s, Len(s) \in Nat, NEW e \in 1..Len(s),
           \A j \in 1..Len(s) : s[j].op = "invoke" <=> j = e,
           NEW t0 \in 1..Len(Opening(h)), Makes(h, s, e, t0)
    PROVE  Covers(h, s, Len(s), t0 - 1, t0)
<1> DEFINE n == Len(Opening(h))
<1>1. n \in Nat /\ \A u, t \in 1..n : Opening(h)[u] = Opening(h)[t] => u = t
  BY DEF Distinct
<1> HIDE DEF n
<1>2. t0 \in 1..n /\ t0 \in Nat /\ t0 - 1 < t0
  BY <1>1 DEF n
<1>3. \A j \in 1..Len(s), t \in 1..n : Makes(h, s, j, t) => j = e /\ t = t0
  BY <1>1, <1>2 DEF Makes
<1>4. \A j \in 1..Len(s) : s[j].op = "invoke" =>
          \E t \in 1..n : t0 - 1 < t /\ t <= t0 /\ Makes(h, s, j, t)
  BY <1>2
<1>5. \A i, j \in 1..Len(s), u, t \in 1..n :
          Makes(h, s, i, u) /\ Makes(h, s, j, t) => (i < j <=> u < t)
  <2> SUFFICES ASSUME NEW i \in 1..Len(s), NEW j \in 1..Len(s), NEW u \in 1..n, NEW t \in 1..n,
                      Makes(h, s, i, u), Makes(h, s, j, t)
               PROVE  i < j <=> u < t
    OBVIOUS
  <2>1. i = e /\ j = e /\ u = t0 /\ t = t0
    BY <1>3
  <2>2. e \in Nat
    OBVIOUS
  <2> QED BY <1>2, <2>1, <2>2
<1>6. \A t \in 1..n : t0 - 1 < t /\ t <= t0 => \E j \in 1..Len(s) : Makes(h, s, j, t)
  <2> SUFFICES ASSUME NEW t \in 1..n, t0 - 1 < t, t <= t0
               PROVE  \E j \in 1..Len(s) : Makes(h, s, j, t)
    OBVIOUS
  <2>1. t = t0
    BY <1>1, <1>2
  <2> QED BY <2>1
<1> QED BY <1>4, <1>5, <1>6 DEF Covers, n

\* A modifier's code is prepared for the arguments where they arrive.
LEMMA ModifyOpens ==
    ASSUME NEW m, MethodShape(m), NEW q \in Nat, q - Ins(m) >= 3,
           NEW idx \in Nat, idx < Len(m.params),
           NEW h, Distinct(h), NEW t0 \in 1..Len(Opening(h)), Opening(h)[t0] = << "modify", idx >>,
           NEW done \in Nat, t0 = Len(Opening(h)) - done
    PROVE  Opens(m, h, ModifyCode(m, q, idx), q, q, done, 1)
<1> DEFINE first == q - Ins(m)
           slot == Slot(m, idx)
           src  == first + slot
           w    == Len(Slots(m.params[idx + 1]))
           this == IF m.static THEN << >> ELSE << first >>
           args == << 0, 1, 2 >> \o this \o [i \in 1..w |-> src + i - 1]
           s    == ModifyCode(m, q, idx)
           p    == Block(m, first)
<1>1. Piece(m, s) /\ Carries(m, s, first, first)
  BY ModifyCarries
<1>2. s = << Const(0, Id), Const(2, << Number(idx) >>),
             Invoke("modify", idx, args), MoveResult(src, w) >>
  BY DEF ModifyCode
<1>3. /\ Ins(m) \in Nat /\ first \in Nat /\ slot \in Nat /\ w \in 1..2
      /\ slot + w <= Ins(m) /\ (~m.static => Ins(m) >= 1)
  <2>1. /\ Len(m.params) \in Nat /\ idx \in 0..Len(m.params) /\ idx + 1 \in 1..Len(m.params)
        /\ (idx + 1) - 1 = idx /\ Len(m.params) \in (idx + 1)..Len(m.params)
        /\ 0 \in 0..Len(m.params) /\ Len(m.params) \in 0..Len(m.params) /\ idx + 1 \in 0..Len(m.params)
    <3>1. Len(m.params) \in Nat
      BY SlotStep
    <3> QED BY <3>1
  <2>2. slot \in Nat /\ Ins(m) = Slot(m, Len(m.params)) /\ Ins(m) \in Nat
        /\ Slot(m, idx + 1) = slot + w /\ w \in 1..2
    BY <2>1, SlotStep DEF Width
  <2>3. Slot(m, idx + 1) <= Slot(m, Len(m.params))
    BY <2>1, SlotOrder
  <2>4. Slot(m, 0) <= Slot(m, Len(m.params)) /\ Slot(m, 0) = IF m.static THEN 0 ELSE 1
    BY <2>1, SlotOrder, SlotStep
  <2> DEFINE N == Ins(m)
             all == Slot(m, Len(m.params))
             end == Slot(m, idx + 1)
             start == Slot(m, 0)
  <2>5. /\ slot \in Nat /\ N = all /\ N \in Nat /\ end = slot + w /\ w \in 1..2
        /\ end <= all /\ start <= all /\ start = (IF m.static THEN 0 ELSE 1)
        /\ q - N >= 3
    BY <2>2, <2>3, <2>4
  <2> HIDE DEF N, all, end, start, slot, w
  <2>6. /\ N \in Nat /\ q - N \in Nat /\ slot \in Nat /\ w \in 1..2
        /\ slot + w <= N /\ (~m.static => N >= 1)
    BY <2>5, SMTT(30)
  <2> QED BY <2>6 DEF N
<1>4. args = << 0, 1, 2 >> \o (IF m.static THEN << >> ELSE << p[0] >>)
                \o [i \in 1..w |-> p[slot + i - 1]]
  <2>1. ~m.static => p[0] = first
    BY <1>3, SMTT(30) DEF Block
  <2>2. \A i \in 1..w : p[slot + i - 1] = src + i - 1
    <3> SUFFICES ASSUME NEW i \in 1..w
                 PROVE  p[slot + i - 1] = src + i - 1
      OBVIOUS
    <3>1. slot + i - 1 \in 0..(Ins(m) - 1) /\ first + (slot + i - 1) = src + i - 1
      <4> HIDE DEF first, slot, w
      <4> QED BY <1>3
    <3> QED BY <3>1 DEF Block
  <2> HIDE DEF p, slot, src, first, w
  <2>3. [i \in 1..w |-> src + i - 1] = [i \in 1..w |-> p[slot + i - 1]]
    BY <2>2
  <2>4. this = IF m.static THEN << >> ELSE << p[0] >>
    BY <2>1
  <2> QED BY <2>3, <2>4
<1> HIDE DEF args, s, src, w
<1>5. /\ Len(s) = 4 /\ s[1] = Const(0, Id) /\ s[2] = Const(2, << Number(idx) >>)
      /\ s[3] = Invoke("modify", idx, args) /\ s[4] = MoveResult(src, w)
  BY <1>2
<1>6. /\ s[1].op = "const" /\ s[2].op = "const" /\ s[4].op = "move_result"
      /\ s[3].op = "invoke" /\ s[3].hook = "modify" /\ s[3].idx = idx /\ s[3].args = args
  BY <1>5 DEF Const, Invoke, MoveResult
<1>7. \A j \in 1..4 : j = 1 \/ j = 2 \/ j = 3 \/ j = 4
  OBVIOUS
<1>8. Told(m, s, first)
  <2>1. Prepared(m, s, 3, p)
    <3>1. s[3].args = << 0, 1, 2 >> \o (IF m.static THEN << >> ELSE << p[0] >>)
             \o [i \in 1..Len(Slots(m.params[s[3].idx + 1])) |-> p[Slot(m, s[3].idx) + i - 1]]
      BY <1>4, <1>6 DEF w
    <3>2. 3 > 2 /\ 3 - 2 = 1 /\ 3 - 1 = 2
      OBVIOUS
    <3>3. s[3 - 2] = Const(0, Id) /\ s[3 - 1] = Const(2, << Number(s[3].idx) >>)
      BY <1>5, <1>6, <3>2
    <3>4. s[3].op # "new_array" /\ s[3].op # "aput"
      BY <1>6
    <3> HIDE DEF p, slot
    <3> QED BY <3>1, <3>2, <3>3, <3>4 DEF Prepared
  <2>2. \A j \in 1..4 : s[j].op # "move"
    BY <1>6, <1>7
  <2>3. \A j \in 1..4 : s[j].op \in {"invoke", "new_array", "aput"} => j = 3
    BY <1>6, <1>7
  <2>4. \A j \in 1..4 : \A i \in 1..j : i \in 1..4
    OBVIOUS
  <2> HIDE DEF p, slot, first
  <2> QED BY <1>5, <2>1, <2>2, <2>3, <2>4 DEF Told, p
<1>9. ArrayBuilt(m, s, Len(s) + 1)
  <2>1. (Len(s) + 1) - 1 = 4
    BY <1>5
  <2>2. \A j \in 1..4 : s[j].op \notin {"new_array", "aput", "box"}
                        /\ ~ (s[j].op = "invoke" /\ s[j].hook = "enter")
    BY <1>6, <1>7
  <2> QED BY <2>1, <2>2 DEF ArrayBuilt
<1>10. Covers(h, s, Len(s), Len(Opening(h)) - (done + 1), Len(Opening(h)) - done)
  <2>1. Makes(h, s, 3, t0)
    BY <1>6 DEF Makes
  <2>2. \A j \in 1..Len(s) : s[j].op = "invoke" <=> j = 3
    BY <1>5, <1>6, <1>7
  <2>3. Len(s) \in Nat /\ 3 \in 1..Len(s)
    BY <1>5
  <2>4. Covers(h, s, Len(s), t0 - 1, t0)
    BY <2>1, <2>2, <2>3, OneCall
  <2>5. Len(Opening(h)) \in Nat
    BY DEF Distinct
  <2>6. t0 - 1 = Len(Opening(h)) - (done + 1) /\ t0 = Len(Opening(h)) - done
    BY <2>5
  <2> QED BY <2>4, <2>6
<1> HIDE DEF first
<1> QED BY <1>1, <1>8, <1>9, <1>10 DEF Opens, first, s

\* Code that stores the elements X of the array, from where the arguments are, at p.
Stored(m, s, p, X) ==
    /\ s \in Seq(Instruction)
    /\ \A j \in 1..Len(s) : /\ s[j].op \in {"const", "aput", "box"}
                            /\ Prepared(m, s, j, p)
    /\ \A x \in X : \E j \in 1..Len(s) : StoresElement(s, j, x)

LEMMA ConcatFollows ==
    ASSUME NEW c \in Seq(Instruction), NEW d \in Seq(Instruction)
    PROVE  /\ \A j \in 1..Len(c) : Follows(c, j, c \o d, j)
           /\ \A j \in 1..Len(d) : Follows(d, j, c \o d, j + Len(c))
<1> DEFINE e == c \o d
           L == Len(c)
           N == Len(d)
<1>1. L \in Nat /\ N \in Nat
  OBVIOUS
<1>2. /\ \A i \in 1..L : e[i] = c[i]
      /\ \A i \in (L + 1)..(L + N) : e[i] = d[i - L]
  BY Concat
<1>3. \A i \in 1..N : e[i + L] = d[i]
  <2> SUFFICES ASSUME NEW i \in 1..N
               PROVE  e[i + L] = d[i]
    OBVIOUS
  <2> HIDE DEF e, L, N
  <2>1. i + L \in (L + 1)..(L + N) /\ (i + L) - L = i
    BY <1>1
  <2> QED BY <1>2, <2>1
<1> HIDE DEF e, L, N
<1>4. ASSUME NEW j \in 1..L
      PROVE  Follows(c, j, e, j)
  <2>1. /\ j > 1 => j - 1 \in 1..L
        /\ j > 2 => j - 2 \in 1..L
    BY <1>1
  <2> QED BY <1>2, <2>1 DEF Follows
<1>5. ASSUME NEW j \in 1..N
      PROVE  Follows(d, j, e, j + L)
  <2>1. /\ j > 1 => j - 1 \in 1..N /\ (j + L) - 1 = (j - 1) + L /\ j + L > 1
        /\ j > 2 => j - 2 \in 1..N /\ (j + L) - 2 = (j - 2) + L /\ j + L > 2
    BY <1>1
  <2> QED BY <1>3, <2>1 DEF Follows
<1> QED BY <1>4, <1>5 DEF e, L, N

LEMMA ConcatStored ==
    ASSUME NEW m, NEW s, NEW t, NEW p, NEW X, NEW Y, Stored(m, s, p, X), Stored(m, t, p, Y)
    PROVE  Stored(m, s \o t, p, X \cup Y)
<1> DEFINE e == s \o t
           L == Len(s)
           N == Len(t)
<1>1. /\ s \in Seq(Instruction) /\ t \in Seq(Instruction) /\ L \in Nat /\ N \in Nat
      /\ \A j \in 1..L : s[j].op \in {"const", "aput", "box"} /\ Prepared(m, s, j, p)
      /\ \A j \in 1..N : t[j].op \in {"const", "aput", "box"} /\ Prepared(m, t, j, p)
      /\ \A x \in X : \E j \in 1..L : StoresElement(s, j, x)
      /\ \A x \in Y : \E j \in 1..N : StoresElement(t, j, x)
  BY DEF Stored
<1>2. e \in Seq(Instruction) /\ Len(e) = L + N
  BY <1>1, Concat
<1>3. /\ \A j \in 1..L : Follows(s, j, e, j)
      /\ \A j \in 1..N : Follows(t, j, e, j + L)
  BY <1>1, ConcatFollows
<1> HIDE DEF e, L, N
<1>4. \A j \in 1..L : /\ e[j] = s[j] /\ Prepared(m, e, j, p)
                      /\ \A x : StoresElement(s, j, x) => StoresElement(e, j, x)
  <2> SUFFICES ASSUME NEW j \in 1..L
               PROVE  /\ e[j] = s[j] /\ Prepared(m, e, j, p)
                      /\ \A x : StoresElement(s, j, x) => StoresElement(e, j, x)
    OBVIOUS
  <2>1. j \in Nat /\ Follows(s, j, e, j) /\ Prepared(m, s, j, p)
    BY <1>1, <1>3
  <2> QED BY <2>1, PreparedElsewhere DEF Follows
<1>5. \A j \in 1..N : /\ e[j + L] = t[j] /\ Prepared(m, e, j + L, p)
                      /\ \A x : StoresElement(t, j, x) => StoresElement(e, j + L, x)
  <2> SUFFICES ASSUME NEW j \in 1..N
               PROVE  /\ e[j + L] = t[j] /\ Prepared(m, e, j + L, p)
                      /\ \A x : StoresElement(t, j, x) => StoresElement(e, j + L, x)
    OBVIOUS
  <2>1. j \in Nat /\ Follows(t, j, e, j + L) /\ Prepared(m, t, j, p)
    BY <1>1, <1>3
  <2> QED BY <2>1, PreparedElsewhere DEF Follows
<1>6. ASSUME NEW h \in 1..(L + N)
      PROVE  e[h].op \in {"const", "aput", "box"} /\ Prepared(m, e, h, p)
  <2>1. CASE h <= L
    <3>1. h \in 1..L
      BY <1>1, <2>1
    <3> QED BY <1>1, <1>4, <3>1
  <2>2. CASE ~ (h <= L)
    <3>1. h - L \in 1..N /\ (h - L) + L = h
      BY <1>1, <2>2
    <3> QED BY <1>1, <1>5, <3>1
  <2> QED BY <2>1, <2>2
<1>7. ASSUME NEW x \in X \cup Y
      PROVE  \E j \in 1..(L + N) : StoresElement(e, j, x)
  <2>1. CASE x \in X
    <3>1. PICK j \in 1..L : StoresElement(s, j, x)
      BY <1>1, <2>1
    <3>2. j \in 1..(L + N)
      BY <1>1
    <3> QED BY <1>4, <3>1, <3>2
  <2>2. CASE x \in Y
    <3>1. PICK j \in 1..N : StoresElement(t, j, x)
      BY <1>1, <2>2
    <3>2. j + L \in 1..(L + N)
      BY <1>1
    <3> QED BY <1>5, <3>1, <3>2
  <2> QED BY <2>1, <2>2
<1> QED BY <1>2, <1>6, <1>7 DEF Stored, e

LEMMA NothingStored ==
    ASSUME NEW m, NEW p
    PROVE  Stored(m, << >>, p, {})
<1> DEFINE s == << >>
<1>1. s \in Seq(Instruction) /\ Len(s) = 0
  OBVIOUS
<1> HIDE DEF s
<1>2. Stored(m, s, p, {})
  BY <1>1 DEF Stored
<1> QED BY <1>2 DEF s

\* The code for one element.
LEMMA StoreStored ==
    ASSUME NEW m, NEW p, NEW x \in Elements(m), x \in Nat, NEW type,
           IsBoxed(m, x) <=> type # "ref", type # "ref" => type = m.params[x],
           p[ElementSlot(m, x)] \in Nat
    PROVE  Stored(m, StoreArgument(type, p[ElementSlot(m, x)], x), p, {x})
<1> DEFINE src == p[ElementSlot(m, x)]
           s == StoreArgument(type, src, x)
           v == << Number(x) >>
<1>1. src \in Nat /\ v \in Seq(Token) /\ Len(Slots(type)) \in Nat
  BY TokensOK, SlotsOK
<1> HIDE DEF src
<1>2. Const(0, v) \in Instruction /\ Const(0, v).op = "const"
  <2> HIDE DEF v
  <2> QED BY <1>1, ConstOK
<1>3. CASE type = "ref"
  <2> DEFINE a == AputObject(src, 2, 0)
             k == Const(0, v)
  <2>1. a \in Instruction /\ a.op = "aput" /\ a.idx = 0 /\ a.src = src
    BY <1>1 DEF AputObject, Instruction
  <2>2. s = << k, a >>
    BY <1>3 DEF StoreArgument
  <2>7. k \in Instruction /\ k.op = "const" /\ k = Const(0, << Number(x) >>)
    BY <1>2
  <2> HIDE DEF a, s, k, v
  <2>3. s \in Seq(Instruction) /\ Len(s) = 2 /\ s[1] = k /\ s[2] = a
    BY <2>1, <2>2, <2>7
  <2>4. StoresElement(s, 2, x)
    <3>1. 2 > 1 /\ 2 - 1 = 1
      OBVIOUS
    <3> QED BY <2>1, <2>3, <2>7, <3>1 DEF StoresElement
  <2>5. Prepared(m, s, 1, p) /\ Prepared(m, s, 2, p)
    <3>1. s[1].op = "const" /\ s[2].op = "aput" /\ s[2].src = p[ElementSlot(m, x)]
      BY <2>1, <2>3, <2>7 DEF src
    <3>2. Prepared(m, s, 1, p)
      BY <3>1 DEF Prepared
    <3>3. Prepared(m, s, 2, p)
      BY <1>3, <2>4, <3>1 DEF Prepared
    <3> QED BY <3>2, <3>3
  <2>6. Stored(m, s, p, {x})
    <3>1. \A j \in 1..2 : j = 1 \/ j = 2
      OBVIOUS
    <3> QED BY <2>1, <2>3, <2>4, <2>5, <2>7, <3>1 DEF Stored
  <2> QED BY <2>6 DEF s, src
<1>4. CASE type # "ref"
  <2> DEFINE a == AputObject(1, 2, 0)
             k == Const(0, v)
             o == BoxValue(src, Len(Slots(type)), 1)
  <2>1. a \in Instruction /\ a.op = "aput" /\ a.idx = 0 /\ a.src = 1
    BY DEF AputObject, Instruction
  <2>2. s = << o, k, a >>
    BY <1>4 DEF StoreArgument
  <2>8. o \in Instruction /\ o.op = "box"
    BY <1>1 DEF BoxValue, Instruction
  <2>9. o = BoxValue(p[ElementSlot(m, x)], Len(Slots(m.params[x])), 1)
    BY <1>4 DEF src
  <2>7. k \in Instruction /\ k.op = "const" /\ k = Const(0, << Number(x) >>)
    BY <1>2
  <2> HIDE DEF a, s, k, v, o
  <2>3. s \in Seq(Instruction) /\ Len(s) = 3 /\ s[1] = o /\ s[2] = k /\ s[3] = a
    BY <2>1, <2>2, <2>7, <2>8
  <2>4. StoresElement(s, 3, x)
    <3>1. 3 > 1 /\ 3 - 1 = 2
      OBVIOUS
    <3> QED BY <2>1, <2>3, <2>7, <3>1 DEF StoresElement
  <2>5. Prepared(m, s, 1, p) /\ Prepared(m, s, 2, p) /\ Prepared(m, s, 3, p)
    <3>1. s[1].op = "box" /\ s[2].op = "const" /\ s[3].op = "aput" /\ s[3].src = 1
      BY <2>1, <2>3, <2>7, <2>8
    <3>2. Prepared(m, s, 1, p) /\ Prepared(m, s, 2, p)
      BY <3>1 DEF Prepared
    <3>3. Prepared(m, s, 3, p)
      <4>1. 3 > 2 /\ 3 - 2 = 1
        OBVIOUS
      <4> QED BY <1>4, <2>3, <2>4, <2>9, <3>1, <4>1 DEF Prepared
    <3> QED BY <3>2, <3>3
  <2>6. Stored(m, s, p, {x})
    <3>1. \A j \in 1..3 : j = 1 \/ j = 2 \/ j = 3
      OBVIOUS
    <3>2. 3 \in 1..Len(s)
      BY <2>3
    <3> QED BY <2>1, <2>3, <2>4, <2>5, <2>7, <2>8, <3>1, <3>2 DEF Stored
  <2> QED BY <2>6 DEF s, src
<1> QED BY <1>3, <1>4

LEMMA AllStored ==
    ASSUME NEW m, NEW p, NEW n \in Nat, NEW seqs \in [1..n -> Seq(Instruction)],
           \A i \in 1..n : Stored(m, seqs[i], p, {i})
    PROVE  Stored(m, FlattenSeq(seqs), p, 1..n)
<1>1. CASE n = 0
  <2>1. seqs \in [1..0 -> Seq(Instruction)] /\ 1..n = {}
    BY <1>1
  <2>2. FlattenSeq(seqs) = << >>
    BY <2>1, FlattenNone
  <2> QED BY <2>1, <2>2, NothingStored
<1>2. CASE n # 0
  <2>1. PICK f : FlattenSeq(seqs) = f[n] /\ Appends(Instruction, seqs, n, f)
    BY <1>2, FlattenLast DEF FlattensTo
  <2>2. \A i \in 1..n : f[i] = IF i = 1 THEN seqs[i] ELSE f[i - 1] \o seqs[i]
    BY <2>1 DEF Appends
  <2> DEFINE T == {i \in 1..n : ~ Stored(m, f[i], p, 1..i)}
  <2>3. T = {}
    <3> SUFFICES ASSUME T # {}
                 PROVE  FALSE
      OBVIOUS
    <3>1. T \in SUBSET Nat
      OBVIOUS
    <3>2. PICK i \in T : \A x \in T : i <= x
      <4> HIDE DEF T
      <4> QED BY <3>1, Least
    <3>3. i \in 1..n /\ ~ Stored(m, f[i], p, 1..i) /\ Stored(m, seqs[i], p, {i})
      BY <3>2
    <3>4. i # 1
      <4>1. 1..1 = {1}
        OBVIOUS
      <4> QED BY <2>2, <3>3, <4>1
    <3>5. i - 1 \in 1..n /\ ~ (i <= i - 1) /\ (1..(i - 1)) \cup {i} = 1..i
      BY <3>3, <3>4
    <3>6. Stored(m, f[i - 1], p, 1..(i - 1))
      BY <3>2, <3>5
    <3>7. f[i] = f[i - 1] \o seqs[i]
      BY <2>2, <3>3, <3>4
    <3>8. Stored(m, f[i - 1] \o seqs[i], p, (1..(i - 1)) \cup {i})
      BY <3>3, <3>6, ConcatStored
    <3> QED BY <3>3, <3>5, <3>7, <3>8
  <2>4. Stored(m, f[n], p, 1..n)
    BY <1>2, <2>3
  <2> QED BY <2>1, <2>4
<1> QED BY <1>1, <1>2

\* EntryHook's code: t stores the elements of the array.
EntryIs(m, s, t) ==
    /\ s \in Seq(Instruction) /\ t \in Seq(Instruction) /\ Len(s) = Len(t) + 7
    /\ s[1] = Const(0, << Number(1 + Len(m.params)) >>) /\ s[2] = NewArray(2, 0)
    /\ \A j \in 1..Len(t) : Follows(t, j, s, j + 2)
    /\ s[Len(t) + 3] = Const(0, Id) /\ s[Len(t) + 4] = Invoke("enter", 0, << 0, 1, 2 >>)
    /\ \A j \in (Len(t) + 5)..(Len(t) + 7) : s[j].op = "const"

LEMMA ElementPlaces ==
    ASSUME NEW m, MethodShape(m), NEW first \in Nat, NEW x \in Elements(m)
    PROVE  /\ x \in Nat
           /\ ElementSlot(m, x) \in 0..(Ins(m) - 1)
           /\ Block(m, first)[ElementSlot(m, x)] = first + ElementSlot(m, x)
           /\ x # 0 => x \in 1..Len(m.params) /\ x \in DOMAIN m.params
                       /\ ElementSlot(m, x) + Width(m, x) <= Ins(m) /\ Width(m, x) \in 1..2
<1> DEFINE L == Len(m.params)
<1>1. /\ L \in Nat /\ L \in 0..L /\ Ins(m) = Slot(m, L) /\ Ins(m) \in Nat
      /\ Slot(m, 0) = IF m.static THEN 0 ELSE 1
  BY SlotStep
<1>2. DOMAIN m.params = 1..L
  BY DEF MethodShape
<1> HIDE DEF L
<1>3. CASE x = 0
  <2>1. ~m.static
    BY <1>3 DEF Elements
  <2>2. 0 \in 0..L /\ L \in 0..L
    BY <1>1
  <2>3. Slot(m, 0) <= Slot(m, L)
    BY <2>2, SlotOrder DEF L
  <2>4. ElementSlot(m, x) = 0 /\ Ins(m) >= 1
    BY <1>1, <1>3, <2>1, <2>3 DEF ElementSlot
  <2>5. 0 \in 0..(Ins(m) - 1)
    BY <1>1, <2>4
  <2> QED BY <1>3, <2>4, <2>5 DEF Block
<1>4. CASE x # 0
  <2>1. x \in 1..L /\ x \in Nat /\ x - 1 \in 0..L /\ x \in 0..L /\ L \in x..L
    <3>1. x \in Nat /\ x <= L
      BY <1>1 DEF Elements, L
    <3> QED BY <1>1, <1>4, <3>1
  <2>2. Slot(m, x) = Slot(m, x - 1) + Width(m, x) /\ Width(m, x) \in 1..2 /\ Slot(m, x - 1) \in Nat
    BY <2>1, SlotStep DEF L
  <2>3. Slot(m, x) <= Slot(m, L)
    BY <2>1, SlotOrder DEF L
  <2> DEFINE e == ElementSlot(m, x)
             N == Ins(m)
             w == Width(m, x)
  <2>4. e = Slot(m, x - 1) /\ e \in Nat /\ N \in Nat /\ w \in 1..2 /\ e + w <= N
    BY <1>1, <1>4, <2>2, <2>3 DEF ElementSlot
  <2> HIDE DEF e, N, w
  <2>5. e \in 0..(N - 1)
    BY <2>4
  <2>6. Block(m, first)[e] = first + e
    BY <2>5 DEF Block, N
  <2> QED BY <1>2, <2>1, <2>4, <2>5, <2>6 DEF e, N, w, L
<1> QED BY <1>3, <1>4

LEMMA EntryStores ==
    ASSUME NEW m, MethodShape(m), NEW q \in Nat, q - Ins(m) \in Nat
    PROVE  \E t : EntryIs(m, EntryCode(m, q), t)
                  /\ Stored(m, t, Block(m, q - Ins(m)), Elements(m))
<1> DEFINE first == q - Ins(m)
           p == Block(m, first)
           L == Len(m.params)
           this == IF m.static THEN << >> ELSE StoreArgument("ref", first, 0)
           store(i) == StoreArgument(m.params[i], first + Slot(m, i - 1), i)
           stores == [i \in 1..L |-> store(i)]
           flat == FlattenSeq(stores)
           number == Const(0, << Number(1 + L) >>)
           alloc == NewArray(2, 0)
           head == << number, alloc >>
           id == Const(0, Id)
           enter == Invoke("enter", 0, << 0, 1, 2 >>)
           call == << id, enter >>
           junk == [i \in 1..3 |-> Const(i - 1, << Junk >>)]
           t == this \o flat
<1>1. L \in Nat /\ DOMAIN m.params = 1..L
  <2>1. L \in Nat
    BY SlotStep
  <2> QED BY <2>1 DEF MethodShape
<1>2. \A x \in Elements(m) : /\ x \in Nat /\ p[ElementSlot(m, x)] = first + ElementSlot(m, x)
                             /\ ElementSlot(m, x) \in Nat
  <2>1. first \in Nat
    OBVIOUS
  <2> HIDE DEF first
  <2>2. \A x \in Elements(m) : /\ x \in Nat /\ ElementSlot(m, x) \in 0..(Ins(m) - 1)
                               /\ Block(m, first)[ElementSlot(m, x)] = first + ElementSlot(m, x)
    BY <2>1, ElementPlaces
  <2>3. Ins(m) \in Nat
    BY InsIsNat
  <2> QED BY <2>2, <2>3
<1>3. Stored(m, this, p, IF m.static THEN {} ELSE {0})
  <2>1. CASE m.static
    BY <2>1, NothingStored
  <2>2. CASE ~m.static
    <3>1. 0 \in Elements(m)
      BY <1>1, <2>2 DEF Elements
    <3>2. ElementSlot(m, 0) = 0 /\ ~IsBoxed(m, 0)
      BY DEF ElementSlot, IsBoxed
    <3>3. p[ElementSlot(m, 0)] = first /\ first \in Nat
      <4>1. p[ElementSlot(m, 0)] = first + ElementSlot(m, 0)
        BY <1>2, <3>1
      <4>2. first \in Nat
        OBVIOUS
      <4> HIDE DEF p, first
      <4> QED BY <3>2, <4>1, <4>2
    <3> HIDE DEF p, first
    <3>4. Stored(m, StoreArgument("ref", p[ElementSlot(m, 0)], 0), p, {0})
      BY <3>1, <3>2, <3>3, StoreStored
    <3> QED BY <2>2, <3>3, <3>4
  <2> QED BY <2>1, <2>2
<1>4. \A i \in 1..L : Stored(m, store(i), p, {i})
  <2> SUFFICES ASSUME NEW i \in 1..L
               PROVE  Stored(m, store(i), p, {i})
    OBVIOUS
  <2>1. i \in Elements(m) /\ i # 0 /\ i \in Nat
    BY <1>1 DEF Elements
  <2>2. ElementSlot(m, i) = Slot(m, i - 1) /\ (IsBoxed(m, i) <=> m.params[i] # "ref")
    BY <2>1 DEF ElementSlot, IsBoxed
  <2>3. p[ElementSlot(m, i)] = first + Slot(m, i - 1) /\ p[ElementSlot(m, i)] \in Nat
    <3>1. first \in Nat
      OBVIOUS
    <3> HIDE DEF first, p
    <3> QED BY <1>2, <2>1, <2>2, <3>1
  <2> HIDE DEF p, first
  <2>4. Stored(m, StoreArgument(m.params[i], p[ElementSlot(m, i)], i), p, {i})
    BY <2>1, <2>2, <2>3, StoreStored
  <2> QED BY <2>3, <2>4
<1> HIDE DEF this, store, p
<1>5. Stored(m, flat, p, 1..L)
  <2>1. stores \in [1..L -> Seq(Instruction)] /\ \A i \in 1..L : stores[i] = store(i)
    BY <1>4 DEF Stored
  <2> HIDE DEF stores, L
  <2> QED BY <1>1, <1>4, <2>1, AllStored
<1>6. Stored(m, t, p, Elements(m))
  <2>1. Elements(m) = (IF m.static THEN {} ELSE {0}) \cup (1..L)
    BY <1>1 DEF Elements
  <2> HIDE DEF flat, L
  <2>2. Stored(m, this \o flat, p, (IF m.static THEN {} ELSE {0}) \cup (1..L))
    BY <1>3, <1>5, ConcatStored
  <2> QED BY <2>1, <2>2
<1>7. EntryCode(m, q) = head \o this \o flat \o call \o junk
  <2>1. [i \in DOMAIN m.params |-> StoreArgument(m.params[i], first + Slot(m, i - 1), i)] = stores
    BY <1>1 DEF store
  <2> QED BY <2>1 DEF EntryCode, this
<1>8. /\ this \in Seq(Instruction) /\ flat \in Seq(Instruction) /\ t \in Seq(Instruction)
  BY <1>3, <1>5, <1>6 DEF Stored
<1> HIDE DEF flat
<1>9. number \in Instruction /\ alloc \in Instruction /\ id \in Instruction /\ enter \in Instruction
  <2>1. number \in Instruction
    <3>1. << Number(1 + L) >> \in Seq(Token)
      BY <1>1, TokensOK
    <3> QED BY <3>1, ConstOK
  <2>2. alloc \in Instruction
    BY DEF NewArray, Instruction
  <2>3. id \in Instruction
    BY TokensOK, ConstOK
  <2>4. enter \in Instruction
    BY DEF Invoke, Instruction
  <2> QED BY <2>1, <2>2, <2>3, <2>4
<1>10. junk \in Seq(Instruction) /\ Len(junk) = 3 /\ \A i \in 1..3 : junk[i].op = "const"
  <2>1. << Junk >> \in Seq(Token)
    BY TokensOK
  <2>2. \A i \in 1..3 : Const(i - 1, << Junk >>) \in Instruction /\ Const(i - 1, << Junk >>).op = "const"
    <3>1. \A i \in 1..3 : i - 1 \in Nat
      OBVIOUS
    <3> QED BY <2>1, <3>1, ConstOK
  <2>3. junk \in [1..3 -> Instruction] /\ \A i \in 1..3 : junk[i] = Const(i - 1, << Junk >>)
    BY <2>2
  <2> QED BY <2>2, <2>3, SeqDef
<1> HIDE DEF number, alloc, id, enter, junk
<1>11. /\ head \in Seq(Instruction) /\ Len(head) = 2 /\ head[1] = number /\ head[2] = alloc
       /\ call \in Seq(Instruction) /\ Len(call) = 2 /\ call[1] = id /\ call[2] = enter
  BY <1>9
<1> HIDE DEF head, call
<1>12. EntryCode(m, q) = ((head \o t) \o call) \o junk
  <2>1. (head \o this) \o flat = head \o (this \o flat)
    <3>1. head \in Seq(Instruction) /\ this \in Seq(Instruction) /\ flat \in Seq(Instruction)
      BY <1>8, <1>11
    <3> HIDE DEF L, stores, first, t
    <3> QED BY <3>1, ConcatAssociative, SMTT(30)
  <2> QED BY <1>7, <2>1
<1> HIDE DEF t
<1> DEFINE N == Len(t)
           u == head \o t
           v == u \o call
           s == v \o junk
<1>13. N \in Nat
  BY <1>8
<1>14. /\ u \in Seq(Instruction) /\ Len(u) = N + 2 /\ u[1] = number /\ u[2] = alloc
       /\ \A j \in 1..N : Follows(t, j, u, j + 2)
  <2>1. /\ u \in Seq(Instruction) /\ Len(u) = Len(head) + N
        /\ \A i \in 1..Len(head) : u[i] = head[i]
        /\ \A j \in 1..N : Follows(t, j, u, j + Len(head))
    BY <1>8, <1>11, Concat, ConcatFollows, ZenonT(40)
  <2> HIDE DEF u, N
  <2> QED BY <1>11, <1>13, <2>1
<1> HIDE DEF u
<1>15. /\ v \in Seq(Instruction) /\ Len(v) = N + 4 /\ \A j \in 1..(N + 2) : v[j] = u[j]
       /\ v[N + 3] = id /\ v[N + 4] = enter
  <2>1. /\ v \in Seq(Instruction) /\ Len(v) = Len(u) + Len(call)
        /\ \A j \in 1..Len(u) : v[j] = u[j]
        /\ \A j \in (Len(u) + 1)..(Len(u) + Len(call)) : v[j] = call[j - Len(u)]
    BY <1>11, <1>14, Concat, ZenonT(40)
  <2> HIDE DEF v, N
  <2>2. N + 3 \in (N + 3)..(N + 4) /\ N + 4 \in (N + 3)..(N + 4)
        /\ (N + 3) - (N + 2) = 1 /\ (N + 4) - (N + 2) = 2 /\ (N + 2) + 2 = N + 4 /\ (N + 2) + 1 = N + 3
    BY <1>13
  <2> QED BY <1>11, <1>14, <2>1, <2>2
<1> HIDE DEF v
<1>16. /\ s \in Seq(Instruction) /\ Len(s) = N + 7 /\ \A j \in 1..(N + 4) : s[j] = v[j]
       /\ \A j \in (N + 5)..(N + 7) : s[j].op = "const"
  <2>1. /\ s \in Seq(Instruction) /\ Len(s) = Len(v) + Len(junk)
        /\ \A j \in 1..Len(v) : s[j] = v[j]
        /\ \A j \in (Len(v) + 1)..(Len(v) + Len(junk)) : s[j] = junk[j - Len(v)]
    <3>1. v \in Seq(Instruction) /\ junk \in Seq(Instruction)
      BY <1>10, <1>15
    <3> QED BY <3>1, Concat
  <2> HIDE DEF s, N
  <2>2. Len(v) = N + 4 /\ Len(junk) = 3
    BY <1>10, <1>15
  <2>3. s \in Seq(Instruction) /\ Len(s) = N + 7 /\ \A j \in 1..(N + 4) : s[j] = v[j]
    BY <1>13, <2>1, <2>2
  <2>4. ASSUME NEW j \in (N + 5)..(N + 7)
        PROVE  s[j].op = "const"
    <3>1. j - Len(v) \in 1..3 /\ j \in (Len(v) + 1)..(Len(v) + Len(junk))
      BY <1>13, <2>2
    <3>2. s[j] = junk[j - Len(v)]
      BY <2>1, <3>1
    <3> QED BY <1>10, <3>1, <3>2
  <2> QED BY <2>3, <2>4
<1> HIDE DEF s, N
<1>17. \A j \in 1..(N + 2) : s[j] = u[j]
  <2>1. \A j \in 1..(N + 2) : j \in 1..(N + 4)
    BY <1>13
  <2> QED BY <1>15, <1>16, <2>1
<1>18. \A j \in 1..N : Follows(t, j, s, j + 2)
  <2> SUFFICES ASSUME NEW j \in 1..N
               PROVE  Follows(t, j, s, j + 2)
    OBVIOUS
  <2>1. /\ j + 2 \in 1..(N + 2) /\ (j + 2) - 1 \in 1..(N + 2) /\ (j > 2 => (j + 2) - 2 \in 1..(N + 2))
    BY <1>13
  <2> QED BY <1>14, <1>17, <2>1 DEF Follows
<1>19. s[1] = number /\ s[2] = alloc /\ s[N + 3] = id /\ s[N + 4] = enter
  <2>1. 1 \in 1..(N + 2) /\ 2 \in 1..(N + 2) /\ N + 3 \in 1..(N + 4) /\ N + 4 \in 1..(N + 4)
    BY <1>13
  <2> QED BY <1>14, <1>15, <1>16, <1>17, <2>1
<1>20. EntryIs(m, s, t)
  BY <1>8, <1>16, <1>18, <1>19 DEF EntryIs, N, number, alloc, id, enter
<1>21. EntryCode(m, q) = s
  BY <1>12 DEF s, v, u
<1> QED BY <1>6, <1>20, <1>21 DEF p

\* The entry hook's code builds the array from where the arguments arrive.
LEMMA EntryOpens ==
    ASSUME NEW m, MethodShape(m), NEW q \in Nat, q - Ins(m) >= 3,
           NEW h, Distinct(h), 1 \in 1..Len(Opening(h)), Opening(h)[1] = << "enter", 0 >>,
           NEW done \in Nat, Len(Opening(h)) = done + 1
    PROVE  Opens(m, h, EntryCode(m, q), q, q, done, 1)
<1> DEFINE first == q - Ins(m)
           p == Block(m, first)
           s == EntryCode(m, q)
<1>1. Piece(m, s) /\ Carries(m, s, first, first)
  BY EntryCarries
<1>2. Ins(m) \in Nat /\ first \in Nat
  BY InsIsNat
<1>3. PICK t : EntryIs(m, s, t) /\ Stored(m, t, p, Elements(m))
  BY <1>2, EntryStores
<1> DEFINE N == Len(t)
<1> HIDE DEF s, p, first
<1>4. /\ s \in Seq(Instruction) /\ N \in Nat /\ Len(s) = N + 7
      /\ s[1] = Const(0, << Number(1 + Len(m.params)) >>) /\ s[2] = NewArray(2, 0)
      /\ \A j \in 1..N : Follows(t, j, s, j + 2)
      /\ s[N + 3] = Const(0, Id) /\ s[N + 4] = Invoke("enter", 0, << 0, 1, 2 >>)
      /\ \A j \in (N + 5)..(N + 7) : s[j].op = "const"
  <2>1. t \in Seq(Instruction)
    BY <1>3 DEF EntryIs
  <2>2. N \in Nat
    BY <2>1
  <2> QED BY <1>3, <2>2 DEF EntryIs
<1>5. /\ \A j \in 1..N : t[j].op \in {"const", "aput", "box"} /\ Prepared(m, t, j, p)
      /\ \A x \in Elements(m) : \E j \in 1..N : StoresElement(t, j, x)
  BY <1>3 DEF Stored
<1> HIDE DEF N
<1>6. /\ s[1].op = "const" /\ s[2].op = "new_array" /\ s[N + 3].op = "const"
      /\ s[N + 4].op = "invoke" /\ s[N + 4].hook = "enter" /\ s[N + 4].idx = 0
  BY <1>4 DEF Const, NewArray, Invoke
<1>7. \A j \in 1..N : /\ s[j + 2].op \in {"const", "aput", "box"} /\ Prepared(m, s, j + 2, p)
                      /\ \A x : StoresElement(t, j, x) => StoresElement(s, j + 2, x)
  <2> SUFFICES ASSUME NEW j \in 1..N
               PROVE  /\ s[j + 2].op \in {"const", "aput", "box"} /\ Prepared(m, s, j + 2, p)
                      /\ \A x : StoresElement(t, j, x) => StoresElement(s, j + 2, x)
    OBVIOUS
  <2>1. j \in Nat /\ Follows(t, j, s, j + 2) /\ Prepared(m, t, j, p)
    BY <1>4, <1>5
  <2>2. s[j + 2] = t[j]
    BY <2>1 DEF Follows
  <2>3. Prepared(m, s, j + 2, p) /\ \A x : StoresElement(t, j, x) => StoresElement(s, j + 2, x)
    BY <2>1, PreparedElsewhere
  <2> QED BY <1>5, <2>2, <2>3
<1>8. ASSUME NEW j \in 1..(N + 7)
      PROVE  \/ j = 1 \/ j = 2 \/ j = N + 3 \/ j = N + 4 \/ j \in (N + 5)..(N + 7)
             \/ j - 2 \in 1..N /\ (j - 2) + 2 = j
  BY <1>4
<1>9. ASSUME NEW j \in 1..(N + 7)
      PROVE  /\ s[j].op # "move" /\ (s[j].op = "invoke" <=> j = N + 4)
             /\ s[j].op = "new_array" <=> j = 2
             /\ s[j].op \in {"aput", "box"} => j \in 3..(N + 2)
  <2>1. j - 2 \in 1..N => j \in 3..(N + 2)
    BY <1>4
  <2>2. /\ j \in 3..(N + 2) => j # 2 /\ j # N + 4
        /\ j \in (N + 5)..(N + 7) => j # 2 /\ j # N + 4
        /\ 1 # N + 4 /\ 2 # N + 4 /\ N + 3 # N + 4 /\ N + 3 # 2 /\ 1 # 2
    BY <1>4
  <2> QED BY <1>4, <1>6, <1>7, <1>8, <2>1, <2>2
<1>10. Told(m, s, first)
  <2> SUFFICES ASSUME NEW j \in 1..(N + 7), s[j].op \in {"invoke", "new_array", "aput"}
               PROVE  Prepared(m, s, j, p) /\ \A i \in 1..j : s[i].op # "move"
    BY <1>4 DEF Told, p
  <2>1. \A i \in 1..j : i \in 1..(N + 7)
    BY <1>4
  <2>2. \A i \in 1..j : s[i].op # "move"
    BY <1>9, <2>1
  <2>3. CASE j = N + 4
    <3>1. s[j].op = "invoke" /\ s[j].hook = "enter"
      BY <1>6, <2>3
    <3> QED BY <2>2, <3>1 DEF Prepared
  <2>4. CASE j = 2
    <3>1. 2 > 1 /\ 2 - 1 = 1
      OBVIOUS
    <3> QED BY <1>4, <1>6, <2>2, <2>4, <3>1 DEF Prepared
  <2>5. CASE j \in 3..(N + 2)
    <3>1. j - 2 \in 1..N /\ (j - 2) + 2 = j
      BY <1>4, <2>5
    <3> QED BY <1>7, <2>2, <3>1
  <2> QED BY <1>9, <2>2, <2>3, <2>4, <2>5
<1>11. ArrayBuilt(m, s, Len(s) + 1)
  <2>1. (Len(s) + 1) - 1 = N + 7
    BY <1>4
  <2>2. N + 4 \in 1..(N + 7) /\ 2 \in 1..(N + 7) /\ 2 < N + 4 /\ \A j \in 3..(N + 2) : j < N + 4
    BY <1>4
  <2>3. \A e \in 1..(N + 7) : s[e].op = "invoke" /\ s[e].hook = "enter" =>
            \E a \in 1..(N + 7) : s[a].op = "new_array" /\ a < e
    BY <1>9, <2>2
  <2>4. ASSUME NEW a \in 1..(N + 7), s[a].op = "new_array", NEW x \in Elements(m)
        PROVE  \E j \in (a + 1)..(N + 7) : StoresElement(s, j, x)
    <3>1. a = 2
      BY <1>9, <2>4
    <3>2. PICK j \in 1..N : StoresElement(t, j, x)
      BY <1>5
    <3>3. StoresElement(s, j + 2, x)
      BY <1>7, <3>2
    <3>4. j + 2 \in (a + 1)..(N + 7)
      BY <1>4, <3>1
    <3> QED BY <3>3, <3>4
  <2>5. \A j \in 1..(N + 7) : s[j].op \in {"new_array", "aput", "box"} =>
            \E e \in 1..(N + 7) : s[e].op = "invoke" /\ s[e].hook = "enter" /\ j < e
    <3>1. \A j \in 1..(N + 7) : s[j].op \in {"new_array", "aput", "box"} => j < N + 4
      BY <1>9, <2>2
    <3> QED BY <1>6, <2>2, <3>1
  <2> QED BY <2>1, <2>3, <2>4, <2>5 DEF ArrayBuilt
<1>12. Covers(h, s, Len(s), Len(Opening(h)) - (done + 1), Len(Opening(h)) - done)
  <2> DEFINE t0 == 1
             e == N + 4
  <2>1. Makes(h, s, e, t0)
    BY <1>6 DEF Makes
  <2>2. \A j \in 1..Len(s) : s[j].op = "invoke" <=> j = e
    BY <1>4, <1>9
  <2>3. Len(s) \in Nat /\ e \in 1..Len(s) /\ t0 \in 1..Len(Opening(h)) /\ t0 \in Nat
    BY <1>4
  <2>4. t0 - 1 = Len(Opening(h)) - (done + 1) /\ t0 = Len(Opening(h)) - done
    OBVIOUS
  <2> HIDE DEF t0, e
  <2>5. Covers(h, s, Len(s), t0 - 1, t0)
    BY <2>1, <2>2, <2>3, OneCall
  <2> QED BY <2>4, <2>5
<1> QED BY <1>1, <1>10, <1>11, <1>12 DEF Opens, first, s

----------------------------------------------------------------------------
(* The hooks of a method, and the transforms that weave them.              *)

Ascending(h) == \A i, j \in DOMAIN h.params : i < j => h.params[i] < h.params[j]

Entries(h) == IF h.enter THEN 1 ELSE 0

\* The entry hook, if there is one, and then the modifiers from the last parameter
\* to the first.
OpeningAre(h) ==
    LET P == Len(h.params)
        n == Len(Opening(h))
    IN  /\ P \in Nat /\ DOMAIN h.params = 1..P /\ n = P + Entries(h) /\ n \in Nat
        /\ DOMAIN Opening(h) = 1..n /\ \E S : Opening(h) \in Seq(S)
        /\ h.enter => Opening(h)[1] = << "enter", 0 >>
        /\ \A i \in 1..P : Opening(h)[n - i + 1] = << "modify", h.params[i] >>
        /\ \A t \in 1..n : (h.enter /\ t = 1) \/ \E i \in 1..P : t = n - i + 1

LEMMA OpeningIs ==
    ASSUME NEW h, HooksShape(h)
    PROVE  OpeningAre(h)
<1> DEFINE P == Len(h.params)
           en == IF h.enter THEN << << "enter", 0 >> >> ELSE << >>
           mod(i) == << "modify", h.params[i] >>
           mods == [i \in DOMAIN h.params |-> mod(i)]
           rev == Reverse(mods)
           e == Entries(h)
           S == {"enter", "modify"} \X Nat
<1>1. h.params \in Seq(Nat) /\ P \in Nat /\ DOMAIN h.params = 1..P
  BY DEF HooksShape
<1>2. en \in Seq(S) /\ Len(en) = e /\ e \in {0, 1} /\ (h.enter => e = 1 /\ en[1] = << "enter", 0 >>)
      /\ (e = 1 => h.enter)
  BY DEF Entries
<1>3. \A i \in 1..P : mod(i) \in S
  BY <1>1
<1>4. mods \in Seq(S) /\ Len(mods) = P /\ \A i \in 1..P : mods[i] = mod(i)
  <2> HIDE DEF mod, S, P
  <2>1. mods \in [1..P -> S]
    BY <1>1, <1>3
  <2> QED BY <1>1, <2>1, SeqDef
<1> HIDE DEF mods, P, e, S
<1>5. rev \in Seq(S) /\ Len(rev) = P /\ \A i \in 1..P : rev[i] = mod(P - i + 1)
  <2>1. \A i \in 1..P : P - i + 1 \in 1..P
    BY <1>1
  <2>2. rev = [i \in 1..P |-> mods[(P - i) + 1]]
    BY <1>4 DEF Reverse
  <2> HIDE DEF mod
  <2>3. rev \in [1..P -> S] /\ \A i \in 1..P : rev[i] = mod(P - i + 1)
    BY <1>3, <1>4, <2>1, <2>2
  <2> QED BY <1>1, <2>3, SeqDef
<1> HIDE DEF rev, en
<1> DEFINE o == en \o rev
           n == P + e
<1>6. o = Opening(h)
  BY DEF Opening, en, rev, mods
<1>7. /\ o \in Seq(S) /\ Len(o) = n /\ \A i \in 1..e : o[i] = en[i]
      /\ \A i \in (e + 1)..(e + P) : o[i] = rev[i - e]
  <2>1. /\ o \in Seq(S) /\ Len(o) = Len(en) + Len(rev)
        /\ \A i \in 1..Len(en) : o[i] = en[i]
        /\ \A i \in (Len(en) + 1)..(Len(en) + Len(rev)) : o[i] = rev[i - Len(en)]
    <3>1. en \in Seq(S) /\ rev \in Seq(S)
      BY <1>2, <1>5
    <3> HIDE DEF n
    <3> QED BY <3>1, Concat
  <2> HIDE DEF o
  <2> QED BY <1>1, <1>2, <1>5, <2>1
<1> HIDE DEF o
<1>8. n \in Nat /\ DOMAIN o = 1..n
  BY <1>1, <1>2, <1>7
<1>9. ASSUME NEW i \in 1..P
      PROVE  o[n - i + 1] = mod(i)
  <2>1. /\ n - i + 1 \in (e + 1)..(e + P) /\ (n - i + 1) - e \in 1..P
        /\ P - ((n - i + 1) - e) + 1 = i
    BY <1>1, <1>2
  <2> HIDE DEF mod, n
  <2> QED BY <1>5, <1>7, <2>1
<1>10. ASSUME NEW t \in 1..n
       PROVE  (h.enter /\ t = 1) \/ \E i \in 1..P : t = n - i + 1
  <2>1. CASE t <= e
    BY <1>2, <2>1
  <2>2. CASE ~ (t <= e)
    <3>1. n - t + 1 \in 1..P /\ t = n - (n - t + 1) + 1
      BY <1>1, <1>2, <2>2
    <3> QED BY <3>1
  <2> QED BY <2>1, <2>2
<1>11. h.enter => o[1] = << "enter", 0 >>
  BY <1>2, <1>7
<1>12. n = Len(Opening(h))
  BY <1>6, <1>7
<1>13. \E T : Opening(h) \in Seq(T)
  BY <1>6, <1>7
<1> HIDE DEF n
<1> QED BY <1>1, <1>6, <1>8, <1>9, <1>10, <1>11, <1>12, <1>13 DEF OpeningAre, P, e, n

LEMMA CallsDistinct ==
    ASSUME NEW h, HooksShape(h), Ascending(h)
    PROVE  Distinct(h)
<1> DEFINE P == Len(h.params)
           n == Len(Opening(h))
<1>1. /\ P \in Nat /\ DOMAIN h.params = 1..P /\ n \in Nat /\ n = P + Entries(h)
      /\ h.enter => Opening(h)[1] = << "enter", 0 >>
      /\ \A i \in 1..P : Opening(h)[n - i + 1] = << "modify", h.params[i] >>
      /\ \A t \in 1..n : (h.enter /\ t = 1) \/ \E i \in 1..P : t = n - i + 1
  BY OpeningIs DEF OpeningAre
<1>2. \A i \in DOMAIN h.params : h.params[i] \in Nat
  BY DEF HooksShape
<1> HIDE DEF P, n
<1>3. ASSUME NEW s \in 1..n, NEW t \in 1..n, Opening(h)[s] = Opening(h)[t]
      PROVE  s = t
  <2>1. CASE (h.enter /\ s = 1) /\ (h.enter /\ t = 1)
    BY <2>1
  <2>2. ASSUME NEW i \in 1..P, s = n - i + 1, h.enter /\ t = 1
        PROVE  s = t
    <3> DEFINE x == h.params[i]
    <3>1. Opening(h)[s] = << "modify", x >> /\ Opening(h)[t] = << "enter", 0 >>
      BY <1>1, <2>2
    <3> HIDE DEF x
    <3>2. << "modify", x >> = << "enter", 0 >>
      BY <1>3, <3>1
    <3> QED BY <3>2
  <2>3. ASSUME NEW i \in 1..P, t = n - i + 1, h.enter /\ s = 1
        PROVE  s = t
    <3> DEFINE x == h.params[i]
    <3>1. Opening(h)[t] = << "modify", x >> /\ Opening(h)[s] = << "enter", 0 >>
      BY <1>1, <2>3
    <3> HIDE DEF x
    <3>2. << "modify", x >> = << "enter", 0 >>
      BY <1>3, <3>1
    <3> QED BY <3>2
  <2>4. ASSUME NEW i \in 1..P, s = n - i + 1, NEW j \in 1..P, t = n - j + 1
        PROVE  s = t
    <3> DEFINE x == h.params[i]
               y == h.params[j]
    <3>1. Opening(h)[s] = << "modify", x >> /\ Opening(h)[t] = << "modify", y >>
      BY <1>1, <2>4
    <3>3. x \in Nat /\ y \in Nat
      <4>1. i \in DOMAIN h.params /\ j \in DOMAIN h.params
        BY <1>1
      <4> QED BY <1>2, <4>1
    <3>5. (i < j => x < y) /\ (j < i => y < x)
      BY <1>1 DEF Ascending
    <3> HIDE DEF x, y
    <3>2. << "modify", x >> = << "modify", y >>
      BY <1>3, <3>1
    <3>4. x = y
      BY <3>2
    <3>7. i \in Nat /\ j \in Nat
      OBVIOUS
    <3>6. i = j
      BY <3>3, <3>4, <3>5, <3>7
    <3> QED BY <2>4, <3>6
  <2> QED BY <1>1, <2>1, <2>2, <2>3, <2>4
<1> QED BY <1>1, <1>3 DEF Distinct, n

\* The transforms in the order in which they are applied.
TransformsAre(h) ==
    LET P   == Len(h.params)
        all == Transforms(h)
        x   == IF h.exit THEN 1 ELSE 0
    IN  /\ Len(all) = P + Entries(h) + x
        /\ \A i \in 1..Len(all) :
              \/ i <= P /\ all[i] = << "param", h.params[i], i = 1 >>
              \/ i = P + 1 /\ h.enter /\ all[i] = << "enter" >>
              \/ i = Len(all) /\ i = P + Entries(h) + 1 /\ h.exit /\ all[i] = << "exit" >>

LEMMA TransformsAreThese ==
    ASSUME NEW h, HooksShape(h)
    PROVE  TransformsAre(h)
<1> DEFINE P == Len(h.params)
           tr(i) == << "param", h.params[i], i = 1 >>
           ps == [i \in DOMAIN h.params |-> tr(i)]
           en == IF h.enter THEN << << "enter" >> >> ELSE << >>
           ex == IF h.exit THEN << << "exit" >> >> ELSE << >>
           pe == ps \o en
           all == pe \o ex
           e == Entries(h)
           x == IF h.exit THEN 1 ELSE 0
<1>1. /\ h.params \in Seq(Nat) /\ P \in Nat /\ DOMAIN h.params = 1..P
      /\ \A i \in DOMAIN h.params : h.params[i] \in Nat
  BY DEF HooksShape
<1>2. ps \in Seq(Transform) /\ Len(ps) = P /\ \A i \in 1..P : ps[i] = tr(i)
  <2>1. \A i \in 1..P : tr(i) \in Transform
    <3> SUFFICES ASSUME NEW i \in 1..P
                 PROVE  tr(i) \in Transform
      OBVIOUS
    <3>1. h.params[i] \in Nat
      BY <1>1
    <3>2. (i = 1) \in BOOLEAN
      OBVIOUS
    <3> QED BY <3>1, <3>2 DEF Transform
  <2> HIDE DEF tr
  <2>2. ps \in [1..P -> Transform]
    BY <1>1, <2>1
  <2> QED BY <1>1, <2>2, SeqDef
<1>3. << "enter" >> \in Transform /\ << "exit" >> \in Transform
  BY DEF Transform
<1>4. en \in Seq(Transform) /\ Len(en) = e /\ e \in {0, 1}
      /\ (e = 1 => h.enter /\ en[1] = << "enter" >>)
  BY <1>3 DEF Entries
<1>5. ex \in Seq(Transform) /\ Len(ex) = x /\ x \in {0, 1}
      /\ (x = 1 => h.exit /\ ex[1] = << "exit" >>)
  BY <1>3
<1>6. Transforms(h) = all
  BY DEF Transforms
<1> HIDE DEF ps, en, ex, tr, P, e, x
<1>7. /\ pe \in Seq(Transform) /\ Len(pe) = P + e
      /\ \A i \in 1..P : pe[i] = tr(i)
      /\ \A i \in (P + 1)..(P + e) : pe[i] = en[i - P]
  <2>1. /\ pe \in Seq(Transform) /\ Len(pe) = Len(ps) + Len(en)
        /\ \A i \in 1..Len(ps) : pe[i] = ps[i]
        /\ \A i \in (Len(ps) + 1)..(Len(ps) + Len(en)) : pe[i] = en[i - Len(ps)]
    <3>1. ps \in Seq(Transform) /\ en \in Seq(Transform)
      BY <1>2, <1>4
    <3> QED BY <3>1, Concat
  <2> HIDE DEF pe
  <2> QED BY <1>1, <1>2, <1>4, <2>1
<1> HIDE DEF pe
<1>8. /\ Len(all) = P + e + x
      /\ \A i \in 1..(P + e) : all[i] = pe[i]
      /\ \A i \in ((P + e) + 1)..((P + e) + x) : all[i] = ex[i - (P + e)]
  <2>1. /\ all \in Seq(Transform) /\ Len(all) = Len(pe) + Len(ex)
        /\ \A i \in 1..Len(pe) : all[i] = pe[i]
        /\ \A i \in (Len(pe) + 1)..(Len(pe) + Len(ex)) : all[i] = ex[i - Len(pe)]
    <3>1. pe \in Seq(Transform) /\ ex \in Seq(Transform)
      BY <1>5, <1>7
    <3> QED BY <3>1, Concat
  <2> HIDE DEF all
  <2> QED BY <1>5, <1>7, <2>1
<1> HIDE DEF all
<1>9. ASSUME NEW i \in 1..Len(all)
      PROVE  \/ i <= P /\ all[i] = tr(i)
             \/ i = P + 1 /\ h.enter /\ all[i] = << "enter" >>
             \/ i = Len(all) /\ i = P + e + 1 /\ h.exit /\ all[i] = << "exit" >>
  <2>1. CASE i <= P
    <3>1. i \in 1..P /\ i \in 1..(P + e)
      BY <1>1, <1>4, <2>1
    <3> QED BY <1>7, <1>8, <2>1, <3>1
  <2>2. CASE i > P /\ i <= P + e
    <3>1. e = 1 /\ i = P + 1 /\ i \in (P + 1)..(P + e) /\ i - P = 1 /\ i \in 1..(P + e)
      BY <1>1, <1>4, <2>2
    <3>2. all[i] = en[1]
      BY <1>7, <1>8, <3>1
    <3> QED BY <1>4, <3>1, <3>2
  <2>3. CASE i > P + e
    <3>1. x = 1 /\ i = Len(all) /\ i = P + e + 1 /\ i - (P + e) = 1
          /\ i \in ((P + e) + 1)..((P + e) + x)
      BY <1>1, <1>4, <1>5, <1>8, <2>3
    <3>2. all[i] = ex[1]
      BY <1>8, <3>1
    <3> QED BY <1>5, <3>1, <3>2
  <2> QED BY <1>1, <1>4, <2>1, <2>2, <2>3
<1> QED BY <1>6, <1>8, <1>9 DEF TransformsAre, P, e, x, tr

LEMMA HooksAscend ==
    ASSUME TypeOK
    PROVE  Ascending(hooks) /\ Distinct(hooks)
<1>1. PICK job \in Jobs : method = job.method /\ hooks = job.hooks
  BY DEF TypeOK
<1>2. Ascending(job.hooks)
  BY ShapeAssumption DEF ShapeAssumption, Ascending
<1>3. HooksShape(hooks)
  BY JobShape
<1> QED BY <1>1, <1>2, <1>3, CallsDistinct

----------------------------------------------------------------------------
(* What each of the transforms weaves.                                     *)

\* Code that makes a call, and behind it moves that bring the arguments from
\* where the registers that were added have left them.
LEMMA StartWeaves ==
    ASSUME NEW m, MethodShape(m), ~m.loop, NEW h, Distinct(h),
           NEW r \in Nat, Ins(m) <= r, NEW c, NEW n,
           NEW done \in Nat, Weaves(m, h, r, c, done, n),
           NEW shift \in Nat, NEW s, Opens(m, h, s, r + shift, r + shift, done, 1)
    PROVE  /\ Weaves(m, h, r + shift, AtStart(c, s \o ShiftParams(m, r + shift, shift)), done + 1, n)
           /\ shift = 0 => Weaves(m, h, r + shift, AtStart(c, s \o << >>), done + 1, n)
<1> DEFINE q == r + shift
           x == ShiftParams(m, q, shift)
<1>1. q \in Nat /\ Ins(m) \in Nat /\ Ins(m) + shift <= q /\ q - Ins(m) - shift = r - Ins(m)
  BY InsIsNat
<1>2. Opens(m, h, s, q, q, done, 1)
  OBVIOUS
<1> HIDE DEF q
<1>3. Piece(m, x) /\ Carries(m, x, q - Ins(m), r - Ins(m)) /\ \A j \in DOMAIN x : x[j].op = "move"
  BY <1>1, ShiftPiece, ShiftCarries
<1> HIDE DEF x
<1>4. PICK b \in DOMAIN c : Skeleton(m, c, b)
  BY DEF Weaves
<1>5. ASSUME NEW y, Weaves(m, h, q, y \o c, done, n), y \in Seq(Instruction)
      PROVE  Weaves(m, h, q, AtStart(c, s \o y), done + 1, n)
  <2>1. s \in Seq(Instruction) /\ c \in Seq(Instruction)
    BY <1>2 DEF Opens, Piece, Weaves
  <2> DEFINE one == 1
  <2>2. one \in Nat /\ Opens(m, h, s, q, q, done, one)
    BY <1>2
  <2>3. Weaves(m, h, q, s \o (y \o c), done + one, n)
    <3> HIDE DEF one
    <3> QED BY <1>5, <2>2, WeavesPrepended
  <2>4. s \o y \in Seq(Instruction)
    BY <1>5, <2>1
  <2>5. (s \o y) \o c = s \o (y \o c)
    BY <1>5, <2>1, ConcatAssociative, SMTT(30)
  <2>6. AtStart(c, s \o y) = (s \o y) \o c
    <3> DEFINE z == s \o y
    <3>1. z \in Seq(Instruction)
      BY <2>4
    <3> HIDE DEF z
    <3>2. AtStart(c, z) = z \o c
      BY <1>4, <2>1, <3>1, AtStartInserted
    <3> QED BY <3>2 DEF z
  <2> QED BY <2>3, <2>5, <2>6
<1>6. Weaves(m, h, q, AtStart(c, s \o x), done + 1, n)
  <2>1. Weaves(m, h, q, x \o c, done, n)
    BY <1>3, MovesWeave
  <2> QED BY <1>3, <1>5, <2>1 DEF Piece
<1>7. ASSUME shift = 0
      PROVE  Weaves(m, h, q, AtStart(c, s \o << >>), done + 1, n)
  <2> DEFINE y == << >>
  <2>1. q - Ins(m) = r - Ins(m)
    BY <1>1, <1>7
  <2>2. Piece(m, y) /\ Carries(m, y, q - Ins(m), r - Ins(m)) /\ \A j \in DOMAIN y : y[j].op = "move"
    BY <2>1, NothingCarries
  <2> HIDE DEF y
  <2>3. Weaves(m, h, q, y \o c, done, n)
    BY <2>2, MovesWeave
  <2>4. Weaves(m, h, q, AtStart(c, s \o y), done + 1, n)
    BY <1>5, <2>2, <2>3 DEF Piece
  <2> QED BY <2>4 DEF y
<1> QED BY <1>6, <1>7 DEF q, x

\* What is inserted behind the method's own code changes no call before it.
LEMMA CallsBehind ==
    ASSUME NEW m, NEW h, NEW c, NEW d, NEW r, NEW b \in Nat, b # 0, NEW done,
           CallsWoven(m, h, c, r, b, done),
           \A j \in 1..b : d[j] = c[j],
           \A j \in 1..b : Places(m, d, r, b)[j] = Places(m, c, r, b)[j]
    PROVE  CallsWoven(m, h, d, r, b, done)
<1> DEFINE way == 1..(b - 1)
<1>1. \A j \in way : d[j] = c[j] /\ j \in 1..b /\ j \in Nat
  OBVIOUS
<1>2. /\ InOrder(h, c, b, done)
      /\ \A j \in way : Prepared(m, c, j, Places(m, c, r, b)[j])
      /\ ArrayBuilt(m, c, b)
  BY DEF CallsWoven
<1>3. ASSUME NEW j \in way
      PROVE  Follows(c, j, d, j)
  <2>1. (j > 1 => j - 1 \in 1..b) /\ (j > 2 => j - 2 \in 1..b)
    OBVIOUS
  <2> QED BY <1>1, <2>1 DEF Follows
<1>4. \A j \in way : \A x : StoresElement(c, j, x) => StoresElement(d, j, x)
  BY <1>1, <1>3, PreparedElsewhere
<1>5. \A j \in way : Prepared(m, d, j, Places(m, d, r, b)[j])
  BY <1>1, <1>2, <1>3, PreparedElsewhere
<1> HIDE DEF way
<1>6. InOrder(h, d, b, done)
  <2>1. \A j \in way : \A t : Makes(h, d, j, t) <=> Makes(h, c, j, t)
    BY <1>1 DEF Makes
  <2> QED BY <1>1, <1>2, <2>1 DEF InOrder, way
<1>7. ArrayBuilt(m, d, b)
  <2>1. /\ \A e \in way : c[e].op = "invoke" /\ c[e].hook = "enter" =>
               \E a \in way : c[a].op = "new_array" /\ a < e
        /\ \A a \in way, x \in Elements(m) : c[a].op = "new_array" =>
               \E j \in (a + 1)..(b - 1) : StoresElement(c, j, x)
        /\ \A j \in way : c[j].op \in {"new_array", "aput", "box"} =>
               \E e \in way : c[e].op = "invoke" /\ c[e].hook = "enter" /\ j < e
    BY <1>2 DEF ArrayBuilt, way
  <2>2. ASSUME NEW a \in way, NEW x \in Elements(m), d[a].op = "new_array"
        PROVE  \E j \in (a + 1)..(b - 1) : StoresElement(d, j, x)
    <3>1. PICK j \in (a + 1)..(b - 1) : StoresElement(c, j, x)
      BY <1>1, <2>1, <2>2
    <3>2. j \in way
      BY <1>1 DEF way
    <3> QED BY <1>4, <3>1, <3>2
  <2> QED BY <1>1, <2>1, <2>2 DEF ArrayBuilt, way
<1> QED BY <1>5, <1>6, <1>7 DEF CallsWoven, way

LEMMA ReturnWeaves ==
    ASSUME NEW m, MethodShape(m), NEW h, Distinct(h), NEW x, NEW done \in Nat,
           Fits(m, x.registers, x.code, FALSE),
           NEW k \in DOMAIN m.rets, NEW n, n = k - 1,
           Weaves(m, h, x.registers, x.code, done, n),
           NEW y, y = InstrumentReturn(m, x, k)
    PROVE  Weaves(m, h, y.registers, y.code, done, k)
<1> DEFINE out == IF m.ret = "void" THEN 0 ELSE m.rets[k].reg
           w   == RetCount(m)
           add == ExitScratch(x.registers, ThisIndex(m), m.static, out, w)
           q   == x.registers + add
           id  == MethodIdReg(ThisIndex(m), m.static, out, w)
           s   == ExitCode(m, k, id)
           z   == BeforeReturn(x.code, k, s)
           moves == IF Ins(m) = 0 THEN << >> ELSE ShiftParams(m, q, add)
           r   == x.registers
           c   == x.code
<1>1. y.registers = q /\ y.code = moves \o z
  BY DEF InstrumentReturn
<1>19. id = IdReg(m, k)
  BY DEF IdReg
<1>2. out \in Nat /\ w \in 0..2 /\ ThisIndex(m) \in Nat
  BY RetIsNat
<1> HIDE DEF out, w
<1>3. r \in Nat /\ r >= m.locals + Ins(m) /\ c \in Seq(Instruction)
      /\ Ins(m) \in Nat /\ m.locals \in Nat
  BY InsIsNat DEF Fits
<1>4. add \in Nat /\ id \in Nat
  <2>1. ParamBegin(ThisIndex(m), m.static, out, w) \in Nat
    BY <1>2 DEF ParamBegin
  <2>2. add \in Nat
    BY <1>2, <1>3, <2>1 DEF ExitScratch
  <2>3. id \in Nat
    BY <1>2, <2>1 DEF MethodIdReg
  <2> QED BY <2>2, <2>3
<1> HIDE DEF add, id
<1>5. Piece(m, s) /\ s = ExitCode(m, k, IdReg(m, k))
  BY <1>4, <1>19, ExitPiece
<1> HIDE DEF s
<1>6. PICK b \in DOMAIN c : /\ Skeleton(m, c, b) /\ CallsWoven(m, h, c, r, b, done)
                            /\ Endings(m, c, b, n)
  BY DEF Weaves
<1>7. b \in Nat /\ b # 0 /\ b <= Len(c)
  BY <1>3
<1>8. s \in Seq(Instruction)
  BY <1>5 DEF Piece
<1> HIDE DEF c, r
<1>9. PICK i : i >= b /\ c[i + 1] = Return(k) /\ Inserted(c, i, s, z)
  <2>1. \E i : i >= b /\ c[i + 1] = Return(k) /\ Inserted(c, i, s, BeforeReturn(c, k, s))
    BY <1>3, <1>6, <1>8, BeforeReturnInserted
  <2> QED BY <2>1 DEF c
<1> HIDE DEF z
<1>10. /\ Skeleton(m, z, b) /\ z \in Seq(Instruction)
       /\ CallsWoven(m, h, z, r, b, done) /\ Endings(m, z, b, k)
  <2>1. i \in Nat /\ b <= i
    BY <1>7, <1>9, InsertedFrom
  <2>2. Skeleton(m, z, IF b <= i THEN b ELSE b + Len(s))
    BY <1>5, <1>6, <1>9, InsertedSkeleton
  <2>3. z \in Seq(Instruction)
    BY <1>9 DEF Inserted
  <2>4. /\ \A j \in 1..b : Places(m, z, r, b)[j] = Places(m, c, r, b)[j]
        /\ \A j \in 1..b : z[j] = c[j]
    BY <1>7, <1>9, <2>1, PlacesBefore
  <2>5. CallsWoven(m, h, z, r, b, done)
    BY <1>6, <1>7, <2>4, CallsBehind
  <2>6. Endings(m, z, b, k)
    BY <1>5, <1>6, <1>9, EndingsInserted
  <2> QED BY <2>1, <2>2, <2>3, <2>5, <2>6
<1>11. q \in Nat /\ q >= r /\ Ins(m) + add <= q /\ q - Ins(m) - add = r - Ins(m)
  BY <1>3, <1>4, SMTT(30) DEF r
<1> HIDE DEF q
<1>12. /\ Piece(m, moves) /\ Carries(m, moves, q - Ins(m), r - Ins(m))
       /\ \A j \in DOMAIN moves : moves[j].op = "move"
  <2>1. CASE Ins(m) = 0
    <3>1. moves = << >>
      BY <2>1
    <3>2. Block(m, q - Ins(m)) = Block(m, r - Ins(m))
      <4>1. \A a : Block(m, a) = [v \in {} |-> 0]
        BY <2>1 DEF Block
      <4> QED BY <4>1
    <3>3. Piece(m, << >>) /\ Carries(m, << >>, r - Ins(m), r - Ins(m))
      BY NothingCarries
    <3>4. Carries(m, << >>, q - Ins(m), r - Ins(m))
      BY <3>2, <3>3 DEF Carries
    <3> QED BY <3>1, <3>3, <3>4
  <2>2. CASE Ins(m) # 0
    BY <1>3, <1>4, <1>11, <2>2, ShiftPiece, ShiftCarries
  <2> QED BY <2>1, <2>2
<1> HIDE DEF moves
<1>13. Weaves(m, h, r, z, done, k)
  <2>1. b \in DOMAIN z
    BY <1>10 DEF Skeleton
  <2> QED BY <1>10, <2>1 DEF Weaves
<1>14. Weaves(m, h, q, moves \o z, done, k)
  BY <1>12, <1>13, MovesWeave
<1> QED BY <1>1, <1>14

LEMMA ExitHookWeaves ==
    ASSUME NEW m, MethodShape(m), NEW h, Distinct(h), NEW r, NEW c, NEW done \in Nat,
           Fits(m, r, c, FALSE), Weaves(m, h, r, c, done, 0),
           NEW x, x = (CHOOSE f : IsInstrumented(m, r, c, Len(m.rets), f))[Len(m.rets)]
    PROVE  Weaves(m, h, x.registers, x.code, done, Len(m.rets))
<1> DEFINE n == Len(m.rets)
           f == CHOOSE f : IsInstrumented(m, r, c, n, f)
           x0 == [registers |-> r, code |-> c]
           good(k) == Fits(m, f[k].registers, f[k].code, FALSE)
                          /\ Weaves(m, h, f[k].registers, f[k].code, done, k)
           T == {k \in 0..n : ~good(k)}
<1>1. n \in Nat /\ DOMAIN m.rets = 1..n /\ r \in Nat
  BY DEF MethodShape, Fits
<1>2. IsInstrumented(m, r, c, n, f)
  BY <1>1, InstrumentedExists
<1>3. x = f[n]
  OBVIOUS
<1> HIDE DEF f, n, x0
<1>4. \A k \in 0..n : f[k] = IF k = 0 THEN x0 ELSE InstrumentReturn(m, f[k - 1], k)
  <2>1. f = [k \in 0..n |-> IF k = 0 THEN x0 ELSE InstrumentReturn(m, f[k - 1], k)]
    BY <1>2 DEF IsInstrumented, x0
  <2> QED BY <2>1
<1>5. T = {}
  <2> SUFFICES ASSUME T # {}
               PROVE  FALSE
    OBVIOUS
  <2>1. T \in SUBSET Nat
    <3> HIDE DEF good
    <3> QED BY <1>1
  <2>2. PICK k \in T : \A z \in T : k <= z
    <3> HIDE DEF T
    <3> QED BY <2>1, Least
  <2>3. k \in 0..n /\ ~good(k)
    BY <2>2
  <2>4. CASE k = 0
    <3>1. f[0] = x0 /\ x0.registers = r /\ x0.code = c
      BY <1>1, <1>4 DEF x0
    <3>2. good(0)
      BY <1>1, <3>1
    <3> HIDE DEF good
    <3> QED BY <2>3, <2>4, <3>2
  <2>5. CASE k # 0
    <3>1. k - 1 \in 0..n /\ ~ (k <= k - 1) /\ k \in 1..n
      BY <1>1, <2>3, <2>5
    <3>2. good(k - 1)
      <4> HIDE DEF good
      <4> QED BY <2>2, <3>1
    <3>3. f[k] = InstrumentReturn(m, f[k - 1], k)
      BY <1>4, <2>3, <2>5
    <3>4. Fits(m, f[k].registers, f[k].code, FALSE)
      BY <1>1, <3>1, <3>2, <3>3, ReturnFits
    <3>5. Weaves(m, h, f[k].registers, f[k].code, done, k)
      <4> DEFINE l == k - 1
      <4>1. l = k - 1 /\ Weaves(m, h, f[l].registers, f[l].code, done, l)
            /\ Fits(m, f[l].registers, f[l].code, FALSE) /\ f[k] = InstrumentReturn(m, f[l], k)
            /\ k \in DOMAIN m.rets
        BY <1>1, <3>1, <3>2, <3>3
      <4> HIDE DEF l
      <4> QED BY <4>1, ReturnWeaves
    <3>6. good(k)
      BY <3>4, <3>5
    <3> HIDE DEF good
    <3> QED BY <2>3, <3>6
  <2> QED BY <2>4, <2>5
<1>6. good(n)
  <2> HIDE DEF good
  <2> QED BY <1>1, <1>5
<1> QED BY <1>3, <1>6 DEF n

\* The method as compiled makes no call, and its returns have no exit hook.
LEMMA CompiledWeaves ==
    ASSUME NEW m, MethodShape(m), NEW h, Distinct(h), NEW r, NEW n, n = 0
    PROVE  /\ Weaves(m, h, r, Compiled(m), 0, n)
           /\ \A j \in DOMAIN Compiled(m) : Compiled(m)[j].op # "invoke"
<1> DEFINE b == IF m.loop THEN 2 ELSE 1
           c == Compiled(m)
           K == Len(m.rets)
<1>1. IsCompiled(m, c, b)
  BY CompiledIs
<1>2. Fits(m, m.locals + Ins(m), c, TRUE)
  BY CompiledFits
<1>3. /\ c \in Seq(Instruction) /\ Len(c) = b + K /\ K \in Nat
      /\ c[b] = Body
      /\ \A j \in 1..(b + K) :
          \/ b = 2 /\ j = 1 /\ c[j] = Label
          \/ j = b /\ c[j] = Body
          \/ j > b /\ j - b \in 1..K /\ c[j] = Return(j - b)
  BY <1>1 DEF IsCompiled
<1>4. b \in {1, 2} /\ b \in Nat /\ b # 0
  OBVIOUS
<1>5. Label.op = "label" /\ Body.op = "body" /\ \A k : Return(k).op = "return" /\ Return(k).k = k
  BY DEF Label, Body, Return
<1>6. DOMAIN m.rets = 1..K
  BY DEF MethodShape
<1> HIDE DEF c, b, K
<1>7. DOMAIN c = 1..(b + K)
  BY <1>3, <1>4
<1>8. PICK a \in DOMAIN c : Skeleton(m, c, a)
  BY <1>2 DEF Fits
<1>9. a = b
  <2>1. c[a].op = "body"
    BY <1>5, <1>8 DEF Skeleton
  <2> QED BY <1>3, <1>5, <1>7, <2>1
<1>10. \A j \in DOMAIN c : c[j].op # "invoke"
  BY <1>3, <1>5, <1>7
<1>11. \A j \in 1..(b - 1) : c[j].op = "label" /\ j \in DOMAIN c
  BY <1>3, <1>4, <1>5, <1>7
<1>12. CallsWoven(m, h, c, r, b, 0)
  <2> DEFINE N == Len(Opening(h))
  <2>1. N \in Nat
    BY DEF Distinct
  <2> HIDE DEF N
  <2>2. \A j \in 1..(b - 1) : \A t : ~Makes(h, c, j, t)
    BY <1>11 DEF Makes
  <2>3. InOrder(h, c, b, 0)
    <3>1. \A t \in 1..N : ~ (t > N - 0)
      BY <2>1
    <3> QED BY <1>11, <2>2, <3>1 DEF InOrder, N
  <2>4. ArrayBuilt(m, c, b)
    BY <1>11 DEF ArrayBuilt
  <2>5. \A j \in 1..(b - 1) : Prepared(m, c, j, Places(m, c, r, b)[j])
    BY <1>11 DEF Prepared
  <2> QED BY <2>3, <2>4, <2>5 DEF CallsWoven
<1>13. Endings(m, c, b, n)
  <2>1. ASSUME NEW i \in DOMAIN c, NEW j \in DOMAIN c, c[i].op = "return", c[i] = c[j]
        PROVE  i = j
    <3>1. i - b \in 1..K /\ c[i] = Return(i - b) /\ j - b \in 1..K /\ c[j] = Return(j - b)
      BY <1>3, <1>5, <1>7, <2>1
    <3>3. c[i].k = i - b /\ c[j].k = j - b
      BY <1>5, <3>1
    <3>2. i - b = j - b
      BY <2>1, <3>3
    <3> QED BY <1>4, <1>7, <3>2
  <2>2. ASSUME NEW j \in DOMAIN c, c[j].op = "return"
        PROVE  Ending(m, c, b, n, j)
    <3>1. j - b \in 1..K /\ c[j] = Return(j - b) /\ j > b /\ j \in Nat
      BY <1>3, <1>4, <1>5, <1>7, <2>2
    <3>2. c[j].k = j - b /\ c[j].k \in DOMAIN m.rets
      BY <1>5, <1>6, <3>1
    <3>3. ~ (c[j].k <= n)
      BY <1>4, <3>1, <3>2
    <3>4. ExitOf(m, n, c[j].k) = << >> /\ Len(<< >>) = 0
      BY <3>3 DEF ExitOf
    <3>5. (j - 0) - 1 = j - 1 /\ j - 0 > b
      BY <1>4, <3>1
    <3>6. c[j - 1].op \in {"body", "return"}
      <4>1. j - 1 \in 1..(b + K) /\ ~ (j - 1 < b)
        BY <1>3, <1>4, <1>7, <3>1
      <4>2. ~ (b = 2 /\ j - 1 = 1)
        BY <4>1
      <4> QED BY <1>3, <1>5, <4>1, <4>2
    <3> QED BY <3>2, <3>4, <3>5, <3>6 DEF Ending
  <2> QED BY <2>1, <2>2, EndingsAre
<1>14. Weaves(m, h, r, c, 0, n)
  BY <1>3, <1>8, <1>9, <1>12, <1>13 DEF Weaves
<1> QED BY <1>10, <1>14 DEF c

\* The opening calls have all been woven: a further transform makes none of them.
LEMMA WeavesPast ==
    ASSUME NEW m, NEW h, Distinct(h), NEW r, NEW c, NEW n, NEW done \in Nat,
           done >= Len(Opening(h)), Weaves(m, h, r, c, done, n)
    PROVE  Weaves(m, h, r, c, done + 1, n)
<1>1. PICK b \in DOMAIN c : /\ Skeleton(m, c, b) /\ CallsWoven(m, h, c, r, b, done)
                            /\ Endings(m, c, b, n)
  BY DEF Weaves
<1> DEFINE N == Len(Opening(h))
<1>2. N \in Nat /\ done >= N
  BY DEF Distinct
<1> HIDE DEF N
<1>3. \A t \in 1..N : t > N - done /\ t > N - (done + 1)
  BY <1>2
<1>4. InOrder(h, c, b, done) => InOrder(h, c, b, done + 1)
  BY <1>3 DEF InOrder, N
<1>5. CallsWoven(m, h, c, r, b, done + 1)
  BY <1>1, <1>4 DEF CallsWoven
<1> QED BY <1>1, <1>5 DEF Weaves

LEMMA RoomIsMade ==
    ASSUME NEW m, MethodShape(m), NEW r, NEW c, NEW reg, Fits(m, r, c, reg),
           NEW shift, shift = HeadRoom(r, Ins(m))
    PROVE  /\ r \in Nat /\ Ins(m) \in Nat /\ Ins(m) <= r
           /\ shift \in Nat /\ r + shift \in Nat /\ (r + shift) - Ins(m) >= 3
<1> DEFINE ins == Ins(m)
<1>1. r \in Nat /\ ins \in Nat /\ ins <= r /\ shift = HeadRoom(r, ins)
  <2>1. r \in Nat /\ r >= m.locals + Ins(m) /\ Ins(m) \in Nat /\ m.locals \in Nat
    BY InsIsNat DEF Fits
  <2> QED BY <2>1
<1> HIDE DEF ins
<1>2. shift \in 0..3 /\ r + shift - ins >= 3
  BY <1>1, HeadRoomIsEnough
<1>3. shift \in Nat /\ r + shift \in Nat /\ (r + shift) - ins >= 3
  BY <1>1, <1>2
<1> QED BY <1>1, <1>3 DEF ins

\* Each transform weaves its call, the last of all the exit hook at every return.
LEMMA TransformTells ==
    ASSUME WeavingInv, ApplyTransform, Regular,
           Weaves(method, hooks, registers, code, Applied, Hooked)
    PROVE  /\ Weaves(method, hooks, registers', code', Applied', Hooked')
           /\ status' = status
<1> DEFINE all == Transforms(hooks)
           done == Applied
           tr == Head(transforms)
           i == done + 1
           P == Len(hooks.params)
           n == Len(Opening(hooks))
           e == Entries(hooks)
           L == Len(all)
<1>1. MethodShape(method) /\ HooksShape(hooks) /\ Distinct(hooks)
  BY JobShape, HooksAscend DEF WeavingInv
<1>2. Fits(method, registers, code, Regular) /\ Fits(method, registers, code, FALSE)
  BY InvariantFits DEF Fits
<1>3. /\ done >= 0
      /\ \A j \in DOMAIN transforms : transforms[j] = all[done + j]
      /\ done > 0 /\ hooks.params # << >> => HeadRoom(registers, Ins(method)) = 0
  BY DEF WeavingInv, TransformsLeft, ApplyTransform, Applied
<1>4. /\ transforms \in Seq(Transform) /\ transforms # << >> /\ Len(transforms) \in Nat
      /\ Len(transforms) # 0 /\ tr = transforms[1] /\ 1 \in DOMAIN transforms
      /\ Tail(transforms) \in Seq(Transform) /\ Len(Tail(transforms)) = Len(transforms) - 1
  BY DEF WeavingInv, TypeOK, ApplyTransform
<1>5. all \in Seq(Transform) /\ L \in Nat /\ DOMAIN all = 1..L
  BY <1>1, TransformsQueued
<1>6. done = L - Len(transforms) /\ UNCHANGED << method, hooks >>
  BY DEF Applied, ApplyTransform
<1>7. L = P + e + (IF hooks.exit THEN 1 ELSE 0)
      /\ \A j \in 1..L :
              \/ j <= P /\ all[j] = << "param", hooks.params[j], j = 1 >>
              \/ j = P + 1 /\ hooks.enter /\ all[j] = << "enter" >>
              \/ j = L /\ j = P + e + 1 /\ hooks.exit /\ all[j] = << "exit" >>
  BY <1>1, TransformsAreThese DEF TransformsAre
<1>8. /\ P \in Nat /\ DOMAIN hooks.params = 1..P /\ n = P + e /\ n \in Nat
      /\ DOMAIN Opening(hooks) = 1..n
      /\ hooks.enter => Opening(hooks)[1] = << "enter", 0 >>
      /\ \A j \in 1..P : Opening(hooks)[n - j + 1] = << "modify", hooks.params[j] >>
  BY <1>1, OpeningIs DEF OpeningAre
<1>9. e \in {0, 1} /\ (e = 1 <=> hooks.enter)
  BY <1>1 DEF Entries, HooksShape
<1>10. Hooked = 0
  BY <1>4 DEF Hooked
<1>11. Applied' = L - Len(transforms')
  BY <1>6 DEF Applied
<1> HIDE DEF all, tr, done, P, n, e, L
<1>12. done \in Nat /\ i \in 1..L /\ tr = all[i]
  BY <1>3, <1>4, <1>5, <1>6
<1>13. transforms' = Tail(transforms) =>
          /\ Applied' = done + 1
          /\ i # L => Hooked' = 0
          /\ i = L => Hooked' = IF hooks.exit THEN Len(method.rets) ELSE 0
  <2> SUFFICES ASSUME transforms' = Tail(transforms)
               PROVE  /\ Applied' = done + 1
                      /\ i # L => Hooked' = 0
                      /\ i = L => Hooked' = IF hooks.exit THEN Len(method.rets) ELSE 0
    OBVIOUS
  <2>1. Len(transforms') = Len(transforms) - 1
    BY <1>4
  <2>2. Applied' = done + 1
    BY <1>4, <1>5, <1>6, <1>11, <2>1
  <2>3. Len(transforms') = L - i
    BY <1>4, <1>5, <1>6, <2>1
  <2>4. Hooked' = IF hooks.exit /\ transforms' = << >> THEN Len(method.rets) ELSE 0
    BY <1>6 DEF Hooked
  <2>5. i # L => transforms' # << >>
    <3> DEFINE q == Len(transforms')
    <3>1. q = L - i /\ L \in Nat /\ i \in Nat
      BY <1>5, <1>12, <2>3
    <3> HIDE DEF q, i
    <3>2. i # L => q # 0
      BY <3>1
    <3> QED BY <3>2 DEF q
  <2>6. i = L => transforms' = << >>
    <3>4. L - L = 0
      BY <1>5
    <3>1. i = L => Len(transforms') = 0
      BY <2>3, <3>4
    <3> DEFINE rest == Tail(transforms)
    <3>2. rest \in Seq(Transform) /\ transforms' = rest /\ (i = L => Len(rest) = 0)
      BY <1>4, <3>1
    <3> HIDE DEF rest
    <3>3. Len(rest) = 0 => rest = << >>
      BY <3>2
    <3> QED BY <3>2, <3>3
  <2> QED BY <2>2, <2>4, <2>5, <2>6
<1> DEFINE shift == HeadRoom(registers, Ins(method))
           q == registers + shift
<1>14. /\ registers \in Nat /\ Ins(method) \in Nat /\ Ins(method) <= registers
       /\ shift \in Nat /\ q \in Nat /\ q - Ins(method) >= 3
  BY <1>1, <1>2, RoomIsMade
<1>15. Weaves(method, hooks, registers, code, done, 0)
  BY <1>10 DEF done
<1>20. Regular => IndexesExist /\ (method.loop => ~hooks.enter /\ hooks.params = << >>)
  BY DEF Regular
<1>16. CASE i <= P /\ tr = << "param", hooks.params[i], i = 1 >>
  <2> DEFINE idx == hooks.params[i]
             first == i = 1
  <2>1. i \in 1..P /\ i \in DOMAIN hooks.params /\ idx \in Nat /\ hooks.params # << >>
    <3>1. i \in 1..P
      BY <1>8, <1>12, <1>16
    <3>2. i \in DOMAIN hooks.params /\ hooks.params \in Seq(Nat)
      BY <1>1, <1>8, <3>1 DEF HooksShape
    <3> QED BY <3>1, <3>2
  <2>2. tr[1] = "param" /\ tr[2] = idx /\ tr[3] = first
    BY <1>16
  <2>3. ApplyModifyParameter(tr[2], tr[3])
    <3>1. CASE tr[1] = "param"
      BY <3>1 DEF ApplyTransform, tr
    <3> QED BY <2>2, <3>1
  <2>4. ApplyModifyParameter(idx, first)
    BY <2>2, <2>3
  <2>5. Len(method.params) \in Nat
    BY <1>1, SlotStep
  <2>6. idx < Len(method.params) /\ ~ (idx >= Len(method.params)) /\ ~method.loop
    <3>1. idx < Len(method.params)
      BY <1>20, <2>1 DEF IndexesExist
    <3> HIDE DEF idx
    <3> QED BY <1>20, <2>1, <2>5, <3>1
  <2>7. ~first => shift = 0
    BY <1>3, <1>12, <2>1
  <2>8. n - done \in 1..Len(Opening(hooks)) /\ Opening(hooks)[n - done] = << "modify", idx >>
    <3>1. n - done = n - i + 1 /\ n - done \in 1..n
      BY <1>8, <1>9, <1>12, <2>1
    <3> QED BY <1>8, <2>1, <3>1 DEF n
  <2> HIDE DEF idx, first, shift, q
  <2>9. Opens(method, hooks, ModifyCode(method, q, idx), q, q, done, 1)
    <3> DEFINE t0 == n - done
    <3>1. t0 \in 1..Len(Opening(hooks)) /\ Opening(hooks)[t0] = << "modify", idx >>
          /\ t0 = Len(Opening(hooks)) - done
      BY <2>8 DEF n
    <3> HIDE DEF t0
    <3> QED BY <1>1, <1>12, <1>14, <2>1, <2>6, <3>1, ModifyOpens
  <2> DEFINE s == ModifyCode(method, q, idx)
  <2> HIDE DEF s
  <2>10. /\ Weaves(method, hooks, registers + shift,
                   AtStart(code, s \o ShiftParams(method, registers + shift, shift)), done + 1, 0)
         /\ shift = 0 => Weaves(method, hooks, registers + shift, AtStart(code, s \o << >>), done + 1, 0)
    <3>1. Opens(method, hooks, s, registers + shift, registers + shift, done, 1)
      BY <2>9 DEF s, q
    <3> QED BY <1>1, <1>12, <1>14, <1>15, <2>6, <3>1, StartWeaves
  <2>11. /\ registers' = q
         /\ code' = AtStart(code, s \o IF first THEN ShiftParams(method, q, shift) ELSE << >>)
         /\ transforms' = Tail(transforms)
         /\ status' = status
    BY <2>4, <2>6 DEF ApplyModifyParameter, q, shift, s
  <2>12. Applied' = done + 1 /\ Hooked' = 0
    <3>1. i = L => ~hooks.exit
      <4>1. hooks.exit => i # L
        BY <1>7, <1>8, <1>9, <1>12, <2>1
      <4> QED BY <4>1
    <3> QED BY <1>13, <2>11, <3>1
  <2>13. Weaves(method, hooks, registers', code', done + 1, 0)
    <3>1. CASE first
      BY <2>10, <2>11, <3>1 DEF q
    <3>2. CASE ~first
      BY <2>7, <2>10, <2>11, <3>2 DEF q
    <3> QED BY <3>1, <3>2
  <2> QED BY <2>11, <2>12, <2>13
<1>17. CASE i = P + 1 /\ hooks.enter /\ tr = << "enter" >>
  <2>1. tr[1] = "enter" /\ "enter" # "param"
    BY <1>17
  <2>2. ApplyEntryHook
    BY <2>1 DEF ApplyTransform, tr
  <2>3. ~method.loop
    BY <1>17, <1>20
  <2>4. Len(Opening(hooks)) = done + 1 /\ Opening(hooks)[1] = << "enter", 0 >>
    BY <1>8, <1>9, <1>12, <1>17 DEF n
  <2> HIDE DEF shift, q
  <2>5. Opens(method, hooks, EntryCode(method, q), q, q, done, 1)
    BY <1>1, <1>12, <1>14, <2>4, EntryOpens
  <2> DEFINE s == EntryCode(method, q)
  <2> HIDE DEF s
  <2>6. Weaves(method, hooks, registers + shift,
               AtStart(code, s \o ShiftParams(method, registers + shift, shift)), done + 1, 0)
    <3>1. Opens(method, hooks, s, registers + shift, registers + shift, done, 1)
      BY <2>5 DEF s, q
    <3> QED BY <1>1, <1>12, <1>14, <1>15, <2>3, <3>1, StartWeaves
  <2>7. /\ registers' = registers + shift
        /\ code' = AtStart(code, s \o ShiftParams(method, registers + shift, shift))
        /\ transforms' = Tail(transforms) /\ status' = status
    BY <2>2 DEF ApplyEntryHook, shift, q, s
  <2>8. Applied' = done + 1 /\ Hooked' = 0
    <3>1. hooks.exit => i # L
      BY <1>7, <1>8, <1>9, <1>12, <1>17
    <3> QED BY <1>13, <2>7, <3>1
  <2> QED BY <2>6, <2>7, <2>8
<1>18. CASE i = L /\ i = P + e + 1 /\ hooks.exit /\ tr = << "exit" >>
  <2> DEFINE K == Len(method.rets)
             x == (CHOOSE f : IsInstrumented(method, registers, code, K, f))[K]
  <2>1. tr[1] = "exit" /\ "exit" # "param" /\ "exit" # "enter"
    BY <1>18
  <2>2. ApplyExitHook
    BY <2>1 DEF ApplyTransform, tr
  <2>3. /\ registers' = x.registers /\ code' = x.code
        /\ transforms' = Tail(transforms) /\ status' = status
    BY <2>2 DEF ApplyExitHook, IsInstrumented
  <2>4. Weaves(method, hooks, x.registers, x.code, done, K)
    BY <1>1, <1>2, <1>12, <1>15, ExitHookWeaves
  <2>5. done >= Len(Opening(hooks))
    BY <1>8, <1>9, <1>12, <1>18 DEF n
  <2> HIDE DEF x
  <2>6. Weaves(method, hooks, x.registers, x.code, done + 1, K)
    BY <1>1, <1>12, <2>4, <2>5, WeavesPast
  <2>7. Applied' = done + 1 /\ Hooked' = K
    BY <1>13, <1>18, <2>3
  <2> QED BY <2>3, <2>6, <2>7
<1> QED BY <1>7, <1>12, <1>16, <1>17, <1>18

----------------------------------------------------------------------------
(* The invocation: what is to be shown of each of its steps.               *)

\* The method's own code is at b, and all of this has been woven around it.
Tells(b) ==
    /\ OnTheWay(b)
    /\ CallsWoven(method, hooks, code, registers, b, Applied)
    /\ Endings(method, code, b, Hooked)

Seen ==
    /\ Replacements /\ EntrySeesOriginals /\ ModifierSeesItsParameter /\ ExitSeesResult

\* What HooksInv says of an invocation that runs.
Said(b) ==
    /\ pc <= b => Underway(b)
    /\ pc > b => \E i \in DOMAIN code : ReturnAhead(code, pc, i) /\ Returning(code[i].k)

Now(b) == Tells(b) /\ Said(b) /\ Seen /\ (pc <= b => ArgumentsKept(b))

LEMMA SameCode ==
    ASSUME UNCHANGED build
    PROVE  /\ UNCHANGED << method, hooks, transforms, registers, code >>
           /\ IndexesExist' = IndexesExist /\ Regular' = Regular
           /\ Applied' = Applied /\ Hooked' = Hooked
           /\ \A b : Tells(b)' = Tells(b)
<1>1. UNCHANGED << method, hooks, transforms, registers, code >>
  BY DEF build
<1>2. IndexesExist' = IndexesExist
  BY <1>1 DEF IndexesExist
<1>3. Regular' = Regular
  BY <1>1, <1>2 DEF Regular
<1>4. Applied' = Applied /\ Hooked' = Hooked
  BY <1>1 DEF Applied, Hooked
<1>5. \A b : Tells(b)' = Tells(b)
  BY <1>1, <1>3, <1>4 DEF Tells, OnTheWay
<1> QED BY <1>1, <1>2, <1>3, <1>4, <1>5

LEMMA ToldNow ==
    ASSUME WeavingInv, HooksInv, status = "running", Regular
    PROVE  \E b \in DOMAIN code : Now(b)
<1>1. PICK d \in DOMAIN code :
          /\ Skeleton(method, code, d) /\ Woven(method, code, registers, d)
          /\ pc <= d => ArgumentsKept(d)
  BY DEF WeavingInv, ArgumentsArrive
<1>2. PICK b \in DOMAIN code :
          /\ Skeleton(method, code, b)
          /\ CallsWoven(method, hooks, code, registers, b, Applied)
          /\ Endings(method, code, b, Hooked)
          /\ pc <= b => Underway(b)
          /\ pc > b => \E i \in DOMAIN code : ReturnAhead(code, pc, i) /\ Returning(code[i].k)
  BY DEF HooksInv, CallsTold
<1>3. d = b
  BY <1>1, <1>2, BodyFields DEF Skeleton
<1>4. Seen
  BY DEF HooksInv, Seen
<1>5. Tells(b)
  BY <1>1, <1>2, <1>3 DEF Tells, OnTheWay
<1>6. Said(b)
  BY <1>2 DEF Said
<1> QED BY <1>1, <1>3, <1>4, <1>5, <1>6 DEF Now

\* A step of the invocation.
LEMMA TellsOn ==
    ASSUME WeavingInv, HooksInv, status = "running", status' = "running", UNCHANGED build,
           ~IndexesExist => calls' = << >>,
           \A b \in DOMAIN code : Now(b) => Said(b)' /\ Seen'
    PROVE  HooksInv'
<1>1. UNCHANGED << method, hooks, transforms, registers, code >>
      /\ IndexesExist' = IndexesExist /\ Regular' = Regular
      /\ Applied' = Applied /\ Hooked' = Hooked
  BY SameCode
<1>2. transforms = << >>
  BY DEF HooksInv
<1>3. ASSUME ~IndexesExist
      PROVE  NothingTold'
  <2>1. code = Compiled(method)
    BY <1>3 DEF HooksInv, NothingTold
  <2> QED BY <1>1, <1>3, <2>1 DEF NothingTold
<1>4. ASSUME Regular
      PROVE  CallsTold' /\ Seen'
  <2>1. PICK b \in DOMAIN code : Now(b)
    BY <1>4, ToldNow
  <2>2. Said(b)' /\ Seen'
    BY <2>1
  <2>3. Skeleton(method, code, b) /\ CallsWoven(method, hooks, code, registers, b, Applied)
        /\ Endings(method, code, b, Hooked)
    BY <2>1 DEF Now, Tells, OnTheWay
  <2>4. CallsTold'
    BY <1>1, <2>2, <2>3 DEF CallsTold, Said
  <2> QED BY <2>2, <2>4
<1> QED BY <1>1, <1>2, <1>3, <1>4 DEF HooksInv, Seen

\* Steps that call no listener.
LEMMA SeenStays ==
    ASSUME Seen, UNCHANGED << method, calls >>, left' = left \/ CallsOf("exit") = {}
    PROVE  Seen'
<1>1. \A hook : CallsOf(hook)' = CallsOf(hook)
  BY DEF CallsOf
<1>2. Replacements' /\ EntrySeesOriginals' /\ ModifierSeesItsParameter'
  BY <1>1 DEF Seen, Replacements, EntrySeesOriginals, ModifierSeesItsParameter
<1>3. ExitSeesResult => ExitSeesResult'
  BY <1>1 DEF ExitSeesResult
<1> QED BY <1>2, <1>3 DEF Seen

\* If a modified parameter does not exist, the method runs as it was compiled.
LEMMA NoCallsYet ==
    ASSUME WeavingInv, HooksInv, status = "running", ~IndexesExist
    PROVE  calls = << >> /\ \A j \in DOMAIN code : code[j].op # "invoke"
<1>1. calls = << >> /\ code = Compiled(method)
  BY DEF HooksInv, NothingTold
<1>2. MethodShape(method) /\ Distinct(hooks)
  BY RunningFacts, HooksAscend
<1> DEFINE n == 0
<1>3. \A j \in DOMAIN Compiled(method) : Compiled(method)[j].op # "invoke"
  <2>1. n = 0
    OBVIOUS
  <2> HIDE DEF n
  <2> QED BY <1>2, <2>1, CompiledWeaves
<1> QED BY <1>1, <1>3

\* Before the method's own code all of Opening is called, each hook once and in order.
Ordered(b) ==
    LET n   == Len(Opening(hooks))
        way == 1..(b - 1)
    IN  /\ n \in Nat /\ DOMAIN Opening(hooks) = 1..n
        /\ \A j \in way : code[j].op = "invoke" => \E t \in 1..n : Makes(hooks, code, j, t)
        /\ \A i, j \in way, s, t \in 1..n :
              Makes(hooks, code, i, s) /\ Makes(hooks, code, j, t) => (i < j <=> s < t)
        /\ \A t \in 1..n : \E j \in way : Makes(hooks, code, j, t)

LEMMA CallsOrdered ==
    ASSUME WeavingInv, HooksInv, status = "running", NEW b, Tells(b)
    PROVE  Ordered(b)
<1> DEFINE n == Len(Opening(hooks))
           L == Len(Transforms(hooks))
           P == Len(hooks.params)
<1>1. HooksShape(hooks)
  BY RunningFacts, JobShape
<1>2. n = P + Entries(hooks) /\ n \in Nat /\ P \in Nat /\ DOMAIN Opening(hooks) = 1..n
  BY <1>1, OpeningIs DEF OpeningAre
<1>3. L = P + Entries(hooks) + IF hooks.exit THEN 1 ELSE 0
  BY <1>1, TransformsAreThese DEF TransformsAre
<1>4. Applied = L - 0
  <2>1. transforms = << >>
    BY DEF HooksInv
  <2>2. Len(transforms) = 0
    BY <2>1
  <2> QED BY <2>2 DEF Applied
<1>5. Entries(hooks) \in Nat
  BY DEF Entries
<1> HIDE DEF n, L, P
<1>6. \A t \in 1..n : t > n - Applied
  BY <1>2, <1>3, <1>4, <1>5, SMTT(30)
<1>7. InOrder(hooks, code, b, Applied)
  BY DEF Tells, CallsWoven
<1> QED BY <1>2, <1>6, <1>7 DEF InOrder, Ordered, n

\* Which call of Opening an instruction makes.
LEMMA WhichCall ==
    ASSUME WeavingInv, status = "running", NEW j, NEW t \in 1..Len(Opening(hooks)),
           Makes(hooks, code, j, t)
    PROVE  /\ code[j].op = "invoke" /\ code[j].hook \in {"enter", "modify"}
           /\ code[j].hook = "enter" <=> hooks.enter /\ t = 1
           /\ << code[j].hook, code[j].idx >> = Opening(hooks)[t]
<1> DEFINE o == Opening(hooks)
           n == Len(o)
           P == Len(hooks.params)
<1>1. HooksShape(hooks)
  BY RunningFacts, JobShape
<1>2. /\ hooks.enter => o[1] = << "enter", 0 >>
      /\ \A i \in 1..P : o[n - i + 1] = << "modify", hooks.params[i] >>
      /\ (hooks.enter /\ t = 1) \/ \E i \in 1..P : t = n - i + 1
  BY <1>1, OpeningIs DEF OpeningAre
<1>3. code[j].op = "invoke" /\ << code[j].hook, code[j].idx >> = o[t]
  BY DEF Makes
<1>4. CASE hooks.enter /\ t = 1
  <2>1. << code[j].hook, code[j].idx >> = << "enter", 0 >>
    BY <1>2, <1>3, <1>4
  <2>2. code[j].hook = "enter"
    BY <2>1
  <2> QED BY <1>3, <1>4, <2>2
<1>5. CASE ~ (hooks.enter /\ t = 1)
  <2>1. PICK i \in 1..P : t = n - i + 1
    BY <1>2, <1>5
  <2> HIDE DEF o, n, P
  <2>2. << code[j].hook, code[j].idx >> = << "modify", hooks.params[i] >>
    BY <1>2, <1>3, <2>1
  <2>3. code[j].hook = "modify"
    BY <2>2
  <2> QED BY <1>3, <1>5, <2>3 DEF o
<1> QED BY <1>4, <1>5

\* The calls made so far are the first of Opening.
LEMMA CallsSoFar ==
    ASSUME WeavingInv, status = "running", NEW b, Underway(b)
    PROVE  /\ Len(calls) \in Nat /\ DOMAIN calls = 1..Len(calls)
           /\ Len(calls) <= Len(Opening(hooks))
           /\ \A j \in 1..Len(calls) : << calls[j].hook, calls[j].idx >> = Opening(hooks)[j]
<1> DEFINE o == Opening(hooks)
           L == Len(calls)
<1>1. L \in Nat /\ DOMAIN calls = 1..L
  BY RunningFacts
<1>2. L <= Len(o) /\ [i \in DOMAIN calls |-> << calls[i].hook, calls[i].idx >>] = SubSeq(o, 1, L)
  BY DEF Underway, Made
<1> HIDE DEF L, o
<1>3. \A j \in 1..L : << calls[j].hook, calls[j].idx >> = SubSeq(o, 1, L)[j]
  BY <1>1, <1>2
<1>4. SubSeq(o, 1, L) = [i \in 1..L |-> o[i]]
  BY <1>1
<1> QED BY <1>1, <1>2, <1>3, <1>4 DEF L, o

LEMMA MadeFrom ==
    ASSUME calls \in Seq(HookCall), NEW o, Len(calls) <= Len(o),
           \A j \in 1..Len(calls) : << calls[j].hook, calls[j].idx >> = o[j]
    PROVE  Made(SubSeq(o, 1, Len(calls)))
<1> DEFINE L == Len(calls)
<1>1. L \in Nat /\ DOMAIN calls = 1..L
  OBVIOUS
<1> HIDE DEF L
<1>2. SubSeq(o, 1, L) = [i \in 1..L |-> o[i]]
  BY <1>1
<1>3. [i \in DOMAIN calls |-> << calls[i].hook, calls[i].idx >>] = [i \in 1..L |-> o[i]]
  BY <1>1 DEF L
<1> QED BY <1>2, <1>3 DEF Made, L

\* Where the array is made and filled no listener has been called.
LEMMA BeforeEntry ==
    ASSUME WeavingInv, HooksInv, status = "running", NEW b, Now(b), pc < b,
           code[pc].op \in {"new_array", "aput", "box"}
    PROVE  /\ calls = << >> /\ looped # "assigned"
           /\ \A s \in 0..(Ins(method) - 1) :
                 /\ s \in Nat /\ Place(b)[pc][s] \in DOMAIN regs
                 /\ regs[Place(b)[pc][s]] = Arg(s)
<1>1. /\ b \in Nat /\ pc \in 1..(b - 1) /\ pc \in Nat /\ Ins(method) \in Nat
      /\ DOMAIN calls = 1..Len(calls) /\ Len(calls) \in Nat
  BY RunningFacts, WayFacts DEF Now, Tells
<1>2. Underway(b) /\ ArgumentsKept(b)
  BY <1>1 DEF Now, Said
<1>3. Ordered(b) /\ ArrayBuilt(method, code, b) /\ OnTheWay(b)
  BY CallsOrdered DEF Now, Tells, CallsWoven
<1>4. PICK e \in 1..(b - 1) : code[e].op = "invoke" /\ code[e].hook = "enter" /\ pc < e
  BY <1>1, <1>3 DEF ArrayBuilt
<1>5. PICK t \in 1..Len(Opening(hooks)) : Makes(hooks, code, e, t)
  BY <1>3, <1>4 DEF Ordered
<1>6. t = 1
  BY <1>4, <1>5, WhichCall
<1>7. e < pc <=> t <= Len(calls)
  <2>1. t \in DOMAIN Opening(hooks)
    BY <1>3, <1>5 DEF Ordered
  <2> QED BY <1>2, <1>5, <2>1 DEF Underway
<1>8. Len(calls) = 0
  BY <1>1, <1>4, <1>6, <1>7
<1>9. calls = << >>
  <2>1. calls \in Seq(HookCall)
    BY RunningFacts
  <2> QED BY <1>8, <2>1
<1>10. looped # "assigned"
  <2>1. ~method.loop
    BY <1>1, <1>3 DEF OnTheWay, Woven
  <2> QED BY <2>1 DEF WeavingInv
<1>11. \A s : Current(s) = Arg(s)
  <2>1. CallsOf("modify") = {}
    BY <1>9 DEF CallsOf
  <2> QED BY <1>10, <2>1 DEF Current, ResultsFor
<1>12. \A s \in 0..(Ins(method) - 1) :
            Place(b)[pc][s] \in DOMAIN regs /\ regs[Place(b)[pc][s]] = Current(s)
  BY <1>2 DEF ArgumentsKept, IsResultFor, Place
<1>13. \A s \in 0..(Ins(method) - 1) : s \in Nat
  BY <1>1
<1> QED BY <1>9, <1>10, <1>11, <1>12, <1>13

\* The scratch registers after the step at pc.
LEMMA ScratchOn ==
    ASSUME WeavingInv, status = "running", NEW b, Now(b), pc < b, UNCHANGED build, pc' = pc + 1,
           DOMAIN regs' = DOMAIN regs,
           \A r \in DOMAIN regs : r \notin Writes(code[pc]) => regs'[r] = regs[r],
           code[pc].op = "const" =>
               \A i \in DOMAIN code[pc].vals :
                   LET r == code[pc].dst + i - 1
                   IN  r \in DOMAIN regs /\ regs'[r] = code[pc].vals[i],
           code[pc].op = "box" =>
               \A s \in 0..(Ins(method) - 1) : Place(b)[pc][s] = code[pc].src =>
                   code[pc].dst \in DOMAIN regs /\ regs'[code[pc].dst] = Box(s)
    PROVE  ScratchKept(Place(b))'
<1> DEFINE p == Place(b)
           holds(h, r, v) == h = pc' - 1 \/ r \notin Writes(code[pc' - 1])
                                => r \in DOMAIN regs' /\ regs'[r] = v
           held(h, r, v) == h = pc - 1 \/ r \notin Writes(code[pc - 1])
                                => r \in DOMAIN regs /\ regs[r] = v
<1>1. /\ pc \in Nat /\ pc # 0 /\ pc' - 1 = pc /\ pc' - 2 = pc - 1 /\ pc' = pc + 1 /\ pc # pc - 1
      /\ b \in Nat /\ pc \in 1..b
  BY RunningFacts, WayFacts, SMTT(30) DEF Now, Tells
<1>2. DOMAIN p[pc] = 0..(Ins(method) - 1)
  BY <1>1, WayFacts DEF Now, Tells
<1>3. code' = code /\ Place(b)' = Place(b)
  BY SameCode DEF Place
<1>4. ScratchKept(p)
  BY <1>1 DEF Now, Said, Underway, Place
<1> HIDE DEF p
<1>5. \A h \in {pc - 2, pc - 1} \cap DOMAIN code :
        /\ code[h].op = "const" =>
              \A i \in DOMAIN code[h].vals : held(h, code[h].dst + i - 1, code[h].vals[i])
        /\ code[h].op = "box" =>
              \A s \in DOMAIN p[h] : p[h][s] = code[h].src => held(h, code[h].dst, Box(s))
  BY <1>4 DEF ScratchKept
<1>6. \A r, v : held(pc - 1, r, v) => holds(pc - 1, r, v)
  BY <1>1
<1>7. \A r, v : r \in DOMAIN regs' /\ regs'[r] = v => holds(pc, r, v)
  OBVIOUS
<1> HIDE DEF held, holds
<1>8. ASSUME NEW h \in {pc' - 2, pc' - 1} \cap DOMAIN code
      PROVE  /\ code[h].op = "const" =>
                  \A i \in DOMAIN code[h].vals : holds(h, code[h].dst + i - 1, code[h].vals[i])
             /\ code[h].op = "box" =>
                  \A s \in DOMAIN p[h] : p[h][s] = code[h].src => holds(h, code[h].dst, Box(s))
  <2>1. CASE h = pc - 1
    BY <1>5, <1>6, <2>1
  <2>2. CASE h = pc
    BY <1>2, <1>7, <2>2 DEF p
  <2> QED BY <1>1, <2>1, <2>2
<1> QED BY <1>3, <1>8 DEF ScratchKept, holds, p

\* A step that calls no listener, and what it does with the array.
LEMMA WayOn ==
    ASSUME WeavingInv, HooksInv, status = "running", NEW b, Now(b), pc < b, code[pc].op # "invoke",
           Straight, UNCHANGED << left, calls >>,
           ScratchKept(Place(b))',
           \/ code[pc].op \notin {"new_array", "aput"} /\ array' = array
           \/ ArrayFilled(b)'
    PROVE  Said(b)' /\ Seen'
<1>1. UNCHANGED build /\ pc' = pc + 1
  BY DEF Straight
<1>2. /\ pc \in Nat /\ b \in Nat /\ pc \in 1..(b - 1) /\ pc \in 1..b /\ pc' <= b /\ ~ (pc' > b)
  BY <1>1, RunningFacts, WayFacts, SMTT(30) DEF Now, Tells
<1>3. UNCHANGED << method, hooks, registers, code >>
  BY <1>1, SameCode
<1>4. Seen'
  BY <1>3, SeenStays DEF Now
<1>5. Underway(b)
  BY <1>2 DEF Now, Said
<1>6. /\ Len(calls') <= Len(Opening(hooks')) /\ Made(SubSeq(Opening(hooks), 1, Len(calls)))'
  BY <1>3, <1>5 DEF Underway, Made
<1>7. ASSUME NEW j \in 1..(b - 1), NEW t \in DOMAIN Opening(hooks), Makes(hooks, code, j, t)
      PROVE  j < pc' <=> t <= Len(calls)
  <2>1. j < pc <=> t <= Len(calls)
    BY <1>5, <1>7 DEF Underway
  <2>2. j # pc
    BY <1>7 DEF Makes
  <2> QED BY <1>1, <1>2, <2>1, <2>2
<1>8. ArrayFilled(b)'
  <2> SUFFICES ASSUME code[pc].op \notin {"new_array", "aput"}, array' = array
               PROVE  ArrayFilled(b)'
    OBVIOUS
  <2>1. ArrayFilled(b)
    BY <1>5 DEF Underway
  <2>2. (\E a \in 1..(pc' - 1) : code[a].op = "new_array")
            => \E a \in 1..(pc - 1) : code[a].op = "new_array"
    BY <1>1, <1>2
  <2>3. ASSUME NEW x, \A j \in pc'..(b - 1) : ~StoresElement(code, j, x)
        PROVE  \A j \in pc..(b - 1) : ~StoresElement(code, j, x)
    <3>1. ~StoresElement(code, pc, x)
      BY DEF StoresElement
    <3>2. \A j \in pc..(b - 1) : j = pc \/ j \in pc'..(b - 1)
      BY <1>1, <1>2
    <3> QED BY <2>3, <3>1, <3>2
  <2> QED BY <1>3, <2>1, <2>2, <2>3 DEF ArrayFilled
<1>9. Underway(b)'
  BY <1>3, <1>6, <1>7, <1>8 DEF Underway, Place
<1> QED BY <1>2, <1>4, <1>9 DEF Said

LEMMA WayConst ==
    ASSUME WeavingInv, HooksInv, At("const"), Write(code[pc].dst, code[pc].vals), Straight,
           UNCHANGED << array, pending, left, calls >>, NEW b, Now(b), pc < b
    PROVE  Said(b)' /\ Seen'
<1> DEFINE i == code[pc]
<1>1. status = "running" /\ i.op = "const" /\ i \in Instruction /\ Writes(i) \subseteq DOMAIN regs
  BY AtFacts, RunningFacts
<1>2. i.dst \in Nat /\ i.vals \in Seq(Token) /\ DOMAIN regs \subseteq Nat
  BY <1>1, InstructionFields, RunningFacts
<1>3. UNCHANGED build /\ pc' = pc + 1
  BY DEF Straight
<1>4. /\ DOMAIN regs' = DOMAIN regs
      /\ \A r \in DOMAIN regs :
            regs'[r] = IF i.dst <= r /\ r < i.dst + Len(i.vals) THEN i.vals[r - i.dst + 1] ELSE regs[r]
  BY <1>1, <1>2, Written
<1>5. Writes(i) = i.dst .. (i.dst + Len(i.vals) - 1)
  BY <1>1 DEF Writes
<1> DEFINE N == Len(i.vals)
<1>6. N \in Nat /\ DOMAIN i.vals = 1..N
  BY <1>2
<1> HIDE DEF i, N
<1>7. \A r \in DOMAIN regs : r \notin Writes(i) => regs'[r] = regs[r]
  BY <1>2, <1>4, <1>5, <1>6 DEF N
<1>8. ASSUME NEW j \in DOMAIN i.vals
      PROVE  i.dst + j - 1 \in DOMAIN regs /\ regs'[i.dst + j - 1] = i.vals[j]
  <2> DEFINE r == i.dst + j - 1
  <2>1. r \in Writes(i) /\ i.dst <= r /\ r < i.dst + Len(i.vals) /\ r - i.dst + 1 = j
    BY <1>2, <1>5, <1>6 DEF N
  <2> HIDE DEF r
  <2> QED BY <1>1, <1>4, <2>1 DEF r
<1>9. ScratchKept(Place(b))'
  <2>1. i.op # "box"
    BY <1>1
  <2> QED BY <1>1, <1>3, <1>4, <1>7, <1>8, <2>1, ScratchOn DEF i
<1> QED BY <1>1, <1>9, WayOn DEF i

\* Moves, labels and move-results leave nothing in the scratch registers.
LEMMA WayQuiet ==
    ASSUME WeavingInv, HooksInv, status = "running",
           code[pc].op \in {"move", "label", "move_result"},
           Straight, UNCHANGED << array, left, calls >>,
           DOMAIN regs' = DOMAIN regs,
           \A r \in DOMAIN regs : r \notin Writes(code[pc]) => regs'[r] = regs[r],
           NEW b, Now(b), pc < b
    PROVE  Said(b)' /\ Seen'
<1>1. UNCHANGED build /\ pc' = pc + 1
  BY DEF Straight
<1>2. ScratchKept(Place(b))'
  BY <1>1, ScratchOn
<1> QED BY <1>2, WayOn

LEMMA WayMove ==
    ASSUME WeavingInv, HooksInv, At("move"), Write(code[pc].dst, RegsFrom(code[pc].src, code[pc].n)),
           Straight, UNCHANGED << array, pending, left, calls >>, NEW b, Now(b), pc < b
    PROVE  Said(b)' /\ Seen'
<1> DEFINE i == code[pc]
           vals == RegsFrom(i.src, i.n)
<1>1. status = "running" /\ i.op = "move" /\ i \in Instruction
  BY AtFacts, RunningFacts
<1>2. i.dst \in Nat /\ i.src \in Nat /\ i.n \in Nat /\ DOMAIN regs \subseteq Nat
  BY <1>1, InstructionFields, RunningFacts
<1>3. i.src .. (i.src + i.n - 1) \subseteq DOMAIN regs
  BY <1>1, AtFacts DEF Reads
<1>4. vals \in Seq(Token) /\ Len(vals) = i.n
  BY <1>1, <1>2, <1>3, TokensRead
<1>5. Write(i.dst, vals)
  OBVIOUS
<1>6. Writes(i) = i.dst .. (i.dst + i.n - 1)
  BY <1>1 DEF Writes
<1> HIDE DEF vals, i
<1>7. /\ DOMAIN regs' = DOMAIN regs
      /\ \A r \in DOMAIN regs :
            regs'[r] = IF i.dst <= r /\ r < i.dst + Len(vals) THEN vals[r - i.dst + 1] ELSE regs[r]
  BY <1>1, <1>2, <1>4, <1>5, Written
<1>8. \A r \in DOMAIN regs : r \notin Writes(i) => regs'[r] = regs[r]
  BY <1>2, <1>4, <1>6, <1>7
<1> QED BY <1>1, <1>7, <1>8, WayQuiet DEF i

LEMMA WayLabel ==
    ASSUME WeavingInv, HooksInv, At("label"), UNCHANGED regs,
           Straight, UNCHANGED << array, pending, left, calls >>, NEW b, Now(b), pc < b
    PROVE  Said(b)' /\ Seen'
<1>1. status = "running" /\ code[pc].op = "label"
  BY AtFacts
<1> QED BY <1>1, WayQuiet

LEMMA WayResult ==
    ASSUME WeavingInv, HooksInv, MoveResultBack, NEW b, Now(b), pc < b
    PROVE  Said(b)' /\ Seen'
<1> DEFINE i == code[pc]
<1>1. /\ Straight /\ UNCHANGED << array, left, calls >>
      /\ At("move_result") /\ Write(i.dst, pending)
  BY DEF MoveResultBack
<1>2. status = "running" /\ i.op = "move_result" /\ i \in Instruction
  BY <1>1, AtFacts, RunningFacts
<1>3. i.dst \in Nat /\ i.n \in Nat /\ DOMAIN regs \subseteq Nat /\ pending \in Seq(Token)
  BY <1>2, InstructionFields, RunningFacts
<1>4. Len(pending) = i.n
  <2>1. pc <= b
    BY <1>2, RunningFacts, WayFacts DEF Now, Tells
  <2> QED BY <1>2, <2>1 DEF Now, ArgumentsKept
<1>5. Writes(i) = i.dst .. (i.dst + i.n - 1)
  BY <1>2 DEF Writes
<1> HIDE DEF i
<1>6. /\ DOMAIN regs' = DOMAIN regs
      /\ \A r \in DOMAIN regs :
            regs'[r] = IF i.dst <= r /\ r < i.dst + Len(pending) THEN pending[r - i.dst + 1] ELSE regs[r]
  BY <1>1, <1>2, <1>3, Written
<1>7. \A r \in DOMAIN regs : r \notin Writes(i) => regs'[r] = regs[r]
  BY <1>3, <1>4, <1>5, <1>6
<1> QED BY <1>1, <1>2, <1>6, <1>7, WayQuiet DEF i

\* Instructions that write one scratch register.
LEMMA OneWritten ==
    ASSUME WeavingInv, status = "running", code[pc].op \in {"box", "new_array"},
           NEW t \in Token, Write(code[pc].dst, << t >>), Writes(code[pc]) \subseteq DOMAIN regs
    PROVE  /\ DOMAIN regs' = DOMAIN regs
           /\ \A r \in DOMAIN regs : r \notin Writes(code[pc]) => regs'[r] = regs[r]
           /\ code[pc].dst \in DOMAIN regs /\ regs'[code[pc].dst] = t
<1> DEFINE i == code[pc]
           v == << t >>
<1>1. i.dst \in Nat /\ DOMAIN regs \subseteq Nat
  BY RunningFacts, InstructionFields
<1>2. v \in Seq(Token) /\ Len(v) = 1 /\ Write(i.dst, v) /\ v[1] = t
  OBVIOUS
<1>3. Writes(i) = {i.dst}
  BY DEF Writes
<1>4. i.dst \in DOMAIN regs
  BY <1>3
<1> HIDE DEF v, i
<1>5. /\ DOMAIN regs' = DOMAIN regs
      /\ \A r \in DOMAIN regs :
            regs'[r] = IF i.dst <= r /\ r < i.dst + Len(v) THEN v[r - i.dst + 1] ELSE regs[r]
  BY <1>1, <1>2, Written
<1>6. i.dst - i.dst + 1 = 1 /\ i.dst < i.dst + Len(v) /\ i.dst <= i.dst
  BY <1>1, <1>2
<1>7. regs'[i.dst] = t
  BY <1>2, <1>4, <1>5, <1>6
<1>8. \A r \in DOMAIN regs : r \notin Writes(i) => regs'[r] = regs[r]
  BY <1>1, <1>2, <1>3, <1>5
<1> QED BY <1>4, <1>5, <1>7, <1>8 DEF i

LEMMA WayBox ==
    ASSUME WeavingInv, HooksInv, At("box"), Write(code[pc].dst, << Box(regs[code[pc].src][2]) >>),
           Straight, UNCHANGED << array, pending, left, calls >>, NEW b, Now(b), pc < b
    PROVE  Said(b)' /\ Seen'
<1> DEFINE i == code[pc]
           t == Box(regs[i.src][2])
<1>1. status = "running" /\ i.op = "box" /\ i \in Instruction /\ Verifies(i)
      /\ Writes(i) \subseteq DOMAIN regs
  BY AtFacts, RunningFacts
<1>2. t \in Token
  <2>1. i.src \in Nat /\ i.n \in Nat
    BY <1>1, InstructionFields
  <2>2. i.n # 0
    <3> DEFINE types == [j \in 1..i.n |-> TypeOf(regs[i.src + j - 1])]
    <3>1. types = IF i.n = 2 THEN << "wide0", "wide1" >> ELSE << "int" >>
      BY <1>1 DEF Verifies
    <3>2. DOMAIN types = 1..i.n
      OBVIOUS
    <3> HIDE DEF types
    <3>3. 1 \in DOMAIN types
      BY <3>1
    <3> QED BY <3>2, <3>3
  <2>3. i.src .. (i.src + i.n - 1) \subseteq DOMAIN regs
    BY <1>1 DEF Verifies, Reads
  <2>4. i.src \in DOMAIN regs
    <3> HIDE DEF i
    <3> QED BY <2>1, <2>2, <2>3
  <2>5. regs[i.src] \in Token
    BY <1>1, <2>4, RunningFacts
  <2> QED BY <2>5, TokenFields, TokensOK
<1>3. /\ DOMAIN regs' = DOMAIN regs
      /\ \A r \in DOMAIN regs : r \notin Writes(i) => regs'[r] = regs[r]
      /\ i.dst \in DOMAIN regs /\ regs'[i.dst] = t
  <2>1. Write(i.dst, << t >>)
    OBVIOUS
  <2> HIDE DEF t
  <2> QED BY <1>1, <1>2, <2>1, OneWritten
<1>4. ASSUME NEW s \in 0..(Ins(method) - 1), Place(b)[pc][s] = i.src
      PROVE  t = Box(s)
  <2>1. regs[i.src] = Arg(s)
    BY <1>1, <1>4, BeforeEntry
  <2> QED BY <2>1 DEF Arg
<1>5. UNCHANGED build /\ pc' = pc + 1
  BY DEF Straight
<1>6. ScratchKept(Place(b))'
  <2>1. i.op # "const"
    BY <1>1
  <2> HIDE DEF t
  <2> QED BY <1>1, <1>3, <1>4, <1>5, <2>1, ScratchOn
<1> HIDE DEF t
<1> QED BY <1>1, <1>6, WayOn

\* What the constants and the box before the instruction at pc have left.
LEMMA ScratchNow ==
    ASSUME WeavingInv, status = "running", NEW b, Now(b), pc <= b, NEW d \in Nat, NEW t
    PROVE  /\ pc > 1 /\ code[pc - 1] = Const(d, << t >>) => regs[d] = t
           /\ /\ pc > 2 /\ code[pc - 2].op = "const"
              /\ \E j \in DOMAIN code[pc - 2].vals :
                    d = code[pc - 2].dst + j - 1 /\ t = code[pc - 2].vals[j]
              /\ d \notin Writes(code[pc - 1])
              => regs[d] = t
           /\ /\ pc > 2 /\ code[pc - 2].op = "box" /\ code[pc - 2].dst = d
              /\ d \notin Writes(code[pc - 1])
              => \A s \in 0..(Ins(method) - 1) :
                    Place(b)[pc - 2][s] = code[pc - 2].src => regs[d] = Box(s)
<1> DEFINE p == Place(b)
           held(h, r, v) == h = pc - 1 \/ r \notin Writes(code[pc - 1])
                                => r \in DOMAIN regs /\ regs[r] = v
<1>1. /\ pc \in Nat /\ pc # 0 /\ b \in Nat /\ DOMAIN code = 1..Len(code) /\ Len(code) \in Nat
      /\ pc \in DOMAIN code
  BY RunningFacts, WayFacts DEF Now, Tells
<1>2. ScratchKept(p)
  BY DEF Now, Said, Underway, Place
<1> HIDE DEF p
<1>3. \A h \in {pc - 2, pc - 1} \cap DOMAIN code :
        /\ code[h].op = "const" =>
              \A i \in DOMAIN code[h].vals : held(h, code[h].dst + i - 1, code[h].vals[i])
        /\ code[h].op = "box" =>
              \A s \in DOMAIN p[h] : p[h][s] = code[h].src => held(h, code[h].dst, Box(s))
  BY <1>2 DEF ScratchKept
<1>4. \A r, v : held(pc - 1, r, v) => regs[r] = v
  OBVIOUS
<1>5. \A h, r, v : held(h, r, v) /\ r \notin Writes(code[pc - 1]) => regs[r] = v
  OBVIOUS
<1> HIDE DEF held
<1>6. ASSUME pc > 1, code[pc - 1] = Const(d, << t >>)
      PROVE  regs[d] = t
  <2>1. pc - 1 \in {pc - 2, pc - 1} \cap DOMAIN code
    BY <1>1, <1>6
  <2>2. code[pc - 1].op = "const" /\ code[pc - 1].dst = d /\ code[pc - 1].vals = << t >>
    BY <1>6 DEF Const
  <2>3. 1 \in DOMAIN code[pc - 1].vals /\ code[pc - 1].vals[1] = t /\ d + 1 - 1 = d
    BY <2>2
  <2>4. held(pc - 1, code[pc - 1].dst + 1 - 1, code[pc - 1].vals[1])
    BY <1>3, <2>1, <2>2, <2>3
  <2>5. held(pc - 1, d, t)
    BY <2>2, <2>3, <2>4
  <2> QED BY <1>4, <2>5
<1>7. pc > 2 => pc - 2 \in {pc - 2, pc - 1} \cap DOMAIN code /\ pc - 2 \in 1..b
  <2>1. pc <= b
    OBVIOUS
  <2> QED BY <1>1, <2>1
<1>8. ASSUME pc > 2, code[pc - 2].op = "const", NEW j \in DOMAIN code[pc - 2].vals,
             d = code[pc - 2].dst + j - 1, t = code[pc - 2].vals[j], d \notin Writes(code[pc - 1])
      PROVE  regs[d] = t
  <2>1. held(pc - 2, d, t)
    BY <1>3, <1>7, <1>8
  <2> QED BY <1>5, <1>8, <2>1
<1>9. ASSUME pc > 2, code[pc - 2].op = "box", code[pc - 2].dst = d, d \notin Writes(code[pc - 1]),
             NEW s \in 0..(Ins(method) - 1), p[pc - 2][s] = code[pc - 2].src
      PROVE  regs[d] = Box(s)
  <2>1. DOMAIN p[pc - 2] = 0..(Ins(method) - 1)
    BY <1>7, <1>9, WayFacts DEF Now, Tells, p
  <2>2. held(pc - 2, d, Box(s))
    BY <1>3, <1>7, <1>9, <2>1
  <2> QED BY <1>5, <1>9, <2>2
<1> QED BY <1>6, <1>8, <1>9 DEF p

LEMMA WayArray ==
    ASSUME WeavingInv, HooksInv, Allocate, NEW b, Now(b), pc < b
    PROVE  Said(b)' /\ Seen'
<1> DEFINE i == code[pc]
           N == 1 + Len(method.params)
<1>1. /\ Straight /\ UNCHANGED << pending, left, calls >>
      /\ At("new_array") /\ Write(i.dst, << ArrayRef >>)
      /\ array' = [j \in 1..regs[i.size][2] |-> Undef]
  BY DEF Allocate
<1>2. status = "running" /\ i.op = "new_array" /\ Writes(i) \subseteq DOMAIN regs
  BY <1>1, AtFacts
<1>3. UNCHANGED build /\ pc' = pc + 1 /\ UNCHANGED << method, hooks, transforms, registers, code >>
  BY <1>1, SameCode DEF Straight
<1>4. /\ DOMAIN regs' = DOMAIN regs
      /\ \A r \in DOMAIN regs : r \notin Writes(i) => regs'[r] = regs[r]
  <2> DEFINE t == ArrayRef
  <2>1. t \in Token /\ Write(i.dst, << t >>)
    BY <1>1, TokensOK
  <2> HIDE DEF t
  <2> QED BY <1>2, <2>1, OneWritten
<1>5. ScratchKept(Place(b))'
  <2>1. i.op # "const" /\ i.op # "box"
    BY <1>2
  <2> QED BY <1>2, <1>3, <1>4, <2>1, ScratchOn
<1>6. /\ pc \in Nat /\ b \in Nat /\ pc \in 1..(b - 1) /\ pc <= b /\ N \in Nat
      /\ MethodShape(method)
  <2>1. Len(method.params) \in Nat
    BY <1>2, RunningFacts, SlotStep
  <2> QED BY <1>2, <2>1, RunningFacts, WayFacts, SMTT(30) DEF Now, Tells
<1>7. pc > 1 /\ code[pc - 1] = Const(0, << Number(N) >>) /\ i = NewArray(2, 0)
  <2>1. Prepared(method, code, pc, Place(b)[pc])
    BY <1>6 DEF Now, Tells, CallsWoven, Place
  <2> QED BY <1>2, <2>1 DEF Prepared
<1>8. regs[i.size][2] = N
  <2> DEFINE d == 0
             t == Number(N)
  <2>1. d \in Nat /\ code[pc - 1] = Const(d, << t >>)
    BY <1>7
  <2> HIDE DEF d, t
  <2>2. regs[d] = t
    BY <1>2, <1>6, <1>7, <2>1, ScratchNow
  <2>3. i.size = d
    BY <1>7 DEF NewArray, d
  <2> QED BY <2>2, <2>3 DEF Number, t
<1>9. array' = [j \in 1..N |-> Undef]
  BY <1>1, <1>8
<1>10. Len(array') = N /\ (method.static => array'[1] = Undef)
  <2> HIDE DEF N
  <2>1. array' \in Seq(Token) /\ Len(array') = N
    <3>1. array' \in [1..N -> Token]
      BY <1>9, TokensOK
    <3> QED BY <1>6, <1>9, <3>1, SeqDef
  <2>2. 1 \in 1..N
    <3>1. N >= 1
      <4>1. Len(method.params) \in Nat
        BY <1>6, SlotStep
      <4> QED BY <4>1 DEF N
    <3> QED BY <1>6, <3>1
  <2> QED BY <1>9, <2>1, <2>2
<1>11. \A x \in Elements(method) : ~ (\A j \in pc'..(b - 1) : ~StoresElement(code, j, x))
  <2>1. ArrayBuilt(method, code, b)
    BY DEF Now, Tells, CallsWoven
  <2>2. \A x \in Elements(method) : \E j \in (pc + 1)..(b - 1) : StoresElement(code, j, x)
    BY <1>2, <1>6, <2>1 DEF ArrayBuilt
  <2> QED BY <1>3, <2>2
<1>12. ArrayFilled(b)'
  BY <1>3, <1>10, <1>11 DEF ArrayFilled
<1>13. i.op # "invoke"
  BY <1>2
<1> QED BY <1>1, <1>2, <1>5, <1>12, <1>13, WayOn

\* Instructions that move nothing leave the arguments where they are.
LEMMA NothingMoved ==
    ASSUME WeavingInv, status = "running", NEW b, Now(b), pc <= b, pc > 2,
           code[pc - 2].op # "move", code[pc - 1].op # "move"
    PROVE  \A s \in 0..(Ins(method) - 1) : Place(b)[pc - 2][s] = Place(b)[pc][s]
<1>1. /\ pc \in Nat /\ b \in Nat /\ pc - 2 \in 1..(b - 1) /\ pc - 1 \in 1..(b - 1)
      /\ (pc - 2) + 1 = pc - 1 /\ (pc - 1) + 1 = pc /\ pc - 2 \in 1..b /\ pc - 1 \in 1..b
  <2>1. pc \in Nat /\ b \in Nat
    BY RunningFacts, WayFacts DEF Now, Tells
  <2>2. pc <= b /\ pc > 2
    OBVIOUS
  <2> QED BY <2>1, <2>2
<1>2. /\ Place(b)[pc - 1] = Moved(code[pc - 2], Place(b)[pc - 2])
      /\ Place(b)[pc] = Moved(code[pc - 1], Place(b)[pc - 1])
      /\ DOMAIN Place(b)[pc - 2] = 0..(Ins(method) - 1) /\ DOMAIN Place(b)[pc - 1] = 0..(Ins(method) - 1)
  <2>1. OnTheWay(b)
    BY DEF Now, Tells
  <2>2. \A j \in 1..(b - 1) : Place(b)[j + 1] = Moved(code[j], Place(b)[j])
    BY <2>1, WayFacts
  <2>3. \A j \in 1..b : DOMAIN Place(b)[j] = 0..(Ins(method) - 1)
    BY <2>1, WayFacts
  <2>4. Place(b)[(pc - 2) + 1] = Moved(code[pc - 2], Place(b)[pc - 2])
    BY <1>1, <2>2
  <2>5. Place(b)[(pc - 1) + 1] = Moved(code[pc - 1], Place(b)[pc - 1])
    BY <1>1, <2>2
  <2> QED BY <1>1, <2>3, <2>4, <2>5
<1> QED BY <1>2 DEF Moved

\* The array takes the argument that the instruction is for.
LEMMA StoredValue ==
    ASSUME WeavingInv, HooksInv, status = "running", code[pc].op = "aput", NEW b, Now(b), pc < b
    PROVE  \E x \in Elements(method) :
              /\ x \in Nat /\ StoresElement(code, pc, x)
              /\ regs[code[pc].idx] = Number(x)
              /\ regs[code[pc].src] = Original(method, x)
<1> DEFINE i == code[pc]
           p == Place(b)[pc]
<1>1. pc \in Nat /\ b \in Nat /\ pc \in 1..(b - 1) /\ pc <= b /\ MethodShape(method)
  BY RunningFacts, WayFacts DEF Now, Tells
<1>2. Prepared(method, code, pc, p)
  BY <1>1 DEF Now, Tells, CallsWoven, Place
<1>3. PICK x \in Elements(method) :
          /\ StoresElement(code, pc, x)
          /\ IF IsBoxed(method, x)
             THEN pc > 2 /\ i.src = 1
                  /\ code[pc - 2] = BoxValue(p[ElementSlot(method, x)], Len(Slots(method.params[x])), 1)
             ELSE i.src = p[ElementSlot(method, x)]
  BY <1>2 DEF Prepared
<1> DEFINE s == ElementSlot(method, x)
<1>4. x \in Nat /\ s \in 0..(Ins(method) - 1)
  <2> DEFINE first == 0
  <2>1. first \in Nat
    OBVIOUS
  <2> HIDE DEF first
  <2> QED BY <1>1, <2>1, ElementPlaces
<1> HIDE DEF s
<1>5. i.idx = 0 /\ pc > 1 /\ code[pc - 1] = Const(0, << Number(x) >>)
  BY <1>3 DEF StoresElement
<1>6. regs[i.idx] = Number(x)
  <2> DEFINE d == 0
             t == Number(x)
  <2>1. d \in Nat /\ code[pc - 1] = Const(d, << t >>) /\ i.idx = d
    BY <1>5
  <2> HIDE DEF d, t
  <2>2. regs[d] = t
    BY <1>1, <1>5, <2>1, ScratchNow
  <2> QED BY <2>1, <2>2 DEF t
<1>7. CASE ~IsBoxed(method, x)
  <2>1. regs[p[s]] = Arg(s)
    BY <1>4, BeforeEntry
  <2>2. i.src = p[s] /\ Original(method, x) = Arg(s)
    BY <1>3, <1>7 DEF Original, s
  <2> QED BY <1>3, <1>4, <1>6, <2>1, <2>2
<1>8. CASE IsBoxed(method, x)
  <2> DEFINE d == 1
  <2>1. pc > 2 /\ i.src = d /\ code[pc - 2].op = "box" /\ code[pc - 2].dst = d /\ code[pc - 2].src = p[s]
    BY <1>3, <1>8 DEF BoxValue, s
  <2>2. code[pc - 1].op = "const" /\ Writes(code[pc - 1]) = 0..(0 + Len(<< Number(x) >>) - 1)
    BY <1>5 DEF Writes, Const
  <2>3. d \notin Writes(code[pc - 1]) /\ d \in Nat
    <3>1. Len(<< Number(x) >>) = 1
      OBVIOUS
    <3>2. Writes(code[pc - 1]) = 0..(0 + 1 - 1)
      BY <2>2, <3>1
    <3> QED BY <3>2
  <2>4. Place(b)[pc - 2][s] = p[s]
    <3>1. code[pc - 2].op # "move" /\ code[pc - 1].op # "move"
      BY <2>1, <2>2
    <3> QED BY <1>1, <1>4, <2>1, <3>1, NothingMoved
  <2> HIDE DEF d, i, p
  <2>5. regs[d] = Box(s)
    <3> DEFINE t == Box(s)
    <3>1. /\ pc > 2 /\ code[pc - 2].op = "box" /\ code[pc - 2].dst = d /\ d \notin Writes(code[pc - 1])
          => \A u \in 0..(Ins(method) - 1) : Place(b)[pc - 2][u] = code[pc - 2].src => regs[d] = Box(u)
      BY <1>1, <2>3, ScratchNow
    <3> QED BY <1>4, <2>1, <2>3, <2>4, <3>1
  <2>6. Original(method, x) = Box(s)
    BY <1>8 DEF Original, s
  <2> QED BY <1>3, <1>4, <1>6, <2>1, <2>5, <2>6 DEF i
<1> QED BY <1>7, <1>8

LEMMA WayStore ==
    ASSUME WeavingInv, HooksInv, Store, NEW b, Now(b), pc < b
    PROVE  Said(b)' /\ Seen'
<1> DEFINE i == code[pc]
<1>1. /\ Straight /\ UNCHANGED << regs, pending, left, calls >>
      /\ At("aput") /\ array' = [array EXCEPT ![regs[i.idx][2] + 1] = regs[i.src]]
  BY DEF Store
<1>2. status = "running" /\ i.op = "aput" /\ i.op # "const" /\ i.op # "box" /\ i.op # "invoke"
  BY <1>1, AtFacts
<1>3. UNCHANGED build /\ pc' = pc + 1 /\ UNCHANGED << method, hooks, transforms, registers, code >>
  BY <1>1, SameCode DEF Straight
<1>4. ScratchKept(Place(b))'
  BY <1>1, <1>2, <1>3, ScratchOn
<1>5. PICK x \in Elements(method) :
          /\ x \in Nat /\ StoresElement(code, pc, x)
          /\ regs[i.idx] = Number(x) /\ regs[i.src] = Original(method, x)
  BY <1>2, StoredValue
<1>6. array' = [array EXCEPT ![x + 1] = Original(method, x)]
  <2>1. regs[i.idx][2] = x
    BY <1>5 DEF Number
  <2> QED BY <1>1, <1>5, <2>1
<1>7. /\ pc \in Nat /\ b \in Nat /\ pc \in 1..(b - 1) /\ pc <= b /\ MethodShape(method)
      /\ array \in Seq(Token) /\ Len(method.params) \in Nat
  <2>1. Len(method.params) \in Nat
    BY <1>2, RunningFacts, SlotStep
  <2> QED BY <1>2, <2>1, RunningFacts, WayFacts DEF Now, Tells
<1>8. ArrayFilled(b)
  BY <1>7 DEF Now, Said, Underway
<1>9. ASSUME \E a \in 1..(pc' - 1) : code[a].op = "new_array"
      PROVE  /\ Len(array') = 1 + Len(method.params)
             /\ method.static => array'[1] = Undef
             /\ \A y \in Elements(method) :
                   (\A j \in pc'..(b - 1) : ~StoresElement(code, j, y))
                       => array'[y + 1] = Original(method, y)
  <2>1. \E a \in 1..(pc - 1) : code[a].op = "new_array"
    BY <1>2, <1>3, <1>7, <1>9
  <2>2. /\ Len(array) = 1 + Len(method.params)
        /\ method.static => array[1] = Undef
        /\ \A y \in Elements(method) :
              (\A j \in pc..(b - 1) : ~StoresElement(code, j, y))
                  => array[y + 1] = Original(method, y)
    BY <1>8, <2>1 DEF ArrayFilled
  <2> DEFINE N == 1 + Len(method.params)
  <2>3. DOMAIN array = 1..N /\ N \in Nat
    BY <1>7, <2>2
  <2>4. \A y \in Elements(method) : y \in Nat /\ y + 1 \in 1..N /\ (method.static => y # 0)
    BY <1>7 DEF Elements
  <2> HIDE DEF N
  <2>5. /\ DOMAIN array' = 1..N /\ array'[x + 1] = Original(method, x)
        /\ \A k \in 1..N : k # x + 1 => array'[k] = array[k]
    BY <1>6, <2>3, <2>4
  <2>6. Len(array') = N
    <3>1. array' = [array EXCEPT ![x + 1] = Original(method, x)] /\ Len(array) = N /\ array \in Seq(Token)
      BY <1>6, <1>7, <2>2 DEF N
    <3>2. Original(method, x) \in Token
      <4>1. Original(method, x) = regs[i.src] /\ i.src \in DOMAIN regs
        BY <1>1, <1>2, <1>5, AtFacts DEF Reads
      <4> QED BY <1>2, <4>1, RunningFacts
    <3>3. array' \in [1..N -> Token]
      <4>1. array \in [1..N -> Token]
        BY <2>3, <3>1
      <4> QED BY <3>1, <3>2, <4>1
    <3> QED BY <2>3, <2>5, <3>3, SeqDef
  <2>7. method.static => array'[1] = Undef
    <3> SUFFICES ASSUME method.static
                 PROVE  array'[1] = Undef
      OBVIOUS
    <3>1. x + 1 # 1 /\ 1 \in 1..N
      BY <1>5, <2>3, <2>4
    <3> QED BY <2>2, <2>5, <3>1
  <2>8. ASSUME NEW y \in Elements(method), \A j \in pc'..(b - 1) : ~StoresElement(code, j, y)
        PROVE  array'[y + 1] = Original(method, y)
    <3>1. CASE y = x
      BY <2>5, <3>1
    <3>2. CASE y # x
      <4>1. ~StoresElement(code, pc, y)
        <5> SUFFICES ASSUME StoresElement(code, pc, y)
                     PROVE  FALSE
          OBVIOUS
        <5>1. Const(0, << Number(x) >>) = Const(0, << Number(y) >>)
          BY <1>5 DEF StoresElement
        <5>2. Number(x) = Number(y)
          BY <5>1 DEF Const
        <5> QED BY <3>2, <5>2 DEF Number
      <4>2. \A j \in pc..(b - 1) : j = pc \/ j \in pc'..(b - 1)
        BY <1>3, <1>7
      <4>3. array[y + 1] = Original(method, y)
        BY <2>2, <2>8, <4>1, <4>2
      <4>4. y + 1 # x + 1 /\ y + 1 \in 1..N
        BY <1>5, <2>4, <3>2
      <4> QED BY <2>5, <4>3, <4>4
    <3> QED BY <3>1, <3>2
  <2> QED BY <2>6, <2>7, <2>8 DEF N
<1>10. ArrayFilled(b)'
  BY <1>3, <1>9 DEF ArrayFilled
<1> QED BY <1>1, <1>2, <1>4, <1>10, WayOn

----------------------------------------------------------------------------
(* Calls.                                                                  *)

\* What is asked of a single call.
Replaced(c) ==
    c.idx < Len(method.params) /\ Len(c.out) = Len(Slots(method.params[c.idx + 1]))

EntrySaw(c) ==
    /\ Len(c.array) = 1 + Len(method.params)
    /\ c.array[1] = IF method.static THEN Undef ELSE Arg(0)
    /\ \A j \in DOMAIN method.params :
          c.array[j + 1] = LET s == Slot(method, j - 1)
                           IN  IF method.params[j] = "ref" THEN Arg(s) ELSE Box(s)

ModifierSaw(c) ==
    LET s == Slot(method, c.idx)
    IN  c.vals = Id \o << Number(c.idx) >>
            \o (IF method.static THEN << >> ELSE << Arg(0) >>)
            \o [j \in 1..Len(Slots(method.params[c.idx + 1])) |-> Arg(s + j - 1)]

ExitSaw(c) ==
    /\ c.vals = Id \o (IF method.static THEN << >> ELSE << left.this >>) \o left.result
    /\ ~method.static /\ ThisStays(method) => left.this = Arg(0)

LEMMA SeenAppended ==
    ASSUME calls \in Seq(HookCall), NEW c \in HookCall, calls' = Append(calls, c),
           UNCHANGED << method, left >>, Seen,
           c.hook = "modify" => Replaced(c) /\ ModifierSaw(c),
           c.hook = "enter" => EntrySaw(c),
           c.hook = "exit" => ExitSaw(c)
    PROVE  Seen'
<1> DEFINE N == Len(calls) + 1
<1>1. /\ DOMAIN calls' = 1..N /\ N \in Nat /\ calls'[N] = c
      /\ \A i \in DOMAIN calls' : i = N \/ (i \in DOMAIN calls /\ calls'[i] = calls[i])
  OBVIOUS
<1> HIDE DEF N
<1>2. \A hook : \A i \in CallsOf(hook)' :
          (c.hook = hook /\ calls'[i] = c) \/ (i \in CallsOf(hook) /\ calls'[i] = calls[i])
  BY <1>1 DEF CallsOf
<1>3. Replacements'
  <2>1. \A i \in CallsOf("modify") : Replaced(calls[i])
    BY DEF Seen, Replacements, Replaced
  <2>2. \A i \in CallsOf("modify")' : Replaced(calls'[i])
    BY <1>2, <2>1
  <2> QED BY <2>2 DEF Replacements, Replaced
<1>4. EntrySeesOriginals'
  <2>1. \A i \in CallsOf("enter") : EntrySaw(calls[i])
    BY DEF Seen, EntrySeesOriginals, EntrySaw
  <2>2. \A i \in CallsOf("enter")' : EntrySaw(calls'[i])
    BY <1>2, <2>1
  <2> QED BY <2>2 DEF EntrySeesOriginals, EntrySaw
<1>5. ModifierSeesItsParameter'
  <2>1. \A i \in CallsOf("modify") : ModifierSaw(calls[i])
    BY DEF Seen, ModifierSeesItsParameter, ModifierSaw
  <2>2. \A i \in CallsOf("modify")' : ModifierSaw(calls'[i])
    BY <1>2, <2>1
  <2> QED BY <2>2 DEF ModifierSeesItsParameter, ModifierSaw
<1>6. ExitSeesResult'
  <2>1. \A i \in CallsOf("exit") : ExitSaw(calls[i])
    BY DEF Seen, ExitSeesResult, ExitSaw
  <2>2. \A i \in CallsOf("exit")' : ExitSaw(calls'[i])
    BY <1>2, <2>1
  <2> QED BY <2>2 DEF ExitSeesResult, ExitSaw
<1> QED BY <1>3, <1>4, <1>5, <1>6 DEF Seen

\* The registers that are passed in a call.
Passed(args) == [j \in DOMAIN args |-> regs[args[j]]]

LEMMA CallRecord ==
    ASSUME WeavingInv, Call
    PROVE  \E c \in HookCall :
              /\ calls' = Append(calls, c)
              /\ c.hook = code[pc].hook /\ c.idx = code[pc].idx /\ c.out = pending'
              /\ c.vals = Passed(code[pc].args)
              /\ code[pc].hook = "enter" => c.array = array
<1> DEFINE i == code[pc]
           v == [j \in DOMAIN i.args |-> regs[i.args[j]]]
           arr == IF i.hook = "enter" THEN array ELSE << >>
           r == [hook |-> i.hook, idx |-> i.idx, vals |-> v, out |-> pending', array |-> arr]
<1>1. PICK c \in HookCall : calls' = Append(calls, c)
  BY CallFacts
<1>2. calls' = Append(calls, r)
  BY DEF Call
<1> HIDE DEF r
<1>3. c = r
  <2>1. calls \in Seq(HookCall)
    BY CallFacts, AtFacts, RunningFacts
  <2> DEFINE N == Len(calls) + 1
  <2>2. Append(calls, c)[N] = c /\ Append(calls, r)[N] = r
    BY <2>1, AppendProperties
  <2> HIDE DEF N
  <2> QED BY <1>1, <1>2, <2>2
<1>4. /\ r.hook = i.hook /\ r.idx = i.idx /\ r.out = pending' /\ r.vals = v
      /\ r.array = arr
  BY DEF r
<1>5. v = Passed(i.args)
  BY DEF Passed
<1> HIDE DEF v, arr
<1> QED BY <1>1, <1>3, <1>4, <1>5 DEF arr

\* The values of registers that are listed one after the other.
LEMMA PassedConcat ==
    ASSUME WeavingInv, status = "running", NEW s \in Seq(Nat), NEW t \in Seq(Nat),
           \A j \in DOMAIN s : s[j] \in DOMAIN regs, \A j \in DOMAIN t : t[j] \in DOMAIN regs
    PROVE  /\ Passed(s \o t) = Passed(s) \o Passed(t)
           /\ Passed(s) \in Seq(Token) /\ Len(Passed(s)) = Len(s)
           /\ \A j \in DOMAIN (s \o t) : (s \o t)[j] \in DOMAIN regs
<1>1. /\ Len(s) \in Nat /\ Len(t) \in Nat /\ DOMAIN s = 1..Len(s) /\ DOMAIN t = 1..Len(t)
      /\ \A r \in DOMAIN regs : regs[r] \in Token
  BY RunningFacts
<1> DEFINE a == Passed(s)
           c == Passed(t)
           u == s \o t
           L == Len(s)
           M == Len(t)
<1>2. /\ u \in Seq(Nat) /\ DOMAIN u = 1..(L + M) /\ Len(u) = L + M
      /\ \A i \in 1..L : u[i] = s[i]
      /\ \A i \in (L + 1)..(L + M) : u[i] = t[i - L]
  BY Concat
<1> HIDE DEF u
<1>3. a \in Seq(Token) /\ Len(a) = L /\ \A j \in 1..L : a[j] = regs[s[j]]
  <2>1. DOMAIN a = 1..L /\ a \in [1..L -> Token] /\ \A j \in 1..L : a[j] = regs[s[j]]
    BY <1>1 DEF Passed
  <2>2. L \in Nat
    BY <1>1
  <2> HIDE DEF a, L
  <2>3. a \in Seq(Token)
    BY <2>1, <2>2, SeqDef
  <2> QED BY <2>1, <2>2, <2>3
<1>4. c \in Seq(Token) /\ Len(c) = M /\ \A j \in 1..M : c[j] = regs[t[j]]
  <2>1. DOMAIN c = 1..M /\ c \in [1..M -> Token] /\ \A j \in 1..M : c[j] = regs[t[j]]
    BY <1>1 DEF Passed
  <2>2. M \in Nat
    BY <1>1
  <2> HIDE DEF c, M
  <2>3. c \in Seq(Token)
    BY <2>1, <2>2, SeqDef
  <2> QED BY <2>1, <2>2, <2>3
<1>5. \A i \in 1..(L + M) : i \in 1..L \/ (i \in (L + 1)..(L + M) /\ i - L \in 1..M)
  <2>1. L \in Nat /\ M \in Nat
    BY <1>1
  <2> HIDE DEF L, M
  <2> QED BY <2>1
<1> HIDE DEF a, c
<1>6. /\ a \o c \in Seq(Token) /\ Len(a \o c) = L + M
      /\ \A i \in 1..L : (a \o c)[i] = a[i]
      /\ \A i \in (L + 1)..(L + M) : (a \o c)[i] = c[i - L]
  <2>1. a \in Seq(Token) /\ c \in Seq(Token)
    BY <1>3, <1>4
  <2>2. /\ a \o c \in Seq(Token) /\ Len(a \o c) = Len(a) + Len(c)
        /\ \A i \in 1..Len(a) : (a \o c)[i] = a[i]
        /\ \A i \in (Len(a) + 1)..(Len(a) + Len(c)) : (a \o c)[i] = c[i - Len(a)]
    BY <2>1, Concat
  <2>3. Len(a) = L /\ Len(c) = M
    BY <1>3, <1>4
  <2> QED BY <2>2, <2>3
<1> DEFINE x == a \o c
           y == Passed(u)
<1> HIDE DEF x
<1>7. y = [i \in 1..(L + M) |-> regs[u[i]]]
  BY <1>2 DEF Passed
<1>8. x \in Seq(Token) /\ DOMAIN x = 1..(L + M)
  <2>1. x \in Seq(Token) /\ Len(x) = L + M
    BY <1>6 DEF x
  <2> QED BY <2>1
<1> HIDE DEF L, M
<1>9. \A i \in 1..(L + M) : x[i] = regs[u[i]]
  <2>1. \A i \in 1..L : x[i] = regs[u[i]]
    BY <1>2, <1>3, <1>6 DEF x
  <2>2. \A i \in (L + 1)..(L + M) : i - L \in 1..M => x[i] = regs[u[i]]
    BY <1>2, <1>4, <1>6, ZenonT(40) DEF x
  <2> QED BY <1>5, <2>1, <2>2
<1>10. x = [i \in 1..(L + M) |-> regs[u[i]]]
  BY <1>8, <1>9
<1>11. \A j \in DOMAIN u : u[j] \in DOMAIN regs
  BY <1>1, <1>2, <1>5 DEF L, M
<1> QED BY <1>3, <1>7, <1>10, <1>11 DEF a, c, u, x, L

\* A call before the method's own code is the next one of Opening.
LEMMA NextCall ==
    ASSUME WeavingInv, HooksInv, status = "running", NEW b, Now(b), pc < b, code[pc].op = "invoke"
    PROVE  /\ Len(calls) \in Nat /\ Len(calls) + 1 \in 1..Len(Opening(hooks))
           /\ Makes(hooks, code, pc, Len(calls) + 1)
           /\ \A j \in 1..(b - 1), t \in DOMAIN Opening(hooks) :
                 Makes(hooks, code, j, t) => (j < pc + 1 <=> t <= Len(calls) + 1)
<1> DEFINE L == Len(calls)
           n == Len(Opening(hooks))
           way == 1..(b - 1)
<1>1. /\ b \in Nat /\ pc \in way /\ pc \in Nat /\ pc <= b /\ L \in Nat
  BY RunningFacts, WayFacts DEF Now, Tells
<1>2. Ordered(b) /\ Underway(b)
  BY <1>1, CallsOrdered DEF Now, Said
<1>3. /\ n \in Nat /\ DOMAIN Opening(hooks) = 1..n
      /\ \A j \in way : code[j].op = "invoke" => \E t \in 1..n : Makes(hooks, code, j, t)
      /\ \A i, j \in way, s, t \in 1..n :
            Makes(hooks, code, i, s) /\ Makes(hooks, code, j, t) => (i < j <=> s < t)
      /\ \A t \in 1..n : \E j \in way : Makes(hooks, code, j, t)
  BY <1>2 DEF Ordered
<1>4. \A j \in way, t \in 1..n : Makes(hooks, code, j, t) => (j < pc <=> t <= L)
  BY <1>2, <1>3 DEF Underway
<1> HIDE DEF L, n, way
<1>5. PICK t \in 1..n : Makes(hooks, code, pc, t)
  BY <1>1, <1>3
<1>6. t > L
  <2>1. ~ (t <= L)
    BY <1>1, <1>4, <1>5
  <2> QED BY <1>1, <1>3, <2>1
<1>7. L + 1 \in 1..n
  BY <1>1, <1>3, <1>6
<1>8. t = L + 1
  <2>1. PICK j \in way : Makes(hooks, code, j, L + 1)
    BY <1>3, <1>7
  <2>2. ~ (j < pc)
    BY <1>1, <1>4, <1>7, <2>1
  <2>3. j < pc <=> L + 1 < t
    BY <1>1, <1>3, <1>5, <1>7, <2>1
  <2> QED BY <1>1, <1>3, <1>6, <2>2, <2>3
<1>9. ASSUME NEW j \in way, NEW u \in 1..n, Makes(hooks, code, j, u)
      PROVE  j < pc + 1 <=> u <= L + 1
  <2>1. /\ j < pc <=> u < t
        /\ pc < j <=> t < u
    BY <1>1, <1>3, <1>5, <1>9
  <2>2. j \in Nat /\ u \in Nat
    BY <1>1, <1>3 DEF way
  <2> QED BY <1>1, <1>8, <2>1, <2>2
<1> QED BY <1>1, <1>3, <1>5, <1>7, <1>8, <1>9 DEF L, n, way

\* When the entry hook is called, the array is complete.
LEMMA EntryCall ==
    ASSUME WeavingInv, HooksInv, status = "running", NEW b, Now(b), pc < b, code[pc].op = "invoke",
           code[pc].hook = "enter", NEW c, c.array = array
    PROVE  EntrySaw(c)
<1>1. /\ b \in Nat /\ pc \in 1..(b - 1) /\ pc \in Nat /\ pc <= b /\ MethodShape(method)
  BY RunningFacts, WayFacts DEF Now, Tells
<1>2. Ordered(b) /\ ArrayBuilt(method, code, b) /\ ArrayFilled(b)
  BY <1>1, CallsOrdered DEF Now, Said, Underway, Tells, CallsWoven
<1>3. \E a \in 1..(pc - 1) : code[a].op = "new_array"
  <2>1. PICK a \in 1..(b - 1) : code[a].op = "new_array" /\ a < pc
    BY <1>1, <1>2 DEF ArrayBuilt
  <2> QED BY <1>1, <2>1
<1>4. \A e \in 1..(b - 1) : code[e].op = "invoke" /\ code[e].hook = "enter" => e = pc
  <2> SUFFICES ASSUME NEW e \in 1..(b - 1), code[e].op = "invoke", code[e].hook = "enter"
               PROVE  e = pc
    OBVIOUS
  <2>1. PICK t \in 1..Len(Opening(hooks)) : Makes(hooks, code, e, t)
    BY <1>2 DEF Ordered
  <2>2. PICK s \in 1..Len(Opening(hooks)) : Makes(hooks, code, pc, s)
    BY <1>1, <1>2 DEF Ordered
  <2>3. t = 1 /\ s = 1
    BY <2>1, <2>2, WhichCall
  <2>4. (e < pc <=> t < s) /\ (pc < e <=> s < t)
    BY <1>1, <1>2, <2>1, <2>2 DEF Ordered
  <2>5. e \in Nat
    BY <1>1
  <2> QED BY <1>1, <2>3, <2>4, <2>5
<1>5. \A x : \A j \in pc..(b - 1) : ~StoresElement(code, j, x)
  <2> SUFFICES ASSUME NEW x, NEW j \in pc..(b - 1), StoresElement(code, j, x)
               PROVE  FALSE
    OBVIOUS
  <2>1. j \in 1..(b - 1) /\ code[j].op = "aput"
    BY <1>1 DEF StoresElement
  <2>2. PICK e \in 1..(b - 1) : code[e].op = "invoke" /\ code[e].hook = "enter" /\ j < e
    BY <1>2, <2>1 DEF ArrayBuilt
  <2>3. e = pc
    BY <1>4, <2>2
  <2> QED BY <1>1, <2>2, <2>3
<1>6. /\ Len(array) = 1 + Len(method.params)
      /\ method.static => array[1] = Undef
      /\ \A x \in Elements(method) : array[x + 1] = Original(method, x)
  BY <1>2, <1>3, <1>5 DEF ArrayFilled
<1>7. Len(method.params) \in Nat /\ DOMAIN method.params = 1..Len(method.params)
  BY <1>1, SlotStep DEF MethodShape
<1>8. array[1] = IF method.static THEN Undef ELSE Arg(0)
  <2>1. CASE method.static
    BY <1>6, <2>1
  <2>2. CASE ~method.static
    <3>1. 0 \in Elements(method)
      BY <1>7, <2>2 DEF Elements
    <3>2. Original(method, 0) = Arg(0)
      BY DEF Original, IsBoxed, ElementSlot
    <3>3. array[0 + 1] = Arg(0) /\ 0 + 1 = 1
      BY <1>6, <3>1, <3>2
    <3> QED BY <2>2, <3>3
  <2> QED BY <2>1, <2>2
<1>9. ASSUME NEW j \in DOMAIN method.params
      PROVE  array[j + 1] = LET s == Slot(method, j - 1)
                            IN  IF method.params[j] = "ref" THEN Arg(s) ELSE Box(s)
  <2>1. j \in Elements(method) /\ j # 0
    BY <1>7 DEF Elements
  <2>2. Original(method, j) = LET s == Slot(method, j - 1)
                              IN  IF method.params[j] = "ref" THEN Arg(s) ELSE Box(s)
    BY <2>1 DEF Original, IsBoxed, ElementSlot
  <2> QED BY <1>6, <2>1, <2>2
<1> QED BY <1>6, <1>8, <1>9 DEF EntrySaw

\* A modifier is passed what nobody has replaced.
LEMMA NotReplaced ==
    ASSUME WeavingInv, HooksInv, status = "running", NEW b, Now(b), pc < b, code[pc].op = "invoke",
           code[pc].hook = "modify"
    PROVE  /\ code[pc].idx \in Nat /\ code[pc].idx < Len(method.params)
           /\ Slot(method, code[pc].idx) \in Nat
           /\ \A u \in 0..(Ins(method) - 1) :
                 \/ ~method.static /\ u = 0
                 \/ /\ Slot(method, code[pc].idx) <= u
                    /\ u < Slot(method, code[pc].idx) + Len(Slots(method.params[code[pc].idx + 1]))
                 => Place(b)[pc][u] \in DOMAIN regs /\ regs[Place(b)[pc][u]] = Arg(u)
<1> DEFINE i == code[pc]
           L == Len(calls)
           o == Opening(hooks)
           P == Len(method.params)
<1>1. /\ b \in Nat /\ pc \in 1..(b - 1) /\ pc \in Nat /\ pc <= b /\ MethodShape(method)
      /\ i \in Instruction /\ pc \in DOMAIN code /\ OnTheWay(b)
  BY RunningFacts, WayFacts DEF Now, Tells
<1>2. i.idx \in Nat /\ i.idx < P
  <2>1. i.idx \in Nat
    BY <1>1, InstructionFields
  <2> QED BY <1>1, <2>1 DEF OnTheWay, Skeleton
<1>3. Underway(b) /\ ArgumentsKept(b) /\ Replacements
  BY <1>1 DEF Now, Said, Seen
<1>4. looped # "assigned"
  <2>1. ~method.loop
    BY <1>1 DEF OnTheWay, Woven
  <2> QED BY <2>1 DEF WeavingInv
<1>5. /\ L \in Nat /\ DOMAIN calls = 1..L /\ calls \in Seq(HookCall)
      /\ \A j \in 1..L : << calls[j].hook, calls[j].idx >> = o[j]
  BY <1>3, CallsSoFar, RunningFacts
<1>6. L + 1 \in 1..Len(o) /\ << i.hook, i.idx >> = o[L + 1]
  <2>1. L + 1 \in 1..Len(o) /\ Makes(hooks, code, pc, L + 1)
    BY NextCall
  <2> QED BY <2>1 DEF Makes
<1>7. Distinct(hooks)
  BY <1>1, HooksAscend DEF WeavingInv
<1> HIDE DEF L, o, P
<1>8. ASSUME NEW j \in CallsOf("modify")
      PROVE  calls[j].idx # i.idx /\ calls[j].idx \in Nat /\ calls[j].idx < P
             /\ Len(calls[j].out) = Len(Slots(method.params[calls[j].idx + 1]))
  <2>1. j \in 1..L /\ calls[j].hook = "modify"
    BY <1>5 DEF CallsOf
  <2>2. calls[j] \in HookCall
    BY <1>5, <2>1
  <2>3. calls[j].idx \in Nat
    BY <2>2 DEF HookCall
  <2>4. calls[j].idx # i.idx
    <3> SUFFICES ASSUME calls[j].idx = i.idx
                 PROVE  FALSE
      OBVIOUS
    <3>1. o[j] = o[L + 1]
      BY <1>5, <1>6, <2>1
    <3>2. j \in 1..Len(o) /\ j # L + 1
      <4>1. Len(o) \in Nat
        BY <1>7 DEF Distinct, o
      <4> QED BY <1>5, <1>6, <2>1, <4>1
    <3> QED BY <1>6, <1>7, <3>1, <3>2 DEF Distinct, o
  <2> QED BY <1>3, <2>3, <2>4 DEF Replacements, P
<1> DEFINE a == Slot(method, i.idx)
           w == Len(Slots(method.params[i.idx + 1]))
<1>9. P \in Nat /\ i.idx \in 0..P /\ i.idx + 1 \in 1..P /\ i.idx + 1 \in 0..P /\ (i.idx + 1) - 1 = i.idx
  <2>1. P \in Nat
    BY <1>1, SlotStep DEF P
  <2> QED BY <1>2, <2>1
<1>10. /\ \A k \in 0..P : Slot(method, k) \in Nat /\ (~method.static => Slot(method, k) >= 1)
       /\ \A k \in 0..P : k + 1 \in 0..P =>
             Slot(method, k + 1) = Slot(method, k) + Len(Slots(method.params[k + 1]))
       /\ \A k \in 0..P, l \in 0..P : k <= l => Slot(method, k) <= Slot(method, l)
  <2>1. \A k \in 0..P, l \in 0..P : k <= l => Slot(method, k) <= Slot(method, l)
    <3> SUFFICES ASSUME NEW k \in 0..P, NEW l \in 0..P, k <= l
                 PROVE  Slot(method, k) <= Slot(method, l)
      OBVIOUS
    <3>1. k \in 0..Len(method.params) /\ l \in k..Len(method.params)
      BY <1>9 DEF P
    <3> QED BY <1>1, <3>1, SlotOrder
  <2>2. \A k \in 0..P : Slot(method, k) \in Nat
    BY <1>1, SlotStep DEF P
  <2>3. ~method.static => \A k \in 0..P : Slot(method, k) >= 1
    <3>1. 0 \in 0..P /\ \A k \in 0..P : 0 <= k
      BY <1>9
    <3>2. Slot(method, 0) = IF method.static THEN 0 ELSE 1
      BY <1>1, SlotStep
    <3> QED BY <2>1, <2>2, <3>1, <3>2
  <2>4. ASSUME NEW k \in 0..P, k + 1 \in 0..P
        PROVE  Slot(method, k + 1) = Slot(method, k) + Len(Slots(method.params[k + 1]))
    <3> DEFINE l == k + 1
    <3>1. l \in 1..P /\ l - 1 = k
      BY <1>9, <2>4
    <3> HIDE DEF l
    <3>2. Slot(method, l) = Slot(method, l - 1) + Width(method, l)
      BY <1>1, <3>1, SlotStep DEF P
    <3> QED BY <3>1, <3>2 DEF Width, l
  <2> QED BY <2>1, <2>2, <2>3, <2>4
<1>11. ASSUME NEW u \in 0..(Ins(method) - 1), (~method.static /\ u = 0) \/ (a <= u /\ u < a + w)
       PROVE  Current(u) = Arg(u)
  <2>1. ResultsFor(u) = {}
    <3> SUFFICES ASSUME NEW j \in CallsOf("modify"),
                        Slot(method, calls[j].idx) <= u,
                        u < Slot(method, calls[j].idx) + Len(calls[j].out)
                 PROVE  FALSE
      BY DEF ResultsFor
    <3> DEFINE k == calls[j].idx
               q == i.idx
    <3>1. /\ k # q /\ k \in Nat /\ k < P /\ q \in Nat /\ q < P
          /\ Slot(method, k) <= u /\ u < Slot(method, k) + Len(Slots(method.params[k + 1]))
      BY <1>2, <1>8
    <3>2. k \in 0..P /\ k + 1 \in 0..P /\ q \in 0..P /\ q + 1 \in 0..P /\ u \in Nat
      <4> HIDE DEF k, q
      <4>1. k \in 0..P /\ k + 1 \in 0..P /\ q \in 0..P /\ q + 1 \in 0..P
        BY <1>9, <3>1
      <4>2. u \in Nat
        BY <1>1, InsIsNat
      <4> QED BY <4>1, <4>2
    <3>3. a = Slot(method, q) /\ w = Len(Slots(method.params[q + 1]))
      OBVIOUS
    <3> HIDE DEF k, q, a, w
    <3>4. Slot(method, k + 1) = Slot(method, k) + Len(Slots(method.params[k + 1]))
          /\ Slot(method, q + 1) = Slot(method, q) + w
          /\ Slot(method, k) \in Nat /\ Slot(method, k + 1) \in Nat
          /\ Slot(method, q) \in Nat /\ Slot(method, q + 1) \in Nat
      BY <1>10, <3>2, <3>3
    <3>5. CASE ~method.static /\ u = 0
      <4>1. Slot(method, k) >= 1
        BY <1>10, <3>2, <3>5
      <4> QED BY <3>1, <3>4, <3>5, <4>1
    <3>6. CASE a <= u /\ u < a + w
      <4>1. u < Slot(method, k + 1) /\ Slot(method, k) <= u
        BY <3>1, <3>4
      <4>2. u < Slot(method, q + 1) /\ Slot(method, q) <= u
        BY <3>3, <3>4, <3>6
      <4>3. CASE k < q
        <5>1. k + 1 <= q
          BY <3>1, <4>3
        <5>2. Slot(method, k + 1) <= Slot(method, q)
          BY <1>10, <3>2, <5>1
        <5> QED BY <3>2, <3>4, <4>1, <4>2, <5>2
      <4>4. CASE q < k
        <5>1. q + 1 <= k
          BY <3>1, <4>4
        <5>2. Slot(method, q + 1) <= Slot(method, k)
          BY <1>10, <3>2, <5>1
        <5> QED BY <3>2, <3>4, <4>1, <4>2, <5>2
      <4> QED BY <3>1, <4>3, <4>4
    <3> QED BY <1>11, <3>5, <3>6
  <2> QED BY <1>4, <2>1 DEF Current
<1>12. \A u \in 0..(Ins(method) - 1) :
           Place(b)[pc][u] \in DOMAIN regs /\ regs[Place(b)[pc][u]] = Current(u)
  BY <1>3 DEF ArgumentsKept, IsResultFor, Place
<1>13. a \in Nat
  BY <1>9, <1>10
<1> QED BY <1>2, <1>11, <1>12, <1>13 DEF P

LEMMA Three ==
    ASSUME NEW e, NEW f, NEW g
    PROVE  << e, f >> \o << g >> = << e, f, g >>
<1> DEFINE S == {e, f, g}
           s == << e, f >>
           t == << g >>
           x == s \o t
           y == << e, f, g >>
<1>1. s \in Seq(S) /\ t \in Seq(S) /\ Len(s) = 2 /\ Len(t) = 1
      /\ s[1] = e /\ s[2] = f /\ t[1] = g
  OBVIOUS
<1>2. y \in Seq(S) /\ DOMAIN y = 1..3 /\ y[1] = e /\ y[2] = f /\ y[3] = g
  OBVIOUS
<1> HIDE DEF s, t, y, S
<1>3. /\ x \in Seq(S) /\ DOMAIN x = 1..(Len(s) + Len(t))
      /\ \A i \in 1..Len(s) : x[i] = s[i]
      /\ \A i \in (Len(s) + 1)..(Len(s) + Len(t)) : x[i] = t[i - Len(s)]
  BY <1>1, Concat, ZenonT(40)
<1> HIDE DEF x
<1>4. DOMAIN x = 1..3 /\ \A i \in 1..2 : x[i] = s[i]
  BY <1>1, <1>3
<1>5. x[3] = t[3 - 2]
  <2>1. 3 \in (Len(s) + 1)..(Len(s) + Len(t))
    BY <1>1
  <2> QED BY <1>1, <1>3, <2>1
<1>6. x[1] = e /\ x[2] = f /\ x[3] = g
  BY <1>1, <1>4, <1>5
<1>7. \A i \in 1..3 : x[i] = y[i]
  <2>1. \A i \in 1..3 : i = 1 \/ i = 2 \/ i = 3
    OBVIOUS
  <2> QED BY <1>2, <1>6, <2>1
<1>8. x \in Seq(S) /\ DOMAIN x = 1..3
  BY <1>3, <1>4
<1> DEFINE z == [i \in 1..3 |-> y[i]]
<1>9. x = z
  BY <1>7, <1>8
<1>10. y = z
  BY <1>2
<1>11. x = y
  BY <1>9, <1>10
<1> QED BY <1>11 DEF x, y, s, t

\* What v0, v1, v2 hold when a modifier is called.
LEMMA ModifierScratch ==
    ASSUME WeavingInv, HooksInv, status = "running", NEW b, Now(b), pc < b,
           pc > 2, code[pc - 2] = Const(0, Id), NEW t, code[pc - 1] = Const(2, << t >>)
    PROVE  regs[0] = Id[1] /\ regs[1] = Id[2] /\ regs[2] = t
<1>1. pc <= b /\ pc > 1
  BY RunningFacts, WayFacts DEF Now, Tells
<1> DEFINE d2 == 2
<1>2. regs[d2] = t
  <2>1. d2 \in Nat /\ code[pc - 1] = Const(d2, << t >>)
    OBVIOUS
  <2> HIDE DEF d2
  <2> QED BY <1>1, <2>1, ScratchNow
<1>3. Writes(code[pc - 1]) = {2}
  <2>1. code[pc - 1].op = "const" /\ code[pc - 1].dst = 2 /\ code[pc - 1].vals = << t >>
    BY DEF Const
  <2>2. Writes(code[pc - 1]) = code[pc - 1].dst .. (code[pc - 1].dst + Len(code[pc - 1].vals) - 1)
    BY <2>1 DEF Writes
  <2>3. Len(<< t >>) = 1
    OBVIOUS
  <2>4. Writes(code[pc - 1]) = 2 .. (2 + 1 - 1)
    BY <2>1, <2>2, <2>3
  <2> QED BY <2>4
<1>4. code[pc - 2].op = "const" /\ code[pc - 2].dst = 0 /\ code[pc - 2].vals = Id
      /\ DOMAIN Id = 1..2
  BY DEF Const, Id
<1>5. ASSUME NEW d \in Nat, d \in {0, 1}
      PROVE  regs[d] = Id[d + 1]
  <2> DEFINE v == Id[d + 1]
             j == d + 1
  <2>1. j \in DOMAIN code[pc - 2].vals /\ d = code[pc - 2].dst + j - 1 /\ v = code[pc - 2].vals[j]
    BY <1>4, <1>5
  <2>2. d \notin Writes(code[pc - 1])
    BY <1>3, <1>5
  <2> HIDE DEF v, j
  <2>3. regs[d] = v
    BY <1>1, <1>4, <2>1, <2>2, ScratchNow
  <2> QED BY <2>3 DEF v
<1>6. regs[0] = Id[0 + 1] /\ regs[1] = Id[1 + 1]
  BY <1>5
<1> QED BY <1>2, <1>6

LEMMA ModifierCall ==
    ASSUME WeavingInv, HooksInv, At("invoke"), NEW b, Now(b), pc < b, code[pc].hook = "modify",
           NEW c, c.vals = Passed(code[pc].args), c.idx = code[pc].idx
    PROVE  ModifierSaw(c)
<1> DEFINE i == code[pc]
           p == Place(b)[pc]
           a == Slot(method, i.idx)
           w == Len(Slots(method.params[i.idx + 1]))
           num == Number(i.idx)
           s0 == << 0, 1, 2 >>
           t0 == IF method.static THEN << >> ELSE << p[0] >>
           r0 == [h \in 1..w |-> p[a + h - 1]]
           s1 == Id \o << num >>
           t1 == IF method.static THEN << >> ELSE << Arg(0) >>
           r1 == [h \in 1..w |-> Arg(a + h - 1)]
<1>1. status = "running" /\ i.op = "invoke" /\ Verifies(i)
  BY AtFacts
<1>2. /\ b \in Nat /\ pc \in Nat /\ pc \in 1..(b - 1) /\ pc <= b /\ MethodShape(method)
      /\ Ins(method) \in Nat /\ DOMAIN regs \subseteq Nat
  BY <1>1, RunningFacts, WayFacts DEF Now, Tells
<1>3. Prepared(method, code, pc, p)
  BY <1>2 DEF Now, Tells, CallsWoven, Place
<1>4. pc > 2 /\ code[pc - 2] = Const(0, Id) /\ code[pc - 1] = Const(2, << num >>)
      /\ i.args = s0 \o t0 \o r0
  BY <1>1, <1>3 DEF Prepared
<1>5. regs[0] = Id[1] /\ regs[1] = Id[2] /\ regs[2] = num
  <2> HIDE DEF num
  <2> QED BY <1>1, <1>4, ModifierScratch
<1>6. /\ i.idx \in Nat /\ i.idx < Len(method.params) /\ a \in Nat
      /\ \A u \in 0..(Ins(method) - 1) :
            (~method.static /\ u = 0) \/ (a <= u /\ u < a + w)
            => p[u] \in DOMAIN regs /\ regs[p[u]] = Arg(u)
  BY <1>1, NotReplaced
<1>7. w \in Nat /\ \A h \in 1..w : a + h - 1 \in 0..(Ins(method) - 1)
  <2> DEFINE x == i.idx + 1
             first == 0
  <2>1. Len(method.params) \in Nat
    BY <1>2, SlotStep
  <2>2. x \in Elements(method) /\ first \in Nat /\ x # 0 /\ x - 1 = i.idx
    BY <1>6, <2>1 DEF Elements
  <2> HIDE DEF x, first
  <2>3. ElementSlot(method, x) + Width(method, x) <= Ins(method) /\ Width(method, x) \in 1..2
    BY <1>2, <2>2, ElementPlaces
  <2>4. a + w <= Ins(method) /\ w \in 1..2
    BY <2>2, <2>3 DEF ElementSlot, Width, x
  <2> HIDE DEF a, w
  <2> QED BY <1>2, <1>6, <2>4
<1>8. ~method.static => 0 \in 0..(Ins(method) - 1)
  <2> SUFFICES ASSUME ~method.static
               PROVE  0 \in 0..(Ins(method) - 1)
    OBVIOUS
  <2> DEFINE x == 0
             first == 0
  <2>1. Len(method.params) \in Nat
    BY <1>2, SlotStep
  <2>2. x \in Elements(method) /\ first \in Nat
    BY <2>1 DEF Elements
  <2>3. ElementSlot(method, x) = 0
    BY DEF ElementSlot
  <2> HIDE DEF x, first
  <2>4. ElementSlot(method, x) \in 0..(Ins(method) - 1)
    BY <1>2, <2>2, ElementPlaces
  <2> QED BY <2>3, <2>4
<1>9. Range(i.args) \subseteq DOMAIN regs
  BY <1>1 DEF Verifies, Reads
<1> HIDE DEF p, a, w, num, i
<1>10. s0 \in Seq(Nat) /\ Passed(s0) = s1 /\ \A j \in DOMAIN s0 : s0[j] \in DOMAIN regs
  <2>1. s0 \in Seq(Nat) /\ DOMAIN s0 = 1..3 /\ s0[1] = 0 /\ s0[2] = 1 /\ s0[3] = 2
    OBVIOUS
  <2>2. s1 = << Id[1], Id[2], num >>
    <3> DEFINE e == <<"id", 0>>
               f == <<"id", 1>>
    <3>1. Id = << e, f >>
      BY DEF Id
    <3> HIDE DEF e, f
    <3>2. << e, f >> \o << num >> = << e, f, num >>
      BY Three
    <3>3. << e, f >>[1] = e /\ << e, f >>[2] = f
      OBVIOUS
    <3> QED BY <3>1, <3>2, <3>3
  <2>3. Passed(s0) = [j \in 1..3 |-> regs[s0[j]]]
    BY <2>1 DEF Passed
  <2> DEFINE y == << Id[1], Id[2], num >>
  <2>4. y = [j \in 1..3 |-> y[j]] /\ y[1] = Id[1] /\ y[2] = Id[2] /\ y[3] = num
    OBVIOUS
  <2> HIDE DEF y, s0, s1
  <2>5. \A j \in 1..3 : regs[s0[j]] = y[j]
    <3>1. \A j \in 1..3 : j = 1 \/ j = 2 \/ j = 3
      OBVIOUS
    <3> QED BY <1>5, <2>1, <2>4, <3>1
  <2>6. Passed(s0) = s1
    BY <2>2, <2>3, <2>4, <2>5 DEF y
  <2>7. 0 \in DOMAIN regs /\ 1 \in DOMAIN regs /\ 2 \in DOMAIN regs
    <3> DEFINE N == Len(t0) + Len(r0)
    <3>1. registers \in Nat /\ DOMAIN regs = 0..(registers - 1)
      BY <1>1, RunningFacts
    <3>2. 2 \in Range(i.args)
      <4>1. i \in Instruction
        BY <1>1, RunningFacts DEF i
      <4>2. i.args \in Seq(Nat)
        BY <1>1, <4>1, InstructionFields
      <4>3. i.args[3] = 2 /\ 3 \in DOMAIN i.args
        <5>1. t0 \in Seq(Nat)
          <6>1. ~method.static => p[0] \in Nat
            BY <1>2, <1>6, <1>8
          <6> QED BY <6>1
        <5>2. r0 \in Seq(Nat)
          <6>1. \A h \in 1..w : p[a + h - 1] \in Nat
            BY <1>2, <1>6, <1>7, SMTT(30)
          <6>2. r0 \in [1..w -> Nat]
            BY <6>1
          <6> QED BY <1>7, <6>2, SeqDef
        <5> HIDE DEF t0, r0
        <5>3. s0 \o t0 \in Seq(Nat) /\ (s0 \o t0)[3] = 2 /\ 3 \in 1..Len(s0 \o t0)
          <6>1. Len(s0) = 3
            BY DEF s0
          <6> HIDE DEF s0
          <6>2. /\ s0 \o t0 \in Seq(Nat) /\ Len(s0 \o t0) = Len(s0) + Len(t0)
                /\ \A k \in 1..Len(s0) : (s0 \o t0)[k] = s0[k]
            BY <2>1, <5>1, Concat
          <6>3. Len(t0) \in Nat
            BY <5>1
          <6>4. 3 \in 1..Len(s0) /\ 3 \in 1..(Len(s0) + Len(t0))
            BY <6>1, <6>3
          <6> QED BY <2>1, <6>2, <6>4
        <5> DEFINE q0 == s0 \o t0
        <5> HIDE DEF q0
        <5>4. q0 \in Seq(Nat) /\ q0[3] = 2 /\ 3 \in 1..Len(q0)
          BY <5>3 DEF q0
        <5>5. /\ DOMAIN (q0 \o r0) = 1..(Len(q0) + Len(r0))
              /\ \A k \in 1..Len(q0) : (q0 \o r0)[k] = q0[k]
          BY <5>2, <5>4, Concat
        <5>6. Len(r0) \in Nat /\ Len(q0) \in Nat
          BY <5>2, <5>4
        <5>7. 3 \in 1..(Len(q0) + Len(r0))
          BY <5>4, <5>6
        <5>8. i.args = q0 \o r0
          BY <1>4 DEF q0
        <5> QED BY <5>4, <5>5, <5>7, <5>8
      <4> QED BY <4>3 DEF Range
    <3>3. 2 \in DOMAIN regs
      BY <1>9, <3>2
    <3> QED BY <3>1, <3>3
  <2> QED BY <2>1, <2>6, <2>7 DEF s0
<1>11. t0 \in Seq(Nat) /\ Passed(t0) = t1 /\ \A j \in DOMAIN t0 : t0[j] \in DOMAIN regs
  <2>1. CASE method.static
    <3>1. t0 = << >> /\ t1 = << >> /\ DOMAIN t0 = {}
      BY <2>1
    <3>2. Passed(t0) = << >>
      BY <3>1 DEF Passed
    <3> QED BY <3>1, <3>2
  <2>2. CASE ~method.static
    <3>1. p[0] \in DOMAIN regs /\ regs[p[0]] = Arg(0) /\ p[0] \in Nat
      BY <1>2, <1>6, <1>8, <2>2
    <3> DEFINE z == p[0]
               v == << z >>
    <3> HIDE DEF z
    <3>2. t0 = v /\ t1 = << Arg(0) >> /\ DOMAIN v = 1..1 /\ v[1] = z
      BY <2>2 DEF z
    <3>3. Passed(v) = << Arg(0) >>
      BY <3>1, <3>2 DEF Passed, z
    <3> QED BY <3>1, <3>2, <3>3 DEF z
  <2> QED BY <2>1, <2>2
<1>12. r0 \in Seq(Nat) /\ Passed(r0) = r1 /\ \A j \in DOMAIN r0 : r0[j] \in DOMAIN regs
  <2>1. \A h \in 1..w : p[a + h - 1] \in DOMAIN regs /\ regs[p[a + h - 1]] = Arg(a + h - 1)
    <3> SUFFICES ASSUME NEW h \in 1..w
                 PROVE  p[a + h - 1] \in DOMAIN regs /\ regs[p[a + h - 1]] = Arg(a + h - 1)
      OBVIOUS
    <3> DEFINE u == a + h - 1
    <3>1. u \in 0..(Ins(method) - 1)
      BY <1>7
    <3>2. a \in Nat /\ w \in Nat
      BY <1>6, <1>7
    <3>3. a <= u /\ u < a + w
      BY <3>2
    <3> HIDE DEF u
    <3>4. p[u] \in DOMAIN regs /\ regs[p[u]] = Arg(u)
      BY <1>6, <3>1, <3>3
    <3> QED BY <3>4 DEF u
  <2>2. r0 \in [1..w -> Nat]
    BY <1>2, <2>1
  <2>3. r0 \in Seq(Nat)
    BY <1>7, <2>2, SeqDef
  <2>4. Passed(r0) = r1
    BY <2>1 DEF Passed
  <2> QED BY <2>1, <2>3, <2>4
<1> HIDE DEF s0, t0, r0, s1, t1, r1
<1>13. Passed(s0 \o t0) = s1 \o t1 /\ \A j \in DOMAIN (s0 \o t0) : (s0 \o t0)[j] \in DOMAIN regs
  <2>1. /\ Passed(s0 \o t0) = Passed(s0) \o Passed(t0)
        /\ \A j \in DOMAIN (s0 \o t0) : (s0 \o t0)[j] \in DOMAIN regs
    BY <1>1, <1>10, <1>11, PassedConcat
  <2> QED BY <1>10, <1>11, <2>1
<1> DEFINE q0 == s0 \o t0
<1>14. q0 \in Seq(Nat)
  BY <1>10, <1>11, Concat
<1> HIDE DEF q0
<1>15. Passed(q0 \o r0) = Passed(q0) \o Passed(r0)
  <2>1. \A j \in DOMAIN q0 : q0[j] \in DOMAIN regs
    BY <1>13 DEF q0
  <2> QED BY <1>1, <1>12, <1>14, <2>1, PassedConcat
<1>16. c.vals = s1 \o t1 \o r1
  <2>1. c.vals = Passed(i.args) /\ i.args = q0 \o r0
    BY <1>4 DEF q0, i
  <2>2. c.vals = Passed(q0) \o Passed(r0)
    BY <1>15, <2>1
  <2> QED BY <1>12, <1>13, <2>2 DEF q0
<1> QED BY <1>16 DEF ModifierSaw, s1, t1, r1, a, w, num, i

LEMMA WayCall ==
    ASSUME WeavingInv, HooksInv, Call, NEW b, Now(b), pc < b
    PROVE  Said(b)' /\ Seen'
<1> DEFINE i == code[pc]
           L == Len(calls)
           t == L + 1
           o == Opening(hooks)
<1>1. /\ Straight /\ UNCHANGED << regs, array, left >> /\ At("invoke")
      /\ Len(pending') = Replaces(method, i.hook, i.idx)
      /\ i.hook = "modify" => i.idx < Len(method.params)
  BY CallFacts
<1>2. UNCHANGED build /\ pc' = pc + 1 /\ status = "running" /\ i.op = "invoke"
  BY <1>1, AtFacts DEF Straight
<1>3. /\ pc \in Nat /\ b \in Nat /\ pc \in 1..(b - 1) /\ pc' <= b /\ ~ (pc' > b)
      /\ calls \in Seq(HookCall) /\ DOMAIN regs \subseteq Nat
  BY <1>2, RunningFacts, WayFacts, SMTT(30) DEF Now, Tells
<1>4. UNCHANGED << method, hooks, registers, code >>
  BY <1>2, SameCode
<1>5. PICK c \in HookCall :
          /\ calls' = Append(calls, c)
          /\ c.hook = i.hook /\ c.idx = i.idx /\ c.out = pending'
          /\ c.vals = Passed(i.args)
          /\ i.hook = "enter" => c.array = array
  BY CallRecord
<1>6. /\ L \in Nat /\ t \in 1..Len(o) /\ Makes(hooks, code, pc, t)
      /\ \A j \in 1..(b - 1), k \in DOMAIN o :
            Makes(hooks, code, j, k) => (j < pc + 1 <=> k <= t)
  BY <1>2, NextCall
<1>7. i.hook \in {"enter", "modify"} /\ << i.hook, i.idx >> = o[t]
  <2> HIDE DEF t
  <2> QED BY <1>2, <1>6, WhichCall
<1>8. Seen'
  <2>1. i.hook = "modify" => Replaced(c) /\ ModifierSaw(c)
    <3> SUFFICES ASSUME i.hook = "modify"
                 PROVE  Replaced(c) /\ ModifierSaw(c)
      OBVIOUS
    <3>1. Replaced(c)
      BY <1>1, <1>5 DEF Replaced, Replaces
    <3>2. ModifierSaw(c)
      BY <1>1, <1>5, ModifierCall
    <3> QED BY <3>1, <3>2
  <2>2. i.hook = "enter" => EntrySaw(c)
    BY <1>2, <1>5, EntryCall
  <2> QED BY <1>1, <1>3, <1>4, <1>5, <1>7, <2>1, <2>2, SeenAppended DEF Now
<1>9. Underway(b)
  BY <1>2, <1>3 DEF Now, Said
<1>10. Len(calls') <= Len(o) /\ Made(SubSeq(o, 1, Len(calls)))' /\ Len(calls') = t
  <2>1. /\ DOMAIN calls = 1..L /\ L <= Len(o)
        /\ \A j \in 1..L : << calls[j].hook, calls[j].idx >> = o[j]
    BY <1>2, <1>9, CallsSoFar
  <2>2. calls' \in Seq(HookCall) /\ Len(calls') = t /\ DOMAIN calls' = 1..t /\ calls'[t] = c
        /\ \A j \in 1..L : calls'[j] = calls[j]
    BY <1>3, <1>5
  <2> HIDE DEF o, L
  <2>3. \A j \in 1..t : j = t \/ j \in 1..L
    BY <1>6
  <2> HIDE DEF t
  <2>4. \A j \in 1..t : << calls'[j].hook, calls'[j].idx >> = o[j]
    BY <1>5, <1>7, <2>1, <2>2, <2>3
  <2>5. SubSeq(o, 1, t) = [j \in 1..t |-> o[j]]
    BY <1>6
  <2>6. [j \in DOMAIN calls' |-> << calls'[j].hook, calls'[j].idx >>] = SubSeq(o, 1, t)
    BY <2>2, <2>4, <2>5
  <2>7. o' = o
    BY <1>4 DEF o
  <2> QED BY <1>6, <2>2, <2>6, <2>7 DEF Made
<1>11. \A j \in 1..(b - 1), k \in DOMAIN o :
          Makes(hooks, code, j, k) => (j < pc' <=> k <= Len(calls'))
  BY <1>2, <1>6, <1>10
<1>12. ScratchKept(Place(b))'
  <2>1. \A r \in DOMAIN regs : regs'[r] = regs[r]
    BY <1>1
  <2> QED BY <1>1, <1>2, <2>1, ScratchOn
<1>13. ArrayFilled(b)'
  <2>1. ArrayFilled(b)
    BY <1>9 DEF Underway
  <2>2. (\E a \in 1..(pc' - 1) : code[a].op = "new_array")
            => \E a \in 1..(pc - 1) : code[a].op = "new_array"
    BY <1>2, <1>3
  <2>3. ASSUME NEW x, \A j \in pc'..(b - 1) : ~StoresElement(code, j, x)
        PROVE  \A j \in pc..(b - 1) : ~StoresElement(code, j, x)
    <3>1. ~StoresElement(code, pc, x)
      BY <1>2 DEF StoresElement
    <3>2. \A j \in pc..(b - 1) : j = pc \/ j \in pc'..(b - 1)
      BY <1>2, <1>3
    <3> QED BY <2>3, <3>1, <3>2
  <2> QED BY <1>1, <1>4, <2>1, <2>2, <2>3 DEF ArrayFilled
<1>14. Underway(b)'
  BY <1>4, <1>10, <1>11, <1>12, <1>13 DEF Underway, Place
<1> QED BY <1>3, <1>8, <1>14 DEF Said

----------------------------------------------------------------------------
(* Behind the method's own code.                                           *)

ExitArgs(m, k) ==
    << IdReg(m, k), IdReg(m, k) + 1 >>
        \o (IF m.static THEN << >> ELSE << ThisIndex(m) >>)
        \o [i \in 1..RetCount(m) |-> m.rets[k].reg + i - 1]

LEMMA ExitCodeIs ==
    ASSUME NEW m, NEW k, NEW e, e = ExitCode(m, k, IdReg(m, k))
    PROVE  /\ Len(e) = IF m.ret = "void" THEN 2 ELSE 3
           /\ e[1] = Const(IdReg(m, k), Id) /\ e[2] = Invoke("exit", 0, ExitArgs(m, k))
           /\ m.ret # "void" => e[3] = MoveResult(m.rets[k].reg, RetCount(m))
<1> DEFINE x == Const(IdReg(m, k), Id)
           y == Invoke("exit", 0, ExitArgs(m, k))
           z == MoveResult(m.rets[k].reg, RetCount(m))
<1>1. e = << x, y >> \o IF m.ret = "void" THEN << >> ELSE << z >>
  BY DEF ExitCode, ExitArgs
<1> HIDE DEF x, y, z
<1>2. CASE m.ret = "void"
  <2>1. << x, y >> \o << >> = << x, y >>
    <3> DEFINE S == {x, y}
               s == << x, y >>
    <3>1. s \in Seq(S)
      OBVIOUS
    <3> HIDE DEF s, S
    <3>2. s \o << >> = s
      BY <3>1
    <3> QED BY <3>2 DEF s
  <2>2. e = << x, y >>
    BY <1>1, <1>2, <2>1
  <2>3. Len(<< x, y >>) = 2 /\ << x, y >>[1] = x /\ << x, y >>[2] = y
    OBVIOUS
  <2>4. Len(e) = 2 /\ e[1] = x /\ e[2] = y
    BY <2>2, <2>3
  <2> QED BY <1>2, <2>4 DEF x, y
<1>3. CASE m.ret # "void"
  <2>1. e = << x, y, z >>
    BY <1>1, <1>3, Three
  <2>2. Len(<< x, y, z >>) = 3 /\ << x, y, z >>[1] = x /\ << x, y, z >>[2] = y
        /\ << x, y, z >>[3] = z
    OBVIOUS
  <2>3. Len(e) = 3 /\ e[1] = x /\ e[2] = y /\ e[3] = z
    BY <2>1, <2>2
  <2> QED BY <1>3, <2>3 DEF x, y, z
<1> QED BY <1>2, <1>3

\* What is executed on the way to the k-th return.
OnReturn(k) ==
    LET reg  == method.rets[k].reg
        id   == IdReg(method, k)
        n    == RetCount(method)
        call == Invoke("exit", 0, ExitArgs(method, k))
        here == code[pc]
        next == code[pc + 1]
    IN  /\ k \in DOMAIN method.rets
        /\ \/ here.op = "return"
           \/ hooks.exit /\ here = Const(id, Id) /\ next = call
           \/ /\ hooks.exit /\ here = call
              /\ IF method.ret = "void" THEN next.op = "return" ELSE next = MoveResult(reg, n)
           \/ /\ hooks.exit /\ method.ret # "void"
              /\ here = MoveResult(reg, n) /\ next.op = "return"

LEMMA ExitSegment ==
    ASSUME WeavingInv, HooksInv, status = "running", NEW b, Tells(b),
           NEW p \in DOMAIN code, p > b, NEW i \in DOMAIN code, ReturnAhead(code, p, i)
    PROVE  LET e == ExitOf(method, Hooked, code[i].k)
           IN  /\ code[i].k \in DOMAIN method.rets
               /\ code[i].op = "return"
               /\ Len(e) \in Nat
               /\ p \in (i - Len(e))..i
               /\ \A h \in 1..Len(e) : code[(i - Len(e)) + h - 1] = e[h]
<1> DEFINE e == ExitOf(method, Hooked, code[i].k)
           N == Len(e)
           s == i - N
<1>1. /\ code \in Seq(Instruction) /\ DOMAIN code = 1..Len(code) /\ Len(code) \in Nat
      /\ MethodShape(method) /\ b \in Nat /\ b # 0
  BY RunningFacts, WayFacts DEF Tells
<1>2. code[i].op = "return" /\ i \in p..Len(code) /\ \A h \in p..(i - 1) : code[h].op # "return"
  BY DEF ReturnAhead
<1>3. Ending(method, code, b, Hooked, i)
  <2>1. Endings(method, code, b, Hooked)
    BY DEF Tells
  <2> QED BY <1>1, <1>2, <2>1, EndingsAre
<1>4. /\ code[i].k \in DOMAIN method.rets
      /\ s > b /\ code[s - 1].op \in {"body", "return"}
      /\ \A h \in 1..N : code[s + h - 1] = e[h]
  BY <1>3 DEF Ending
<1>5. N \in Nat
  BY <1>1, <1>4, ExitOfPiece
<1>6. Skeleton(method, code, b)
  BY DEF Tells, OnTheWay
<1> HIDE DEF N
<1>7. i \in Nat /\ p \in Nat /\ p <= i /\ s \in Nat /\ s <= i
  <2>1. i \in Nat /\ p \in Nat /\ p <= i
    BY <1>1, <1>2
  <2> QED BY <1>1, <1>4, <1>5, <2>1
<1>8. p >= s
  <2> SUFFICES ASSUME ~ (p >= s)
               PROVE  FALSE
    OBVIOUS
  <2> DEFINE q == s - 1
  <2>1. q \in p..(i - 1) /\ q \in DOMAIN code /\ q # b
    BY <1>1, <1>2, <1>7
  <2> HIDE DEF q
  <2>2. code[q].op # "return"
    BY <1>2, <2>1
  <2>3. code[q].op = "body"
    BY <1>4, <2>2 DEF q
  <2> QED BY <1>6, <2>1, <2>3 DEF Skeleton
<1>9. p \in s..i
  BY <1>7, <1>8
<1> QED BY <1>2, <1>4, <1>5, <1>9 DEF N

LEMMA Segment ==
    ASSUME WeavingInv, HooksInv, status = "running", NEW b, Tells(b), pc > b,
           NEW i \in DOMAIN code, ReturnAhead(code, pc, i)
    PROVE  OnReturn(code[i].k)
<1> DEFINE k == code[i].k
           e == ExitOf(method, Hooked, k)
           N == Len(e)
           s == i - N
<1>1. /\ k \in DOMAIN method.rets /\ code[i].op = "return" /\ N \in Nat
      /\ pc \in s..i
      /\ \A h \in 1..N : code[s + h - 1] = e[h]
  BY RunningFacts, ExitSegment
<1>2. pc \in Nat /\ i \in Nat
  BY RunningFacts
<1>3. CASE pc = i
  BY <1>1, <1>3 DEF OnReturn
<1>4. CASE pc # i
  <2>1. N # 0
    <3> HIDE DEF N
    <3> QED BY <1>1, <1>2, <1>4
  <2>2. e = ExitCode(method, k, IdReg(method, k)) /\ k <= Hooked
    <3>1. CASE k <= Hooked
      BY <3>1 DEF ExitOf
    <3>2. CASE ~ (k <= Hooked)
      <4>1. e = << >>
        BY <3>2 DEF ExitOf
      <4> QED BY <2>1, <4>1
    <3> QED BY <3>1, <3>2
  <2>3. hooks.exit
    <3>1. k \in Nat /\ k # 0
      <4>1. method.rets \in Seq([reg : Nat, own : BOOLEAN, this : {"kept", "object", "local"}])
        BY RunningFacts DEF MethodShape
      <4> DEFINE rets == method.rets
      <4>2. rets \in Seq([reg : Nat, own : BOOLEAN, this : {"kept", "object", "local"}]) /\ k \in DOMAIN rets
        BY <1>1, <4>1
      <4> HIDE DEF rets, k
      <4> QED BY <4>2
    <3> HIDE DEF k
    <3>2. ~hooks.exit => Hooked = 0
      BY DEF Hooked
    <3> QED BY <2>2, <3>1, <3>2
  <2>4. /\ N = IF method.ret = "void" THEN 2 ELSE 3
        /\ e[1] = Const(IdReg(method, k), Id) /\ e[2] = Invoke("exit", 0, ExitArgs(method, k))
        /\ method.ret # "void" => e[3] = MoveResult(method.rets[k].reg, RetCount(method))
    BY <2>2, ExitCodeIs
  <2> HIDE DEF N, e
  <2>5. \/ pc = s + 1 - 1
        \/ pc = s + 2 - 1
        \/ pc = s + 3 - 1 /\ N = 3
    BY <1>1, <1>2, <1>4, <2>4
  <2>6. CASE pc = s + 1 - 1
    <3>1. pc + 1 = s + 2 - 1 /\ 1 \in 1..N /\ 2 \in 1..N
      BY <1>1, <1>2, <2>4, <2>6
    <3>2. code[pc] = e[1] /\ code[pc + 1] = e[2]
      BY <1>1, <2>6, <3>1
    <3> QED BY <1>1, <2>3, <2>4, <3>2 DEF OnReturn
  <2>7. CASE pc = s + 2 - 1
    <3>1. 2 \in 1..N
      BY <2>4
    <3>2. code[pc] = e[2]
      BY <1>1, <2>7, <3>1
    <3>3. CASE method.ret = "void"
      <4>1. pc + 1 = i
        BY <1>2, <1>1, <2>4, <2>7, <3>3
      <4> QED BY <1>1, <2>3, <2>4, <3>2, <3>3, <4>1 DEF OnReturn
    <3>4. CASE method.ret # "void"
      <4>1. pc + 1 = s + 3 - 1 /\ 3 \in 1..N
        BY <1>2, <1>1, <2>4, <2>7, <3>4
      <4>2. code[pc + 1] = e[3]
        BY <1>1, <4>1
      <4> QED BY <1>1, <2>3, <2>4, <3>2, <3>4, <4>2 DEF OnReturn
    <3> QED BY <3>3, <3>4
  <2>8. CASE pc = s + 3 - 1 /\ N = 3
    <3>1. pc + 1 = i /\ 3 \in 1..N /\ method.ret # "void"
      BY <1>1, <1>2, <2>4, <2>8
    <3>2. code[pc] = e[3]
      BY <1>1, <2>8, <3>1
    <3> QED BY <1>1, <2>3, <2>4, <3>1, <3>2 DEF OnReturn
  <2> QED BY <2>5, <2>6, <2>7, <2>8
<1> QED BY <1>3, <1>4

\* The instructions of the exit hook's code.
LEMMA OnReturnOps ==
    ASSUME WeavingInv, status = "running", NEW k, OnReturn(k)
    PROVE  /\ code[pc].op \in {"const", "invoke", "move_result", "return"}
           /\ code[pc].op = "const" =>
                 /\ hooks.exit /\ code[pc].dst = IdReg(method, k) /\ code[pc].vals = Id
                 /\ code[pc + 1].op = "invoke"
           /\ code[pc].op = "invoke" =>
                 /\ hooks.exit /\ code[pc].hook = "exit" /\ code[pc].idx = 0
                 /\ code[pc].args = ExitArgs(method, k)
                 /\ code[pc + 1].op = IF method.ret = "void" THEN "return" ELSE "move_result"
           /\ code[pc].op = "move_result" =>
                 /\ hooks.exit /\ method.ret # "void"
                 /\ code[pc].dst = method.rets[k].reg /\ code[pc].n = RetCount(method)
                 /\ code[pc + 1].op = "return"
<1> DEFINE call == Invoke("exit", 0, ExitArgs(method, k))
           id == Const(IdReg(method, k), Id)
           back == MoveResult(method.rets[k].reg, RetCount(method))
<1>1. \/ code[pc].op = "return"
      \/ hooks.exit /\ code[pc] = id /\ code[pc + 1] = call
      \/ /\ hooks.exit /\ code[pc] = call
         /\ IF method.ret = "void" THEN code[pc + 1].op = "return" ELSE code[pc + 1] = back
      \/ /\ hooks.exit /\ method.ret # "void"
         /\ code[pc] = back /\ code[pc + 1].op = "return"
  BY DEF OnReturn
<1>2. /\ id.op = "const" /\ id.dst = IdReg(method, k) /\ id.vals = Id
      /\ call.op = "invoke" /\ call.hook = "exit" /\ call.idx = 0
      /\ call.args = ExitArgs(method, k)
      /\ back.op = "move_result" /\ back.dst = method.rets[k].reg /\ back.n = RetCount(method)
  BY DEF Const, Invoke, MoveResult
<1> HIDE DEF call, id, back
<1> QED BY <1>1, <1>2

\* A step behind the method's own code.
LEMMA ReturnStep ==
    ASSUME WeavingInv, status = "running", NEW b \in Nat, pc > b, Straight,
           NEW i \in DOMAIN code, ReturnAhead(code, pc, i), code[pc].op # "return",
           Returning(code[i].k)'
    PROVE  Said(b)'
<1>1. pc' = pc + 1 /\ UNCHANGED code
  BY SameCode DEF Straight
<1>2. pc \in Nat /\ DOMAIN code = 1..Len(code) /\ Len(code) \in Nat
  BY RunningFacts
<1>3. code[i].op = "return" /\ i \in pc..Len(code) /\ \A h \in pc..(i - 1) : code[h].op # "return"
  BY DEF ReturnAhead
<1>4. i # pc
  BY <1>3
<1>5. i \in pc'..Len(code) /\ \A h \in pc'..(i - 1) : h \in pc..(i - 1)
  BY <1>1, <1>2, <1>3, <1>4
<1>6. ReturnAhead(code, pc, i)'
  BY <1>1, <1>3, <1>5 DEF ReturnAhead
<1>7. ~ (pc' <= b)
  BY <1>1, <1>2
<1> QED BY <1>1, <1>6, <1>7 DEF Said

LEMMA ReturnStepTo ==
    ASSUME WeavingInv, status = "running", NEW b \in Nat, pc > b, Straight,
           NEW i \in DOMAIN code, ReturnAhead(code, pc, i), code[pc].op # "return",
           NEW k, k = code[i].k, Returning(k)'
    PROVE  Said(b)'
<1>1. UNCHANGED code
  BY SameCode DEF Straight
<1>2. Returning(code[i].k)'
  BY <1>1 DEF Returning
<1> QED BY <1>2, ReturnStep

LEMMA ReturnRoom ==
    ASSUME WeavingInv, status = "running", NEW k \in DOMAIN method.rets
    PROVE  /\ method.rets[k].reg \in Nat /\ IdReg(method, k) \in Nat
           /\ RetCount(method) \in Nat /\ ThisIndex(method) \in Nat
           /\ \A j \in 1..RetCount(method) :
                 /\ method.rets[k].reg + j - 1 \in DOMAIN regs
                 /\ method.rets[k].reg + j - 1 < IdReg(method, k)
           /\ ~method.static => ThisIndex(method) \in DOMAIN regs
           /\ method.ret = "void" => RetCount(method) = 0
<1> DEFINE reg == method.rets[k].reg
           n == RetCount(method)
           id == IdReg(method, k)
           this == ThisIndex(method)
           ins == Ins(method)
<1>1. /\ MethodShape(method) /\ registers \in Nat /\ ins \in Nat
      /\ registers >= method.locals + ins /\ DOMAIN regs = 0..(registers - 1) /\ TypeOK
  BY RunningFacts
<1>2. reg \in Nat /\ n \in 0..2 /\ this \in Nat
  BY <1>1, RetIsNat
<1>3. reg + n <= method.locals + ins
  BY <1>1, ShapeAssumption DEF TypeOK
<1>4. method.ret = "void" => n = 0
  BY DEF RetCount, Slots
<1>5. id \in Nat
  BY <1>1, ExitOfPiece
<1>6. method.ret # "void" => reg + n <= id
  <2> SUFFICES ASSUME method.ret # "void"
               PROVE  reg + n <= id
    OBVIOUS
  <2>1. id = MethodIdReg(this, method.static, reg, n)
    BY DEF IdReg
  <2> HIDE DEF id, reg, n, this
  <2> QED BY <1>2, <2>1 DEF MethodIdReg, ParamBegin
<1>7. ~method.static => this \in DOMAIN regs
  <2> SUFFICES ASSUME ~method.static
               PROVE  this \in DOMAIN regs
    OBVIOUS
  <2> DEFINE x == 0
             first == 0
  <2>1. Len(method.params) \in Nat
    BY <1>1, SlotStep
  <2>2. x \in Elements(method) /\ first \in Nat
    BY <2>1 DEF Elements
  <2>3. ElementSlot(method, x) = 0
    BY DEF ElementSlot
  <2> HIDE DEF x, first
  <2>4. ElementSlot(method, x) \in 0..(Ins(method) - 1)
    BY <1>1, <2>2, ElementPlaces
  <2>5. 0 \in 0..(ins - 1)
    BY <2>3, <2>4
  <2>6. this = method.locals
    BY DEF ThisIndex
  <2> HIDE DEF ins, this
  <2> QED BY <1>1, <1>2, <2>5, <2>6
<1>8. ASSUME NEW j \in 1..n
      PROVE  reg + j - 1 \in DOMAIN regs /\ reg + j - 1 < id
  <2>1. method.ret # "void"
    BY <1>4, <1>8
  <2>2. method.locals \in Nat
    BY <1>1 DEF MethodShape
  <2> DEFINE l == method.locals
  <2> HIDE DEF id, reg, n, this, ins, l
  <2>3. l \in Nat /\ reg + n <= l + ins /\ registers >= l + ins
    BY <1>1, <1>3, <2>2 DEF l
  <2> QED BY <1>1, <1>2, <1>5, <1>6, <1>8, <2>1, <2>3
<1> QED BY <1>2, <1>4, <1>5, <1>7, <1>8

LEMMA BackConst ==
    ASSUME WeavingInv, HooksInv, At("const"), Write(code[pc].dst, code[pc].vals), Straight,
           UNCHANGED << array, pending, left, calls >>, NEW b, Now(b), pc > b
    PROVE  Said(b)' /\ Seen'
<1>1. status = "running" /\ code[pc].op = "const" /\ Writes(code[pc]) \subseteq DOMAIN regs
      /\ code[pc] \in Instruction
  BY AtFacts, RunningFacts
<1>2. UNCHANGED build /\ pc' = pc + 1
  BY DEF Straight
<1>3. UNCHANGED << method, hooks, registers, code >>
  BY <1>2, SameCode
<1>4. Seen'
  BY <1>3, SeenStays DEF Now
<1>5. PICK i \in DOMAIN code : ReturnAhead(code, pc, i) /\ Returning(code[i].k)
  BY DEF Now, Said
<1>6. PICK k : k = code[i].k
  OBVIOUS
<1> DEFINE id == IdReg(method, k)
           reg == method.rets[k].reg
           n == RetCount(method)
           this == ThisIndex(method)
<1>7. OnReturn(k)
  BY <1>1, <1>5, <1>6, Segment DEF Now
<1>8. k \in DOMAIN method.rets /\ code[pc].dst = id /\ code[pc].vals = Id
      /\ code[pc + 1].op = "invoke"
  BY <1>1, <1>7, OnReturnOps DEF OnReturn
<1>9. /\ reg \in Nat /\ id \in Nat /\ n \in Nat /\ this \in Nat
      /\ \A j \in 1..n : reg + j - 1 \in DOMAIN regs /\ reg + j - 1 < id
      /\ ~method.static => this \in DOMAIN regs
  BY <1>1, <1>8, ReturnRoom
<1>10. Returning(k)
  BY <1>5, <1>6
<1>11. /\ Made(Opening(hooks)) /\ RegsFrom(reg, n) = left.result
       /\ ~method.static => /\ regs[this] = left.this
                            /\ ThisStays(method) => left.this = Arg(0)
  BY <1>1, <1>10 DEF Returning
<1>12. Len(Id) = 2
  BY DEF Id
<1>13. /\ DOMAIN regs' = DOMAIN regs
       /\ \A r \in DOMAIN regs :
             regs'[r] = IF id <= r /\ r < id + 2 THEN Id[r - id + 1] ELSE regs[r]
  <2>1. code[pc].dst \in Nat /\ code[pc].vals \in Seq(Token)
    BY <1>1, InstructionFields
  <2> QED BY <1>1, <1>8, <1>12, <2>1, Written
<1>14. id \in DOMAIN regs /\ id + 1 \in DOMAIN regs
  <2>1. Writes(code[pc]) = id..(id + 2 - 1)
    BY <1>1, <1>8, <1>12 DEF Writes
  <2> HIDE DEF id
  <2> QED BY <1>1, <1>9, <2>1
<1> HIDE DEF id, reg, n, this
<1>15. regs'[id] = Id[1] /\ regs'[id + 1] = Id[2]
  <2>1. id <= id /\ id < id + 2 /\ id <= id + 1 /\ id + 1 < id + 2 /\ id - id + 1 = 1
        /\ (id + 1) - id + 1 = 2
    BY <1>9
  <2> QED BY <1>13, <1>14, <2>1
<1>16. \A j \in 1..n : regs'[reg + j - 1] = regs[reg + j - 1]
  BY <1>9, <1>13
<1>17. [j \in 1..n |-> regs'[reg + j - 1]] = left'.result
  <2>1. [j \in 1..n |-> regs[reg + j - 1]] = left.result
    BY <1>11 DEF RegsFrom
  <2> QED BY <1>16, <2>1
<1>18. ~method.static => /\ regs'[this] = left'.this \/ this \in {id, id + 1}
                         /\ ThisStays(method) => left'.this = Arg(0)
  <2> SUFFICES ASSUME ~method.static
               PROVE  /\ this \notin {id, id + 1} => regs'[this] = left.this
                      /\ ThisStays(method) => left.this = Arg(0)
    OBVIOUS
  <2> SUFFICES ASSUME this \notin {id, id + 1}
               PROVE  regs'[this] = left.this
    BY <1>11
  <2>1. this \in DOMAIN regs /\ ~ (id <= this /\ this < id + 2)
    BY <1>9
  <2> QED BY <1>11, <1>13, <2>1
<1>19. code'[pc'].op = "invoke"
  BY <1>2, <1>3, <1>8
<1>20. Made(Opening(hooks))'
  BY <1>3, <1>11 DEF Made
<1>21. Returning(k)'
  BY <1>3, <1>15, <1>17, <1>18, <1>19, <1>20 DEF Returning, RegsFrom, id, reg, n, this
<1>22. b \in Nat
  BY <1>1, WayFacts DEF Now, Tells
<1> QED BY <1>1, <1>4, <1>5, <1>6, <1>21, <1>22, ReturnStepTo

\* What Made says of calls.
Names(q) == [i \in DOMAIN q |-> << q[i].hook, q[i].idx >>]

LEMMA CallsAppended ==
    ASSUME NEW q \in Seq(HookCall), NEW c \in HookCall
    PROVE  Names(Append(q, c)) = Names(q) \o << << c.hook, c.idx >> >>
<1> DEFINE r == Append(q, c)
           o == [i \in DOMAIN q |-> << q[i].hook, q[i].idx >>]
           S == {"enter", "modify", "exit"} \X Nat
           N == Len(q)
           x == << c.hook, c.idx >>
           z == << x >>
           y == o \o z
           pair(i) == << r[i].hook, r[i].idx >>
<1>1. N \in Nat /\ DOMAIN q = 1..N
  OBVIOUS
<1>2. /\ DOMAIN r = 1..(N + 1) /\ r[N + 1] = c
      /\ \A i \in 1..N : r[i] = q[i]
  OBVIOUS
<1>3. x \in S /\ \A i \in 1..N : << q[i].hook, q[i].idx >> \in S
  <2>1. \A d \in HookCall : << d.hook, d.idx >> \in S
    BY DEF HookCall
  <2>2. \A i \in 1..N : q[i] \in HookCall
    BY <1>1
  <2> HIDE DEF S
  <2> QED BY <2>1, <2>2
<1> HIDE DEF S, N, x, r
<1>4. z \in Seq(S) /\ Len(z) = 1 /\ z[1] = x
  BY <1>3
<1>5. o \in Seq(S) /\ Len(o) = N /\ \A i \in 1..N : o[i] = << q[i].hook, q[i].idx >>
  <2>1. o \in [1..N -> S]
    BY <1>1, <1>3
  <2>2. o \in Seq(S)
    BY <1>1, <2>1, SeqDef
  <2>3. \A i \in 1..N : o[i] = << q[i].hook, q[i].idx >>
    BY <1>1
  <2> QED BY <1>1, <2>1, <2>2, <2>3
<1> HIDE DEF z
<1>6. /\ y \in Seq(S) /\ DOMAIN y = 1..(N + 1)
      /\ \A i \in 1..N : y[i] = o[i]
      /\ y[N + 1] = x
  <2>1. /\ y \in Seq(S) /\ DOMAIN y = 1..(Len(o) + Len(z))
        /\ \A i \in 1..Len(o) : y[i] = o[i]
        /\ \A i \in (Len(o) + 1)..(Len(o) + Len(z)) : y[i] = z[i - Len(o)]
    <3>1. o \in Seq(S) /\ z \in Seq(S)
      BY <1>4, <1>5
    <3> QED BY <3>1, Concat
  <2> HIDE DEF y
  <2>2. /\ DOMAIN y = 1..(N + 1) /\ \A i \in 1..N : y[i] = o[i]
        /\ \A i \in (N + 1)..(N + 1) : y[i] = z[i - N]
    BY <1>4, <1>5, <2>1
  <2>3. N + 1 \in (N + 1)..(N + 1) /\ (N + 1) - N = 1
    BY <1>1
  <2> QED BY <1>4, <2>1, <2>2, <2>3
<1> HIDE DEF y
<1>7. \A i \in 1..(N + 1) : y[i] = pair(i)
  <2>1. \A i \in 1..(N + 1) : i = N + 1 \/ i \in 1..N
    BY <1>1
  <2>2. pair(N + 1) = x
    BY <1>2 DEF x
  <2>3. \A i \in 1..N : y[i] = pair(i)
    BY <1>2, <1>5, <1>6
  <2> HIDE DEF pair
  <2> QED BY <1>6, <2>1, <2>2, <2>3
<1> HIDE DEF pair
<1>8. y = [i \in 1..(N + 1) |-> pair(i)]
  BY <1>6, <1>7
<1>9. [i \in DOMAIN r |-> pair(i)] = y
  BY <1>2, <1>8
<1> HIDE DEF o
<1>10. Names(q) = o /\ Names(r) = [i \in DOMAIN r |-> pair(i)]
  BY DEF Names, o, pair
<1> QED BY <1>9, <1>10 DEF r, y, z, x

LEMMA ExitArgsAre ==
    ASSUME NEW m, MethodShape(m), NEW k \in DOMAIN m.rets
    PROVE  LET e == ExitArgs(m, k)
           IN  /\ 1 \in DOMAIN e /\ e[1] = IdReg(m, k)
               /\ 2 \in DOMAIN e /\ e[2] = IdReg(m, k) + 1
               /\ ~m.static => 3 \in DOMAIN e /\ e[3] = ThisIndex(m)
<1> DEFINE id == IdReg(m, k)
           this == ThisIndex(m)
           reg == m.rets[k].reg
           n == RetCount(m)
           s0 == << id, id + 1 >>
           t0 == IF m.static THEN << >> ELSE << this >>
           r0 == [i \in 1..n |-> reg + i - 1]
           q0 == s0 \o t0
           e == ExitArgs(m, k)
<1>1. id \in Nat /\ this \in Nat /\ reg \in Nat /\ n \in Nat
  <2>1. id \in Nat
    BY ExitOfPiece
  <2>2. this \in Nat /\ reg \in Nat /\ n \in 0..2
    BY RetIsNat
  <2> QED BY <2>1, <2>2
<1>2. e = q0 \o r0
  BY DEF ExitArgs
<1> HIDE DEF id, this, reg, n, e
<1>3. s0 \in Seq(Nat) /\ Len(s0) = 2 /\ s0[1] = id /\ s0[2] = id + 1
  BY <1>1
<1>4. t0 \in Seq(Nat) /\ (~m.static => Len(t0) = 1 /\ t0[1] = this) /\ Len(t0) \in Nat
  BY <1>1
<1>5. r0 \in Seq(Nat) /\ Len(r0) \in Nat
  <2>1. r0 \in [1..n -> Nat]
    BY <1>1
  <2>2. r0 \in Seq(Nat)
    BY <1>1, <2>1, SeqDef
  <2> HIDE DEF r0
  <2> QED BY <2>2
<1> HIDE DEF s0, t0, r0
<1>6. /\ q0 \in Seq(Nat) /\ Len(q0) = Len(s0) + Len(t0)
      /\ \A i \in 1..Len(s0) : q0[i] = s0[i]
      /\ \A i \in (Len(s0) + 1)..(Len(s0) + Len(t0)) : q0[i] = t0[i - Len(s0)]
  BY <1>3, <1>4, Concat, ZenonT(40)
<1> HIDE DEF q0
<1>7. /\ DOMAIN e = 1..(Len(q0) + Len(r0))
      /\ \A i \in 1..Len(q0) : e[i] = q0[i]
  <2>1. q0 \in Seq(Nat) /\ r0 \in Seq(Nat)
    BY <1>5, <1>6
  <2> QED BY <1>2, <2>1, Concat
<1>8. Len(q0) = 2 + Len(t0)
  BY <1>3, <1>6
<1>9. 1 \in 1..Len(q0) /\ 2 \in 1..Len(q0) /\ 1 \in DOMAIN e /\ 2 \in DOMAIN e
      /\ 1 \in 1..Len(s0) /\ 2 \in 1..Len(s0)
  BY <1>3, <1>4, <1>5, <1>7, <1>8
<1>10. e[1] = id /\ e[2] = id + 1
  BY <1>3, <1>6, <1>7, <1>9
<1>11. ~m.static => 3 \in DOMAIN e /\ e[3] = this
  <2> SUFFICES ASSUME ~m.static
               PROVE  3 \in DOMAIN e /\ e[3] = this
    OBVIOUS
  <2>1. Len(t0) = 1 /\ t0[1] = this
    BY <1>4
  <2>2. 3 \in DOMAIN e /\ 3 \in 1..Len(q0) /\ 3 \in (Len(s0) + 1)..(Len(s0) + Len(t0))
        /\ 3 - Len(s0) = 1
    BY <1>3, <1>5, <1>7, <1>8, <2>1
  <2>3. e[3] = q0[3] /\ q0[3] = t0[3 - Len(s0)]
    BY <1>6, <1>7, <2>2
  <2> QED BY <2>1, <2>2, <2>3
<1> QED BY <1>9, <1>10, <1>11 DEF e, id, this

LEMMA ThirdIsObject ==
    ASSUME NEW m, MethodShape(m), ~m.static
    PROVE  HookTypes(m, "exit", 0)[3] = "ref"
<1> DEFINE wide == << "wide0", "wide1" >>
           this == << "ref" >>
           slots == Slots(m.ret)
           tail == this \o slots
           all == wide \o tail
<1>1. HookTypes(m, "exit", 0) = all
  BY DEF HookTypes
<1>2. wide \in Seq(SlotType) /\ Len(wide) = 2 /\ this \in Seq(SlotType) /\ Len(this) = 1
      /\ this[1] = "ref"
  BY DEF SlotType
<1>3. slots \in Seq(SlotType) /\ Len(slots) \in Nat
  <2>1. CASE m.ret \in ParamType
    BY <2>1, SlotsOK
  <2>2. CASE m.ret = "void"
    BY <2>2 DEF Slots
  <2> QED BY <2>1, <2>2 DEF MethodShape
<1> HIDE DEF wide, this, slots
<1>4. tail \in Seq(SlotType) /\ Len(tail) = Len(this) + Len(slots)
      /\ \A i \in 1..Len(this) : tail[i] = this[i]
  BY <1>2, <1>3, Concat
<1> HIDE DEF tail
<1>5. \A i \in (Len(wide) + 1)..(Len(wide) + Len(tail)) : all[i] = tail[i - Len(wide)]
  <2>1. wide \in Seq(SlotType) /\ tail \in Seq(SlotType)
    BY <1>2, <1>4
  <2> QED BY <2>1, Concat
<1> HIDE DEF all
<1>6. 1 \in 1..Len(this) /\ 3 \in (Len(wide) + 1)..(Len(wide) + Len(tail)) /\ 3 - Len(wide) = 1
  BY <1>2, <1>3, <1>4
<1> QED BY <1>1, <1>2, <1>4, <1>5, <1>6

LEMMA ExitCall ==
    ASSUME WeavingInv, At("invoke"), NEW k, OnReturn(k), Returning(k),
           NEW c, c.vals = Passed(code[pc].args)
    PROVE  ExitSaw(c)
<1> DEFINE id == IdReg(method, k)
           this == ThisIndex(method)
           reg == method.rets[k].reg
           n == RetCount(method)
           s0 == << id, id + 1 >>
           t0 == IF method.static THEN << >> ELSE << this >>
           r0 == [j \in 1..n |-> reg + j - 1]
           t1 == IF method.static THEN << >> ELSE << left.this >>
           a == code[pc].args
<1>1. status = "running" /\ code[pc].op = "invoke" /\ Verifies(code[pc])
  BY AtFacts
<1>2. MethodShape(method) /\ k \in DOMAIN method.rets
  BY <1>1, RunningFacts DEF OnReturn
<1>3. code[pc].hook = "exit" /\ code[pc].idx = 0 /\ a = ExitArgs(method, k)
  BY <1>1, OnReturnOps
<1>4. a = (s0 \o t0) \o r0
  BY <1>3 DEF ExitArgs
<1>5. /\ RegsFrom(reg, n) = left.result
      /\ ~method.static => /\ regs[this] = left.this \/ this \in {id, id + 1}
                           /\ ThisStays(method) => left.this = Arg(0)
      /\ regs[id] = Id[1] /\ regs[id + 1] = Id[2]
  BY <1>1 DEF Returning
<1>6. /\ reg \in Nat /\ id \in Nat /\ n \in Nat /\ this \in Nat
      /\ \A j \in 1..n : reg + j - 1 \in DOMAIN regs
      /\ ~method.static => this \in DOMAIN regs
  BY <1>1, <1>2, ReturnRoom
<1>7. /\ 1 \in DOMAIN a /\ a[1] = id /\ 2 \in DOMAIN a /\ a[2] = id + 1
      /\ ~method.static => 3 \in DOMAIN a /\ a[3] = this
  BY <1>2, <1>3, ExitArgsAre
<1>8. id \in DOMAIN regs /\ id + 1 \in DOMAIN regs
  <2>1. Range(a) \subseteq DOMAIN regs
    BY <1>1 DEF Verifies, Reads
  <2>2. a[1] \in Range(a) /\ a[2] \in Range(a)
    BY <1>7 DEF Range
  <2> QED BY <1>7, <2>1, <2>2
<1>9. ~method.static => regs[this] = left.this
  <2> SUFFICES ASSUME ~method.static, this \in {id, id + 1}
               PROVE  FALSE
    BY <1>5
  <2>1. [j \in DOMAIN a |-> TypeOf(regs[a[j]])] = HookTypes(method, "exit", 0)
    BY <1>1, <1>3 DEF Verifies
  <2> DEFINE f == [j \in DOMAIN a |-> TypeOf(regs[a[j]])]
  <2>2. f[3] = TypeOf(regs[a[3]])
    BY <1>7
  <2>3. f[3] = "ref"
    BY <1>2, <2>1, ThirdIsObject
  <2> HIDE DEF f, id, this
  <2>4. TypeOf(regs[this]) = "ref"
    BY <1>7, <2>2, <2>3
  <2>5. regs[this] = Id[1] \/ regs[this] = Id[2]
    BY <1>5
  <2>6. TypeOf(Id[1]) = "wide0" /\ TypeOf(Id[2]) = "wide1"
    <3> DEFINE u == << "id", 0 >>
               v == << "id", 1 >>
               w == << "wide0", "wide1" >>
    <3>1. u[1] = "id" /\ u[2] = 0 /\ v[1] = "id" /\ v[2] = 1 /\ Id[1] = u /\ Id[2] = v
      BY DEF Id
    <3>2. w[0 + 1] = "wide0" /\ w[1 + 1] = "wide1"
      OBVIOUS
    <3> HIDE DEF u, v
    <3>3. TypeOf(u) = w[u[2] + 1] /\ TypeOf(v) = w[v[2] + 1]
      BY <3>1 DEF TypeOf
    <3> QED BY <3>1, <3>2, <3>3
  <2> QED BY <2>4, <2>5, <2>6
<1> HIDE DEF id, this, reg, n, a
<1>10. s0 \in Seq(Nat) /\ Passed(s0) = Id /\ \A j \in DOMAIN s0 : s0[j] \in DOMAIN regs
  <2>1. s0 \in Seq(Nat) /\ DOMAIN s0 = 1..2 /\ s0[1] = id /\ s0[2] = id + 1
    BY <1>6
  <2> DEFINE y == Id
  <2>2. y = [j \in 1..2 |-> y[j]]
    BY DEF Id
  <2> HIDE DEF s0, y
  <2>3. \A j \in 1..2 : j = 1 \/ j = 2
    OBVIOUS
  <2>4. regs[id] = y[1] /\ regs[id + 1] = y[2]
    BY <1>5 DEF y
  <2>5. \A j \in 1..2 : regs[s0[j]] = y[j] /\ s0[j] \in DOMAIN regs
    BY <1>8, <2>1, <2>3, <2>4
  <2>6. Passed(s0) = y
    BY <2>1, <2>2, <2>5 DEF Passed
  <2> QED BY <2>1, <2>5, <2>6 DEF y
<1>11. t0 \in Seq(Nat) /\ Passed(t0) = t1 /\ \A j \in DOMAIN t0 : t0[j] \in DOMAIN regs
  <2>1. CASE method.static
    <3>1. t0 = << >> /\ t1 = << >> /\ DOMAIN t0 = {}
      BY <2>1
    <3>2. Passed(t0) = << >>
      BY <3>1 DEF Passed
    <3> QED BY <3>1, <3>2
  <2>2. CASE ~method.static
    <3> DEFINE v == << this >>
    <3>1. t0 = v /\ t1 = << left.this >> /\ DOMAIN v = 1..1 /\ v[1] = this /\ v \in Seq(Nat)
      BY <1>6, <2>2
    <3>2. Passed(v) = << left.this >>
      BY <1>9, <2>2, <3>1 DEF Passed
    <3> HIDE DEF v, t0, t1
    <3>3. \A j \in 1..1 : v[j] \in DOMAIN regs
      BY <1>6, <2>2, <3>1
    <3> QED BY <3>1, <3>2, <3>3
  <2> QED BY <2>1, <2>2
<1>12. r0 \in Seq(Nat) /\ Passed(r0) = left.result /\ \A j \in DOMAIN r0 : r0[j] \in DOMAIN regs
  <2>1. r0 \in [1..n -> Nat]
    BY <1>6
  <2>2. r0 \in Seq(Nat)
    BY <1>6, <2>1, SeqDef
  <2>3. Passed(r0) = RegsFrom(reg, n)
    BY DEF Passed, RegsFrom
  <2> QED BY <1>5, <1>6, <2>2, <2>3
<1> HIDE DEF s0, t0, r0, t1
<1> DEFINE q0 == s0 \o t0
<1>13. /\ Passed(q0) = Id \o t1 /\ \A j \in DOMAIN q0 : q0[j] \in DOMAIN regs
  <2>1. /\ Passed(s0 \o t0) = Passed(s0) \o Passed(t0)
        /\ \A j \in DOMAIN (s0 \o t0) : (s0 \o t0)[j] \in DOMAIN regs
    BY <1>1, <1>10, <1>11, PassedConcat
  <2> QED BY <1>10, <1>11, <2>1
<1>14. q0 \in Seq(Nat)
  BY <1>10, <1>11, Concat
<1>15. a = q0 \o r0
  BY <1>4
<1> HIDE DEF q0
<1>16. Passed(q0 \o r0) = Passed(q0) \o Passed(r0)
  BY <1>1, <1>12, <1>13, <1>14, PassedConcat
<1>17. c.vals = Passed(q0 \o r0)
  BY <1>15 DEF a
<1>18. c.vals = (Id \o t1) \o left.result
  BY <1>12, <1>13, <1>16, <1>17
<1> QED BY <1>5, <1>18 DEF ExitSaw, t1

LEMMA BackCall ==
    ASSUME WeavingInv, HooksInv, Call, NEW b, Now(b), pc > b
    PROVE  Said(b)' /\ Seen'
<1> DEFINE i == code[pc]
           n == RetCount(method)
           o == Opening(hooks)
           x == << "exit", 0 >>
<1>1. /\ Straight /\ UNCHANGED << regs, array, left >> /\ At("invoke")
      /\ Len(pending') = Replaces(method, i.hook, i.idx) /\ pending' \in Seq(Token)
  BY CallFacts
<1>2. UNCHANGED build /\ pc' = pc + 1 /\ status = "running" /\ i.op = "invoke"
  BY <1>1, AtFacts DEF Straight
<1>3. b \in Nat /\ calls \in Seq(HookCall)
  BY <1>2, RunningFacts, WayFacts DEF Now, Tells
<1>4. UNCHANGED << method, hooks, registers, code >>
  BY <1>2, SameCode
<1>5. PICK c \in HookCall :
          /\ calls' = Append(calls, c)
          /\ c.hook = i.hook /\ c.idx = i.idx /\ c.out = pending'
          /\ c.vals = Passed(i.args)
  BY CallRecord
<1>6. PICK j \in DOMAIN code : ReturnAhead(code, pc, j) /\ Returning(code[j].k)
  BY DEF Now, Said
<1>7. PICK k : k = code[j].k
  OBVIOUS
<1>8. OnReturn(k)
  BY <1>2, <1>6, <1>7, Segment DEF Now
<1>9. Returning(k)
  BY <1>6, <1>7
<1>10. /\ hooks.exit /\ i.hook = "exit" /\ i.idx = 0
       /\ code[pc + 1].op = IF method.ret = "void" THEN "return" ELSE "move_result"
  BY <1>2, <1>8, OnReturnOps
<1>11. Seen'
  <2>1. ExitSaw(c)
    BY <1>1, <1>5, <1>8, <1>9, ExitCall
  <2> QED BY <1>1, <1>3, <1>4, <1>5, <1>10, <2>1, SeenAppended DEF Now
<1>12. Made(Opening(hooks))
  BY <1>2, <1>9 DEF Returning
<1>13. Made(Expected)'
  <2>1. Names(calls) = o
    BY <1>12 DEF Made, Names
  <2>2. Names(Append(calls, c)) = Names(calls) \o << << c.hook, c.idx >> >>
    BY <1>3, CallsAppended
  <2>3. Names(calls') = o \o << << c.hook, c.idx >> >>
    BY <1>5, <2>1, <2>2
  <2>4. Expected' = o \o << x >>
    BY <1>4, <1>10 DEF Expected
  <2>5. << c.hook, c.idx >> = x
    BY <1>5, <1>10
  <2> HIDE DEF x, o
  <2>6. Names(calls') = Expected'
    BY <2>3, <2>4, <2>5
  <2> QED BY <2>6 DEF Made, Names
<1>14. n = Len(pending')
  BY <1>1, <1>10 DEF Replaces
<1>15. calls'[Len(calls')].out = pending'
  BY <1>3, <1>5
<1>16. method.ret = "void" => n = 0
  BY <1>2, <1>8, ReturnRoom DEF OnReturn
<1>17. code'[pc'].op = IF method.ret = "void" THEN "return" ELSE "move_result"
  BY <1>2, <1>4, <1>10
<1>18. method.ret = "void" => RegsFrom(method.rets[k].reg, n)' = pending'
  <2> SUFFICES ASSUME method.ret = "void"
               PROVE  RegsFrom(method.rets[k].reg, n)' = pending'
    OBVIOUS
  <2>1. n = 0 /\ n' = 0
    BY <1>4, <1>16
  <2>2. pending' = << >>
    BY <1>1, <1>14, <2>1
  <2>3. RegsFrom(method.rets[k].reg, n)' = << >>
    BY <2>1 DEF RegsFrom
  <2> QED BY <2>2, <2>3
<1>19. Returning(k)'
  BY <1>4, <1>13, <1>14, <1>15, <1>17, <1>18 DEF Returning
<1> QED BY <1>2, <1>1, <1>3, <1>6, <1>7, <1>11, <1>19, ReturnStepTo

LEMMA BackResult ==
    ASSUME WeavingInv, HooksInv, MoveResultBack, NEW b, Now(b), pc > b
    PROVE  Said(b)' /\ Seen'
<1>1. /\ At("move_result") /\ Write(code[pc].dst, pending)
      /\ Straight /\ UNCHANGED << array, left, calls >>
  BY DEF MoveResultBack
<1>2. UNCHANGED build /\ pc' = pc + 1 /\ status = "running" /\ code[pc].op = "move_result"
  BY <1>1, AtFacts DEF Straight
<1>3. b \in Nat /\ pending \in Seq(Token)
  BY <1>2, RunningFacts, WayFacts DEF Now, Tells
<1>4. UNCHANGED << method, hooks, registers, code >>
  BY <1>2, SameCode
<1>5. Seen'
  BY <1>1, <1>4, SeenStays DEF Now
<1>6. PICK j \in DOMAIN code : ReturnAhead(code, pc, j) /\ Returning(code[j].k)
  BY DEF Now, Said
<1>7. PICK k : k = code[j].k
  OBVIOUS
<1> DEFINE reg == method.rets[k].reg
           n == RetCount(method)
           last == calls[Len(calls)].out
<1>8. OnReturn(k)
  BY <1>2, <1>6, <1>7, Segment DEF Now
<1>9. Returning(k)
  BY <1>6, <1>7
<1>10. hooks.exit /\ code[pc].dst = reg /\ code[pc + 1].op = "return"
       /\ k \in DOMAIN method.rets
  BY <1>2, <1>8, OnReturnOps DEF OnReturn
<1>11. Made(Expected) /\ pending = last /\ Len(last) = n
  BY <1>2, <1>9 DEF Returning
<1>12. reg \in Nat /\ n \in Nat /\ \A h \in 1..n : reg + h - 1 \in DOMAIN regs
  BY <1>2, <1>10, ReturnRoom
<1>13. \A r \in DOMAIN regs :
          regs'[r] = IF reg <= r /\ r < reg + n THEN pending[r - reg + 1] ELSE regs[r]
  BY <1>1, <1>2, <1>3, <1>10, <1>11, <1>12, Written, ZenonT(40)
<1> HIDE DEF reg, n, last
<1>14. \A h \in 1..n : regs'[reg + h - 1] = last[h]
  <2> SUFFICES ASSUME NEW h \in 1..n
               PROVE  regs'[reg + h - 1] = last[h]
    OBVIOUS
  <2>1. reg <= reg + h - 1 /\ reg + h - 1 < reg + n /\ (reg + h - 1) - reg + 1 = h
    BY <1>12
  <2> QED BY <1>11, <1>12, <1>13, <2>1
<1>15. [h \in 1..n |-> regs'[reg + h - 1]] = last
  <2>1. last \in Seq(Token) /\ DOMAIN last = 1..n
    BY <1>3, <1>11
  <2> QED BY <1>14, <2>1
<1>16. RegsFrom(reg, n)' = last'
  BY <1>1, <1>4, <1>15 DEF RegsFrom, last, reg, n
<1>17. Made(Expected)'
  BY <1>1, <1>4, <1>11 DEF Made, Expected
<1>18. code'[pc'].op = "return"
  BY <1>2, <1>4, <1>10
<1>19. Returning(k)'
  BY <1>4, <1>16, <1>17, <1>18 DEF Returning, reg, n, last
<1> QED BY <1>1, <1>2, <1>3, <1>5, <1>6, <1>7, <1>19, ReturnStepTo

\* The jump back: no listener is called in a loop.
LEMMA LoopTells ==
    ASSUME WeavingInv, HooksInv, BodyLoops, NEW b, Now(b)
    PROVE  Said(b)' /\ Seen'
<1>1. /\ At("body") /\ method.loop
      /\ pc' = CHOOSE j \in DOMAIN code : code[j] = Label
      /\ UNCHANGED << build, status, array, pending, left, calls >>
  BY DEF BodyLoops
<1>2. OnTheWay(b) /\ Skeleton(method, code, b) /\ status = "running"
  BY <1>1, AtFacts DEF Now, Tells, OnTheWay
<1>3. pc = b /\ b \in Nat /\ b \in DOMAIN code /\ DOMAIN code = 1..Len(code) /\ Len(code) \in Nat
  BY <1>1, <1>2, AtBody, RunningFacts, WayFacts
<1>4. UNCHANGED << method, hooks, registers, code >>
  BY <1>1, SameCode
<1>5. Seen'
  BY <1>1, <1>4, SeenStays DEF Now
<1>6. pc' \in DOMAIN code /\ code[pc'] = Label
  <2>1. PICK j \in DOMAIN code : code[j].op = "label"
    BY <1>1, <1>2 DEF Skeleton
  <2>2. code[j] = Label
    BY <1>2, <2>1, LabelIs, RunningFacts
  <2> QED BY <1>1, <2>2
<1>7. pc' < b
  BY <1>2, <1>6, BodyFields DEF Skeleton
<1>8. pc' \in Nat /\ ~ (pc' > b)
  BY <1>3, <1>6, <1>7
<1>9. \A j \in 1..(b - 1) : code[j].op \in {"move", "label"}
  BY <1>1, <1>2 DEF OnTheWay, Woven
<1>10. Underway(b)
  BY <1>3 DEF Now, Said
<1>11. DOMAIN Opening(hooks) = {} /\ Len(Opening(hooks)) = 0
  <2>1. Ordered(b)
    BY <1>2, CallsOrdered DEF Now
  <2>2. \A t \in 1..Len(Opening(hooks)) : FALSE
    BY <1>9, <2>1 DEF Ordered, Makes
  <2> DEFINE n == Len(Opening(hooks))
  <2>3. n \in Nat /\ DOMAIN Opening(hooks) = 1..n /\ \A t \in 1..n : FALSE
    BY <2>1, <2>2 DEF Ordered
  <2> HIDE DEF n
  <2>4. n = 0
    <3>1. n # 0 => 1 \in 1..n
      BY <2>3
    <3> QED BY <2>3, <3>1
  <2> QED BY <2>3, <2>4 DEF n
<1>12. Len(calls') <= Len(Opening(hooks)) /\ Made(SubSeq(Opening(hooks), 1, Len(calls)))'
  BY <1>1, <1>4, <1>10 DEF Underway, Made
<1>13. ScratchKept(Place(b))'
  <2>1. \A h \in {pc' - 2, pc' - 1} \cap DOMAIN code : code[h].op \in {"move", "label"}
    <3> DEFINE q == pc'
               L == Len(code)
    <3> HIDE DEF q, L
    <3>0. q \in Nat /\ q < b /\ b \in Nat /\ L \in Nat
      BY <1>3, <1>7, <1>8 DEF q, L
    <3>2. \A h \in {q - 2, q - 1} \cap (1..L) : h \in 1..(b - 1)
      BY <3>0
    <3>1. \A h \in {pc' - 2, pc' - 1} \cap DOMAIN code : h \in 1..(b - 1)
      BY <1>3, <3>2 DEF q, L
    <3> QED BY <1>9, <3>1
  <2>2. \A h \in {pc' - 2, pc' - 1} \cap DOMAIN code :
            code[h].op # "const" /\ code[h].op # "box"
    BY <2>1
  <2> QED BY <1>4, <2>2 DEF ScratchKept
<1>14. ArrayFilled(b)'
  <2>1. \A a \in 1..(pc' - 1) : a \in 1..(b - 1)
    <3> DEFINE q == pc'
    <3>1. q \in Nat /\ q < b /\ b \in Nat
      BY <1>3, <1>7, <1>8
    <3> HIDE DEF q
    <3>2. \A a \in 1..(q - 1) : a \in 1..(b - 1)
      BY <3>1
    <3> QED BY <3>2 DEF q
  <2>2. \A a \in 1..(pc' - 1) : code'[a].op # "new_array"
    BY <1>4, <1>9, <2>1
  <2> QED BY <2>2 DEF ArrayFilled
<1>15. Underway(b)'
  BY <1>4, <1>11, <1>12, <1>13, <1>14 DEF Underway, Place
<1> QED BY <1>5, <1>8, <1>15 DEF Said

\* Where the method's own code starts all of Opening has been called.
LEMMA AllCalled ==
    ASSUME WeavingInv, HooksInv, status = "running", NEW b, Now(b), pc = b
    PROVE  Made(Opening(hooks)) /\ CallsOf("exit") = {}
<1> DEFINE o == Opening(hooks)
           n == Len(o)
           L == Len(calls)
<1>1. Ordered(b) /\ Underway(b) /\ b \in Nat
  BY CallsOrdered, WayFacts DEF Now, Said, Tells
<1>2. /\ n \in Nat /\ DOMAIN o = 1..n
      /\ \A t \in 1..n : \E j \in 1..(b - 1) : Makes(hooks, code, j, t)
  BY <1>1 DEF Ordered
<1>3. /\ L \in Nat /\ DOMAIN calls = 1..L /\ L <= n
      /\ \A j \in 1..L : << calls[j].hook, calls[j].idx >> = o[j]
  BY <1>1, CallsSoFar
<1>4. \A t \in 1..n : t <= L
  <2> SUFFICES ASSUME NEW t \in 1..n
               PROVE  t <= L
    OBVIOUS
  <2>1. PICK j \in 1..(b - 1) : Makes(hooks, code, j, t)
    BY <1>2
  <2>2. t \in DOMAIN o /\ j < pc
    BY <1>1, <1>2
  <2> QED BY <1>1, <2>1, <2>2 DEF Underway
<1> HIDE DEF L, n
<1>5. L = n
  <2>1. n # 0 => n \in 1..n
    BY <1>2
  <2> QED BY <1>2, <1>3, <1>4, <2>1
<1>6. Made(o)
  <2>1. PICK S : o \in Seq(S)
    BY RunningFacts, JobShape, OpeningIs DEF OpeningAre
  <2> HIDE DEF o
  <2>2. o = [j \in 1..n |-> o[j]]
    BY <1>2, <2>1
  <2>3. [j \in DOMAIN calls |-> << calls[j].hook, calls[j].idx >>] = [j \in 1..n |-> o[j]]
    BY <1>3, <1>5
  <2> QED BY <2>2, <2>3 DEF Made
<1>7. ASSUME NEW t \in CallsOf("exit")
      PROVE  FALSE
  <2>1. t \in 1..n /\ calls[t].hook = "exit" /\ t \in 1..L
    BY <1>3, <1>5, <1>7 DEF CallsOf
  <2>2. PICK j \in 1..(b - 1) : Makes(hooks, code, j, t)
    BY <1>2, <2>1
  <2>3. code[j].hook \in {"enter", "modify"} /\ << code[j].hook, code[j].idx >> = o[t]
    BY <2>1, <2>2, WhichCall DEF n
  <2>4. << calls[t].hook, calls[t].idx >> = o[t]
    BY <1>3, <2>1
  <2> HIDE DEF o
  <2>5. calls[t].hook = code[j].hook
    BY <2>3, <2>4
  <2> QED BY <2>1, <2>3, <2>5
<1> QED BY <1>6, <1>7

\* There the object is what the invocation was made on.
LEMMA ThisAtBody ==
    ASSUME WeavingInv, HooksInv, status = "running", NEW b, Now(b), pc = b, code[pc].op = "body",
           ~method.static
    PROVE  regs[ThisIndex(method)] = Arg(0)
<1> DEFINE this == ThisIndex(method)
           ins == Ins(method)
           z == 0
<1>1. /\ MethodShape(method) /\ b \in Nat /\ b # 0
      /\ Place(b)[b] = Block(method, this) /\ this \in Nat /\ ArgumentsKept(b)
  <2>1. b <= b
    BY WayFacts DEF Now, Tells
  <2>2. MethodShape(method) /\ method.locals \in Nat
    BY RunningFacts
  <2> QED BY <2>1, <2>2, WayFacts DEF Now, Tells, ThisIndex
<1>2. z \in 0..(ins - 1)
  <2> DEFINE x == 0
             first == 0
  <2>1. Len(method.params) \in Nat
    BY <1>1, SlotStep
  <2>2. x \in Elements(method) /\ first \in Nat
    BY <2>1 DEF Elements
  <2>3. ElementSlot(method, x) = z
    BY DEF ElementSlot
  <2> HIDE DEF x, first
  <2>4. ElementSlot(method, x) \in 0..(Ins(method) - 1)
    BY <1>1, <2>2, ElementPlaces
  <2> QED BY <2>3, <2>4
<1>3. ~IsResultFor(method, code, pc, z)
  BY DEF IsResultFor
<1>4. Place(b)[b][z] = this
  <2>1. Block(method, this)[z] = this + z
    BY <1>2 DEF Block
  <2> QED BY <1>1, <2>1
<1>5. regs[this] = Current(z)
  <2>1. regs[Place(b)[b][z]] = Current(z)
    <3> HIDE DEF z, ins
    <3> QED BY <1>1, <1>2, <1>3 DEF ArgumentsKept, Place, ins
  <2> QED BY <1>4, <2>1
<1>6. ResultsFor(z) = {}
  <2> SUFFICES ASSUME NEW i \in ResultsFor(z)
               PROVE  FALSE
    OBVIOUS
  <2>1. i \in CallsOf("modify") /\ Slot(method, calls[i].idx) <= 0
    BY DEF ResultsFor
  <2>2. calls[i].idx < Len(method.params)
    BY <2>1 DEF Now, Seen, Replacements
  <2>3. calls[i].idx \in Nat
    <3>1. calls \in Seq(HookCall) /\ i \in DOMAIN calls
      BY <2>1, RunningFacts DEF CallsOf
    <3>2. calls[i] \in HookCall
      BY <3>1
    <3> QED BY <3>2 DEF HookCall
  <2> DEFINE d == calls[i].idx
             P == Len(method.params)
             first == 0
  <2>4. P \in Nat /\ Slot(method, first) = 1 /\ d \in Nat /\ d < P
    BY <1>1, <2>2, <2>3, SlotStep
  <2> HIDE DEF d, P
  <2>5. first \in 0..P /\ d \in first..P /\ d \in 0..P
    BY <2>4
  <2> HIDE DEF first
  <2>6. Slot(method, first) <= Slot(method, d) /\ Slot(method, d) \in Nat
    BY <1>1, <2>5, SlotOrder, SlotStep DEF P
  <2>7. Slot(method, d) <= 0
    BY <2>1 DEF d
  <2> QED BY <2>4, <2>6, <2>7
<1>7. Current(z) = Arg(z)
  BY <1>6 DEF Current
<1> QED BY <1>5, <1>7

\* Control comes to the code of the exit hook, if there is one, or to a return.
LEMMA SegmentStart ==
    ASSUME WeavingInv, HooksInv, status = "running", NEW b, Tells(b),
           NEW j \in DOMAIN code, NEW k, ComesTo(code, b, k, j)
    PROVE  \E i \in DOMAIN code :
              /\ ReturnAhead(code, j, i) /\ code[i].k = k
              /\ code[j].op = IF hooks.exit THEN "const" ELSE "return"
<1>1. PICK i \in j..Len(code) : code[i] = Return(k) /\ \A h \in j..(i - 1) : code[h].op # "return"
  BY DEF ComesTo
<1>2. /\ DOMAIN code = 1..Len(code) /\ Len(code) \in Nat /\ MethodShape(method)
      /\ b \in Nat /\ j \in Nat /\ i \in Nat /\ i \in DOMAIN code
  BY <1>1, RunningFacts, WayFacts DEF Tells
<1>3. code[i].op = "return" /\ code[i].k = k
  BY <1>1 DEF Return
<1>4. ReturnAhead(code, j, i)
  BY <1>1, <1>3 DEF ReturnAhead
<1>5. j > b /\ (j = b + 1 \/ code[j - 1].op = "return")
  BY DEF ComesTo
<1> DEFINE e == ExitOf(method, Hooked, k)
           N == Len(e)
           s == i - N
<1>6. /\ k \in DOMAIN method.rets /\ N \in Nat /\ j \in s..i
      /\ \A h \in 1..N : code[s + h - 1] = e[h]
  BY <1>2, <1>3, <1>4, <1>5, ExitSegment
<1>7. \A h \in 1..N : e[h].op \notin {"body", "return"}
  <2>1. Piece(method, e) /\ DOMAIN e = 1..N
    BY <1>2, <1>6, ExitOfPiece
  <2> QED BY <2>1 DEF Piece
<1> HIDE DEF N
<1>8. j = s
  <2> SUFFICES ASSUME j # s
               PROVE  FALSE
    OBVIOUS
  <2> DEFINE h == j - s
  <2>1. h \in 1..N /\ s + h - 1 = j - 1
    BY <1>2, <1>6
  <2> HIDE DEF h, e, s
  <2>2. code[j - 1] = e[h]
    BY <1>6, <2>1
  <2>3. code[j - 1].op \notin {"body", "return"}
    BY <1>7, <2>1, <2>2
  <2>4. code[b].op = "body"
    BY BodyFields DEF Tells, OnTheWay, Skeleton
  <2>5. j = b + 1 => j - 1 = b
    BY <1>2
  <2> QED BY <1>5, <2>3, <2>4, <2>5
<1>9. CASE hooks.exit
  <2>1. k <= Hooked
    <3>1. transforms = << >>
      BY DEF HooksInv
    <3>2. Hooked = Len(method.rets)
      BY <1>9, <3>1 DEF Hooked
    <3>3. k \in 1..Len(method.rets)
      BY <1>2, <1>6 DEF MethodShape
    <3> QED BY <3>2, <3>3
  <2>2. e = ExitCode(method, k, IdReg(method, k))
    BY <2>1 DEF ExitOf
  <2>3. N = (IF method.ret = "void" THEN 2 ELSE 3) /\ e[1] = Const(IdReg(method, k), Id)
    BY <2>2, ExitCodeIs DEF N
  <2> HIDE DEF e
  <2>4. 1 \in 1..N /\ s + 1 - 1 = s
    BY <1>2, <1>6, <2>3
  <2> HIDE DEF s
  <2>5. code[j] = e[1]
    BY <1>6, <1>8, <2>4
  <2>6. code[j].op = "const"
    BY <2>3, <2>5 DEF Const
  <2> QED BY <1>2, <1>3, <1>4, <1>9, <2>6
<1>10. CASE ~hooks.exit
  <2>1. Hooked = 0
    BY <1>10 DEF Hooked
  <2>2. k \in 1..Len(method.rets)
    BY <1>2, <1>6 DEF MethodShape
  <2>3. e = << >>
    BY <2>1, <2>2 DEF ExitOf
  <2>4. N = 0
    BY <2>3 DEF N
  <2>5. j = i
    BY <1>2, <1>8, <2>4
  <2> QED BY <1>2, <1>3, <1>4, <1>10, <2>5
<1> QED BY <1>9, <1>10

LEMMA ReturnTells ==
    ASSUME WeavingInv, HooksInv, BodyReturns, NEW b, Now(b)
    PROVE  Said(b)' /\ Seen'
<1>1. PICK k \in DOMAIN method.rets :
          LET reg == method.rets[k].reg
              val == IF method.rets[k].own THEN RegsFrom(reg, RetCount(method))
                     ELSE [j \in 1..RetCount(method) |-> << "result", j - 1 >>]
          IN  /\ regs' = [r \in DOMAIN regs |->
                    IF reg <= r /\ r < reg + RetCount(method) THEN val[r - reg + 1]
                    ELSE IF r = ThisIndex(method) /\ ~method.static
                         THEN LeftInThis(method.rets[k].this)
                    ELSE IF r < method.locals + Ins(method) THEN Local ELSE regs[r]]
              /\ left' = [this   |-> IF method.static THEN Undef ELSE regs'[ThisIndex(method)],
                  result |-> val]
              /\ pc' = CHOOSE j \in DOMAIN code : j > pc
                          /\ (j = pc + 1 \/ code[j - 1].op = "return")
                          /\ \E i \in j..Len(code) : code[i] = Return(k)
                                /\ \A h \in j..(i - 1) : code[h].op # "return"
  BY DEF BodyReturns
<1> DEFINE reg == method.rets[k].reg
           n == RetCount(method)
           this == ThisIndex(method)
           own == RegsFrom(reg, n)
           other == [j \in 1..n |-> << "result", j - 1 >>]
           val == IF method.rets[k].own THEN own ELSE other
<1>2. /\ At("body") /\ UNCHANGED << build, status, array, pending, looped, calls >>
      /\ regs' = [r \in DOMAIN regs |->
                    IF reg <= r /\ r < reg + n THEN val[r - reg + 1]
                    ELSE IF r = ThisIndex(method) /\ ~method.static
                         THEN LeftInThis(method.rets[k].this)
                    ELSE IF r < method.locals + Ins(method) THEN Local ELSE regs[r]]
      /\ left' = [this   |-> IF method.static THEN Undef ELSE regs'[ThisIndex(method)],
                  result |-> val]
  BY <1>1 DEF BodyReturns
<1>3. OnTheWay(b) /\ Skeleton(method, code, b) /\ status = "running" /\ code[pc].op = "body"
  BY <1>2, AtFacts DEF Now, Tells, OnTheWay
<1>4. pc = b /\ b \in Nat /\ b \in DOMAIN code /\ DOMAIN code = 1..Len(code) /\ Len(code) \in Nat
  BY <1>2, <1>3, AtBody, RunningFacts, WayFacts
<1>5. UNCHANGED << method, hooks, transforms, registers, code >>
  BY <1>2, SameCode
<1>6. Made(Opening(hooks)) /\ CallsOf("exit") = {}
  BY <1>3, <1>4, AllCalled
<1>7. Seen'
  BY <1>2, <1>5, <1>6, SeenStays DEF Now
<1>8. pc' \in DOMAIN code /\ ComesTo(code, b, k, pc')
  <2>1. PICK i \in DOMAIN code : code[i] = Return(k)
    BY <1>3 DEF Skeleton
  <2>2. i > b
    <3>1. code[i].op = "return"
      BY <2>1, BodyFields
    <3> QED BY <1>3, <3>1 DEF Skeleton
  <2>3. b < i
    BY <1>4, <2>1, <2>2
  <2>4. \E j \in DOMAIN code : ComesTo(code, b, k, j)
    BY <1>4, <2>1, <2>3, WayToReturn
  <2>5. pc' = CHOOSE j \in DOMAIN code : ComesTo(code, b, k, j)
    BY <1>1, <1>4 DEF ComesTo
  <2> QED BY <2>4, <2>5
<1>9. PICK j \in DOMAIN code : j = pc'
  BY <1>8
<1>10. PICK i \in DOMAIN code :
          /\ ReturnAhead(code, j, i) /\ code[i].k = k
          /\ code[j].op = IF hooks.exit THEN "const" ELSE "return"
  BY <1>3, <1>8, <1>9, SegmentStart DEF Now
<1>11. /\ reg \in Nat /\ n \in Nat /\ this \in Nat
       /\ \A h \in 1..n : reg + h - 1 \in DOMAIN regs
       /\ ~method.static => this \in DOMAIN regs
  BY <1>3, ReturnRoom
<1>12. this = method.locals
  BY DEF ThisIndex
<1>13. val = [h \in 1..n |-> val[h]]
  BY DEF RegsFrom
<1>14. \A h \in 1..n : regs'[reg + h - 1] = val[h]
  <2> HIDE DEF reg, n, val
  <2> SUFFICES ASSUME NEW h \in 1..n
               PROVE  regs'[reg + h - 1] = val[h]
    OBVIOUS
  <2>1. reg <= reg + h - 1 /\ reg + h - 1 < reg + n /\ (reg + h - 1) - reg + 1 = h
    BY <1>11
  <2> QED BY <1>2, <1>11, <2>1
<1>15. RegsFrom(reg, n)' = left'.result
  <2> HIDE DEF val
  <2>1. [h \in 1..n |-> regs'[reg + h - 1]] = val
    BY <1>13, <1>14
  <2> QED BY <1>2, <1>5, <2>1 DEF RegsFrom
<1>16. ~method.static => /\ regs'[this] = left'.this
                         /\ ThisStays(method) => left'.this = Arg(0)
  <2> SUFFICES ASSUME ~method.static
               PROVE  /\ regs'[this] = left'.this
                      /\ ThisStays(method) => regs'[this] = Arg(0)
    BY <1>2
  <2>0. regs'[this] = left'.this
    BY <1>2
  <2> SUFFICES ASSUME ThisStays(method)
               PROVE  regs'[this] = Arg(0)
    BY <2>0
  <2>1. regs[this] = Arg(0)
    BY <1>3, <1>4, ThisAtBody
  <2>2. CASE reg <= this /\ this < reg + n
    <3> DEFINE h == this - reg + 1
    <3>1. h \in 1..n /\ reg + h - 1 = this /\ this \in reg..(reg + n - 1)
      <4> HIDE DEF reg, n, this
      <4> QED BY <1>11, <2>2
    <3>2. method.rets[k].own
      BY <3>1 DEF ThisStays
    <3>3. val = own
      BY <3>2
    <3>4. own[h] = regs[this]
      <4> HIDE DEF h, reg, n, this
      <4> QED BY <3>1 DEF RegsFrom
    <3> HIDE DEF own, val, h, reg, n, this
    <3>5. regs'[reg + h - 1] = val[h]
      BY <1>14, <3>1
    <3> QED BY <2>1, <3>1, <3>3, <3>4, <3>5
  <2>3. CASE ~ (reg <= this /\ this < reg + n)
    <3>1. this \notin reg..(reg + n - 1)
      <4> HIDE DEF reg, n, this
      <4> QED BY <1>11, <2>3
    <3>2. method.rets[k].this = "kept"
      BY <3>1 DEF ThisStays
    <3>3. LeftInThis(method.rets[k].this) = regs[this]
      BY <3>2 DEF LeftInThis
    <3>4. this \in DOMAIN regs
      BY <1>11
    <3>5. regs'[this] = LeftInThis(method.rets[k].this)
      BY <1>2, <2>3, <3>4
    <3> QED BY <2>1, <3>3, <3>5
  <2> QED BY <2>2, <2>3
<1>17. Made(Opening(hooks))'
  BY <1>2, <1>5, <1>6 DEF Made
<1>18. ~hooks.exit => Made(Expected)'
  <2> SUFFICES ASSUME ~hooks.exit
               PROVE  Made(Expected)'
    OBVIOUS
  <2>1. PICK S : Opening(hooks) \in Seq(S)
    BY <1>3, RunningFacts, JobShape, OpeningIs DEF OpeningAre
  <2>2. Opening(hooks) \o << >> = Opening(hooks)
    BY <2>1
  <2>3. Expected' = Opening(hooks)'
    BY <1>5, <2>2 DEF Expected
  <2> QED BY <1>17, <2>3 DEF Made
<1>19. code'[pc'].op = IF hooks.exit THEN "const" ELSE "return"
  BY <1>5, <1>9, <1>10
<1> HIDE DEF val
<1>20. Returning(k)'
  BY <1>5, <1>15, <1>16, <1>17, <1>18, <1>19 DEF Returning, reg, n, this
<1>21. Returning(code[i].k)'
  <2>1. code'[i].k = k
    BY <1>5, <1>10
  <2> QED BY <1>20, <2>1 DEF Returning
<1>22. ReturnAhead(code, pc, i)'
  BY <1>5, <1>9, <1>10 DEF ReturnAhead
<1>23. ~ (pc' <= b)
  BY <1>4, <1>8 DEF ComesTo
<1> QED BY <1>5, <1>7, <1>21, <1>22, <1>23 DEF Said

\* Behind the method's own code only the exit hook's instructions are executed.
LEMMA Behind ==
    ASSUME WeavingInv, HooksInv, status = "running", NEW b, Now(b), pc > b
    PROVE  code[pc].op \in {"const", "invoke", "move_result", "return"}
<1>1. Tells(b) /\ Said(b)
  BY DEF Now
<1>2. PICK i \in DOMAIN code : ReturnAhead(code, pc, i) /\ Returning(code[i].k)
  BY <1>1 DEF Said
<1>3. OnReturn(code[i].k)
  BY <1>1, <1>2, Segment
<1>4. PICK k : k = code[i].k
  OBVIOUS
<1> QED BY <1>3, <1>4, OnReturnOps

\* An instruction other than `body' is before it or behind it.
LEMMA NotAtBody ==
    ASSUME WeavingInv, status = "running", NEW b, Now(b), code[pc].op # "body"
    PROVE  /\ pc < b \/ pc > b
           /\ pc < b => ~ (pc > b)
<1>1. OnTheWay(b)
  BY DEF Now, Tells
<1>2. b \in Nat /\ pc \in Nat
  BY <1>1, RunningFacts, WayFacts
<1>3. code[b] = Body
  BY <1>1 DEF OnTheWay, Skeleton
<1>4. pc # b
  BY <1>3, BodyFields
<1> QED BY <1>2, <1>4

\* What calls no listener leaves none called.
LEMMA NoneCalled ==
    ASSUME WeavingInv, HooksInv, status = "running", UNCHANGED calls
    PROVE  ~IndexesExist => calls' = << >>
BY NoCallsYet

LEMMA ComputeTells ==
    ASSUME WeavingInv, HooksInv, Compute
    PROVE  HooksInv'
<1>1. /\ Straight /\ UNCHANGED << array, pending, left, calls >>
      /\ \/ At("const") /\ Write(code[pc].dst, code[pc].vals)
         \/ At("move") /\ Write(code[pc].dst, RegsFrom(code[pc].src, code[pc].n))
         \/ At("box") /\ Write(code[pc].dst, << Box(regs[code[pc].src][2]) >>)
         \/ At("label") /\ UNCHANGED regs
  BY DEF Compute
<1>2. status = "running" /\ code[pc].op \in {"const", "move", "box", "label"}
  BY <1>1, AtFacts
<1>3. status' = "running" /\ UNCHANGED build
  BY <1>1, <1>2 DEF Straight
<1>4. ~IndexesExist => calls' = << >>
  BY <1>1, <1>2, NoneCalled
<1>5. ASSUME NEW b \in DOMAIN code, Now(b)
      PROVE  Said(b)' /\ Seen'
  <2>1. pc < b \/ pc > b
    BY <1>2, <1>5, NotAtBody
  <2>2. CASE pc < b
    BY <1>1, <1>5, <2>2, WayConst, WayMove, WayBox, WayLabel
  <2>3. CASE pc > b
    <3>1. code[pc].op \in {"const", "invoke", "move_result", "return"}
      BY <1>2, <1>5, <2>3, Behind
    <3>2. At("const") /\ Write(code[pc].dst, code[pc].vals)
      BY <1>1, <3>1, AtFacts
    <3> QED BY <1>1, <1>5, <2>3, <3>2, BackConst
  <2> QED BY <2>1, <2>2, <2>3
<1> QED BY <1>2, <1>3, <1>4, <1>5, TellsOn

LEMMA AllocateTells ==
    ASSUME WeavingInv, HooksInv, Allocate
    PROVE  HooksInv'
<1>1. Straight /\ UNCHANGED << pending, left, calls >> /\ At("new_array")
  BY DEF Allocate
<1>2. status = "running" /\ code[pc].op = "new_array"
  BY <1>1, AtFacts
<1>3. status' = "running" /\ UNCHANGED build
  BY <1>1, <1>2 DEF Straight
<1>4. ~IndexesExist => calls' = << >>
  BY <1>1, <1>2, NoneCalled
<1>5. ASSUME NEW b \in DOMAIN code, Now(b)
      PROVE  Said(b)' /\ Seen'
  <2>1. pc < b \/ pc > b
    BY <1>2, <1>5, NotAtBody
  <2>2. ~ (pc > b)
    BY <1>2, <1>5, Behind
  <2> QED BY <1>5, <2>1, <2>2, WayArray
<1> QED BY <1>2, <1>3, <1>4, <1>5, TellsOn

LEMMA StoreTells ==
    ASSUME WeavingInv, HooksInv, Store
    PROVE  HooksInv'
<1>1. Straight /\ UNCHANGED << regs, pending, left, calls >> /\ At("aput")
  BY DEF Store
<1>2. status = "running" /\ code[pc].op = "aput"
  BY <1>1, AtFacts
<1>3. status' = "running" /\ UNCHANGED build
  BY <1>1, <1>2 DEF Straight
<1>4. ~IndexesExist => calls' = << >>
  BY <1>1, <1>2, NoneCalled
<1>5. ASSUME NEW b \in DOMAIN code, Now(b)
      PROVE  Said(b)' /\ Seen'
  <2>1. pc < b \/ pc > b
    BY <1>2, <1>5, NotAtBody
  <2>2. ~ (pc > b)
    BY <1>2, <1>5, Behind
  <2> QED BY <1>5, <2>1, <2>2, WayStore
<1> QED BY <1>2, <1>3, <1>4, <1>5, TellsOn

LEMMA CallTells ==
    ASSUME WeavingInv, HooksInv, Call
    PROVE  HooksInv'
<1>1. Straight /\ At("invoke")
  BY DEF Call
<1>2. status = "running" /\ code[pc].op = "invoke" /\ pc \in DOMAIN code
  BY <1>1, AtFacts, RunningFacts
<1>3. status' = "running" /\ UNCHANGED build
  BY <1>1, <1>2 DEF Straight
<1>4. IndexesExist
  BY <1>2, NoCallsYet
<1>5. ASSUME NEW b \in DOMAIN code, Now(b)
      PROVE  Said(b)' /\ Seen'
  <2>1. pc < b \/ pc > b
    BY <1>2, <1>5, NotAtBody
  <2> QED BY <1>5, <2>1, WayCall, BackCall
<1> QED BY <1>2, <1>3, <1>4, <1>5, TellsOn

LEMMA ResultTells ==
    ASSUME WeavingInv, HooksInv, MoveResultBack
    PROVE  HooksInv'
<1>1. Straight /\ UNCHANGED << array, left, calls >> /\ At("move_result")
  BY DEF MoveResultBack
<1>2. status = "running" /\ code[pc].op = "move_result"
  BY <1>1, AtFacts
<1>3. status' = "running" /\ UNCHANGED build
  BY <1>1, <1>2 DEF Straight
<1>4. ~IndexesExist => calls' = << >>
  BY <1>1, <1>2, NoneCalled
<1>5. ASSUME NEW b \in DOMAIN code, Now(b)
      PROVE  Said(b)' /\ Seen'
  <2>1. pc < b \/ pc > b
    BY <1>2, <1>5, NotAtBody
  <2> QED BY <1>5, <2>1, WayResult, BackResult
<1> QED BY <1>2, <1>3, <1>4, <1>5, TellsOn

LEMMA BodyTells ==
    ASSUME WeavingInv, HooksInv, BodyLoops \/ BodyReturns
    PROVE  HooksInv'
<1>1. At("body") /\ UNCHANGED << build, status, calls >>
  BY DEF BodyLoops, BodyReturns
<1>2. status = "running"
  BY <1>1, AtFacts
<1>3. status' = "running" /\ UNCHANGED build
  BY <1>1, <1>2
<1>4. ~IndexesExist => calls' = << >>
  BY <1>1, <1>2, NoneCalled
<1>5. \A b \in DOMAIN code : Now(b) => Said(b)' /\ Seen'
  BY LoopTells, ReturnTells
<1> QED BY <1>2, <1>3, <1>4, <1>5, TellsOn

----------------------------------------------------------------------------
(* The steps before the invocation, and its end.                           *)

\* Of an invocation that goes no further nothing that is said changes.
LEMMA SaidStays ==
    ASSUME UNCHANGED << method, hooks, transforms, registers, code, regs, pc, array,
                        pending, left, looped, calls >>
    PROVE  /\ IndexesExist' = IndexesExist /\ Regular' = Regular
           /\ Applied' = Applied /\ Hooked' = Hooked
           /\ \A b : Underway(b)' = Underway(b)
           /\ \A k : Returning(k)' = Returning(k)
           /\ Seen' = Seen
<1>1. IndexesExist' = IndexesExist /\ Applied' = Applied /\ Hooked' = Hooked
  BY DEF IndexesExist, Applied, Hooked
<1>2. Regular' = Regular
  BY <1>1 DEF Regular
<1>3. \A hs : Made(hs)' = Made(hs)
  BY DEF Made
<1>4. \A b : Underway(b)' = Underway(b)
  <2>1. \A p : ScratchKept(p)' = ScratchKept(p)
    BY DEF ScratchKept
  <2>2. \A b : ArrayFilled(b)' = ArrayFilled(b)
    BY DEF ArrayFilled
  <2>3. Made(SubSeq(Opening(hooks), 1, Len(calls)))' = Made(SubSeq(Opening(hooks), 1, Len(calls)))
    BY DEF Made
  <2>4. \A b : ScratchKept(Places(method, code, registers, b))'
                   = ScratchKept(Places(method, code, registers, b))
    BY DEF ScratchKept
  <2> QED BY <2>2, <2>3, <2>4 DEF Underway
<1>5. \A k : Returning(k)' = Returning(k)
  BY DEF Returning, Made, Expected, RegsFrom
<1>6. Seen' = Seen
  <2>1. \A hook : CallsOf(hook)' = CallsOf(hook)
    BY DEF CallsOf
  <2>2. /\ Replacements' = Replacements /\ EntrySeesOriginals' = EntrySeesOriginals
        /\ ModifierSeesItsParameter' = ModifierSeesItsParameter
        /\ ExitSeesResult' = ExitSeesResult
    BY <2>1 DEF Replacements, EntrySeesOriginals, ModifierSeesItsParameter, ExitSeesResult
  <2> QED BY <2>2 DEF Seen
<1> QED BY <1>1, <1>2, <1>4, <1>5, <1>6

LEMMA StutterTells ==
    ASSUME HooksInv, UNCHANGED vars
    PROVE  HooksInv'
<1>1. UNCHANGED << method, hooks, transforms, registers, code, status, regs, pc, array,
                   pending, left, looped, calls >>
  BY DEF vars, build
<1>2. /\ IndexesExist' = IndexesExist /\ Regular' = Regular
      /\ Applied' = Applied /\ Hooked' = Hooked
      /\ \A b : Underway(b)' = Underway(b)
      /\ \A k : Returning(k)' = Returning(k)
      /\ Seen' = Seen
  BY <1>1, SaidStays
<1>3. NothingTold' = NothingTold
  BY <1>1 DEF NothingTold
<1>4. ASSUME CallsTold
      PROVE  CallsTold'
  <2>1. PICK b \in DOMAIN code :
            /\ Skeleton(method, code, b)
            /\ CallsWoven(method, hooks, code, registers, b, Applied)
            /\ Endings(method, code, b, Hooked)
            /\ status = "running" /\ pc <= b => Underway(b)
            /\ status = "returned" => pc \in DOMAIN code /\ pc > b /\ code[pc].op = "return"
            /\ status \in {"running", "returned"} /\ pc > b =>
                  \E i \in DOMAIN code : ReturnAhead(code, pc, i) /\ Returning(code[i].k)
    BY <1>4 DEF CallsTold
  <2>2. \A i : Returning(code[i].k)' = Returning(code[i].k)
    BY <1>1 DEF Returning, Made, Expected, RegsFrom
  <2> QED BY <1>1, <1>2, <2>1, <2>2 DEF CallsTold
<1> QED BY <1>1, <1>2, <1>3, <1>4 DEF HooksInv, Seen

\* The invocation is rejected, or returns.
LEMMA StopsTell ==
    ASSUME WeavingInv, HooksInv, Reject \/ Leave
    PROVE  HooksInv'
<1>1. /\ UNCHANGED << method, hooks, transforms, registers, code, regs, pc, array, pending,
                      left, looped, calls >>
      /\ status = "running" /\ status' \in {"returned", "rejected"}
      /\ status' = "returned" => code[pc].op = "return"
  BY AtFacts DEF Reject, Leave, build
<1>2. /\ IndexesExist' = IndexesExist /\ Regular' = Regular
      /\ Applied' = Applied /\ Hooked' = Hooked
      /\ Seen' = Seen
  BY <1>1, SaidStays
<1>3. transforms' = << >>
  BY <1>1 DEF HooksInv
<1>4. ASSUME ~IndexesExist
      PROVE  NothingTold'
  BY <1>1, <1>4 DEF HooksInv, NothingTold
<1>5. ASSUME Regular
      PROVE  CallsTold' /\ Seen'
  <2>1. PICK b \in DOMAIN code : Now(b)
    BY <1>1, <1>5, ToldNow
  <2>2. /\ Skeleton(method, code, b) /\ CallsWoven(method, hooks, code, registers, b, Applied)
        /\ Endings(method, code, b, Hooked) /\ Seen
        /\ pc > b => \E i \in DOMAIN code : ReturnAhead(code, pc, i) /\ Returning(code[i].k)
    BY <2>1 DEF Now, Tells, OnTheWay, Said
  <2>3. pc \in DOMAIN code
    BY <1>1, RunningFacts
  <2>4. status' = "returned" => pc > b
    BY <1>1, <2>2, <2>3 DEF Skeleton
  <2>5. \A i : Returning(code[i].k)' = Returning(code[i].k)
    BY <1>1 DEF Returning, Made, Expected, RegsFrom
  <2>6. CallsTold'
    BY <1>1, <1>2, <2>2, <2>3, <2>4, <2>5 DEF CallsTold
  <2> QED BY <1>2, <2>2, <2>6
<1> QED BY <1>1, <1>2, <1>3, <1>4, <1>5 DEF HooksInv, Seen

\* The invocation starts with nothing behind it.
LEMMA EnterTells ==
    ASSUME WeavingInv, HooksInv, Enter
    PROVE  HooksInv'
<1>1. UNCHANGED << method, hooks, transforms, registers, code, build, pc, array, pending, left,
                   looped, calls >>
      /\ status = "ready" /\ status' = "running"
  BY DEF Enter, build
<1>2. TypeOK /\ pc = 1 /\ calls = << >> /\ HooksShape(hooks)
  BY <1>1, JobShape DEF WeavingInv, NotEntered
<1>3. /\ IndexesExist' = IndexesExist /\ Regular' = Regular
      /\ Applied' = Applied /\ Hooked' = Hooked
  BY <1>1, SameCode
<1>4. transforms' = << >>
  BY <1>1 DEF HooksInv
<1>5. ASSUME ~IndexesExist
      PROVE  NothingTold'
  BY <1>1, <1>5 DEF HooksInv, NothingTold
<1>6. ASSUME Regular
      PROVE  CallsTold' /\ Seen'
  <2>1. Seen
    BY <1>6 DEF HooksInv, Seen
  <2>2. Seen'
    BY <1>1, <2>1, SeenStays
  <2>3. PICK b \in DOMAIN code :
            /\ Skeleton(method, code, b)
            /\ CallsWoven(method, hooks, code, registers, b, Applied)
            /\ Endings(method, code, b, Hooked)
    BY <1>6 DEF HooksInv, CallsTold
  <2>4. DOMAIN code = 1..Len(code) /\ Len(code) \in Nat /\ b \in Nat /\ b # 0
    <3>1. code \in Seq(Instruction)
      BY <1>2 DEF TypeOK
    <3> QED BY <3>1
  <2>5. ~ (pc' > b)
    BY <1>1, <1>2, <2>4
  <2>6. Underway(b)'
    <3>1. OpeningAre(hooks)
      BY <1>2, OpeningIs
    <3>2. PICK S : Opening(hooks) \in Seq(S)
      BY <3>1 DEF OpeningAre
    <3>3. Len(calls) = 0 /\ Len(calls) <= Len(Opening(hooks))
      BY <1>2, <3>2
    <3>4. SubSeq(Opening(hooks), 1, 0) = << >>
      BY <3>2
    <3>5. Made(SubSeq(Opening(hooks), 1, Len(calls)))'
      BY <1>1, <1>2, <3>3, <3>4 DEF Made
    <3>6. DOMAIN Opening(hooks) = 1..Len(Opening(hooks)) /\ Len(Opening(hooks)) \in Nat
      BY <3>2
    <3>7. \A j \in 1..(b - 1), t \in DOMAIN Opening(hooks) : j < pc <=> t <= Len(calls)
      BY <1>2, <2>4, <3>3, <3>6
    <3>8. ScratchKept(Places(method, code, registers, b))'
      <4>1. {pc' - 2, pc' - 1} \cap DOMAIN code' = {}
        BY <1>1, <1>2, <2>4
      <4> QED BY <4>1 DEF ScratchKept
    <3>9. ArrayFilled(b)'
      <4>1. 1..(pc' - 1) = {}
        BY <1>1, <1>2
      <4> QED BY <4>1 DEF ArrayFilled
    <3> QED BY <1>1, <3>3, <3>5, <3>7, <3>8, <3>9 DEF Underway
  <2>7. CallsTold'
    BY <1>1, <1>3, <2>3, <2>5, <2>6 DEF CallsTold
  <2> QED BY <2>2, <2>7
<1> QED BY <1>1, <1>3, <1>4, <1>5, <1>6 DEF HooksInv, Seen

LEMMA AssembleTells ==
    ASSUME WeavingInv, HooksInv, Assemble
    PROVE  HooksInv'
<1>1. UNCHANGED << method, hooks, transforms, registers, code, build, regs, pc, array, pending,
                   left, looped, calls >>
      /\ status = "transform" /\ transforms = << >>
      /\ status' \in {"aborted", "rejected", "ready"}
  BY DEF Assemble, build
<1>2. /\ IndexesExist' = IndexesExist /\ Regular' = Regular
      /\ Applied' = Applied /\ Hooked' = Hooked /\ Seen' = Seen
  BY <1>1, SaidStays
<1>3. IndexesExist
  BY <1>1 DEF HooksInv, NothingTold
<1>4. ASSUME Regular
      PROVE  CallsTold' /\ Seen'
  <2>1. Seen /\ CallsTold
    BY <1>4 DEF HooksInv, Seen
  <2>2. CallsTold'
    BY <1>1, <1>2, <2>1 DEF CallsTold
  <2> QED BY <1>2, <2>1, <2>2
<1> QED BY <1>1, <1>2, <1>3, <1>4 DEF HooksInv, Seen

LEMMA BailOutTells ==
    ASSUME WeavingInv, HooksInv, BailOut
    PROVE  HooksInv'
<1>1. UNCHANGED << method, hooks, transforms, registers, pc, calls >>
      /\ status = "failed" /\ status' = "ready" /\ code' = Compiled(method)
  BY DEF BailOut
<1>2. IndexesExist' = IndexesExist
  BY <1>1 DEF IndexesExist
<1>3. Regular' = Regular
  BY <1>1, <1>2 DEF Regular
<1>4. ~Regular
  BY <1>1 DEF WeavingInv, ArgumentsArrive
<1>5. calls = << >> /\ transforms = << >>
  BY <1>1 DEF WeavingInv, NotEntered, HooksInv
<1>6. NothingTold'
  BY <1>1, <1>5 DEF NothingTold
<1> QED BY <1>1, <1>3, <1>4, <1>5, <1>6 DEF HooksInv

\* A transform for a parameter that does not exist is still there afterwards,
\* unless it was this one.
LEMMA BadTransformStays ==
    ASSUME WeavingInv, ApplyTransform, status' = status, transforms' = Tail(transforms),
           NEW i \in DOMAIN transforms, transforms[i][1] = "param",
           transforms[i][2] >= Len(method.params)
    PROVE  \E j \in DOMAIN transforms' : /\ transforms'[j][1] = "param"
                                         /\ transforms'[j][2] >= Len(method.params)
<1>1. status = "transform" /\ transforms # << >> /\ transforms \in Seq(Transform)
  BY DEF ApplyTransform, WeavingInv, TypeOK
<1>2. DOMAIN transforms = 1..Len(transforms) /\ Len(transforms) \in Nat
      /\ Head(transforms) = transforms[1]
  BY <1>1
<1>3. i # 1
  <2> SUFFICES ASSUME i = 1
               PROVE  FALSE
    OBVIOUS
  <2> DEFINE tr == Head(transforms)
  <2>1. tr[1] = "param" /\ tr[2] >= Len(method.params)
    BY <1>2
  <2>2. ApplyModifyParameter(tr[2], tr[3])
    <3>1. CASE tr[1] = "param"
      BY <3>1 DEF ApplyTransform
    <3> QED BY <2>1, <3>1
  <2>3. status' = "failed"
    <3> DEFINE idx == tr[2]
               first == tr[3]
    <3>1. ApplyModifyParameter(idx, first) /\ idx >= Len(method.params)
      BY <2>1, <2>2
    <3> HIDE DEF idx, first
    <3> QED BY <3>1 DEF ApplyModifyParameter
  <2> QED BY <1>1, <2>3
<1>4. i - 1 \in DOMAIN Tail(transforms) /\ Tail(transforms)[i - 1] = transforms[i]
  BY <1>1, <1>2, <1>3
<1> QED BY <1>4

LEMMA TransformsTell ==
    ASSUME WeavingInv, HooksInv, ApplyTransform
    PROVE  HooksInv'
<1>1. UNCHANGED << method, hooks, regs, pc, array, pending, left, looped, calls >>
      /\ status = "transform"
  BY DEF ApplyTransform
<1>2. calls = << >> /\ TypeOK
  BY <1>1 DEF WeavingInv, NotEntered
<1>3. IndexesExist' = IndexesExist
  BY <1>1 DEF IndexesExist
<1>4. Regular' = Regular
  BY <1>1, <1>3 DEF Regular
<1>5. Seen => Seen'
  BY <1>1, SeenStays
<1>6. \/ status' = "failed" /\ transforms' = << >> /\ ~Regular
      \/ status' = status /\ transforms' = Tail(transforms)
  BY TransformFits
<1>7. CASE status' = "failed" /\ transforms' = << >> /\ ~Regular
  <2>1. NothingTold'
    BY <1>1, <1>2, <1>7 DEF NothingTold
  <2> QED BY <1>4, <1>7, <2>1 DEF HooksInv
<1>8. CASE status' = status /\ transforms' = Tail(transforms)
  <2>1. ASSUME ~IndexesExist
        PROVE  NothingTold'
    <3>1. PICK i \in DOMAIN transforms : /\ transforms[i][1] = "param"
                                         /\ transforms[i][2] >= Len(method.params)
      BY <1>1, <2>1 DEF HooksInv, NothingTold
    <3>2. \E j \in DOMAIN transforms' : /\ transforms'[j][1] = "param"
                                        /\ transforms'[j][2] >= Len(method.params)
      BY <1>8, <3>1, BadTransformStays
    <3> QED BY <1>1, <1>2, <1>8, <3>2 DEF NothingTold
  <2>2. ASSUME Regular
        PROVE  CallsTold' /\ Seen'
    <3>1. Seen /\ CallsTold
      BY <2>2 DEF HooksInv, Seen
    <3>2. Weaves(method, hooks, registers, code, Applied, Hooked)
      BY <1>2, <3>1 DEF CallsTold, Weaves, TypeOK
    <3>3. Weaves(method, hooks, registers', code', Applied', Hooked')
      BY <2>2, <3>2, TransformTells
    <3>4. PICK b \in DOMAIN code' :
              /\ Skeleton(method, code', b)
              /\ CallsWoven(method, hooks, code', registers', b, Applied')
              /\ Endings(method, code', b, Hooked')
      BY <3>3 DEF Weaves
    <3>5. CallsTold'
      BY <1>1, <1>8, <3>4 DEF CallsTold
    <3> QED BY <1>5, <3>1, <3>5
  <2> QED BY <1>1, <1>3, <1>4, <1>8, <2>1, <2>2 DEF HooksInv, Seen
<1> QED BY <1>6, <1>7, <1>8

LEMMA HooksInit == Init => HooksInv
<1> SUFFICES ASSUME Init
             PROVE  HooksInv
  OBVIOUS
<1>1. WeavingInv
  BY WeavingInit
<1>2. /\ transforms = Transforms(hooks) /\ code = Compiled(method)
      /\ status = "transform" /\ calls = << >>
  BY DEF Init
<1>3. MethodShape(method) /\ HooksShape(hooks) /\ Distinct(hooks)
  BY <1>1, JobShape, HooksAscend DEF WeavingInv
<1>4. TransformsAre(hooks) /\ transforms \in Seq(Transform)
  BY <1>1, <1>3, TransformsAreThese DEF WeavingInv, TypeOK
<1>5. DOMAIN transforms = 1..Len(transforms) /\ Len(transforms) \in Nat
  BY <1>4
<1>6. /\ hooks.params \in Seq(Nat) /\ Len(hooks.params) \in Nat
      /\ DOMAIN hooks.params = 1..Len(hooks.params)
      /\ Len(method.params) \in Nat /\ Entries(hooks) \in {0, 1}
      /\ \A i \in DOMAIN hooks.params : hooks.params[i] \in Nat
  <2>1. Len(method.params) \in Nat
    BY <1>3 DEF MethodShape
  <2> QED BY <1>3, <2>1 DEF HooksShape, Entries
<1>7. Len(transforms) = Len(hooks.params) + Entries(hooks) + IF hooks.exit THEN 1 ELSE 0
  BY <1>2, <1>4 DEF TransformsAre
<1>8. ASSUME ~IndexesExist
      PROVE  NothingTold
  <2>1. PICK i \in DOMAIN hooks.params : ~ (hooks.params[i] < Len(method.params))
    BY <1>8 DEF IndexesExist
  <2>2. hooks.params[i] >= Len(method.params) /\ i \in 1..Len(transforms)
        /\ i <= Len(hooks.params) /\ i \in Nat
    BY <1>5, <1>6, <1>7, <2>1
  <2>3. transforms[i] = << "param", hooks.params[i], i = 1 >>
    <3>1. \/ i <= Len(hooks.params) /\ transforms[i] = << "param", hooks.params[i], i = 1 >>
          \/ i = Len(hooks.params) + 1
          \/ i = Len(hooks.params) + Entries(hooks) + 1
      BY <1>2, <1>4, <2>2 DEF TransformsAre
    <3> QED BY <1>6, <2>2, <3>1
  <2>4. transforms[i][1] = "param" /\ transforms[i][2] = hooks.params[i]
    BY <2>3
  <2> QED BY <1>2, <1>5, <2>2, <2>4 DEF NothingTold
<1>9. CallsTold
  <2>1. Applied = 0
    <3>1. Applied = Len(transforms) - Len(transforms)
      BY <1>2 DEF Applied
    <3> QED BY <1>5, <3>1
  <2>2. Hooked = 0
    <3>1. hooks.exit => transforms # << >>
      <4>1. hooks.exit => Len(transforms) # 0
        BY <1>6, <1>7
      <4> QED BY <4>1
    <3> QED BY <3>1 DEF Hooked
  <2>3. Weaves(method, hooks, registers, Compiled(method), 0, Hooked)
    BY <1>3, <2>2, CompiledWeaves
  <2>4. PICK b \in DOMAIN code :
            /\ Skeleton(method, code, b)
            /\ CallsWoven(method, hooks, code, registers, b, 0)
            /\ Endings(method, code, b, Hooked)
    BY <1>2, <2>3 DEF Weaves
  <2> QED BY <1>2, <2>1, <2>4 DEF CallsTold
<1>10. Seen
  <2>1. \A hook : CallsOf(hook) = {}
    BY <1>2 DEF CallsOf
  <2> QED BY <2>1 DEF Seen, Replacements, EntrySeesOriginals, ModifierSeesItsParameter,
                      ExitSeesResult
<1> QED BY <1>2, <1>8, <1>9, <1>10 DEF HooksInv, Seen

----------------------------------------------------------------------------
(* The invariant, and what it says of the listeners.                       *)

\* HookBridge is called as it was woven: behind each step of an invocation are
\* the calls that were inserted there, in their order, and each was passed what
\* it is for; and the code that is woven has each call once.
THEOREM HooksInvariance == Spec => []HooksInv
<1>1. Init => HooksInv
  BY HooksInit
<1>2. WeavingInv /\ HooksInv /\ [Next]_vars => HooksInv'
  <2> SUFFICES ASSUME WeavingInv, HooksInv, [Next]_vars
               PROVE  HooksInv'
    OBVIOUS
  <2>1. CASE ApplyTransform
    BY <2>1, TransformsTell
  <2>2. CASE Assemble
    BY <2>2, AssembleTells
  <2>3. CASE BailOut
    BY <2>3, BailOutTells
  <2>4. CASE Enter
    BY <2>4, EnterTells
  <2>5. CASE Reject \/ Leave
    BY <2>5, StopsTell
  <2>6. CASE Compute
    BY <2>6, ComputeTells
  <2>7. CASE Allocate
    BY <2>7, AllocateTells
  <2>8. CASE Store
    BY <2>8, StoreTells
  <2>9. CASE Call
    BY <2>9, CallTells
  <2>10. CASE MoveResultBack
    BY <2>10, ResultTells
  <2>11. CASE BodyLoops \/ BodyReturns
    BY <2>11, BodyTells
  <2>12. CASE Done \/ UNCHANGED vars
    <3>1. UNCHANGED vars
      BY <2>12 DEF Done
    <3> QED BY <3>1, StutterTells
  <2> QED BY <2>1, <2>2, <2>3, <2>4, <2>5, <2>6, <2>7, <2>8, <2>9, <2>10, <2>11, <2>12
      DEF Next
<1> QED BY <1>1, <1>2, WeavingInvariance, PTL DEF Spec

\* Both invariants together, for methods of any size and any selection of hooks.
THEOREM Invariance == Spec => []IInv
<1>1. WeavingInv /\ HooksInv => IInv
  BY DEF IInv
<1> QED BY <1>1, WeavingInvariance, HooksInvariance, PTL

\* A method whose first instruction is the target of a jump is only hooked with
\* an exit hook.
NoLoopEntry == \A job \in Jobs : job.method.loop => ~job.hooks.enter /\ job.hooks.params = << >>

LEMMA ListenersTold ==
    ASSUME NoLoopEntry, WeavingInv, HooksInv
    PROVE  /\ IndexesExist => CallsTold /\ Seen
           /\ ~IndexesExist => calls = << >>
<1>1. PICK job \in Jobs : method = job.method /\ hooks = job.hooks
  BY DEF WeavingInv, TypeOK
<1>2. method.loop => ~hooks.enter /\ hooks.params = << >>
  BY <1>1 DEF NoLoopEntry
<1>3. IndexesExist => Regular
  BY <1>2 DEF Regular
<1> QED BY <1>3 DEF HooksInv, Seen, NothingTold

\* The entry hook is passed the arguments as the caller passed them: for methods
\* with any parameters in any number of registers, and whichever of the transforms
\* added registers, element x of its array is the incoming value of parameter x.
THEOREM EntrySeesOriginalsHolds ==
    ASSUME NoLoopEntry
    PROVE  Spec => []EntrySeesOriginals
<1>1. ASSUME WeavingInv, HooksInv
      PROVE  EntrySeesOriginals
  <2>1. CASE IndexesExist
    BY <1>1, <2>1, ListenersTold DEF Seen
  <2>2. CASE ~IndexesExist
    <3>1. CallsOf("enter") = {}
      BY <1>1, <2>2, ListenersTold DEF CallsOf
    <3> QED BY <3>1 DEF EntrySeesOriginals
  <2> QED BY <2>1, <2>2
<1> QED BY <1>1, WeavingInvariance, HooksInvariance, PTL

\* Each modifier is passed its own index, the object, and the incoming value of
\* its own parameter, both halves of it if it is wide, also when the modifiers of
\* other parameters have been called and registers have been added before.
THEOREM ModifierSeesItsParameterHolds ==
    ASSUME NoLoopEntry
    PROVE  Spec => []ModifierSeesItsParameter
<1>1. ASSUME WeavingInv, HooksInv
      PROVE  ModifierSeesItsParameter
  <2>1. CASE IndexesExist
    BY <1>1, <2>1, ListenersTold DEF Seen
  <2>2. CASE ~IndexesExist
    <3>1. CallsOf("modify") = {}
      BY <1>1, <2>2, ListenersTold DEF CallsOf
    <3> QED BY <3>1 DEF ModifierSeesItsParameter
  <2> QED BY <2>1, <2>2
<1> QED BY <1>1, WeavingInvariance, HooksInvariance, PTL

\* The exit hook is passed what the method's own code returns, whichever return
\* it takes, and as the object what that code has left in the register of
\* `this': the object itself if it stays there, although the jmethodID may be
\* written next to it or over it (the verifier rejects the method then).
THEOREM ExitSeesResultHolds ==
    ASSUME NoLoopEntry
    PROVE  Spec => []ExitSeesResult
<1>1. ASSUME WeavingInv, HooksInv
      PROVE  ExitSeesResult
  <2>1. CASE IndexesExist
    BY <1>1, <2>1, ListenersTold DEF Seen
  <2>2. CASE ~IndexesExist
    <3>1. CallsOf("exit") = {}
      BY <1>1, <2>2, ListenersTold DEF CallsOf
    <3> QED BY <3>1 DEF ExitSeesResult
  <2> QED BY <2>1, <2>2
<1> QED BY <1>1, WeavingInvariance, HooksInvariance, PTL

\* An invocation that returns has called every hook that was asked for exactly
\* once: the entry hook, the modifiers from the last parameter to the first, and
\* the exit hook, whichever return it took; and it returns what the exit hook
\* returned.
THEOREM CallsInOrderHolds ==
    ASSUME NoLoopEntry
    PROVE  Spec => []CallsInOrder
<1>1. ASSUME WeavingInv, HooksInv
      PROVE  CallsInOrder
  <2> SUFFICES ASSUME IndexesExist, status = "returned"
               PROVE  /\ Made(Expected)
                      /\ hooks.exit => \E k \in DOMAIN method.rets :
                            /\ code[pc] = Return(k)
                            /\ RegsFrom(method.rets[k].reg, RetCount(method))
                                   = calls[Len(calls)].out
    BY DEF CallsInOrder
  <2>1. CallsTold
    BY <1>1, ListenersTold
  <2>2. PICK b \in DOMAIN code :
            /\ Endings(method, code, b, Hooked)
            /\ pc \in DOMAIN code /\ pc > b /\ code[pc].op = "return"
            /\ \E i \in DOMAIN code : ReturnAhead(code, pc, i) /\ Returning(code[i].k)
    BY <2>1 DEF CallsTold
  <2>3. code \in Seq(Instruction)
    BY <1>1 DEF WeavingInv, TypeOK
  <2>4. PICK i \in DOMAIN code : ReturnAhead(code, pc, i) /\ Returning(code[i].k)
    BY <2>2
  <2>5. i = pc
    <3>1. i \in Nat /\ pc \in Nat /\ i \in pc..Len(code)
      BY <2>2, <2>3, <2>4 DEF ReturnAhead
    <3>2. i # pc => pc \in pc..(i - 1)
      BY <3>1
    <3> QED BY <2>2, <2>4, <3>2 DEF ReturnAhead
  <2>6. PICK k : k = code[pc].k
    OBVIOUS
  <2>7. Returning(k)
    BY <2>4, <2>5, <2>6
  <2>8. k \in DOMAIN method.rets
    BY <2>2, <2>6 DEF Endings
  <2>9. code[pc] = Return(k)
    <3>1. code[pc] \in Instruction /\ code[pc].op = "return"
      BY <2>2, <2>3
    <3>2. code[pc] \in [op : {"return"}, k : Nat]
      BY <3>1 DEF Instruction
    <3> QED BY <2>6, <3>2 DEF Return
  <2>10. /\ Made(Expected)
         /\ hooks.exit => RegsFrom(method.rets[k].reg, RetCount(method)) = calls[Len(calls)].out
    BY <2>2, <2>7 DEF Returning
  <2> QED BY <2>8, <2>9, <2>10
<1> QED BY <1>1, WeavingInvariance, HooksInvariance, PTL
=============================================================================
