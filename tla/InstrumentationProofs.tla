----------------------- MODULE InstrumentationProofs -----------------------
(***************************************************************************)
(* Theorems about Instrumentation, and about the registers its transforms  *)
(* use, for methods of any size.                                           *)
(***************************************************************************)
EXTENDS Instrumentation, SequenceTheorems, WellFoundedInduction, TLAPS

----------------------------------------------------------------------------
(* RegisterLayout.                                                         *)

\* After EntryHook or ModifyParameter has added its registers no argument
\* arrives in v0, v1 or v2, and nothing is added where that holds already.
THEOREM HeadRoomIsEnough ==
    ASSUME NEW size \in Nat, NEW ins \in Nat, ins <= size
    PROVE  LET shift == HeadRoom(size, ins) IN
           /\ shift \in 0..3
           /\ size + shift - ins >= 3
           /\ HeadRoom(size + shift, ins) = 0
BY DEF HeadRoom

\* Where ExitHook decides that a method has no two registers besides its
\* result, the pair it takes for the jmethodID exists once the scratch
\* registers are added, and holds neither the result nor `this'.  For `this'
\* it relies on the register numbers of the method as it was compiled.
THEOREM ScratchIsUsable ==
    ASSUME NEW size \in Nat, NEW thisIndex \in Nat, NEW static \in BOOLEAN,
           NEW reg \in Nat, NEW count \in 0..2,
           ~Enough(thisIndex, count)
    PROVE  LET grown == size + ExitScratch(size, thisIndex, static, reg, count)
           IN  Usable(MethodIdReg(thisIndex, static, reg, count), grown,
                      thisIndex, static, reg, count)
<1> DEFINE begin == ParamBegin(thisIndex, static, reg, count)
           grown == size + ExitScratch(size, thisIndex, static, reg, count)
<1>1. /\ begin \in Nat
      /\ begin >= reg + count
      /\ ~static => begin > thisIndex
  BY DEF ParamBegin
<1>2. MethodIdReg(thisIndex, static, reg, count) = begin
  BY DEF MethodIdReg
<1>3. begin + 1 < grown
  BY <1>1 DEF ExitScratch
<1>4. \A r \in {begin, begin + 1} :
          ~(reg <= r /\ r < reg + count) /\ (~static => r # thisIndex)
  BY <1>1
<1> QED
  BY <1>1, <1>2, <1>3, <1>4 DEF Usable

\* Where it decides that there are two registers, the pair is usable if it
\* ends below `this': the condition ExitHook does not check.
THEOREM EnoughIsUsable ==
    ASSUME NEW size \in Nat, NEW thisIndex \in Nat, NEW static \in BOOLEAN,
           NEW reg \in Nat, NEW count \in 0..2,
           Enough(thisIndex, count), thisIndex <= size,
           reg + count + 1 < thisIndex
    PROVE  Usable(MethodIdReg(thisIndex, static, reg, count), size,
                  thisIndex, static, reg, count)
BY DEF MethodIdReg, Usable

\* A result that ends one register below `this' leaves no room, however many
\* registers the method has.
THEOREM LastRegisterUnusable ==
    ASSUME NEW size \in Nat, NEW thisIndex \in Nat,
           NEW reg \in Nat, NEW count \in 0..2,
           Enough(thisIndex, count), reg + count \in {thisIndex - 1, thisIndex}
    PROVE  ~Usable(MethodIdReg(thisIndex, FALSE, reg, count), size,
                   thisIndex, FALSE, reg, count)
<1> DEFINE id == reg + count
<1>1. MethodIdReg(thisIndex, FALSE, reg, count) = id
  BY DEF MethodIdReg
<1>2. thisIndex \in {id, id + 1}
  OBVIOUS
<1> QED
  BY <1>1, <1>2 DEF Usable

----------------------------------------------------------------------------
(* Sequences.                                                              *)

\* A set of numbers that is not empty has a least element: induction, by way of
\* the least counterexample.
LEMMA Least ==
    ASSUME NEW S \in SUBSET Nat, S # {}
    PROVE  \E m \in S : \A i \in S : m <= i
<1>1. PICK m \in S : \A i \in S : ~ (<< i, m >> \in OpToRel(<, Nat))
  BY NatLessThanWellFounded, WFMin
<1>2. ASSUME NEW i \in S
      PROVE  m <= i
  <2>1. m \in Nat /\ i \in Nat
    OBVIOUS
  <2>2. << i, m >> \in Nat \X Nat /\ << i, m >>[1] = i /\ << i, m >>[2] = m
    BY <2>1
  <2>3. ~ (i < m)
    BY <1>1, <2>2 DEF OpToRel
  <2> QED BY <2>1, <2>3
<1> QED BY <1>2

LEMMA Concat ==
    ASSUME NEW S, NEW s \in Seq(S), NEW t \in Seq(S)
    PROVE  /\ s \o t \in Seq(S)
           /\ Len(s \o t) = Len(s) + Len(t)
           /\ DOMAIN (s \o t) = 1..(Len(s) + Len(t))
           /\ \A i \in 1..Len(s) : (s \o t)[i] = s[i]
           /\ \A i \in (Len(s) + 1)..(Len(s) + Len(t)) : (s \o t)[i] = t[i - Len(s)]
<1>1. s \o t \in Seq(S) /\ Len(s \o t) = Len(s) + Len(t)
  OBVIOUS
<1>2. DOMAIN (s \o t) = 1..(Len(s) + Len(t))
  BY <1>1
<1>3. \A i \in 1..(Len(s) + Len(t)) :
          (s \o t)[i] = IF i <= Len(s) THEN s[i] ELSE t[i - Len(s)]
  BY ConcatProperties
<1>4. Len(s) \in Nat /\ Len(t) \in Nat
  OBVIOUS
<1> QED BY <1>1, <1>2, <1>3, <1>4

IsFlattened(seqs, n, f) ==
    f = [i \in 1..n |-> IF i = 1 THEN seqs[i] ELSE f[i - 1] \o seqs[i]]

\* The function that FlattenSeq takes the last value of exists.
LEMMA FlattenedExists ==
    ASSUME NEW seqs, NEW n \in Nat
    PROVE  \E f : IsFlattened(seqs, n, f)
<1> DEFINE T == {m \in Nat : ~ \E f : IsFlattened(seqs, m, f)}
<1> SUFFICES ASSUME T # {}
             PROVE  FALSE
  OBVIOUS
<1>1. PICK m \in T : \A x \in T : m <= x
  BY Least
<1>2. CASE m = 0
  <2>1. IsFlattened(seqs, 0, [i \in 1..0 |-> << >>])
    BY DEF IsFlattened
  <2> QED BY <1>1, <1>2, <2>1
<1>3. CASE m # 0
  <2>1. m - 1 \in Nat /\ m \in Nat /\ m - 1 < m
    BY <1>1, <1>3
  <2>2. PICK f : IsFlattened(seqs, m - 1, f)
    BY <1>1, <2>1
  <2> DEFINE last == IF m = 1 THEN seqs[m] ELSE f[m - 1] \o seqs[m]
             g == [i \in 1..m |-> IF i = m THEN last ELSE f[i]]
             body(h, i) == IF i = 1 THEN seqs[i] ELSE h[i - 1] \o seqs[i]
  <2>3. \A i \in 1..(m - 1) : f[i] = body(f, i)
    BY <2>2 DEF IsFlattened
  <2>4. ASSUME NEW i \in 1..m
        PROVE  g[i] = body(g, i)
    <3>1. CASE i = m
      <4>1. g[m] = last
        BY <2>1, <3>1
      <4>2. m # 1 => g[m - 1] = f[m - 1]
        BY <2>1, <3>1
      <4> QED BY <3>1, <4>1, <4>2
    <3>2. CASE i # m
      <4>1. i \in 1..(m - 1) /\ g[i] = f[i]
        BY <2>1, <3>2
      <4>2. i # 1 => g[i - 1] = f[i - 1]
        BY <2>1, <3>2
      <4> QED BY <2>3, <4>1, <4>2
    <3> QED BY <3>1, <3>2
  <2>5. g = [i \in 1..m |-> body(g, i)]
    <3>1. g = [i \in 1..m |-> g[i]]
      OBVIOUS
    <3> HIDE DEF g, body
    <3> QED BY <2>4, <3>1
  <2>6. IsFlattened(seqs, m, g)
    BY <2>5 DEF IsFlattened
  <2> QED BY <1>1, <2>6
<1> QED BY <1>2, <1>3

Appends(S, seqs, n, f) ==
    \A i \in 1..n : /\ f[i] \in Seq(S)
                    /\ f[i] = IF i = 1 THEN seqs[i] ELSE f[i - 1] \o seqs[i]

\* What FlattenSeq computes: sequences of S one after the other.
LEMMA Flattened ==
    ASSUME NEW S, NEW n \in Nat, NEW seqs \in [1..n -> Seq(S)],
           NEW f, IsFlattened(seqs, n, f)
    PROVE  Appends(S, seqs, n, f)
<1>1. \A i \in 1..n : f[i] = IF i = 1 THEN seqs[i] ELSE f[i - 1] \o seqs[i]
  BY DEF IsFlattened
<1> DEFINE T == {i \in 1..n : f[i] \notin Seq(S)}
<1>2. T = {}
  <2> SUFFICES ASSUME T # {}
               PROVE  FALSE
    OBVIOUS
  <2>1. T \in SUBSET Nat
    OBVIOUS
  <2>2. PICK m \in T : \A x \in T : m <= x
    <3> HIDE DEF T
    <3> QED BY <2>1, Least
  <2>3. m \in 1..n /\ f[m] \notin Seq(S) /\ seqs[m] \in Seq(S)
    BY <2>2
  <2>4. m # 1
    BY <1>1, <2>3
  <2>5. m - 1 \in 1..n /\ ~ (m <= m - 1)
    BY <2>3, <2>4
  <2>6. f[m - 1] \in Seq(S)
    BY <2>2, <2>5
  <2>7. f[m] = f[m - 1] \o seqs[m]
    BY <1>1, <2>3, <2>4
  <2> QED BY <2>3, <2>6, <2>7
<1> QED BY <1>1, <1>2 DEF Appends

FlattensTo(S, seqs, n, v) == \E f : v = f[n] /\ Appends(S, seqs, n, f)

LEMMA FlattenLast ==
    ASSUME NEW S, NEW n \in Nat, n # 0, NEW seqs \in [1..n -> Seq(S)]
    PROVE  FlattensTo(S, seqs, n, FlattenSeq(seqs))
<1>1. seqs \in Seq(Seq(S)) /\ Len(seqs) = n
  BY SeqDef
<1> DEFINE f == CHOOSE f : IsFlattened(seqs, n, f)
<1>2. FlattenSeq(seqs) = f[n]
  BY <1>1 DEF FlattenSeq, IsFlattened
<1>3. IsFlattened(seqs, n, f)
  BY FlattenedExists
<1> HIDE DEF f
<1>4. Appends(S, seqs, n, f)
  BY <1>3, Flattened
<1> QED BY <1>2, <1>4 DEF FlattensTo

LEMMA FlattenNone ==
    ASSUME NEW S, NEW seqs \in [1..0 -> Seq(S)]
    PROVE  FlattenSeq(seqs) = << >>
<1>1. seqs \in Seq(Seq(S)) /\ Len(seqs) = 0
  BY SeqDef
<1>2. seqs = << >>
  BY <1>1
<1> QED BY <1>1, <1>2 DEF FlattenSeq

LEMMA FlattenType ==
    ASSUME NEW S, NEW n \in Nat, NEW seqs \in [1..n -> Seq(S)]
    PROVE  FlattenSeq(seqs) \in Seq(S)
<1>1. CASE n = 0
  <2>1. seqs \in [1..0 -> Seq(S)]
    BY <1>1
  <2>2. FlattenSeq(seqs) = << >>
    BY <2>1, FlattenNone
  <2> QED BY <2>2
<1>2. CASE n # 0
  <2>1. PICK f : FlattenSeq(seqs) = f[n] /\ Appends(S, seqs, n, f)
    BY <1>2, FlattenLast DEF FlattensTo
  <2> QED BY <1>2, <2>1 DEF Appends
<1> QED BY <1>1, <1>2

\* Flattening one sequence more appends it.
LEMMA FlattenMore ==
    ASSUME NEW S, NEW n \in Nat, NEW seqs \in [1..n -> Seq(S)],
           NEW N, N = n + 1,
           NEW more \in [1..N -> Seq(S)], \A i \in 1..n : more[i] = seqs[i]
    PROVE  FlattenSeq(more) = FlattenSeq(seqs) \o more[N]
<1>1. N \in Nat /\ N # 0
  OBVIOUS
<1>2. PICK g : FlattenSeq(more) = g[N] /\ Appends(S, more, N, g)
  BY <1>1, FlattenLast DEF FlattensTo
<1>3. /\ FlattenSeq(more) = g[N]
      /\ \A i \in 1..N : /\ g[i] \in Seq(S)
                         /\ g[i] = IF i = 1 THEN more[i] ELSE g[i - 1] \o more[i]
  BY <1>2 DEF Appends
<1>4. CASE n = 0
  <2>1. FlattenSeq(seqs) = << >>
    BY <1>4, FlattenNone
  <2>2. g[1] = more[1] /\ more[1] \in Seq(S)
    BY <1>3, <1>4
  <2>3. << >> \o more[1] = more[1]
    BY <2>2, ConcatEmptySeq
  <2> QED BY <1>3, <1>4, <2>1, <2>2, <2>3
<1>5. CASE n # 0
  <2>1. PICK f : FlattenSeq(seqs) = f[n] /\ Appends(S, seqs, n, f)
    BY <1>5, FlattenLast DEF FlattensTo
  <2>2. /\ FlattenSeq(seqs) = f[n]
        /\ \A i \in 1..n : /\ f[i] \in Seq(S)
                           /\ f[i] = IF i = 1 THEN seqs[i] ELSE f[i - 1] \o seqs[i]
    BY <2>1 DEF Appends
  <2> DEFINE T == {i \in 1..n : f[i] # g[i]}
  <2>3. T = {}
    <3> SUFFICES ASSUME T # {}
                 PROVE  FALSE
      OBVIOUS
    <3>1. T \in SUBSET Nat
      OBVIOUS
    <3>2. PICK m \in T : \A x \in T : m <= x
      <4> HIDE DEF T
      <4> QED BY <3>1, Least
    <3>3. m \in 1..n /\ m \in 1..N /\ f[m] # g[m] /\ more[m] = seqs[m]
      BY <3>2
    <3>4. m # 1
      BY <1>3, <2>2, <3>3
    <3>5. m - 1 \in 1..n /\ ~ (m <= m - 1)
      BY <3>3, <3>4
    <3>6. f[m - 1] = g[m - 1]
      BY <3>2, <3>5
    <3> QED BY <1>3, <2>2, <3>3, <3>4, <3>6
  <2>4. f[n] = g[n]
    BY <1>5, <2>3
  <2>5. N \in 1..N /\ N # 1 /\ N - 1 = n
    BY <1>5
  <2>6. g[N] = g[n] \o more[N]
    BY <1>3, <2>5
  <2> QED BY <1>3, <2>2, <2>4, <2>6
<1> QED BY <1>4, <1>5

----------------------------------------------------------------------------
(* Methods: the slots of the parameters.                                   *)

SlotType == {"ref", "int", "wide0", "wide1"}

Width(m, i) == Len(Slots(m.params[i]))

LEMMA SlotsOK ==
    ASSUME NEW t
    PROVE  /\ Len(Slots(t)) \in 0..2
           /\ t \in ParamType => Slots(t) \in Seq(SlotType) /\ Len(Slots(t)) \in 1..2
<1>1. CASE t = "wide"
  <2>1. Slots(t) = << "wide0", "wide1" >>
    BY <1>1 DEF Slots
  <2> QED BY <2>1 DEF SlotType
<1>2. CASE t = "void"
  <2>1. Slots(t) = << >>
    BY <1>2 DEF Slots
  <2>2. t \notin ParamType
    BY <1>2 DEF ParamType
  <2> QED BY <2>1, <2>2
<1>3. CASE t # "wide" /\ t # "void"
  <2>1. Slots(t) = << t >>
    BY <1>3 DEF Slots
  <2>2. t \in ParamType => t \in SlotType
    BY <1>3 DEF ParamType, SlotType
  <2>3. t \in SlotType => << t >> \in Seq(SlotType)
    OBVIOUS
  <2> QED BY <2>1, <2>2, <2>3
<1> QED BY <1>1, <1>2, <1>3

\* The parameters take the slots behind `this', one after the other.
LEMMA SlotStep ==
    ASSUME NEW m, MethodShape(m)
    PROVE  /\ Len(m.params) \in Nat
           /\ Slot(m, 0) = IF m.static THEN 0 ELSE 1
           /\ \A i \in 1..Len(m.params) : /\ Slot(m, i) = Slot(m, i - 1) + Width(m, i)
                                          /\ Width(m, i) \in 1..2
           /\ \A i \in 0..Len(m.params) : Slot(m, i) \in Nat
           /\ Ins(m) = Slot(m, Len(m.params))
<1> DEFINE P(i) == [j \in 1..i |-> Slots(m.params[j])]
           L == Len(m.params)
<1>1. m.params \in Seq(ParamType) /\ L \in Nat /\ DOMAIN m.params = 1..L
  BY DEF MethodShape
<1>2. \A i \in 1..L : Slots(m.params[i]) \in Seq(SlotType) /\ Width(m, i) \in 1..2
  BY <1>1, SlotsOK DEF Width
<1> HIDE DEF L
<1>3. \A i \in 0..L : P(i) \in [1..i -> Seq(SlotType)]
  BY <1>1, <1>2
<1>4. \A i \in 0..L : FlattenSeq(P(i)) \in Seq(SlotType)
  <2> SUFFICES ASSUME NEW i \in 0..L
               PROVE  FlattenSeq(P(i)) \in Seq(SlotType)
    OBVIOUS
  <2>1. P(i) \in [1..i -> Seq(SlotType)]
    BY <1>3
  <2> HIDE DEF P
  <2> QED BY <1>1, <2>1, FlattenType
<1>5. \A i \in 0..L :
          Slot(m, i) = (IF m.static THEN 0 ELSE 1) + Len(FlattenSeq(P(i)))
  BY DEF Slot
<1>6. Slot(m, 0) = IF m.static THEN 0 ELSE 1
  <2>1. P(0) \in [1..0 -> Seq(SlotType)]
    BY <1>1, <1>3
  <2> HIDE DEF P
  <2>2. FlattenSeq(P(0)) = << >>
    BY <2>1, FlattenNone
  <2>3. Len(FlattenSeq(P(0))) = 0
    BY <2>2
  <2> QED BY <1>1, <1>5, <2>3
<1>7. ASSUME NEW i \in 1..L
      PROVE  Slot(m, i) = Slot(m, i - 1) + Width(m, i)
  <2>1. i - 1 \in Nat /\ i - 1 \in 0..L /\ i \in 0..L /\ i = (i - 1) + 1
    BY <1>1
  <2>2. P(i) \in [1..i -> Seq(SlotType)] /\ P(i - 1) \in [1..(i - 1) -> Seq(SlotType)]
    BY <1>3, <2>1
  <2>3. /\ \A j \in 1..(i - 1) : P(i)[j] = P(i - 1)[j]
        /\ P(i)[i] = Slots(m.params[i])
    BY <2>1
  <2>4. FlattenSeq(P(i - 1)) \in Seq(SlotType) /\ P(i)[i] \in Seq(SlotType)
    BY <1>2, <1>4, <2>1, <2>3
  <2> HIDE DEF P
  <2>5. FlattenSeq(P(i)) = FlattenSeq(P(i - 1)) \o P(i)[i]
    BY <2>1, <2>2, <2>3, FlattenMore, ZenonT(40)
  <2>6. Len(FlattenSeq(P(i))) = Len(FlattenSeq(P(i - 1))) + Width(m, i)
    BY <2>3, <2>4, <2>5 DEF Width
  <2>7. Len(FlattenSeq(P(i - 1))) \in Nat /\ Width(m, i) \in Nat
    BY <1>2, <2>4
  <2> QED BY <1>5, <2>1, <2>6, <2>7
<1>8. \A i \in 0..L : Slot(m, i) \in Nat
  <2> SUFFICES ASSUME NEW i \in 0..L
               PROVE  Slot(m, i) \in Nat
    OBVIOUS
  <2>1. FlattenSeq(P(i)) \in Seq(SlotType)
    BY <1>4
  <2> DEFINE l == Len(FlattenSeq(P(i)))
  <2>2. l \in Nat
    BY <2>1
  <2>3. Slot(m, i) = (IF m.static THEN 0 ELSE 1) + l
    BY <1>5
  <2> HIDE DEF l
  <2>4. Slot(m, i) = 0 + l \/ Slot(m, i) = 1 + l
    BY <2>3
  <2> QED BY <2>2, <2>4
<1>9. Ins(m) = Slot(m, L)
  <2>1. [i \in DOMAIN m.params |-> Slots(m.params[i])] = P(L)
    BY <1>1
  <2> HIDE DEF P
  <2>2. FlattenSeq(P(L)) \in Seq(SlotType)
    BY <1>1, <1>4
  <2>3. InTypes(m) = (IF m.static THEN << >> ELSE << "ref" >>) \o FlattenSeq(P(L))
    BY <2>1 DEF InTypes
  <2> DEFINE f == FlattenSeq(P(L))
             this == IF m.static THEN << >> ELSE << "ref" >>
  <2>4. Len(InTypes(m)) = (IF m.static THEN 0 ELSE 1) + Len(FlattenSeq(P(L)))
    <3>1. "ref" \in SlotType
      BY DEF SlotType
    <3>2. this \in Seq(SlotType) /\ Len(this) = IF m.static THEN 0 ELSE 1
      BY <3>1
    <3>3. InTypes(m) = this \o f /\ f \in Seq(SlotType)
      BY <2>2, <2>3
    <3> HIDE DEF this, f
    <3>4. Len(this \o f) = Len(this) + Len(f)
      BY <3>2, <3>3, Concat
    <3> QED BY <3>2, <3>3, <3>4 DEF f
  <2> QED BY <1>1, <1>5, <2>4 DEF Ins
<1> QED BY <1>1, <1>2, <1>6, <1>7, <1>8, <1>9 DEF L

\* Later parameters are in later slots.
LEMMA SlotOrder ==
    ASSUME NEW m, MethodShape(m),
           NEW i \in 0..Len(m.params), NEW j \in i..Len(m.params)
    PROVE  Slot(m, i) <= Slot(m, j)
<1> DEFINE T == {k \in Nat : i <= k /\ k <= Len(m.params) /\ ~ (Slot(m, i) <= Slot(m, k))}
<1>0. Len(m.params) \in Nat
  BY SlotStep
<1>9. j \in Nat /\ i <= j /\ j <= Len(m.params)
  BY <1>0
<1> SUFFICES ASSUME T # {}
             PROVE  FALSE
  BY <1>9
<1>1. PICK k \in T : \A x \in T : k <= x
  BY Least
<1>2. k \in Nat /\ i <= k /\ k <= Len(m.params) /\ ~ (Slot(m, i) <= Slot(m, k))
  BY <1>1
<1>3. Len(m.params) \in Nat /\ Slot(m, i) \in Nat
  BY SlotStep
<1>4. k # i
  BY <1>2, <1>3
<1>5. k - 1 \in Nat /\ i <= k - 1 /\ k - 1 <= Len(m.params) /\ ~ (k <= k - 1) /\ k \in 1..Len(m.params)
      /\ k - 1 \in 0..Len(m.params)
  BY <1>2, <1>3, <1>4
<1>6. Slot(m, i) <= Slot(m, k - 1)
  BY <1>1, <1>5
<1>7. Slot(m, k) = Slot(m, k - 1) + Width(m, k) /\ Width(m, k) \in 1..2 /\ Slot(m, k - 1) \in Nat
  BY <1>5, SlotStep
<1> QED BY <1>2, <1>3, <1>6, <1>7

----------------------------------------------------------------------------
(* Instructions, and pieces of code.                                       *)

LEMMA InstructionFields ==
    ASSUME NEW i \in Instruction
    PROVE  /\ i.op \in {"const", "move", "box", "new_array", "aput", "invoke",
                        "move_result", "label", "body", "return"}
           /\ i.op = "const" => i.dst \in Nat /\ i.vals \in Seq(Token)
           /\ i.op \in {"move", "box"} => i.dst \in Nat /\ i.src \in Nat /\ i.n \in Nat
           /\ i.op = "new_array" => i.dst \in Nat /\ i.size \in Nat
           /\ i.op = "aput" => i.src \in Nat /\ i.arr \in Nat /\ i.idx \in Nat
           /\ i.op = "invoke" => /\ i.hook \in {"enter", "modify", "exit"}
                                 /\ i.idx \in Nat /\ i.args \in Seq(Nat)
           /\ i.op = "move_result" => i.dst \in Nat /\ i.n \in Nat
BY DEF Instruction

\* Code that may be inserted before the method's own.
Piece(m, c) ==
    /\ c \in Seq(Instruction)
    /\ \A j \in DOMAIN c :
          /\ c[j].op \notin {"body", "label", "return"}
          /\ c[j].op = "invoke" /\ c[j].hook = "modify" => c[j].idx < Len(m.params)

LEMMA ConcatPiece ==
    ASSUME NEW m, NEW c, NEW d, Piece(m, c), Piece(m, d)
    PROVE  Piece(m, c \o d)
<1>1. c \in Seq(Instruction) /\ d \in Seq(Instruction) /\ Len(c) \in Nat /\ Len(d) \in Nat
      /\ DOMAIN c = 1..Len(c) /\ DOMAIN d = 1..Len(d)
  BY DEF Piece
<1>2. /\ c \o d \in Seq(Instruction) /\ DOMAIN (c \o d) = 1..(Len(c) + Len(d))
      /\ \A i \in 1..Len(c) : (c \o d)[i] = c[i]
      /\ \A i \in (Len(c) + 1)..(Len(c) + Len(d)) : (c \o d)[i] = d[i - Len(c)]
  BY <1>1, Concat
<1>3. ASSUME NEW j \in DOMAIN (c \o d)
      PROVE  \/ j \in DOMAIN c /\ (c \o d)[j] = c[j]
             \/ j - Len(c) \in DOMAIN d /\ (c \o d)[j] = d[j - Len(c)]
  <2>1. CASE j <= Len(c)
    BY <1>1, <1>2, <2>1
  <2>2. CASE j > Len(c)
    BY <1>1, <1>2, <2>2
  <2> QED BY <1>1, <1>2, <2>1, <2>2
<1> QED BY <1>2, <1>3 DEF Piece

\* Code that takes the arguments from a block at register a to one at b.
Carries(m, c, a, b) ==
    /\ c \in Seq(Instruction)
    /\ \E p : /\ p[1] = Block(m, a) /\ p[Len(c) + 1] = Block(m, b)
              /\ \A j \in 1..Len(c) : p[j + 1] = Moved(c[j], p[j]) /\ Passes(m, c, j, p[j])

\* Instruction j of c, with its neighbours, is instruction h of d.
Stands(c, j, d, h) ==
    /\ d[h] = c[j]
    /\ j > 1 => h > 1 /\ d[h - 1] = c[j - 1]
    /\ j + 1 \in DOMAIN c => h + 1 \in DOMAIN d /\ d[h + 1] = c[j + 1]

LEMMA PassesElsewhere ==
    ASSUME NEW m, NEW c, NEW j \in Nat, NEW d, NEW h \in Nat, NEW p,
           Stands(c, j, d, h), Passes(m, c, j, p)
    PROVE  Passes(m, d, h, p)
<1>1. d[h] = c[j] /\ c[j].op \notin {"body", "return"}
  BY DEF Stands, Passes
<1>2. ASSUME c[j].op = "move_result"
      PROVE  /\ h > 1 /\ d[h - 1] = c[j - 1]
             /\ \A s \in DOMAIN p : IsResultFor(m, d, h, s) <=> IsResultFor(m, c, j, s)
  <2>1. j > 1
    BY <1>2 DEF Passes
  <2>2. h > 1 /\ d[h - 1] = c[j - 1]
    BY <2>1 DEF Stands
  <2> QED BY <1>1, <2>2 DEF IsResultFor
<1>3. ASSUME c[j].op = "invoke", c[j].hook = "modify"
      PROVE  h + 1 \in DOMAIN d /\ d[h + 1].op = "move_result"
  BY <1>3 DEF Passes, Stands
<1> QED BY <1>1, <1>2, <1>3 DEF Passes

LEMMA ConcatCarries ==
    ASSUME NEW m, NEW c, NEW d, NEW a, NEW b, NEW e,
           Carries(m, c, a, b), Carries(m, d, b, e)
    PROVE  Carries(m, c \o d, a, e)
<1> DEFINE L == Len(c)
           N == Len(d)
           cd == c \o d
<1>1. c \in Seq(Instruction) /\ d \in Seq(Instruction) /\ L \in Nat /\ N \in Nat
      /\ DOMAIN c = 1..L /\ DOMAIN d = 1..N
  BY DEF Carries
<1>2. PICK p : /\ p[1] = Block(m, a) /\ p[L + 1] = Block(m, b)
               /\ \A j \in 1..L : p[j + 1] = Moved(c[j], p[j]) /\ Passes(m, c, j, p[j])
  BY DEF Carries
<1>3. PICK q : /\ q[1] = Block(m, b) /\ q[N + 1] = Block(m, e)
               /\ \A j \in 1..N : q[j + 1] = Moved(d[j], q[j]) /\ Passes(m, d, j, q[j])
  BY DEF Carries
<1>4. /\ cd \in Seq(Instruction) /\ Len(cd) = L + N /\ DOMAIN cd = 1..(L + N)
      /\ \A i \in 1..L : cd[i] = c[i]
      /\ \A i \in (L + 1)..(L + N) : cd[i] = d[i - L]
  BY <1>1, Concat
<1> HIDE DEF cd, L, N
<1> DEFINE r == [j \in 1..(L + N + 1) |-> IF j <= L THEN p[j] ELSE q[j - L]]
<1>5. r[1] = Block(m, a) /\ r[L + N + 1] = Block(m, e)
  <2>1. r[L + N + 1] = q[N + 1]
    BY <1>1
  <2>2. L = 0 => r[1] = q[1]
    BY <1>1
  <2>3. L # 0 => r[1] = p[1]
    BY <1>1
  <2> QED BY <1>1, <1>2, <1>3, <2>1, <2>2, <2>3
<1>6. ASSUME NEW j \in 1..(L + N)
      PROVE  r[j + 1] = Moved(cd[j], r[j]) /\ Passes(m, cd, j, r[j])
  <2>1. CASE j <= L
    <3>1. j \in 1..L /\ r[j] = p[j] /\ cd[j] = c[j]
      BY <1>1, <1>4, <2>1
    <3>2. r[j + 1] = p[j + 1]
      <4>1. CASE j = L
        <5>1. r[j + 1] = q[1]
          BY <1>1, <4>1
        <5> QED BY <1>2, <1>3, <4>1, <5>1
      <4>2. CASE j < L
        BY <1>1, <4>2
      <4> QED BY <1>1, <2>1, <4>1, <4>2
    <3>3. Stands(c, j, cd, j)
      BY <1>1, <1>4, <3>1 DEF Stands
    <3>4. Passes(m, cd, j, p[j])
      BY <1>2, <3>1, <3>3, PassesElsewhere
    <3> QED BY <1>2, <3>1, <3>2, <3>4
  <2>2. CASE j > L
    <3> DEFINE k == j - L
    <3>1. /\ k \in 1..N /\ k \in Nat /\ j = k + L /\ cd[j] = d[k]
          /\ r[j] = q[k] /\ r[j + 1] = q[k + 1]
      <4>1. k \in 1..N /\ k \in Nat /\ j = k + L
        BY <1>1, <2>2
      <4>2. cd[j] = d[k]
        BY <1>1, <1>4, <2>2
      <4>3. r[j] = q[k]
        BY <1>1, <2>2
      <4>4. j + 1 \in 1..(L + N + 1) /\ ~ (j + 1 <= L) /\ (j + 1) - L = k + 1
        BY <1>1, <2>2
      <4>5. r[j + 1] = q[k + 1]
        BY <4>4
      <4> QED BY <4>1, <4>2, <4>3, <4>5
    <3>2. Stands(d, k, cd, j)
      <4>1. k > 1 => j - 1 \in (L + 1)..(L + N) /\ (j - 1) - L = k - 1
        BY <1>1, <3>1
      <4>2. k + 1 \in 1..N => j + 1 \in (L + 1)..(L + N) /\ j + 1 \in 1..(L + N) /\ (j + 1) - L = k + 1
        BY <1>1, <3>1
      <4>3. k > 1 => j > 1
        BY <1>1, <3>1
      <4> HIDE DEF k
      <4> QED BY <1>1, <1>4, <3>1, <4>1, <4>2, <4>3 DEF Stands
    <3> HIDE DEF k
    <3>3. Passes(m, cd, j, q[k])
      BY <1>1, <1>3, <3>1, <3>2, PassesElsewhere
    <3> QED BY <1>3, <3>1, <3>3
  <2> QED BY <1>1, <2>1, <2>2
<1> HIDE DEF r
<1>7. r[Len(cd) + 1] = Block(m, e)
  BY <1>4, <1>5
<1> QED BY <1>4, <1>5, <1>6, <1>7 DEF Carries, cd

\* Code that moves nothing, where the arguments stay.
LEMMA StillCarries ==
    ASSUME NEW m, NEW c \in Seq(Instruction), NEW a,
           \A j \in 1..Len(c) : c[j].op # "move" /\ Passes(m, c, j, Block(m, a))
    PROVE  Carries(m, c, a, a)
<1> DEFINE p == [j \in 1..(Len(c) + 1) |-> Block(m, a)]
<1>1. ASSUME NEW j \in 1..Len(c)
      PROVE  p[j + 1] = Moved(c[j], p[j]) /\ Passes(m, c, j, p[j])
  <2>1. Moved(c[j], Block(m, a)) = Block(m, a)
    BY DEF Moved, Block
  <2>2. p[j] = Block(m, a) /\ p[j + 1] = Block(m, a)
    OBVIOUS
  <2> QED BY <2>1, <2>2
<1>2. p[1] = Block(m, a) /\ p[Len(c) + 1] = Block(m, a)
  OBVIOUS
<1> HIDE DEF p
<1> QED BY <1>1, <1>2 DEF Carries

LEMMA NothingCarries ==
    ASSUME NEW m, NEW a
    PROVE  Carries(m, << >>, a, a) /\ Piece(m, << >>)
<1>1. << >> \in Seq(Instruction) /\ Len(<< >>) = 0
  OBVIOUS
<1>2. Carries(m, << >>, a, a)
  <2> DEFINE c == << >>
  <2>1. c \in Seq(Instruction) /\ \A j \in 1..Len(c) : FALSE
    BY <1>1
  <2> HIDE DEF c
  <2>2. Carries(m, c, a, a)
    BY <2>1, StillCarries
  <2> QED BY <2>2 DEF c
<1> QED BY <1>1, <1>2 DEF Piece

\* Moves from the first slot to the last: what one writes none has still to read.
LEMMA MovesCarry ==
    ASSUME NEW m, Ins(m) \in Nat, NEW c \in Seq(Instruction), NEW cut \in [1..(Len(c) + 1) -> Nat],
           NEW first \in Nat, NEW shift \in Nat, shift <= first,
           cut[1] = 0, cut[Len(c) + 1] = Ins(m),
           \A j \in 1..Len(c) :
               /\ cut[j] <= cut[j + 1]
               /\ c[j] = Move(first + cut[j] - shift, first + cut[j], cut[j + 1] - cut[j])
    PROVE  Carries(m, c, first, first - shift)
<1> DEFINE L == Len(c)
           Reg(j, s) == IF s < cut[j] THEN first - shift + s ELSE first + s
           Row(j) == [s \in 0..(Ins(m) - 1) |-> Reg(j, s)]
           p == [j \in 1..(L + 1) |-> Row(j)]
<1>1. L \in Nat
  OBVIOUS
<1>2. p[1] = Block(m, first)
  <2>1. Row(1) = Block(m, first)
    BY DEF Block
  <2> QED BY <1>1, <2>1
<1>3. p[L + 1] = Block(m, first - shift)
  <2>1. Row(L + 1) = Block(m, first - shift)
    BY <1>1 DEF Block
  <2> QED BY <1>1, <2>1
<1>4. ASSUME NEW j \in 1..L
      PROVE  p[j + 1] = Moved(c[j], p[j]) /\ Passes(m, c, j, p[j])
  <2>1. /\ j + 1 \in 1..(L + 1) /\ j \in 1..(L + 1)
        /\ cut[j] \in Nat /\ cut[j + 1] \in Nat /\ cut[j] <= cut[j + 1]
    <3>1. j + 1 \in 1..(L + 1) /\ j \in 1..(L + 1)
      BY <1>1
    <3>2. cut[j] \in Nat /\ cut[j + 1] \in Nat
      BY <3>1
    <3> QED BY <3>1, <3>2
  <2> DEFINE x == cut[j]
             y == cut[j + 1]
             i == c[j]
  <2>2. /\ i.op = "move" /\ i.dst = first + x - shift /\ i.src = first + x /\ i.n = y - x
    <3>1. i = Move(first + x - shift, first + x, y - x)
      OBVIOUS
    <3> HIDE DEF i, x, y
    <3> QED BY <3>1 DEF Move
  <2>3. p[j] = Row(j) /\ p[j + 1] = Row(j + 1)
    <3> HIDE DEF Row
    <3> QED BY <2>1
  <2>4. ASSUME NEW s \in 0..(Ins(m) - 1)
        PROVE  /\ Reg(j + 1, s) = IF i.src <= Reg(j, s) /\ Reg(j, s) < i.src + i.n
                                  THEN Reg(j, s) - i.src + i.dst ELSE Reg(j, s)
               /\ i.dst <= Reg(j, s) /\ Reg(j, s) < i.dst + i.n
                      => i.src <= Reg(j, s) /\ Reg(j, s) < i.src + i.n
    <3>1. /\ Reg(j, s) = IF s < x THEN first - shift + s ELSE first + s
          /\ Reg(j + 1, s) = IF s < y THEN first - shift + s ELSE first + s
      OBVIOUS
    <3>2. x \in Nat /\ y \in Nat /\ x <= y /\ s \in Nat
      BY <2>1
    <3> HIDE DEF Reg, x, y, i
    <3>3. CASE s < x
      BY <2>2, <3>1, <3>2, <3>3
    <3>4. CASE x <= s /\ s < y
      BY <2>2, <3>1, <3>2, <3>4
    <3>5. CASE y <= s
      BY <2>2, <3>1, <3>2, <3>5
    <3> QED BY <3>2, <3>3, <3>4, <3>5
  <2> HIDE DEF Reg, i
  <2>5. Row(j + 1) = Moved(i, Row(j))
    BY <2>2, <2>4 DEF Moved
  <2>6. Passes(m, c, j, Row(j))
    BY <2>2, <2>4 DEF Passes, i
  <2> HIDE DEF Row, p
  <2> QED BY <2>3, <2>5, <2>6 DEF i
<1> HIDE DEF p
<1> QED BY <1>2, <1>3, <1>4 DEF Carries

\* GenerateShiftParamsCode brings the arguments down by shift registers: `this'
\* first, then parameter after parameter, so that none is overwritten unread.
LEMMA ShiftCarries ==
    ASSUME NEW m, MethodShape(m), NEW r \in Nat, NEW shift \in Nat, Ins(m) + shift <= r
    PROVE  /\ Carries(m, ShiftParams(m, r, shift), r - Ins(m), r - Ins(m) - shift)
           /\ ShiftParams(m, r, shift) \in Seq(Instruction)
           /\ \A j \in DOMAIN ShiftParams(m, r, shift) : ShiftParams(m, r, shift)[j].op = "move"
<1> DEFINE L == Len(m.params)
           first == r - Ins(m)
           t == IF m.static THEN 0 ELSE 1
           this == IF m.static THEN << >> ELSE << Move(first - shift, first, 1) >>
           param(i) == Move(first + Slot(m, i - 1) - shift, first + Slot(m, i - 1), Width(m, i))
           params == [i \in 1..L |-> param(i)]
           c == this \o params
           cut == [j \in 1..(t + L + 1) |-> IF j <= t THEN 0 ELSE Slot(m, j - t - 1)]
<1>1. /\ L \in Nat /\ t \in {0, 1} /\ Ins(m) \in Nat /\ Ins(m) = Slot(m, L)
      /\ \A i \in 0..L : Slot(m, i) \in Nat
      /\ Slot(m, 0) = t
      /\ \A i \in 1..L : Slot(m, i) = Slot(m, i - 1) + Width(m, i) /\ Width(m, i) \in 1..2
  BY SlotStep
<1>2. first \in Nat /\ shift <= first
  BY <1>1
<1>3. m.params \in Seq(ParamType) /\ DOMAIN m.params = 1..L /\ m.static \in BOOLEAN
  BY DEF MethodShape
<1>6. m.static <=> t = 0
  BY <1>3
<1>7. \A i \in 1..L : Width(m, i) = Len(Slots(m.params[i]))
  BY DEF Width
<1> HIDE DEF L, t
<1>4. CASE shift = 0
  <2>1. ShiftParams(m, r, shift) = << >>
    BY <1>4 DEF ShiftParams
  <2>2. first - shift = first
    BY <1>2, <1>4
  <2>3. Carries(m, << >>, first, first) /\ << >> \in Seq(Instruction)
    BY NothingCarries DEF Piece
  <2> HIDE DEF first
  <2> QED BY <2>1, <2>2, <2>3 DEF first
<1>5. CASE shift # 0
  <2>1. ShiftParams(m, r, shift) = c
    <3> DEFINE given(i) == LET src == first + Slot(m, i - 1)
                           IN  Move(src - shift, src, Len(Slots(m.params[i])))
    <3>1. ASSUME NEW i \in 1..L
          PROVE  given(i) = param(i)
      <4>1. i - 1 \in 0..L
        BY <1>1
      <4>2. Slot(m, i - 1) \in Nat
        BY <1>1, <4>1
      <4>3. (first + Slot(m, i - 1)) - shift = first + Slot(m, i - 1) - shift
        BY <1>2, <4>2
      <4> HIDE DEF first
      <4> QED BY <1>7, <4>3
    <3>2. ShiftParams(m, r, shift) = this \o [i \in DOMAIN m.params |-> given(i)]
      BY <1>5 DEF ShiftParams
    <3> HIDE DEF given, param, this
    <3> QED BY <1>3, <3>1, <3>2
  <2>2. /\ this \in Seq(Instruction) /\ Len(this) = t
        /\ t = 1 => this[1] = Move(first - shift, first, 1)
    <3>1. Move(first - shift, first, 1) \in Instruction
      BY <1>2 DEF Move, Instruction
    <3> QED BY <1>1, <1>3, <1>6, <3>1
  <2>3. params \in Seq(Instruction) /\ Len(params) = L
    <3>1. \A i \in 1..L : param(i) \in Instruction
      <4> SUFFICES ASSUME NEW i \in 1..L
                   PROVE  param(i) \in Instruction
        OBVIOUS
      <4>1. i - 1 \in 0..L
        BY <1>1
      <4>2. Slot(m, i - 1) \in Nat /\ Width(m, i) \in Nat
        BY <1>1, <4>1
      <4>3. first + Slot(m, i - 1) \in Nat /\ first + Slot(m, i - 1) - shift \in Nat
        BY <1>2, <4>2
      <4> HIDE DEF first
      <4> QED BY <4>2, <4>3 DEF Move, Instruction
    <3> HIDE DEF param
    <3>2. params \in [1..L -> Instruction]
      BY <3>1
    <3> QED BY <1>1, <3>2, SeqDef
  <2> HIDE DEF this, param, first
  <2>4. /\ c \in Seq(Instruction) /\ Len(c) = t + L /\ DOMAIN c = 1..(t + L)
        /\ \A j \in 1..t : c[j] = this[j]
        /\ \A j \in (t + 1)..(t + L) : c[j] = param(j - t)
    <3>0. \A j \in (t + 1)..(t + L) : j - t \in 1..L
      BY <1>1
    <3>1. \A j \in (t + 1)..(t + L) : params[j - t] = param(j - t)
      BY <3>0
    <3> HIDE DEF params
    <3>2. /\ c \in Seq(Instruction) /\ Len(c) = t + L /\ DOMAIN c = 1..(t + L)
          /\ \A j \in 1..t : c[j] = this[j]
          /\ \A j \in (t + 1)..(t + L) : c[j] = params[j - t]
      <4>1. this \in Seq(Instruction) /\ params \in Seq(Instruction)
        BY <2>2, <2>3
      <4>2. /\ this \o params \in Seq(Instruction)
            /\ Len(this \o params) = Len(this) + Len(params)
            /\ DOMAIN (this \o params) = 1..(Len(this) + Len(params))
            /\ \A j \in 1..Len(this) : (this \o params)[j] = this[j]
            /\ \A j \in (Len(this) + 1)..(Len(this) + Len(params)) :
                   (this \o params)[j] = params[j - Len(this)]
        BY <4>1, Concat
      <4>3. Len(this) = t /\ Len(params) = L
        BY <2>2, <2>3
      <4> QED BY <4>2, <4>3
    <3> QED BY <3>1, <3>2
  <2> HIDE DEF c
  <2>5. cut \in [1..(Len(c) + 1) -> Nat]
    <3>1. \A j \in 1..(t + L + 1) : ~ (j <= t) => j - t - 1 \in 0..L
      BY <1>1
    <3> QED BY <1>1, <2>4, <3>1
  <2>6. cut[1] = 0 /\ cut[Len(c) + 1] = Ins(m)
    <3>1. 1 \in 1..(t + L + 1) /\ t + L + 1 \in 1..(t + L + 1) /\ ~ (t + L + 1 <= t)
          /\ t + L + 1 - t - 1 = L
      BY <1>1
    <3>2. t = 0 => 1 - t - 1 = 0 /\ ~ (1 <= t)
      OBVIOUS
    <3> QED BY <1>1, <2>4, <3>1, <3>2
  <2>7. ASSUME NEW j \in 1..Len(c)
        PROVE  /\ cut[j] <= cut[j + 1]
               /\ c[j] = Move(first + cut[j] - shift, first + cut[j], cut[j + 1] - cut[j])
    <3>1. j \in 1..(t + L) /\ j \in 1..(t + L + 1) /\ j + 1 \in 1..(t + L + 1)
      BY <1>1, <2>4
    <3>2. CASE j <= t
      <4>1. t = 1 /\ j = 1 /\ ~ (j + 1 <= t) /\ (j + 1) - t - 1 = 0
        BY <1>1, <3>1, <3>2
      <4>2. cut[j] = 0 /\ cut[j + 1] = 1
        BY <1>1, <3>1, <4>1
      <4>3. c[j] = Move(first - shift, first, 1)
        BY <2>2, <2>4, <4>1
      <4>4. first + 0 - shift = first - shift /\ first + 0 = first
        BY <1>2
      <4> HIDE DEF cut
      <4> QED BY <4>2, <4>3, <4>4
    <3>3. CASE ~ (j <= t)
      <4> DEFINE i == j - t
      <4>1. i \in 1..L /\ i - 1 = j - t - 1 /\ i = (j + 1) - t - 1 /\ ~ (j + 1 <= t)
            /\ j \in (t + 1)..(t + L)
        BY <1>1, <3>1, <3>3
      <4>2. cut[j] = Slot(m, i - 1) /\ cut[j + 1] = Slot(m, i)
        BY <3>1, <3>3, <4>1
      <4>3. c[j] = param(i)
        BY <2>4, <4>1
      <4>4. Slot(m, i) = Slot(m, i - 1) + Width(m, i) /\ Width(m, i) \in 1..2 /\ Slot(m, i - 1) \in Nat
        <5>1. i - 1 \in 0..L
          BY <1>1, <4>1
        <5> QED BY <1>1, <4>1, <5>1
      <4> HIDE DEF cut, i
      <4>5. cut[j] <= cut[j + 1] /\ cut[j + 1] - cut[j] = Width(m, i)
        BY <4>2, <4>4
      <4> QED BY <4>2, <4>3, <4>5 DEF param
    <3> QED BY <3>2, <3>3
  <2> HIDE DEF cut
  <2>8. Carries(m, c, first, first - shift)
    BY <1>1, <1>2, <2>4, <2>5, <2>6, <2>7, MovesCarry
  <2>9. \A j \in DOMAIN c : c[j].op = "move"
    BY <2>4, <2>7 DEF Move
  <2> QED BY <2>1, <2>4, <2>8, <2>9 DEF first
<1> QED BY <1>4, <1>5

LEMMA TokensOK ==
    /\ Undef \in Token /\ Junk \in Token /\ Local \in Token /\ ArrayRef \in Token
    /\ Object \in Token
    /\ Id \in Seq(Token) /\ Len(Id) = 2
    /\ \A s \in Nat : /\ Arg(s) \in Token /\ Mod(s) \in Token /\ Own(s) \in Token
                      /\ Box(s) \in Token /\ Number(s) \in Token
                      /\ << Number(s) >> \in Seq(Token)
<1>1. Undef \in Token /\ Junk \in Token /\ Local \in Token /\ ArrayRef \in Token
      /\ Object \in Token
  BY DEF Token, Undef, Junk, Local, ArrayRef, Object
<1>2. << "id", 0 >> \in Token /\ << "id", 1 >> \in Token
  BY DEF Token
<1>3. Id \in Seq(Token) /\ Len(Id) = 2
  BY <1>2 DEF Id
<1>4. \A s \in Nat : /\ Arg(s) \in Token /\ Mod(s) \in Token /\ Own(s) \in Token
                     /\ Box(s) \in Token /\ Number(s) \in Token
  BY DEF Token, Arg, Mod, Own, Box, Number
<1>5. \A t \in Token : << t >> \in Seq(Token)
  OBVIOUS
<1> QED BY <1>1, <1>3, <1>4, <1>5

\* ModifyParameter writes to v0, v1, v2, where no argument is, and puts what the
\* listener returns where the parameter came from.
LEMMA ModifyCarries ==
    ASSUME NEW m, MethodShape(m), NEW r \in Nat, r - Ins(m) >= 3,
           NEW idx \in Nat, idx < Len(m.params)
    PROVE  /\ Carries(m, ModifyCode(m, r, idx), r - Ins(m), r - Ins(m))
           /\ Piece(m, ModifyCode(m, r, idx))
<1> DEFINE first == r - Ins(m)
           n == Len(Slots(m.params[idx + 1]))
           src == first + Slot(m, idx)
           args == << 0, 1, 2 >> \o (IF m.static THEN << >> ELSE << first >>)
                       \o [i \in 1..n |-> src + i - 1]
           c == ModifyCode(m, r, idx)
           p == Block(m, first)
<1>1. /\ Slot(m, idx) \in Nat /\ Ins(m) \in Nat /\ first \in Nat /\ first >= 3 /\ src \in Nat
      /\ n \in 1..2
  <2>1. Len(m.params) \in Nat /\ idx \in 0..Len(m.params) /\ idx + 1 \in 1..Len(m.params)
        /\ Len(m.params) \in 0..Len(m.params)
    BY SlotStep
  <2>2. Slot(m, idx) \in Nat /\ Ins(m) \in Nat /\ Width(m, idx + 1) \in 1..2
    BY <2>1, SlotStep
  <2> QED BY <2>2 DEF Width
<1>2. args \in Seq(Nat)
  <2>1. [i \in 1..n |-> src + i - 1] \in Seq(Nat)
    <3>1. n \in Nat /\ src \in Nat
      BY <1>1
    <3> HIDE DEF n, src
    <3>2. \A i \in 1..n : src + i - 1 \in Nat
      BY <3>1
    <3>3. [i \in 1..n |-> src + i - 1] \in [1..n -> Nat]
      BY <3>2
    <3> QED BY <3>1, <3>3, SeqDef
  <2>2. (IF m.static THEN << >> ELSE << first >>) \in Seq(Nat) /\ << 0, 1, 2 >> \in Seq(Nat)
    BY <1>1
  <2> HIDE DEF n, src, first
  <2> QED BY <2>1, <2>2, ConcatProperties
<1>3. c = << Const(0, Id), Const(2, << Number(idx) >>),
             Invoke("modify", idx, args), MoveResult(src, n) >>
  BY DEF ModifyCode
<1>4. \A s \in DOMAIN p : p[s] = first + s /\ s \in 0..(Ins(m) - 1)
  BY DEF Block
<1> HIDE DEF args, src, n, c, p, first
<1>5. /\ c \in Seq(Instruction) /\ Len(c) = 4 /\ DOMAIN c = 1..4
      /\ c[1] = Const(0, Id) /\ c[2] = Const(2, << Number(idx) >>)
      /\ c[3] = Invoke("modify", idx, args) /\ c[4] = MoveResult(src, n)
  <2>1. Const(0, Id) \in Instruction /\ Const(2, << Number(idx) >>) \in Instruction
    BY TokensOK DEF Const, Instruction
  <2>2. Invoke("modify", idx, args) \in Instruction
    BY <1>2 DEF Invoke, Instruction
  <2>3. MoveResult(src, n) \in Instruction
    BY <1>1 DEF MoveResult, Instruction
  <2> QED BY <1>3, <2>1, <2>2, <2>3
<1>6. c[1].op # "move" /\ Passes(m, c, 1, p)
  <2>1. c[1].op = "const" /\ c[1].dst = 0 /\ Len(c[1].vals) = 2
    BY <1>5, TokensOK DEF Const
  <2> QED BY <1>1, <1>4, <2>1 DEF Passes
<1>7. c[2].op # "move" /\ Passes(m, c, 2, p)
  <2>1. c[2].op = "const" /\ c[2].dst = 2 /\ Len(c[2].vals) = 1
    BY <1>5 DEF Const
  <2> QED BY <1>1, <1>4, <2>1 DEF Passes
<1>8. c[3].op = "invoke" /\ c[3].hook = "modify" /\ c[3].idx = idx
  BY <1>5 DEF Invoke
<1>9. c[4].op = "move_result" /\ c[4].dst = src /\ c[4].n = n
  BY <1>5 DEF MoveResult
<1>10. Passes(m, c, 3, p)
  BY <1>5, <1>8, <1>9 DEF Passes
<1>11. Passes(m, c, 4, p)
  <2>1. ASSUME NEW s \in DOMAIN p
        PROVE  IF IsResultFor(m, c, 4, s) THEN p[s] = c[4].dst + s - Slot(m, c[3].idx)
               ELSE ~ (c[4].dst <= p[s] /\ p[s] < c[4].dst + c[4].n)
    <3>1. IsResultFor(m, c, 4, s) <=> Slot(m, idx) <= s /\ s < Slot(m, idx) + n
      BY <1>8, <1>9 DEF IsResultFor
    <3>2. p[s] = first + s /\ s \in Int
      BY <1>1, <1>4
    <3>3. src = first + Slot(m, idx)
      BY DEF src
    <3>4. src + s - Slot(m, idx) = first + s
      BY <1>1, <3>2, <3>3
    <3> DEFINE slot == Slot(m, idx)
    <3>6. slot \in Nat /\ first \in Nat /\ n \in Nat /\ src = first + slot
      BY <1>1, <3>3
    <3> HIDE DEF slot
    <3>7. src <= first + s /\ first + s < src + n => slot <= s /\ s < slot + n
      BY <3>2, <3>6
    <3>5. src <= first + s /\ first + s < src + n => Slot(m, idx) <= s /\ s < Slot(m, idx) + n
      BY <3>7 DEF slot
    <3> QED BY <1>8, <1>9, <3>1, <3>2, <3>4, <3>5
  <2> QED BY <1>8, <1>9, <2>1 DEF Passes, n
<1>12. \A j \in 1..Len(c) : c[j].op # "move" /\ Passes(m, c, j, p)
  <2>1. \A j \in 1..4 : j = 1 \/ j = 2 \/ j = 3 \/ j = 4
    OBVIOUS
  <2> QED BY <1>5, <1>6, <1>7, <1>8, <1>9, <1>10, <1>11, <2>1
<1>13. Carries(m, c, first, first)
  BY <1>5, <1>12, StillCarries DEF p
<1>14. Piece(m, c)
  <2>1. \A j \in 1..4 : j = 1 \/ j = 2 \/ j = 3 \/ j = 4
    OBVIOUS
  <2>2. c[1].op = "const" /\ c[2].op = "const"
    BY <1>5 DEF Const
  <2> QED BY <1>5, <1>8, <1>9, <2>1, <2>2 DEF Piece
<1> QED BY <1>13, <1>14 DEF c, first

\* What EntryHook inserts: nothing that the method or a listener's result moves.
Plain(m) ==
    {i \in Instruction :
        /\ i.op \in {"const", "new_array", "aput", "box", "invoke"}
        /\ i.op = "const" => i.dst + Len(i.vals) <= 3
        /\ i.op \in {"box", "new_array"} => i.dst <= 2
        /\ i.op = "invoke" => i.hook # "modify"}

LEMMA PlainCarries ==
    ASSUME NEW m, Ins(m) \in Nat, NEW c \in Seq(Plain(m)), NEW a \in Nat, a >= 3
    PROVE  Carries(m, c, a, a) /\ Piece(m, c)
<1>1. c \in Seq(Instruction) /\ Len(c) \in Nat /\ DOMAIN c = 1..Len(c)
      /\ \A j \in 1..Len(c) : c[j] \in Plain(m)
  <2>1. Plain(m) \subseteq Instruction
    BY DEF Plain
  <2> HIDE DEF Plain
  <2> QED BY <2>1
<1>2. ASSUME NEW j \in 1..Len(c)
      PROVE  c[j].op # "move" /\ Passes(m, c, j, Block(m, a))
  <2> DEFINE i == c[j]
  <2>1. /\ i.op \in {"const", "new_array", "aput", "box", "invoke"}
        /\ i.op = "const" => i.dst + Len(i.vals) <= 3
        /\ i.op \in {"box", "new_array"} => i.dst <= 2
        /\ i.op = "invoke" => i.hook # "modify"
        /\ i \in Instruction
    BY <1>1 DEF Plain
  <2> HIDE DEF i
  <2>2. /\ i.op = "const" => i.dst \in Nat /\ Len(i.vals) \in Nat
        /\ i.op \in {"box", "new_array"} => i.dst \in Nat
    BY <2>1, InstructionFields
  <2>3. \A s \in DOMAIN Block(m, a) : Block(m, a)[s] >= 3 /\ Block(m, a)[s] \in Nat
    BY DEF Block
  <2> QED BY <2>1, <2>2, <2>3 DEF Passes, i
<1>3. Carries(m, c, a, a)
  BY <1>1, <1>2, StillCarries
<1>4. Piece(m, c)
  BY <1>1 DEF Piece, Plain
<1> QED BY <1>3, <1>4

LEMMA ConstOK ==
    ASSUME NEW dst \in Nat, NEW vals \in Seq(Token)
    PROVE  /\ Const(dst, vals) \in Instruction
           /\ Const(dst, vals).op = "const"
           /\ Const(dst, vals).dst = dst
           /\ Const(dst, vals).vals = vals
BY DEF Const, Instruction

LEMMA EntryCarries ==
    ASSUME NEW m, MethodShape(m), NEW r \in Nat, r - Ins(m) >= 3
    PROVE  /\ Carries(m, EntryCode(m, r), r - Ins(m), r - Ins(m))
           /\ Piece(m, EntryCode(m, r))
<1> DEFINE first == r - Ins(m)
           L == Len(m.params)
           S == Plain(m)
           this == IF m.static THEN << >> ELSE StoreArgument("ref", first, 0)
           store(i) == StoreArgument(m.params[i], first + Slot(m, i - 1), i)
           stores == [i \in 1..L |-> store(i)]
           head == << Const(0, << Number(1 + L) >>), NewArray(2, 0) >>
           call == << Const(0, Id), Invoke("enter", 0, << 0, 1, 2 >>) >>
           junk == [i \in 1..3 |-> Const(i - 1, << Junk >>)]
<1>1. /\ L \in Nat /\ Ins(m) \in Nat /\ first \in Nat /\ first >= 3
      /\ \A i \in 0..L : Slot(m, i) \in Nat
  <2>1. L \in 0..L /\ L \in Nat
    BY SlotStep
  <2> QED BY <2>1, SlotStep
<1>2. DOMAIN m.params = 1..L
  BY DEF MethodShape
<1>3. \A t \in Token, dst \in 0..2 : Const(dst, << t >>) \in S
  <2> SUFFICES ASSUME NEW t \in Token, NEW dst \in 0..2
               PROVE  Const(dst, << t >>) \in S
    OBVIOUS
  <2>1. << t >> \in Seq(Token) /\ Len(<< t >>) = 1
    OBVIOUS
  <2>2. dst \in Nat /\ dst + 1 <= 3
    OBVIOUS
  <2> DEFINE v == << t >>
  <2>3. v \in Seq(Token) /\ Len(v) = 1
    BY <2>1
  <2> HIDE DEF v
  <2> DEFINE i == Const(dst, v)
  <2>5. i \in Instruction /\ i.op = "const" /\ i.dst = dst /\ i.vals = v
    BY <2>2, <2>3, ConstOK
  <2> HIDE DEF i
  <2>4. Const(dst, v) \in S
    <3>1. i \in S
      BY <2>2, <2>3, <2>5 DEF Plain
    <3> QED BY <3>1 DEF i
  <2> QED BY <2>4 DEF v
<1>4. ASSUME NEW type, NEW src \in Nat, NEW i \in Nat
      PROVE  StoreArgument(type, src, i) \in Seq(S)
  <2>1. Const(0, << Number(i) >>) \in S
    <3> HIDE DEF S
    <3> QED BY <1>3, TokensOK
  <2>2. \A k \in {0, 1}, x \in Nat : AputObject(x, 2, k) \in S
    BY DEF AputObject, Plain, Instruction
  <2>3. BoxValue(src, Len(Slots(type)), 1) \in S
    <3>1. Len(Slots(type)) \in Nat
      BY SlotsOK
    <3> QED BY <3>1 DEF BoxValue, Plain, Instruction
  <2> HIDE DEF S
  <2> QED BY <2>1, <2>2, <2>3 DEF StoreArgument
<1>5. head \in Seq(S)
  <2>1. Const(0, << Number(1 + L) >>) \in S
    <3>1. 1 + L \in Nat
      BY <1>1
    <3> HIDE DEF S, L
    <3> QED BY <1>3, <3>1, TokensOK
  <2>2. NewArray(2, 0) \in S
    BY DEF NewArray, Plain, Instruction
  <2> HIDE DEF S
  <2> QED BY <2>1, <2>2
<1>6. call \in Seq(S)
  <2>1. Const(0, Id) \in S
    <3>1. Id \in Seq(Token) /\ Len(Id) = 2
      BY TokensOK
    <3> DEFINE i == Const(0, Id)
    <3>2. i \in Instruction /\ i.op = "const" /\ i.dst = 0 /\ i.vals = Id
      BY <3>1, ConstOK
    <3> HIDE DEF i
    <3>3. i \in Plain(m)
      BY <3>1, <3>2, 0 + 2 <= 3 DEF Plain
    <3> QED BY <3>3 DEF i
  <2>2. Invoke("enter", 0, << 0, 1, 2 >>) \in S
    <3>1. << 0, 1, 2 >> \in Seq(Nat)
      OBVIOUS
    <3> QED BY <3>1 DEF Invoke, Plain, Instruction
  <2> HIDE DEF S
  <2> QED BY <2>1, <2>2
<1>7. junk \in Seq(S)
  <2>1. \A i \in 1..3 : Const(i - 1, << Junk >>) \in S
    <3>1. \A i \in 1..3 : i - 1 \in 0..2
      OBVIOUS
    <3> HIDE DEF S
    <3> QED BY <1>3, <3>1, TokensOK
  <2> HIDE DEF S
  <2>2. junk \in [1..3 -> S]
    BY <2>1
  <2> QED BY <2>2, SeqDef
<1>8. this \in Seq(S)
  <2>1. << >> \in Seq(S)
    OBVIOUS
  <2> HIDE DEF S, first
  <2>2. StoreArgument("ref", first, 0) \in Seq(S)
    BY <1>1, <1>4
  <2> QED BY <2>1, <2>2
<1>9. FlattenSeq(stores) \in Seq(S)
  <2>1. \A i \in 1..L : store(i) \in Seq(S)
    <3> SUFFICES ASSUME NEW i \in 1..L
                 PROVE  store(i) \in Seq(S)
      OBVIOUS
    <3>1. i - 1 \in 0..L /\ i \in Nat
      BY <1>1
    <3>2. first + Slot(m, i - 1) \in Nat
      <4>1. Slot(m, i - 1) \in Nat /\ first \in Nat
        BY <1>1, <3>1
      <4> QED BY <4>1
    <3> HIDE DEF S, first
    <3> QED BY <1>4, <3>1, <3>2
  <2> HIDE DEF S, store
  <2>2. stores \in [1..L -> Seq(S)]
    BY <2>1
  <2> HIDE DEF stores, L
  <2> QED BY <1>1, <2>2, FlattenType
<1>10. EntryCode(m, r) = head \o this \o FlattenSeq(stores) \o call \o junk
  <2>1. [i \in DOMAIN m.params |-> StoreArgument(m.params[i], first + Slot(m, i - 1), i)] = stores
    BY <1>2
  <2> HIDE DEF store
  <2> QED BY <2>1 DEF EntryCode
<1> HIDE DEF head, this, stores, call, junk, S
<1>11. EntryCode(m, r) \in Seq(S)
  BY <1>5, <1>6, <1>7, <1>8, <1>9, <1>10
<1> QED BY <1>1, <1>11, PlainCarries DEF S

----------------------------------------------------------------------------
(* Inserting a piece into the instruction list.                            *)

\* d is c with s after its first i instructions.
Inserted(c, i, s, d) ==
    /\ c \in Seq(Instruction) /\ s \in Seq(Instruction) /\ d \in Seq(Instruction)
    /\ i \in 0..(Len(c) - 1)
    /\ Len(d) = Len(c) + Len(s)
    /\ \A j \in 1..i : d[j] = c[j]
    /\ \A j \in 1..Len(s) : d[j + i] = s[j]
    /\ \A j \in (i + 1)..Len(c) : d[j + Len(s)] = c[j]

\* Where instruction j of c is in d, and where each instruction of d is from.
LEMMA InsertedFrom ==
    ASSUME NEW c, NEW i, NEW s, NEW d, Inserted(c, i, s, d)
    PROVE  /\ Len(c) \in Nat /\ Len(s) \in Nat /\ i \in Nat /\ i < Len(c)
           /\ DOMAIN c = 1..Len(c) /\ DOMAIN s = 1..Len(s) /\ DOMAIN d = 1..(Len(c) + Len(s))
           /\ \A j \in DOMAIN c : d[IF j <= i THEN j ELSE j + Len(s)] = c[j]
           /\ \A h \in DOMAIN d :
                 \/ h <= i /\ h \in DOMAIN c /\ d[h] = c[h]
                 \/ i < h /\ h <= i + Len(s) /\ h - i \in DOMAIN s /\ d[h] = s[h - i]
                 \/ h > i + Len(s) /\ h - Len(s) \in DOMAIN c /\ d[h] = c[h - Len(s)]
<1> DEFINE L == Len(c)
           N == Len(s)
<1>1. /\ L \in Nat /\ N \in Nat /\ i \in Nat /\ i < L
      /\ DOMAIN c = 1..L /\ DOMAIN s = 1..N /\ DOMAIN d = 1..(L + N)
  <2>1. L \in Nat /\ N \in Nat /\ DOMAIN c = 1..L /\ DOMAIN s = 1..N
        /\ DOMAIN d = 1..Len(d) /\ Len(d) = L + N /\ i \in 0..(L - 1)
    BY DEF Inserted
  <2> QED BY <2>1
<1>2. /\ \A j \in 1..i : d[j] = c[j]
      /\ \A j \in 1..N : d[j + i] = s[j]
      /\ \A j \in (i + 1)..L : d[j + N] = c[j]
  BY DEF Inserted
<1> HIDE DEF L, N
<1>3. ASSUME NEW j \in 1..L
      PROVE  d[IF j <= i THEN j ELSE j + N] = c[j]
  <2>1. CASE j <= i
    BY <1>1, <1>2, <2>1
  <2>2. CASE ~ (j <= i)
    <3>1. j \in (i + 1)..L
      BY <1>1, <2>2
    <3> QED BY <1>2, <2>2, <3>1
  <2> QED BY <2>1, <2>2
<1>4. ASSUME NEW h \in 1..(L + N)
      PROVE  \/ h <= i /\ h \in 1..L /\ d[h] = c[h]
             \/ i < h /\ h <= i + N /\ h - i \in 1..N /\ d[h] = s[h - i]
             \/ h > i + N /\ h - N \in 1..L /\ d[h] = c[h - N]
  <2>1. CASE h <= i
    BY <1>1, <1>2, <2>1
  <2>2. CASE i < h /\ h <= i + N
    <3>1. h - i \in 1..N /\ (h - i) + i = h
      BY <1>1, <2>2
    <3> QED BY <1>2, <2>2, <3>1
  <2>3. CASE h > i + N
    <3>1. h - N \in (i + 1)..L /\ h - N \in 1..L /\ (h - N) + N = h
      BY <1>1, <2>3
    <3> QED BY <1>2, <2>3, <3>1
  <2> QED BY <1>1, <2>1, <2>2, <2>3
<1> QED BY <1>1, <1>3, <1>4 DEF L, N

LEMMA ConcatInserted ==
    ASSUME NEW c \in Seq(Instruction), c # << >>, NEW s \in Seq(Instruction)
    PROVE  Inserted(c, 0, s, s \o c)
<1>1. /\ s \o c \in Seq(Instruction) /\ Len(s \o c) = Len(s) + Len(c)
      /\ \A j \in 1..Len(s) : (s \o c)[j] = s[j]
      /\ \A j \in (Len(s) + 1)..(Len(s) + Len(c)) : (s \o c)[j] = c[j - Len(s)]
  BY Concat
<1>2. Len(c) \in Nat /\ Len(s) \in Nat /\ Len(c) # 0
  OBVIOUS
<1> DEFINE sc == s \o c
<1> HIDE DEF sc
<1>3. ASSUME NEW j \in 1..Len(c)
      PROVE  sc[j + Len(s)] = c[j]
  <2>1. j + Len(s) \in (Len(s) + 1)..(Len(s) + Len(c)) /\ (j + Len(s)) - Len(s) = j
    BY <1>2
  <2> QED BY <1>1, <2>1 DEF sc
<1>4. sc \in Seq(Instruction) /\ Len(sc) = Len(c) + Len(s) /\ \A j \in 1..Len(s) : sc[j + 0] = s[j]
  BY <1>1, <1>2 DEF sc
<1>5. 0 \in 0..(Len(c) - 1) /\ \A j \in (0 + 1)..Len(c) : j \in 1..Len(c)
  BY <1>2
<1>6. Inserted(c, 0, s, sc)
  BY <1>3, <1>4, <1>5 DEF Inserted
<1> QED BY <1>6 DEF sc

\* A piece is inserted before the method's own code, or before a return: the
\* instruction list keeps its shape.
LEMMA InsertedSkeleton ==
    ASSUME NEW m, NEW c, NEW i, NEW s, NEW d, NEW b,
           Inserted(c, i, s, d), Piece(m, s), Skeleton(m, c, b)
    PROVE  Skeleton(m, d, IF b <= i THEN b ELSE b + Len(s))
<1> DEFINE L == Len(c)
           N == Len(s)
           up(j) == IF j <= i THEN j ELSE j + N
           B == up(b)
<1>1. /\ L \in Nat /\ N \in Nat /\ i \in Nat /\ i < L
      /\ DOMAIN c = 1..L /\ DOMAIN s = 1..N /\ DOMAIN d = 1..(L + N)
      /\ \A j \in 1..L : d[up(j)] = c[j]
      /\ \A h \in 1..(L + N) :
            \/ h <= i /\ h \in 1..L /\ d[h] = c[h]
            \/ i < h /\ h <= i + N /\ h - i \in 1..N /\ d[h] = s[h - i]
            \/ h > i + N /\ h - N \in 1..L /\ d[h] = c[h - N]
  <2>1. /\ L \in Nat /\ N \in Nat /\ i \in Nat /\ i < L
        /\ DOMAIN c = 1..L /\ DOMAIN s = 1..N /\ DOMAIN d = 1..(L + N)
    BY InsertedFrom
  <2>0. /\ \A j \in DOMAIN c : d[IF j <= i THEN j ELSE j + Len(s)] = c[j]
        /\ \A h \in DOMAIN d :
              \/ h <= i /\ h \in DOMAIN c /\ d[h] = c[h]
              \/ i < h /\ h <= i + Len(s) /\ h - i \in DOMAIN s /\ d[h] = s[h - i]
              \/ h > i + Len(s) /\ h - Len(s) \in DOMAIN c /\ d[h] = c[h - Len(s)]
    BY InsertedFrom
  <2> HIDE DEF L
  <2>2. \A j \in 1..L : d[up(j)] = c[j]
    BY <2>0, <2>1
  <2>3. \A h \in 1..(L + N) :
            \/ h <= i /\ h \in 1..L /\ d[h] = c[h]
            \/ i < h /\ h <= i + N /\ h - i \in 1..N /\ d[h] = s[h - i]
            \/ h > i + N /\ h - N \in 1..L /\ d[h] = c[h - N]
    <3> SUFFICES ASSUME NEW h \in 1..(L + N)
                 PROVE  \/ h <= i /\ h \in 1..L /\ d[h] = c[h]
                        \/ i < h /\ h <= i + N /\ h - i \in 1..N /\ d[h] = s[h - i]
                        \/ h > i + N /\ h - N \in 1..L /\ d[h] = c[h - N]
      OBVIOUS
    <3>1. h \in DOMAIN d
      BY <2>1
    <3> QED BY <2>0, <2>1, <3>1
  <2> QED BY <2>1, <2>2, <2>3
<1>2. Len(d) = L + N
  BY DEF Inserted
<1>3. \A j \in 1..N : /\ s[j].op \notin {"body", "label", "return"}
                      /\ s[j].op = "invoke" /\ s[j].hook = "modify" => s[j].idx < Len(m.params)
  BY <1>1 DEF Piece
<1>4. /\ b \in 1..L /\ c[b] = Body
      /\ \A j \in 1..L : c[j].op = "body" => j = b
      /\ \A j \in 1..L : c[j].op = "return" => j > b
      /\ \A k \in DOMAIN m.rets : \E j \in 1..L : c[j] = Return(k)
      /\ c[L].op \in {"body", "return"}
      /\ m.loop <=> \E j \in 1..L : c[j].op = "label"
      /\ \A x, y \in 1..L : c[x].op = "label" /\ c[y].op = "label" => x = y /\ x < b
      /\ \A j \in 1..L : c[j].op = "invoke" /\ c[j].hook = "modify" => c[j].idx < Len(m.params)
  BY <1>1, ZenonT(40) DEF Skeleton
<1> HIDE DEF L, N
<1>5. /\ \A j \in 1..L : up(j) \in 1..(L + N)
      /\ \A x, y \in 1..L : x < y => up(x) < up(y)
  BY <1>1
<1>6. \A h \in 1..(L + N) :
          \/ \E j \in 1..L : h = up(j) /\ d[h] = c[j]
          \/ \E j \in 1..N : d[h] = s[j]
  <2> SUFFICES ASSUME NEW h \in 1..(L + N)
               PROVE  \/ \E j \in 1..L : h = up(j) /\ d[h] = c[j]
                      \/ \E j \in 1..N : d[h] = s[j]
    OBVIOUS
  <2>1. CASE h <= i /\ h \in 1..L /\ d[h] = c[h]
    <3>1. h = up(h)
      BY <2>1
    <3> HIDE DEF up
    <3> QED BY <2>1, <3>1
  <2>2. CASE h - i \in 1..N /\ d[h] = s[h - i]
    BY <2>2
  <2>3. CASE h > i + N /\ h - N \in 1..L /\ d[h] = c[h - N]
    <3>1. h = up(h - N)
      BY <1>1, <2>3
    <3> HIDE DEF up
    <3> QED BY <2>3, <3>1
  <2> QED BY <1>1, <2>1, <2>2, <2>3
<1>7. up(L) = L + N
  BY <1>1
<1> HIDE DEF up
<1>8. B \in 1..(L + N) /\ d[B] = Body
  BY <1>1, <1>4, <1>5
<1>9. \A h \in 1..(L + N) : d[h].op = "body" => h = B
  BY <1>3, <1>4, <1>6
<1>10. \A h \in 1..(L + N) : d[h].op = "return" => h > B
  BY <1>3, <1>4, <1>5, <1>6
<1>11. \A k \in DOMAIN m.rets : \E h \in 1..(L + N) : d[h] = Return(k)
  BY <1>1, <1>4, <1>5
<1>12. d[Len(d)].op \in {"body", "return"}
  <2>1. L \in 1..L
    BY <1>1
  <2> QED BY <1>1, <1>2, <1>4, <1>7, <2>1
<1>13. m.loop <=> \E h \in 1..(L + N) : d[h].op = "label"
  <2>1. ASSUME m.loop
        PROVE  \E h \in 1..(L + N) : d[h].op = "label"
    <3>1. PICK j \in 1..L : c[j].op = "label"
      BY <1>4, <2>1
    <3>2. up(j) \in 1..(L + N)
      BY <1>5
    <3>3. d[up(j)] = c[j]
      BY <1>1, <1>5
    <3> HIDE DEF up
    <3> QED BY <3>1, <3>2, <3>3
  <2>2. ASSUME NEW h \in 1..(L + N), d[h].op = "label"
        PROVE  m.loop
    <3>1. PICK j \in 1..L : d[h] = c[j]
      BY <1>3, <1>6, <2>2
    <3> QED BY <1>4, <2>2, <3>1
  <2> QED BY <2>1, <2>2
<1>14. \A x, y \in 1..(L + N) : d[x].op = "label" /\ d[y].op = "label" => x = y /\ x < B
  <2> SUFFICES ASSUME NEW x \in 1..(L + N), NEW y \in 1..(L + N),
                      d[x].op = "label", d[y].op = "label"
               PROVE  x = y /\ x < B
    OBVIOUS
  <2>1. PICK j \in 1..L : x = up(j) /\ d[x] = c[j]
    BY <1>3, <1>6
  <2>2. PICK k \in 1..L : y = up(k) /\ d[y] = c[k]
    BY <1>3, <1>6
  <2>3. j = k /\ j < b
    BY <1>4, <2>1, <2>2
  <2> QED BY <1>4, <1>5, <2>1, <2>2, <2>3
<1>15. \A h \in 1..(L + N) :
          d[h].op = "invoke" /\ d[h].hook = "modify" => d[h].idx < Len(m.params)
  BY <1>3, <1>4, <1>6
<1>16. DOMAIN d = 1..(L + N)
  BY <1>1
<1> HIDE DEF B
<1>17. Skeleton(m, d, B)
  BY <1>8, <1>9, <1>10, <1>11, <1>12, <1>13, <1>14, <1>15, <1>16 DEF Skeleton
<1> QED BY <1>17 DEF B, up, N

\* Insert before the k-th return: after the method's own code.
LEMMA BeforeReturnInserted ==
    ASSUME NEW m, NEW c \in Seq(Instruction), NEW b, Skeleton(m, c, b),
           NEW k \in DOMAIN m.rets, NEW s \in Seq(Instruction)
    PROVE  \E i : i >= b /\ c[i + 1] = Return(k) /\ Inserted(c, i, s, BeforeReturn(c, k, s))
<1> DEFINE L == Len(c)
           N == Len(s)
           p == CHOOSE j \in DOMAIN c : c[j] = Return(k)
           head == SubSeq(c, 1, p - 1)
           tail == SubSeq(c, p, L)
           d == BeforeReturn(c, k, s)
<1>1. L \in Nat /\ N \in Nat /\ DOMAIN c = 1..L
  OBVIOUS
<1>2. p \in 1..L /\ c[p] = Return(k)
  <2>1. \E j \in DOMAIN c : c[j] = Return(k)
    BY DEF Skeleton
  <2>2. p \in DOMAIN c /\ c[p] = Return(k)
    BY <2>1
  <2> HIDE DEF p
  <2> QED BY <1>1, <2>2
<1>3. c[p].op = "return"
  BY <1>2 DEF Return
<1>4. p > b /\ b \in 1..L
  BY <1>1, <1>2, <1>3 DEF Skeleton
<1>5. d = head \o s \o tail
  BY DEF BeforeReturn
<1> HIDE DEF L, N, p
<1>6. /\ head \in Seq(Instruction) /\ Len(head) = p - 1
      /\ \A j \in 1..(p - 1) : head[j] = c[j]
  BY <1>1, <1>2 DEF L
<1>7. /\ tail \in Seq(Instruction) /\ Len(tail) = L - p + 1
      /\ \A j \in 1..(L - p + 1) : tail[j] = c[p + j - 1]
  BY <1>1, <1>2 DEF L
<1> HIDE DEF head, tail, d
<1> DEFINE hs == head \o s
<1>8. /\ hs \in Seq(Instruction) /\ Len(hs) = p - 1 + N
      /\ \A j \in 1..(p - 1) : hs[j] = c[j]
      /\ \A j \in 1..N : hs[j + (p - 1)] = s[j]
  <2>1. /\ hs \in Seq(Instruction) /\ Len(hs) = Len(head) + N
        /\ \A j \in 1..Len(head) : hs[j] = head[j]
        /\ \A j \in (Len(head) + 1)..(Len(head) + N) : hs[j] = s[j - Len(head)]
    BY <1>6, Concat DEF N
  <2>2. ASSUME NEW j \in 1..N
        PROVE  hs[j + (p - 1)] = s[j]
    <3>1. j + (p - 1) \in ((p - 1) + 1)..((p - 1) + N) /\ (j + (p - 1)) - (p - 1) = j
      BY <1>1, <1>2
    <3> HIDE DEF hs
    <3> QED BY <1>6, <2>1, <3>1
  <2> HIDE DEF hs
  <2> QED BY <1>6, <2>1, <2>2
<1> HIDE DEF hs
<1>9. /\ d \in Seq(Instruction) /\ Len(d) = Len(hs) + Len(tail)
      /\ \A j \in 1..Len(hs) : d[j] = hs[j]
      /\ \A j \in (Len(hs) + 1)..(Len(hs) + Len(tail)) : d[j] = tail[j - Len(hs)]
  <2>1. d = hs \o tail
    BY <1>5 DEF hs
  <2>2. hs \in Seq(Instruction) /\ tail \in Seq(Instruction)
    BY <1>7, <1>8
  <2> QED BY <2>1, <2>2, Concat
<1>10. Len(d) = L + N
  BY <1>1, <1>2, <1>7, <1>8, <1>9
<1>11. \A j \in 1..(p - 1) : d[j] = c[j]
  <2>1. \A j \in 1..(p - 1) : j \in 1..(p - 1 + N)
    BY <1>1, <1>2
  <2> QED BY <1>8, <1>9, <2>1
<1>12. \A j \in 1..N : d[j + (p - 1)] = s[j]
  <2>1. \A j \in 1..N : j + (p - 1) \in 1..(p - 1 + N)
    BY <1>1, <1>2
  <2> QED BY <1>8, <1>9, <2>1
<1>13. ASSUME NEW j \in p..L
       PROVE  d[j + N] = c[j]
  <2>1. /\ j + N \in (p - 1 + N + 1)..(p - 1 + N + (L - p + 1))
        /\ (j + N) - (p - 1 + N) = j - p + 1
        /\ j - p + 1 \in 1..(L - p + 1) /\ p + (j - p + 1) - 1 = j
    BY <1>1, <1>2
  <2> QED BY <1>7, <1>8, <1>9, <2>1
<1>14. p - 1 \in 0..(L - 1) /\ (p - 1) + 1 = p /\ p - 1 >= b
  BY <1>1, <1>2, <1>4
<1>15. Inserted(c, p - 1, s, d)
  BY <1>9, <1>10, <1>11, <1>12, <1>13, <1>14 DEF Inserted, L, N
<1> QED BY <1>2, <1>14, <1>15 DEF d

\* Insert before the first bytecode.
LEMMA AtStartInserted ==
    ASSUME NEW m, NEW c \in Seq(Instruction), NEW b, Skeleton(m, c, b),
           NEW s \in Seq(Instruction)
    PROVE  /\ \E i : Inserted(c, i, s, AtStart(c, s))
           /\ ~m.loop => AtStart(c, s) = s \o c
<1>1. Len(c) \in Nat /\ DOMAIN c = 1..Len(c) /\ c # << >> /\ b \in 1..Len(c) /\ c[b] = Body
  BY DEF Skeleton
<1>2. 1 \in 1..Len(c) /\ Head(c) = c[1]
  BY <1>1
<1>3. CASE Head(c) = Label
  <2> DEFINE tail == Tail(c)
             one == << Label >>
             ls == one \o s
             d == ls \o tail
             L == Len(c)
             N == Len(s)
  <2>1. m.loop
    <3>1. c[1] = Label /\ 1 \in DOMAIN c
      BY <1>1, <1>2, <1>3
    <3>2. c[1].op = "label"
      BY <3>1 DEF Label
    <3>3. m.loop <=> \E j \in DOMAIN c : c[j].op = "label"
      BY DEF Skeleton
    <3> QED BY <3>1, <3>2, <3>3
  <2>2. /\ tail \in Seq(Instruction) /\ Len(tail) = L - 1
        /\ \A j \in 1..(L - 1) : tail[j] = c[j + 1]
    BY <1>1
  <2>3. one \in Seq(Instruction) /\ Len(one) = 1 /\ one[1] = c[1]
    <3>1. Label \in Instruction
      BY DEF Label, Instruction
    <3> QED BY <1>2, <1>3, <3>1
  <2>4. L \in Nat /\ N \in Nat /\ L > 0 /\ L > 1
    <3>1. Body # Label
      <4>1. Body.op = "body" /\ Label.op = "label"
        BY DEF Body, Label
      <4> QED BY <4>1
    <3> QED BY <1>1, <1>2, <1>3, <3>1
  <2> HIDE DEF tail, one, L, N
  <2>5. /\ ls \in Seq(Instruction) /\ Len(ls) = 1 + N
        /\ ls[1] = c[1] /\ \A j \in 1..N : ls[j + 1] = s[j]
    <3>1. /\ ls \in Seq(Instruction) /\ Len(ls) = 1 + N
          /\ \A j \in 1..1 : ls[j] = one[j]
          /\ \A j \in 2..(1 + N) : ls[j] = s[j - 1]
      <4>1. s \in Seq(Instruction)
        OBVIOUS
      <4>2. /\ ls \in Seq(Instruction) /\ Len(ls) = Len(one) + Len(s)
            /\ \A j \in 1..Len(one) : ls[j] = one[j]
            /\ \A j \in (Len(one) + 1)..(Len(one) + Len(s)) : ls[j] = s[j - Len(one)]
        BY <2>3, <4>1, Concat, ZenonT(40)
      <4> HIDE DEF ls
      <4> QED BY <2>3, <2>4, <4>2 DEF N
    <3>2. \A j \in 1..N : j + 1 \in 2..(1 + N) /\ (j + 1) - 1 = j
      BY <2>4
    <3> HIDE DEF ls
    <3> QED BY <2>3, <3>1, <3>2
  <2> HIDE DEF ls
  <2>6. /\ d \in Seq(Instruction) /\ Len(d) = (1 + N) + (L - 1)
        /\ \A j \in 1..(1 + N) : d[j] = ls[j]
        /\ \A j \in (1 + N + 1)..(1 + N + (L - 1)) : d[j] = tail[j - (1 + N)]
    <3>1. /\ d \in Seq(Instruction) /\ Len(d) = Len(ls) + Len(tail)
          /\ \A j \in 1..Len(ls) : d[j] = ls[j]
          /\ \A j \in (Len(ls) + 1)..(Len(ls) + Len(tail)) : d[j] = tail[j - Len(ls)]
      <4>1. ls \in Seq(Instruction) /\ tail \in Seq(Instruction)
        BY <2>2, <2>5
      <4> QED BY <4>1, Concat
    <3> HIDE DEF d
    <3>2. Len(ls) = 1 + N /\ Len(tail) = L - 1
      BY <2>2, <2>5
    <3> QED BY <3>1, <3>2
  <2> HIDE DEF d
  <2>7. Len(d) = L + N /\ 1 \in 0..(L - 1)
    BY <2>4, <2>6
  <2>8. \A j \in 1..1 : d[j] = c[j]
    BY <2>4, <2>5, <2>6
  <2>9. \A j \in 1..N : d[j + 1] = s[j]
    <3>1. \A j \in 1..N : j + 1 \in 1..(1 + N)
      BY <2>4
    <3> QED BY <2>5, <2>6, <3>1
  <2>10. ASSUME NEW j \in 2..L
         PROVE  d[j + N] = c[j]
    <3>1. /\ j + N \in (1 + N + 1)..(1 + N + (L - 1))
          /\ (j + N) - (1 + N) = j - 1
          /\ j - 1 \in 1..(L - 1) /\ (j - 1) + 1 = j
      BY <2>4
    <3> QED BY <2>2, <2>6, <3>1
  <2>11. Inserted(c, 1, s, d)
    BY <2>6, <2>7, <2>8, <2>9, <2>10 DEF Inserted, L, N
  <2>12. AtStart(c, s) = d
    BY <1>3 DEF AtStart, d, ls, one, tail
  <2> QED BY <2>1, <2>11, <2>12
<1>4. CASE Head(c) # Label
  <2>1. AtStart(c, s) = s \o c
    BY <1>4 DEF AtStart
  <2>2. Inserted(c, 0, s, s \o c)
    BY <1>1, ConcatInserted
  <2> QED BY <2>1, <2>2
<1> QED BY <1>3, <1>4

----------------------------------------------------------------------------
(* Where the arguments are.                                                *)

IsPlaces(m, c, r, b, p) ==
    p = [j \in 1..b |-> IF j = 1 THEN Block(m, r - Ins(m)) ELSE Moved(c[j - 1], p[j - 1])]

LEMMA PlacesExist ==
    ASSUME NEW m, NEW c, NEW r, NEW b \in Nat
    PROVE  \E p : IsPlaces(m, c, r, b, p)
<1> DEFINE T == {n \in Nat : ~ \E p : IsPlaces(m, c, r, n, p)}
<1> SUFFICES ASSUME T # {}
             PROVE  FALSE
  OBVIOUS
<1>1. PICK n \in T : \A x \in T : n <= x
  BY Least
<1>2. CASE n = 0
  <2>1. IsPlaces(m, c, r, 0, [j \in 1..0 |-> << >>])
    BY DEF IsPlaces
  <2> QED BY <1>1, <1>2, <2>1
<1>3. CASE n # 0
  <2>1. n - 1 \in Nat /\ n \in Nat /\ n - 1 < n
    BY <1>1, <1>3
  <2>2. PICK p : IsPlaces(m, c, r, n - 1, p)
    BY <1>1, <2>1
  <2> DEFINE body(h, j) == IF j = 1 THEN Block(m, r - Ins(m)) ELSE Moved(c[j - 1], h[j - 1])
             last == body(p, n)
             q == [j \in 1..n |-> IF j = n THEN last ELSE p[j]]
  <2>3. \A j \in 1..(n - 1) : p[j] = body(p, j)
    BY <2>2 DEF IsPlaces
  <2>4. ASSUME NEW j \in 1..n
        PROVE  q[j] = body(q, j)
    <3>1. CASE j = n
      <4>1. q[n] = last
        BY <2>1, <3>1
      <4>2. n # 1 => q[n - 1] = p[n - 1]
        BY <2>1, <3>1
      <4> QED BY <3>1, <4>1, <4>2
    <3>2. CASE j # n
      <4>1. j \in 1..(n - 1) /\ q[j] = p[j]
        BY <2>1, <3>2
      <4>2. j # 1 => q[j - 1] = p[j - 1]
        BY <2>1, <3>2
      <4> QED BY <2>3, <4>1, <4>2
    <3> QED BY <3>1, <3>2
  <2>5. q = [j \in 1..n |-> body(q, j)]
    <3>1. q = [j \in 1..n |-> q[j]]
      OBVIOUS
    <3> HIDE DEF q, body
    <3> QED BY <2>4, <3>1
  <2>6. IsPlaces(m, c, r, n, q)
    BY <2>5 DEF IsPlaces
  <2> QED BY <1>1, <2>6
<1> QED BY <1>2, <1>3

\* p follows the arguments from the last of r registers to before instruction b.
Chain(m, c, r, b, p) ==
    /\ p[1] = Block(m, r - Ins(m))
    /\ \A j \in 1..(b - 1) : p[j + 1] = Moved(c[j], p[j])

LEMMA PlacesChain ==
    ASSUME NEW m, NEW c, NEW r, NEW b \in Nat, b # 0
    PROVE  Chain(m, c, r, b, Places(m, c, r, b))
<1> DEFINE p == CHOOSE p : IsPlaces(m, c, r, b, p)
<1>1. Places(m, c, r, b) = p
  BY DEF Places, IsPlaces
<1>2. IsPlaces(m, c, r, b, p)
  BY PlacesExist
<1> HIDE DEF p
<1>3. \A j \in 1..b :
          p[j] = IF j = 1 THEN Block(m, r - Ins(m)) ELSE Moved(c[j - 1], p[j - 1])
  BY <1>2 DEF IsPlaces
<1>4. p[1] = Block(m, r - Ins(m))
  BY <1>3
<1>5. ASSUME NEW j \in 1..(b - 1)
      PROVE  p[j + 1] = Moved(c[j], p[j])
  <2>1. j + 1 \in 1..b /\ j + 1 # 1 /\ (j + 1) - 1 = j
    OBVIOUS
  <2> QED BY <1>3, <2>1
<1> QED BY <1>1, <1>4, <1>5 DEF Chain

LEMMA ChainUnique ==
    ASSUME NEW m, NEW c, NEW r, NEW b \in Nat, NEW p, NEW q,
           Chain(m, c, r, b, p), Chain(m, c, r, b, q)
    PROVE  \A j \in 1..b : p[j] = q[j]
<1> DEFINE T == {j \in 1..b : p[j] # q[j]}
<1> SUFFICES ASSUME T # {}
             PROVE  FALSE
  OBVIOUS
<1>1. T \in SUBSET Nat
  OBVIOUS
<1>2. PICK j \in T : \A x \in T : j <= x
  <2> HIDE DEF T
  <2> QED BY <1>1, Least
<1>3. j \in 1..b /\ p[j] # q[j]
  BY <1>2
<1>4. j # 1
  BY <1>3 DEF Chain
<1>5. j - 1 \in 1..(b - 1) /\ j - 1 \in 1..b /\ (j - 1) + 1 = j /\ ~ (j <= j - 1)
  BY <1>3, <1>4
<1>6. p[j - 1] = q[j - 1]
  BY <1>2, <1>5
<1>7. p[j] = Moved(c[j - 1], p[j - 1]) /\ q[j] = Moved(c[j - 1], q[j - 1])
  BY <1>5 DEF Chain
<1> QED BY <1>3, <1>6, <1>7

\* p takes the arguments to where they were compiled to be, over instructions
\* that overwrite none.
Leads(m, c, r, b, p) ==
    /\ Chain(m, c, r, b, p)
    /\ p[b] = Block(m, ThisIndex(m))
    /\ \A j \in 1..(b - 1) : Passes(m, c, j, p[j])

LoopFirst(m, c, b) ==
    m.loop => /\ b > 1 /\ c[b - 1] = Label
              /\ \A j \in 1..(b - 1) : c[j].op \in {"move", "label"}

LEMMA WovenLeads ==
    ASSUME NEW m, NEW c, NEW r, NEW b \in Nat, b # 0, Woven(m, c, r, b)
    PROVE  Leads(m, c, r, b, Places(m, c, r, b)) /\ LoopFirst(m, c, b)
BY PlacesChain DEF Woven, Leads, LoopFirst

LEMMA LeadsWoven ==
    ASSUME NEW m, NEW c, NEW r, NEW b \in Nat, b # 0, NEW p,
           Leads(m, c, r, b, p), LoopFirst(m, c, b)
    PROVE  Woven(m, c, r, b)
<1>1. Chain(m, c, r, b, Places(m, c, r, b)) /\ Chain(m, c, r, b, p)
  BY PlacesChain DEF Leads
<1>2. \A j \in 1..b : Places(m, c, r, b)[j] = p[j]
  BY <1>1, ChainUnique
<1>3. b \in 1..b /\ \A j \in 1..(b - 1) : j \in 1..b
  OBVIOUS
<1> QED BY <1>2, <1>3 DEF Woven, Leads, LoopFirst

\* A piece before everything, for arguments that arrive elsewhere.
LEMMA WovenBefore ==
    ASSUME NEW m, NEW c, NEW s, NEW d, NEW r, NEW q, NEW b \in Nat, b # 0, b <= Len(c),
           Inserted(c, 0, s, d), Woven(m, c, r, b),
           Carries(m, s, q - Ins(m), r - Ins(m)),
           m.loop => \A j \in DOMAIN s : s[j].op = "move"
    PROVE  Woven(m, d, q, b + Len(s))
<1> DEFINE N == Len(s)
           B == b + N
           p == Places(m, c, r, b)
<1>1. /\ Len(c) \in Nat /\ N \in Nat /\ DOMAIN c = 1..Len(c) /\ DOMAIN s = 1..N
      /\ DOMAIN d = 1..(Len(c) + N)
      /\ \A j \in 1..N : d[j] = s[j]
      /\ \A j \in 1..Len(c) : d[j + N] = c[j]
  <2>1. /\ Len(c) \in Nat /\ N \in Nat /\ DOMAIN c = 1..Len(c) /\ DOMAIN s = 1..N
        /\ DOMAIN d = 1..(Len(c) + N)
    BY InsertedFrom
  <2>2. /\ \A j \in 1..N : d[j + 0] = s[j]
        /\ \A j \in (0 + 1)..Len(c) : d[j + N] = c[j]
    BY DEF Inserted
  <2>3. \A j \in 1..N : j + 0 = j
    BY <2>1
  <2> QED BY <2>1, <2>2, <2>3
<1>2. Leads(m, c, r, b, p) /\ LoopFirst(m, c, b)
  BY WovenLeads
<1>3. PICK x : /\ x[1] = Block(m, q - Ins(m)) /\ x[N + 1] = Block(m, r - Ins(m))
               /\ \A j \in 1..N : x[j + 1] = Moved(s[j], x[j]) /\ Passes(m, s, j, x[j])
  BY DEF Carries
<1> HIDE DEF N, p
<1>4. /\ p[1] = Block(m, r - Ins(m)) /\ p[b] = Block(m, ThisIndex(m))
      /\ \A j \in 1..(b - 1) : p[j + 1] = Moved(c[j], p[j]) /\ Passes(m, c, j, p[j])
  BY <1>2 DEF Leads, Chain
<1> DEFINE y == [j \in 1..B |-> IF j <= N THEN x[j] ELSE p[j - N]]
<1>5. y[1] = Block(m, q - Ins(m)) /\ y[B] = Block(m, ThisIndex(m))
  <2>1. B \in 1..B /\ ~ (B <= N) /\ B - N = b /\ 1 \in 1..B
    BY <1>1
  <2>2. y[B] = p[b]
    BY <2>1
  <2>3. N = 0 => y[1] = p[1]
    BY <1>1, <2>1
  <2>4. N # 0 => y[1] = x[1]
    BY <1>1, <2>1
  <2> QED BY <1>1, <1>3, <1>4, <2>2, <2>3, <2>4
<1>6. ASSUME NEW j \in 1..(B - 1)
      PROVE  y[j + 1] = Moved(d[j], y[j]) /\ Passes(m, d, j, y[j])
  <2>0. j \in 1..B /\ j + 1 \in 1..B /\ j \in Nat
    BY <1>1
  <2>1. CASE j <= N
    <3>1. j \in 1..N /\ y[j] = x[j] /\ d[j] = s[j]
      BY <1>1, <2>0, <2>1
    <3>2. y[j + 1] = x[j + 1]
      <4>1. CASE j = N
        <5>1. ~ (j + 1 <= N) /\ (j + 1) - N = 1
          BY <1>1, <4>1
        <5>2. y[j + 1] = p[1]
          BY <2>0, <5>1
        <5> QED BY <1>3, <1>4, <4>1, <5>2
      <4>2. CASE j < N
        <5>1. j + 1 <= N
          BY <1>1, <4>2
        <5> QED BY <2>0, <5>1
      <4> QED BY <1>1, <2>1, <4>1, <4>2
    <3> HIDE DEF y
    <3>3. Stands(s, j, d, j)
      <4>1. j > 1 => j - 1 \in 1..N
        BY <1>1, <3>1
      <4>2. j + 1 \in 1..N => j + 1 \in 1..(Len(c) + N)
        BY <1>1
      <4> QED BY <1>1, <3>1, <4>1, <4>2 DEF Stands
    <3>4. Passes(m, d, j, x[j])
      BY <1>3, <2>0, <3>1, <3>3, PassesElsewhere
    <3> QED BY <1>3, <3>1, <3>2, <3>4
  <2>2. CASE ~ (j <= N)
    <3> DEFINE k == j - N
    <3>1. k \in 1..(b - 1) /\ k \in 1..Len(c) /\ k \in Nat /\ j = k + N
      BY <1>1, <2>2
    <3>2. d[j] = c[k]
      BY <1>1, <3>1
    <3>3. y[j] = p[k]
      BY <2>0, <2>2
    <3>4. y[j + 1] = p[k + 1]
      <4>1. ~ (j + 1 <= N) /\ (j + 1) - N = k + 1
        BY <1>1, <2>2
      <4> QED BY <2>0, <4>1
    <3> HIDE DEF k, y
    <3>5. Stands(c, k, d, j)
      <4>1. k > 1 => k - 1 \in 1..Len(c) /\ (k - 1) + N = j - 1 /\ j > 1
        BY <1>1, <3>1
      <4>2. k + 1 \in 1..Len(c) => (k + 1) + N = j + 1 /\ j + 1 \in 1..(Len(c) + N)
        BY <1>1, <3>1
      <4> QED BY <1>1, <3>2, <4>1, <4>2 DEF Stands
    <3>6. Passes(m, d, j, p[k])
      BY <1>4, <2>0, <3>1, <3>5, PassesElsewhere
    <3> QED BY <1>4, <3>1, <3>2, <3>3, <3>4, <3>6
  <2> QED BY <2>1, <2>2
<1>7. LoopFirst(m, d, B)
  <2> SUFFICES ASSUME m.loop
               PROVE  /\ B > 1 /\ d[B - 1] = Label
                      /\ \A j \in 1..(B - 1) : d[j].op \in {"move", "label"}
    BY DEF LoopFirst
  <2>1. b > 1 /\ c[b - 1] = Label /\ \A j \in 1..(b - 1) : c[j].op \in {"move", "label"}
    BY <1>2 DEF LoopFirst
  <2>2. B > 1 /\ b - 1 \in 1..Len(c) /\ (b - 1) + N = B - 1
    BY <1>1, <2>1
  <2>3. d[B - 1] = Label
    BY <1>1, <2>1, <2>2
  <2>4. ASSUME NEW j \in 1..(B - 1)
        PROVE  d[j].op \in {"move", "label"}
    <3>1. CASE j <= N
      <4>1. j \in 1..N
        BY <1>1, <3>1
      <4>2. s[j].op = "move"
        BY <1>1, <4>1
      <4> QED BY <1>1, <4>1, <4>2
    <3>2. CASE ~ (j <= N)
      <4>1. j - N \in 1..(b - 1) /\ j - N \in 1..Len(c) /\ (j - N) + N = j
        BY <1>1, <3>2
      <4>2. d[j] = c[j - N]
        BY <1>1, <4>1
      <4> QED BY <2>1, <4>1, <4>2
    <3> QED BY <3>1, <3>2
  <2> QED BY <2>2, <2>3, <2>4
<1>8. B \in Nat /\ B # 0
  BY <1>1
<1> HIDE DEF B, y
<1>9. Leads(m, d, q, B, y)
  BY <1>5, <1>6 DEF Leads, Chain
<1>10. Woven(m, d, q, B)
  BY <1>7, <1>8, <1>9, LeadsWoven
<1> QED BY <1>10 DEF B, N

\* What is inserted behind the method's own code does not matter.
LEMMA WovenAfter ==
    ASSUME NEW m, NEW c, NEW i, NEW s, NEW d, NEW r, NEW b \in Nat, b # 0, b <= i,
           Inserted(c, i, s, d), Woven(m, c, r, b)
    PROVE  Woven(m, d, r, b)
<1> DEFINE p == Places(m, c, r, b)
<1>1. /\ Len(c) \in Nat /\ Len(s) \in Nat /\ i \in Nat /\ i < Len(c)
      /\ DOMAIN c = 1..Len(c) /\ DOMAIN d = 1..(Len(c) + Len(s))
  BY InsertedFrom
<1>2. \A j \in 1..i : d[j] = c[j]
  BY DEF Inserted
<1>3. \A j \in 1..b : j \in 1..i /\ d[j] = c[j]
  BY <1>1, <1>2
<1>4. Leads(m, c, r, b, p) /\ LoopFirst(m, c, b)
  BY WovenLeads
<1> HIDE DEF p
<1>5. \A j \in 1..(b - 1) : j \in 1..b /\ j + 1 \in 1..b /\ j \in Nat /\ (j > 1 => j - 1 \in 1..b)
  OBVIOUS
<1>6. ASSUME NEW j \in 1..(b - 1)
      PROVE  Passes(m, d, j, p[j])
  <2>1. Stands(c, j, d, j)
    <3>1. j + 1 \in DOMAIN d
      BY <1>1, <1>3, <1>5
    <3> QED BY <1>3, <1>5, <3>1 DEF Stands
  <2>2. Passes(m, c, j, p[j])
    BY <1>4 DEF Leads
  <2> QED BY <1>5, <2>1, <2>2, PassesElsewhere
<1>7. Leads(m, d, r, b, p)
  BY <1>3, <1>4, <1>5, <1>6 DEF Leads, Chain
<1>8. LoopFirst(m, d, b)
  <2>1. b > 1 => b - 1 \in 1..b
    OBVIOUS
  <2> QED BY <1>3, <1>4, <1>5, <2>1 DEF LoopFirst
<1> QED BY <1>7, <1>8, LeadsWoven

----------------------------------------------------------------------------
(* The instruction list from transform to transform.                       *)

\* c is the method's instruction list when it has r registers, in the shape the
\* transforms rely on; with reg the arguments come to where they belong.
Fits(m, r, c, reg) ==
    /\ r \in Nat /\ r >= m.locals + Ins(m)
    /\ c \in Seq(Instruction)
    /\ \E b \in DOMAIN c : Skeleton(m, c, b) /\ (reg => Woven(m, c, r, b))

\* The method as compiled, its own code at b: a label may be before it, and the
\* returns are behind it.
IsCompiled(m, c, b) ==
    /\ c \in Seq(Instruction) /\ Len(c) = b + Len(m.rets) /\ Len(m.rets) \in Nat
    /\ b = IF m.loop THEN 2 ELSE 1
    /\ c[b] = Body
    /\ \A j \in 1..(b + Len(m.rets)) :
          \/ b = 2 /\ j = 1 /\ c[j] = Label
          \/ j = b /\ c[j] = Body
          \/ j > b /\ j - b \in 1..Len(m.rets) /\ c[j] = Return(j - b)
    /\ \A k \in 1..Len(m.rets) : c[b + k] = Return(k)

LEMMA CompiledIs ==
    ASSUME NEW m, MethodShape(m)
    PROVE  IsCompiled(m, Compiled(m), IF m.loop THEN 2 ELSE 1)
<1> DEFINE t == IF m.loop THEN 1 ELSE 0
           b == t + 1
           K == Len(m.rets)
           lab == IF m.loop THEN << Label >> ELSE << >>
           body == << Body >>
           rets == [k \in 1..K |-> Return(k)]
           lb == lab \o body
           c == lb \o rets
<1>1. /\ m.loop \in BOOLEAN /\ m.locals \in Nat /\ K \in Nat /\ DOMAIN m.rets = 1..K
      /\ Ins(m) \in Nat
  <2>1. Len(m.params) \in 0..Len(m.params)
    BY SlotStep
  <2>2. Ins(m) \in Nat
    BY <2>1, SlotStep
  <2> QED BY <2>2 DEF MethodShape
<1>2. Compiled(m) = c
  BY <1>1 DEF Compiled
<1>3. Label \in Instruction /\ Body \in Instruction /\ \A k \in Nat : Return(k) \in Instruction
  BY DEF Label, Body, Return, Instruction
<1>4. Label.op = "label" /\ Body.op = "body" /\ \A k : Return(k).op = "return"
  BY DEF Label, Body, Return
<1>5. lab \in Seq(Instruction) /\ Len(lab) = t /\ (t = 1 => lab[1] = Label) /\ t \in {0, 1}
      /\ (m.loop <=> t = 1)
  BY <1>1, <1>3
<1>6. body \in Seq(Instruction) /\ Len(body) = 1 /\ body[1] = Body
  BY <1>3
<1>7. rets \in Seq(Instruction) /\ Len(rets) = K /\ \A k \in 1..K : rets[k] = Return(k)
  <2>1. \A k \in 1..K : k \in Nat
    BY <1>1
  <2>2. rets \in [1..K -> Instruction]
    BY <1>3, <2>1
  <2> QED BY <1>1, <2>2, SeqDef
<1> HIDE DEF lab, body, rets, K, t
<1>8. /\ lb \in Seq(Instruction) /\ Len(lb) = b
      /\ (t = 1 => lb[1] = Label) /\ lb[b] = Body
  <2>1. /\ lb \in Seq(Instruction) /\ Len(lb) = t + 1
        /\ \A j \in 1..t : lb[j] = lab[j]
        /\ \A j \in (t + 1)..(t + 1) : lb[j] = body[j - t]
    <3>1. lab \in Seq(Instruction) /\ body \in Seq(Instruction)
      BY <1>5, <1>6
    <3>2. /\ lb \in Seq(Instruction) /\ Len(lb) = Len(lab) + Len(body)
          /\ \A j \in 1..Len(lab) : lb[j] = lab[j]
          /\ \A j \in (Len(lab) + 1)..(Len(lab) + Len(body)) : lb[j] = body[j - Len(lab)]
      BY <3>1, Concat
    <3> HIDE DEF lb
    <3> QED BY <1>5, <1>6, <3>2
  <2>2. t + 1 \in (t + 1)..(t + 1) /\ (t + 1) - t = 1
    BY <1>5
  <2> HIDE DEF lb
  <2> QED BY <1>5, <1>6, <2>1, <2>2
<1> HIDE DEF lb
<1>9. /\ c \in Seq(Instruction) /\ Len(c) = b + K /\ DOMAIN c = 1..(b + K)
      /\ (t = 1 => c[1] = Label) /\ c[b] = Body
      /\ \A k \in 1..K : c[b + k] = Return(k)
  <2>1. /\ c \in Seq(Instruction) /\ Len(c) = b + K /\ DOMAIN c = 1..(b + K)
        /\ \A j \in 1..b : c[j] = lb[j]
        /\ \A j \in (b + 1)..(b + K) : c[j] = rets[j - b]
    <3>1. lb \in Seq(Instruction) /\ rets \in Seq(Instruction)
      BY <1>7, <1>8
    <3>2. /\ c \in Seq(Instruction) /\ Len(c) = Len(lb) + Len(rets)
          /\ DOMAIN c = 1..(Len(lb) + Len(rets))
          /\ \A j \in 1..Len(lb) : c[j] = lb[j]
          /\ \A j \in (Len(lb) + 1)..(Len(lb) + Len(rets)) : c[j] = rets[j - Len(lb)]
      BY <3>1, Concat
    <3> HIDE DEF c, b
    <3> QED BY <1>7, <1>8, <3>2
  <2>2. b \in 1..b /\ 1 \in 1..b
    BY <1>5
  <2>3. \A k \in 1..K : b + k \in (b + 1)..(b + K) /\ (b + k) - b = k
    BY <1>1, <1>5
  <2>4. ASSUME NEW k \in 1..K
        PROVE  c[b + k] = Return(k)
    <3>1. c[b + k] = rets[(b + k) - b]
      <4> HIDE DEF c, b
      <4> QED BY <2>1, <2>3
    <3> QED BY <1>7, <2>3, <3>1
  <2> HIDE DEF c, b
  <2> QED BY <1>8, <2>1, <2>2, <2>4
<1>10. b \in Nat /\ b # 0 /\ b \in 1..(b + K) /\ b = t + 1
  BY <1>1, <1>5
<1> HIDE DEF c, b
<1>11. ASSUME NEW j \in 1..(b + K)
       PROVE  \/ t = 1 /\ j = 1 /\ c[j] = Label
              \/ j = b /\ c[j] = Body
              \/ j > b /\ j - b \in 1..K /\ c[j] = Return(j - b)
  <2>1. CASE j > b
    <3>1. j - b \in 1..K /\ b + (j - b) = j
      BY <1>1, <1>10, <2>1
    <3> QED BY <1>9, <2>1, <3>1
  <2>2. CASE ~ (j > b)
    BY <1>5, <1>9, <1>10, <2>2
  <2> QED BY <2>1, <2>2
<1>12. b = (IF m.loop THEN 2 ELSE 1) /\ (t = 1 <=> b = 2)
  BY <1>5, <1>10
<1> QED BY <1>1, <1>2, <1>9, <1>10, <1>11, <1>12 DEF IsCompiled, K

LEMMA CompiledFits ==
    ASSUME NEW m, MethodShape(m)
    PROVE  Fits(m, m.locals + Ins(m), Compiled(m), TRUE)
<1> DEFINE t == IF m.loop THEN 1 ELSE 0
           b == IF m.loop THEN 2 ELSE 1
           K == Len(m.rets)
           c == Compiled(m)
<1>1. /\ m.loop \in BOOLEAN /\ m.locals \in Nat /\ K \in Nat /\ DOMAIN m.rets = 1..K
      /\ Ins(m) \in Nat
  <2>1. Len(m.params) \in 0..Len(m.params)
    BY SlotStep
  <2>2. Ins(m) \in Nat
    BY <2>1, SlotStep
  <2> QED BY <2>2 DEF MethodShape
<1>3. IsCompiled(m, c, b)
  BY CompiledIs
<1>4. Label.op = "label" /\ Body.op = "body" /\ \A k : Return(k).op = "return"
  BY DEF Label, Body, Return
<1>5. t \in {0, 1} /\ (m.loop <=> t = 1) /\ b = t + 1 /\ (t = 1 <=> b = 2)
  BY <1>1
<1> HIDE DEF t, b, c, K
<1>9. /\ c \in Seq(Instruction) /\ Len(c) = b + K /\ DOMAIN c = 1..(b + K)
      /\ (t = 1 => c[1] = Label) /\ c[b] = Body
      /\ \A k \in 1..K : c[b + k] = Return(k)
  <2>1. 1 \in 1..(b + K) /\ (b = 2 => 1 # b /\ ~ (1 > b))
    BY <1>1, <1>5
  <2>2. c \in Seq(Instruction) /\ Len(c) = b + K
    BY <1>3 DEF IsCompiled, K
  <2>3. DOMAIN c = 1..(b + K)
    BY <2>2
  <2>4. t = 1 => c[1] = Label
    BY <1>3, <1>5, <2>1 DEF IsCompiled, K
  <2> QED BY <1>3, <2>2, <2>3, <2>4 DEF IsCompiled, K
<1>10. b \in Nat /\ b # 0 /\ b \in 1..(b + K) /\ b = t + 1
  BY <1>1, <1>5
<1>11. ASSUME NEW j \in 1..(b + K)
       PROVE  \/ t = 1 /\ j = 1 /\ c[j] = Label
              \/ j = b /\ c[j] = Body
              \/ j > b /\ j - b \in 1..K /\ c[j] = Return(j - b)
  BY <1>3, <1>5 DEF IsCompiled, K
<1>12. Skeleton(m, c, b)
  <2>1. b \in DOMAIN c /\ c[b] = Body
    BY <1>9, <1>10
  <2>2. \A j \in DOMAIN c : c[j].op = "body" => j = b
    BY <1>4, <1>9, <1>11
  <2>3. \A j \in DOMAIN c : c[j].op = "return" => j > b
    BY <1>4, <1>9, <1>11
  <2>4. \A k \in DOMAIN m.rets : \E j \in DOMAIN c : c[j] = Return(k)
    <3>1. \A k \in 1..K : b + k \in 1..(b + K)
      BY <1>1, <1>10
    <3> QED BY <1>1, <1>9, <3>1
  <2>5. c[Len(c)].op \in {"body", "return"}
    <3>1. b + K \in 1..(b + K) /\ b + K >= b /\ (t = 1 => b + K # 1)
      BY <1>1, <1>10
    <3> QED BY <1>4, <1>9, <1>11, <3>1
  <2>6. m.loop <=> \E j \in DOMAIN c : c[j].op = "label"
    <3>1. 1 \in 1..(b + K)
      BY <1>1, <1>10
    <3> QED BY <1>4, <1>5, <1>9, <1>11, <3>1
  <2>7. \A i, j \in DOMAIN c : c[i].op = "label" /\ c[j].op = "label" => i = j /\ i < b
    BY <1>4, <1>9, <1>10, <1>11
  <2>8. \A j \in DOMAIN c : c[j].op # "invoke"
    BY <1>4, <1>9, <1>11
  <2> QED BY <2>1, <2>2, <2>3, <2>4, <2>5, <2>6, <2>7, <2>8 DEF Skeleton
<1>13. Woven(m, c, m.locals + Ins(m), b)
  <2> DEFINE p == [j \in 1..b |-> Block(m, m.locals)]
  <2>1. (m.locals + Ins(m)) - Ins(m) = m.locals
    BY <1>1
  <2>2. p[1] = Block(m, m.locals) /\ p[b] = Block(m, ThisIndex(m))
    BY <1>10 DEF ThisIndex
  <2>3. ASSUME NEW j \in 1..(b - 1)
        PROVE  t = 1 /\ j = 1 /\ b = 2 /\ c[j] = Label
    BY <1>5, <1>9, <1>10
  <2>4. ASSUME NEW j \in 1..(b - 1)
        PROVE  p[j + 1] = Moved(c[j], p[j]) /\ Passes(m, c, j, p[j])
    <3>1. p[j + 1] = Block(m, m.locals) /\ p[j] = Block(m, m.locals)
      BY <1>10
    <3>2. c[j].op = "label"
      BY <1>4, <2>3
    <3>3. Moved(c[j], Block(m, m.locals)) = Block(m, m.locals)
      BY <3>2 DEF Moved, Block
    <3>4. Passes(m, c, j, Block(m, m.locals))
      BY <3>2 DEF Passes
    <3> QED BY <3>1, <3>3, <3>4
  <2> HIDE DEF p
  <2>5. Leads(m, c, m.locals + Ins(m), b, p)
    BY <2>1, <2>2, <2>4 DEF Leads, Chain
  <2>6. LoopFirst(m, c, b)
    <3>1. m.loop => b = 2 /\ b - 1 = 1 /\ c[1] = Label
      BY <1>5, <1>9, <1>10
    <3> QED BY <1>4, <2>3, <3>1 DEF LoopFirst
  <2> QED BY <1>10, <2>5, <2>6, LeadsWoven
<1>14. m.locals + Ins(m) \in Nat /\ m.locals + Ins(m) >= m.locals + Ins(m)
  BY <1>1
<1> QED BY <1>9, <1>10, <1>12, <1>13, <1>14 DEF Fits, c

\* Code at the start of the method that brings the arguments from where they
\* arrive now to where they arrived before.
LEMMA StartFits ==
    ASSUME NEW m, MethodShape(m), NEW r, NEW c, NEW reg, Fits(m, r, c, reg),
           reg => ~m.loop,
           NEW q \in Nat, q >= r,
           NEW s, Piece(m, s), Carries(m, s, q - Ins(m), r - Ins(m))
    PROVE  Fits(m, q, AtStart(c, s), reg)
<1>1. r \in Nat /\ r >= m.locals + Ins(m) /\ c \in Seq(Instruction) /\ s \in Seq(Instruction)
  BY DEF Fits, Piece
<1>2. PICK b \in DOMAIN c : Skeleton(m, c, b) /\ (reg => Woven(m, c, r, b))
  BY DEF Fits
<1>3. b \in Nat /\ b # 0 /\ b <= Len(c) /\ c # << >>
  BY <1>1
<1>4. q >= m.locals + Ins(m)
  <2>1. m.locals \in Nat /\ Ins(m) \in Nat
    <3>1. Len(m.params) \in 0..Len(m.params)
      BY SlotStep
    <3> QED BY <3>1, SlotStep DEF MethodShape
  <2> QED BY <1>1, <2>1
<1>5. CASE reg
  <2>1. Inserted(c, 0, s, AtStart(c, s))
    <3>1. AtStart(c, s) = s \o c
      BY <1>1, <1>2, <1>5, AtStartInserted
    <3> QED BY <1>1, <1>3, <3>1, ConcatInserted
  <2> DEFINE d == AtStart(c, s)
  <2> HIDE DEF d
  <2>2. Skeleton(m, d, IF b <= 0 THEN b ELSE b + Len(s))
    BY <1>2, <2>1, InsertedSkeleton DEF d
  <2>3. Len(s) \in Nat /\ ~ (b <= 0)
    BY <1>1, <1>3
  <2>4. Woven(m, d, q, b + Len(s))
    BY <1>2, <1>3, <1>5, <2>1, WovenBefore DEF d
  <2>5. d \in Seq(Instruction)
    BY <2>1 DEF Inserted, d
  <2>6. b + Len(s) \in DOMAIN d
    BY <2>2, <2>3 DEF Skeleton
  <2>7. Fits(m, q, d, reg)
    BY <1>4, <2>2, <2>3, <2>4, <2>5, <2>6 DEF Fits
  <2> QED BY <2>7 DEF d
<1>6. CASE ~reg
  <2>1. PICK i : Inserted(c, i, s, AtStart(c, s))
    BY <1>1, <1>2, AtStartInserted
  <2>2. Skeleton(m, AtStart(c, s), IF b <= i THEN b ELSE b + Len(s))
    BY <1>2, <2>1, InsertedSkeleton
  <2>3. AtStart(c, s) \in Seq(Instruction)
    BY <2>1 DEF Inserted
  <2>4. (IF b <= i THEN b ELSE b + Len(s)) \in DOMAIN AtStart(c, s)
    BY <2>2 DEF Skeleton
  <2> QED BY <1>4, <1>6, <2>2, <2>3, <2>4 DEF Fits
<1> QED BY <1>5, <1>6

LEMMA ShiftPiece ==
    ASSUME NEW m, MethodShape(m), NEW r \in Nat, NEW shift \in Nat, Ins(m) + shift <= r
    PROVE  Piece(m, ShiftParams(m, r, shift))
<1> DEFINE s == ShiftParams(m, r, shift)
<1>1. s \in Seq(Instruction) /\ \A j \in DOMAIN s : s[j].op = "move"
  BY ShiftCarries
<1> HIDE DEF s
<1>2. Piece(m, s)
  BY <1>1 DEF Piece
<1> QED BY <1>2 DEF s

LEMMA InsIsNat ==
    ASSUME NEW m, MethodShape(m)
    PROVE  Ins(m) \in Nat /\ m.locals \in Nat
<1>1. Len(m.params) \in 0..Len(m.params)
  BY SlotStep
<1> QED BY <1>1, SlotStep DEF MethodShape

\* `this' takes one of the registers of the arguments.
LEMMA ThisIsAnArgument ==
    ASSUME NEW m, MethodShape(m), ~m.static
    PROVE  Ins(m) > 0
<1> DEFINE L == Len(m.params)
<1>1. /\ L \in Nat /\ L \in 0..L /\ Ins(m) = Slot(m, L) /\ Ins(m) \in Nat
      /\ Slot(m, 0) = 1
  BY SlotStep
<1> HIDE DEF L
<1>2. 0 \in 0..L /\ L \in 0..L
  BY <1>1
<1>3. Slot(m, 0) <= Slot(m, L)
  BY <1>2, SlotOrder DEF L
<1> QED BY <1>1, <1>3

\* Code for v0, v1, v2 behind which the arguments are shifted.
LEMMA RoomFits ==
    ASSUME NEW m, MethodShape(m), NEW r, NEW c, NEW reg, Fits(m, r, c, reg),
           reg => ~m.loop,
           NEW shift \in Nat, NEW s, Piece(m, s),
           Carries(m, s, (r + shift) - Ins(m), (r + shift) - Ins(m))
    PROVE  /\ Fits(m, r + shift, AtStart(c, s \o ShiftParams(m, r + shift, shift)), reg)
           /\ shift = 0 => Fits(m, r + shift, AtStart(c, s \o << >>), reg)
<1> DEFINE q == r + shift
           x == ShiftParams(m, q, shift)
<1>1. r \in Nat /\ r >= m.locals + Ins(m) /\ Ins(m) \in Nat /\ m.locals \in Nat
  BY InsIsNat DEF Fits
<1>2. q \in Nat /\ q >= r /\ Ins(m) + shift <= q /\ q - Ins(m) - shift = r - Ins(m)
  BY <1>1
<1>3. Carries(m, s, q - Ins(m), q - Ins(m))
  OBVIOUS
<1> HIDE DEF q
<1>4. Piece(m, x) /\ Carries(m, x, q - Ins(m), r - Ins(m))
  BY <1>2, ShiftPiece, ShiftCarries
<1> HIDE DEF x
<1>5. Piece(m, s \o x) /\ Carries(m, s \o x, q - Ins(m), r - Ins(m))
  BY <1>3, <1>4, ConcatPiece, ConcatCarries
<1>6. Fits(m, q, AtStart(c, s \o x), reg)
  BY <1>2, <1>5, StartFits
<1>7. ASSUME shift = 0
      PROVE  Fits(m, q, AtStart(c, s \o << >>), reg)
  <2>1. q - Ins(m) = r - Ins(m)
    BY <1>1, <1>2, <1>7
  <2>2. Piece(m, << >>) /\ Carries(m, << >>, q - Ins(m), r - Ins(m))
    BY <2>1, NothingCarries
  <2> DEFINE y == << >>
  <2>3. Piece(m, y) /\ Carries(m, y, q - Ins(m), r - Ins(m))
    BY <2>2
  <2> HIDE DEF y
  <2>4. Piece(m, s \o y) /\ Carries(m, s \o y, q - Ins(m), r - Ins(m))
    BY <1>3, <2>3, ConcatPiece, ConcatCarries
  <2>5. Fits(m, q, AtStart(c, s \o y), reg)
    BY <1>2, <2>4, StartFits
  <2> QED BY <2>5 DEF y
<1> QED BY <1>6, <1>7 DEF q, x

LEMMA ModifyFits ==
    ASSUME NEW m, MethodShape(m), NEW r, NEW c, NEW reg, Fits(m, r, c, reg),
           reg => ~m.loop,
           NEW idx \in Nat, idx < Len(m.params),
           NEW first \in BOOLEAN, NEW shift, shift = HeadRoom(r, Ins(m)),
           ~first => shift = 0
    PROVE  /\ Fits(m, r + shift,
                   AtStart(c, ModifyCode(m, r + shift, idx)
                        \o IF first THEN ShiftParams(m, r + shift, shift) ELSE << >>), reg)
           /\ HeadRoom(r + shift, Ins(m)) = 0
<1> DEFINE q == r + shift
<1>1. r \in Nat /\ Ins(m) \in Nat /\ Ins(m) <= r
  <2>1. r \in Nat /\ r >= m.locals + Ins(m) /\ Ins(m) \in Nat /\ m.locals \in Nat
    BY InsIsNat DEF Fits
  <2> QED BY <2>1
<1>2. shift \in Nat /\ q - Ins(m) >= 3 /\ HeadRoom(q, Ins(m)) = 0 /\ q \in Nat
  <2> DEFINE ins == Ins(m)
  <2>1. r \in Nat /\ ins \in Nat /\ ins <= r /\ shift = HeadRoom(r, ins)
    BY <1>1
  <2> HIDE DEF ins
  <2>2. shift \in 0..3 /\ r + shift - ins >= 3 /\ HeadRoom(r + shift, ins) = 0
    BY <2>1, HeadRoomIsEnough
  <2>3. shift \in Nat /\ r + shift \in Nat /\ (r + shift) - ins >= 3
    BY <2>1, <2>2
  <2> QED BY <2>2, <2>3 DEF ins
<1> DEFINE s == ModifyCode(m, q, idx)
<1>3. Piece(m, s) /\ Carries(m, s, q - Ins(m), q - Ins(m))
  <2> HIDE DEF q
  <2> QED BY <1>2, ModifyCarries
<1> HIDE DEF s
<1>4. /\ Fits(m, q, AtStart(c, s \o ShiftParams(m, q, shift)), reg)
      /\ shift = 0 => Fits(m, q, AtStart(c, s \o << >>), reg)
  BY <1>2, <1>3, RoomFits
<1> HIDE DEF q
<1>5. CASE first
  BY <1>2, <1>4, <1>5 DEF s, q
<1>6. CASE ~first
  BY <1>2, <1>4, <1>6 DEF s, q
<1> QED BY <1>5, <1>6

LEMMA EntryFits ==
    ASSUME NEW m, MethodShape(m), NEW r, NEW c, NEW reg, Fits(m, r, c, reg),
           reg => ~m.loop, NEW shift, shift = HeadRoom(r, Ins(m))
    PROVE  /\ Fits(m, r + shift,
                   AtStart(c, EntryCode(m, r + shift) \o ShiftParams(m, r + shift, shift)), reg)
           /\ HeadRoom(r + shift, Ins(m)) = 0
<1> DEFINE q == r + shift
<1>1. r \in Nat /\ Ins(m) \in Nat /\ Ins(m) <= r
  <2>1. r \in Nat /\ r >= m.locals + Ins(m) /\ Ins(m) \in Nat /\ m.locals \in Nat
    BY InsIsNat DEF Fits
  <2> QED BY <2>1
<1>2. shift \in Nat /\ q - Ins(m) >= 3 /\ HeadRoom(q, Ins(m)) = 0 /\ q \in Nat
  <2> DEFINE ins == Ins(m)
  <2>1. r \in Nat /\ ins \in Nat /\ ins <= r /\ shift = HeadRoom(r, ins)
    BY <1>1
  <2> HIDE DEF ins
  <2>2. shift \in 0..3 /\ r + shift - ins >= 3 /\ HeadRoom(r + shift, ins) = 0
    BY <2>1, HeadRoomIsEnough
  <2>3. shift \in Nat /\ r + shift \in Nat /\ (r + shift) - ins >= 3
    BY <2>1, <2>2
  <2> QED BY <2>2, <2>3 DEF ins
<1> DEFINE s == EntryCode(m, q)
<1>3. Piece(m, s) /\ Carries(m, s, q - Ins(m), q - Ins(m))
  <2> HIDE DEF q
  <2> QED BY <1>2, EntryCarries
<1> HIDE DEF s
<1>4. Fits(m, q, AtStart(c, s \o ShiftParams(m, q, shift)), reg)
  BY <1>2, <1>3, RoomFits
<1> QED BY <1>2, <1>4 DEF s

LEMMA RetIsNat ==
    ASSUME NEW m, MethodShape(m), NEW k \in DOMAIN m.rets
    PROVE  /\ m.rets[k].reg \in Nat /\ RetCount(m) \in 0..2 /\ ThisIndex(m) \in Nat
           /\ m.rets[k].this \in {"kept", "object", "local"}
<1>1. m.rets \in Seq([reg : Nat, own : BOOLEAN, this : {"kept", "object", "local"}]) /\ m.locals \in Nat
  BY DEF MethodShape
<1>2. m.rets[k].reg \in Nat /\ m.rets[k].this \in {"kept", "object", "local"}
  <2> DEFINE S == [reg : Nat, own : BOOLEAN, this : {"kept", "object", "local"}]
             rets == m.rets
  <2>1. rets \in Seq(S) /\ k \in DOMAIN rets
    BY <1>1
  <2> HIDE DEF S, rets
  <2>2. rets[k] \in S
    BY <2>1
  <2> QED BY <2>2 DEF S, rets
<1>3. RetCount(m) \in 0..2
  BY SlotsOK DEF RetCount
<1> QED BY <1>1, <1>2, <1>3 DEF ThisIndex

LEMMA ExitPiece ==
    ASSUME NEW m, MethodShape(m), NEW k \in DOMAIN m.rets, NEW id \in Nat
    PROVE  Piece(m, ExitCode(m, k, id))
<1> DEFINE reg == m.rets[k].reg
           n == RetCount(m)
           this == IF m.static THEN << >> ELSE << ThisIndex(m) >>
           res == [i \in 1..n |-> reg + i - 1]
           args == << id, id + 1 >> \o this \o res
           head == << Const(id, Id), Invoke("exit", 0, args) >>
           back == IF m.ret = "void" THEN << >> ELSE << MoveResult(reg, n) >>
           S == {i \in Instruction : i.op \in {"const", "invoke", "move_result"}
                                     /\ (i.op = "invoke" => i.hook = "exit")}
<1>1. reg \in Nat /\ n \in Nat /\ ThisIndex(m) \in Nat
  BY RetIsNat
<1> HIDE DEF reg, n
<1>2. args \in Seq(Nat)
  <2>1. res \in Seq(Nat)
    <3>1. res \in [1..n -> Nat]
      BY <1>1
    <3> QED BY <1>1, <3>1, SeqDef
  <2>2. this \in Seq(Nat) /\ << id, id + 1 >> \in Seq(Nat)
    BY <1>1
  <2> HIDE DEF this, res
  <2> QED BY <2>1, <2>2
<1> HIDE DEF args
<1>3. head \in Seq(S)
  <2>1. Const(id, Id) \in S
    BY TokensOK, ConstOK
  <2>2. Invoke("exit", 0, args) \in S
    BY <1>2 DEF Invoke, Instruction
  <2> HIDE DEF S
  <2> QED BY <2>1, <2>2
<1>4. back \in Seq(S)
  <2>1. MoveResult(reg, n) \in S
    BY <1>1 DEF MoveResult, Instruction
  <2>2. << >> \in Seq(S)
    OBVIOUS
  <2> HIDE DEF S
  <2> QED BY <2>1, <2>2
<1>5. ExitCode(m, k, id) = head \o back
  BY DEF ExitCode, reg, n, args
<1> HIDE DEF head, back, S
<1>6. ExitCode(m, k, id) \in Seq(S)
  BY <1>3, <1>4, <1>5
<1> DEFINE c == ExitCode(m, k, id)
<1> HIDE DEF c
<1>7. c \in Seq(Instruction)
  <2>1. S \subseteq Instruction
    BY DEF S
  <2> QED BY <1>6, <2>1 DEF c
<1>8. \A j \in DOMAIN c : c[j] \in S
  BY <1>6 DEF c
<1>9. Piece(m, c)
  BY <1>7, <1>8 DEF Piece, S
<1> QED BY <1>9 DEF c

\* The exit hook is inserted behind the method's own code; if it needs registers,
\* the arguments are shifted before everything.
LEMMA ReturnFits ==
    ASSUME NEW m, MethodShape(m), NEW x, NEW reg, Fits(m, x.registers, x.code, reg),
           NEW k \in DOMAIN m.rets,
           NEW y, y = InstrumentReturn(m, x, k)
    PROVE  /\ Fits(m, y.registers, y.code, reg)
           /\ y.registers >= x.registers
<1> DEFINE out == IF m.ret = "void" THEN 0 ELSE m.rets[k].reg
           n   == RetCount(m)
           add == ExitScratch(x.registers, ThisIndex(m), m.static, out, n)
           q   == x.registers + add
           id  == MethodIdReg(ThisIndex(m), m.static, out, n)
           s   == ExitCode(m, k, id)
           z   == BeforeReturn(x.code, k, s)
           moves == IF Ins(m) = 0 THEN << >> ELSE ShiftParams(m, q, add)
           r   == x.registers
           c   == x.code
<1>1. y.registers = q /\ y.code = moves \o z
  BY DEF InstrumentReturn
<1>2. out \in Nat /\ n \in 0..2 /\ ThisIndex(m) \in Nat
  BY RetIsNat
<1> HIDE DEF out, n
<1>3. r \in Nat /\ r >= m.locals + Ins(m) /\ c \in Seq(Instruction)
      /\ Ins(m) \in Nat /\ m.locals \in Nat
  BY InsIsNat DEF Fits
<1>4. add \in Nat /\ id \in Nat
  <2>1. ParamBegin(ThisIndex(m), m.static, out, n) \in Nat
    BY <1>2 DEF ParamBegin
  <2>2. add \in Nat
    BY <1>2, <1>3, <2>1 DEF ExitScratch
  <2>3. id \in Nat
    BY <1>2, <2>1 DEF MethodIdReg
  <2> QED BY <2>2, <2>3
<1> HIDE DEF add, id
<1>5. Piece(m, s)
  BY <1>4, ExitPiece
<1> HIDE DEF s
<1>6. PICK b \in DOMAIN c : Skeleton(m, c, b) /\ (reg => Woven(m, c, r, b))
  BY DEF Fits
<1>7. b \in Nat /\ b # 0 /\ b <= Len(c)
  BY <1>3
<1>8. s \in Seq(Instruction)
  BY <1>5 DEF Piece
<1> HIDE DEF c, r
<1>9. PICK i : i >= b /\ Inserted(c, i, s, z)
  <2>1. \E i : i >= b /\ c[i + 1] = Return(k) /\ Inserted(c, i, s, BeforeReturn(c, k, s))
    BY <1>3, <1>6, <1>8, BeforeReturnInserted
  <2> QED BY <2>1 DEF c
<1> HIDE DEF z
<1>10. /\ Skeleton(m, z, b) /\ z \in Seq(Instruction)
       /\ reg => Woven(m, z, r, b)
  <2>1. i \in Nat /\ b <= i
    BY <1>7, <1>9, InsertedFrom
  <2>2. Skeleton(m, z, IF b <= i THEN b ELSE b + Len(s))
    BY <1>5, <1>6, <1>9, InsertedSkeleton
  <2>3. z \in Seq(Instruction)
    BY <1>9 DEF Inserted
  <2>4. reg => Woven(m, z, r, b)
    BY <1>6, <1>7, <1>9, <2>1, WovenAfter
  <2> QED BY <2>1, <2>2, <2>3, <2>4
<1>11. q \in Nat /\ q >= r /\ Ins(m) + add <= q /\ q - Ins(m) - add = r - Ins(m)
       /\ q >= m.locals + Ins(m)
  BY <1>3, <1>4 DEF r
<1> HIDE DEF q
<1>12. /\ Piece(m, moves) /\ Carries(m, moves, q - Ins(m), r - Ins(m))
       /\ \A j \in DOMAIN moves : moves[j].op = "move"
  <2>1. CASE Ins(m) = 0
    <3>1. moves = << >>
      BY <2>1
    <3>2. Block(m, q - Ins(m)) = Block(m, r - Ins(m))
      <4>1. \A a : Block(m, a) = [v \in {} |-> 0]
        BY <2>1 DEF Block
      <4> QED BY <4>1
    <3>3. Piece(m, << >>) /\ Carries(m, << >>, r - Ins(m), r - Ins(m))
      BY NothingCarries
    <3>4. Carries(m, << >>, q - Ins(m), r - Ins(m))
      BY <3>2, <3>3 DEF Carries
    <3> QED BY <3>1, <3>3, <3>4
  <2>2. CASE Ins(m) # 0
    BY <1>3, <1>4, <1>11, <2>2, ShiftPiece, ShiftCarries
  <2> QED BY <2>1, <2>2
<1> HIDE DEF moves
<1> DEFINE d == moves \o z
<1>13. b \in DOMAIN z /\ b <= Len(z) /\ z # << >> /\ moves \in Seq(Instruction)
  BY <1>7, <1>10, <1>12 DEF Skeleton, Piece
<1>14. Inserted(z, 0, moves, d)
  BY <1>10, <1>13, ConcatInserted
<1> HIDE DEF d
<1>15. Skeleton(m, d, b + Len(moves))
  <2>1. Skeleton(m, d, IF b <= 0 THEN b ELSE b + Len(moves))
    BY <1>10, <1>12, <1>14, InsertedSkeleton
  <2>2. ~ (b <= 0)
    BY <1>7
  <2> QED BY <2>1, <2>2
<1>16. reg => Woven(m, d, q, b + Len(moves))
  BY <1>7, <1>10, <1>12, <1>13, <1>14, WovenBefore
<1>17. d \in Seq(Instruction) /\ b + Len(moves) \in DOMAIN d
  BY <1>14, <1>15 DEF Inserted, Skeleton
<1>18. Fits(m, q, d, reg)
  BY <1>11, <1>15, <1>16, <1>17 DEF Fits
<1> QED BY <1>1, <1>11, <1>18 DEF d, r

IsInstrumented(m, r, c, n, f) ==
    f = [k \in 0..n |-> IF k = 0 THEN [registers |-> r, code |-> c]
                        ELSE InstrumentReturn(m, f[k - 1], k)]

\* The function that ApplyExitHook takes the last value of exists.
LEMMA InstrumentedExists ==
    ASSUME NEW m, NEW r, NEW c, NEW n \in Nat
    PROVE  \E f : IsInstrumented(m, r, c, n, f)
<1> DEFINE x0 == [registers |-> r, code |-> c]
           T == {i \in Nat : ~ \E f : IsInstrumented(m, r, c, i, f)}
<1> SUFFICES ASSUME T # {}
             PROVE  FALSE
  OBVIOUS
<1>1. PICK i \in T : \A x \in T : i <= x
  BY Least
<1>2. CASE i = 0
  <2> DEFINE f == [k \in 0..0 |-> x0]
  <2>1. f = [k \in 0..0 |-> IF k = 0 THEN x0 ELSE InstrumentReturn(m, f[k - 1], k)]
    OBVIOUS
  <2> HIDE DEF f
  <2>2. IsInstrumented(m, r, c, 0, f)
    BY <2>1 DEF IsInstrumented
  <2> QED BY <1>1, <1>2, <2>2
<1>3. CASE i # 0
  <2>1. i - 1 \in Nat /\ i \in Nat /\ i - 1 < i
    BY <1>1, <1>3
  <2>2. PICK f : IsInstrumented(m, r, c, i - 1, f)
    BY <1>1, <2>1
  <2> DEFINE body(h, k) == IF k = 0 THEN x0 ELSE InstrumentReturn(m, h[k - 1], k)
             last == body(f, i)
             g == [k \in 0..i |-> IF k = i THEN last ELSE f[k]]
  <2>3. \A k \in 0..(i - 1) : f[k] = body(f, k)
    <3>1. f = [k \in 0..(i - 1) |-> body(f, k)]
      BY <2>2 DEF IsInstrumented
    <3> HIDE DEF body
    <3> QED BY <3>1
  <2>4. ASSUME NEW k \in 0..i
        PROVE  g[k] = body(g, k)
    <3>1. CASE k = i
      <4>1. g[i] = last
        BY <2>1, <3>1
      <4>2. g[i - 1] = f[i - 1]
        BY <2>1, <3>1
      <4> HIDE DEF x0
      <4> QED BY <3>1, <4>1, <4>2
    <3>2. CASE k # i
      <4>1. k \in 0..(i - 1) /\ g[k] = f[k]
        BY <2>1, <3>2
      <4>2. k # 0 => g[k - 1] = f[k - 1]
        BY <2>1, <3>2
      <4> HIDE DEF x0
      <4> QED BY <2>3, <4>1, <4>2
    <3> QED BY <3>1, <3>2
  <2>5. g = [k \in 0..i |-> body(g, k)]
    <3>1. g = [k \in 0..i |-> g[k]]
      OBVIOUS
    <3> HIDE DEF g, body
    <3> QED BY <2>4, <3>1
  <2>6. IsInstrumented(m, r, c, i, g)
    BY <2>5 DEF IsInstrumented
  <2> QED BY <1>1, <2>6
<1> QED BY <1>2, <1>3

LEMMA ExitHookFits ==
    ASSUME NEW m, MethodShape(m), NEW r, NEW c, NEW reg, Fits(m, r, c, reg),
           NEW x, x = (CHOOSE f : IsInstrumented(m, r, c, Len(m.rets), f))[Len(m.rets)]
    PROVE  Fits(m, x.registers, x.code, reg) /\ x.registers >= r
<1> DEFINE n == Len(m.rets)
           f == CHOOSE f : IsInstrumented(m, r, c, n, f)
           x0 == [registers |-> r, code |-> c]
           good(k) == Fits(m, f[k].registers, f[k].code, reg) /\ f[k].registers >= r
                          /\ f[k].registers \in Nat
           T == {k \in 0..n : ~good(k)}
<1>1. n \in Nat /\ DOMAIN m.rets = 1..n /\ r \in Nat
  BY DEF MethodShape, Fits
<1>2. IsInstrumented(m, r, c, n, f)
  BY <1>1, InstrumentedExists
<1>3. x = f[n]
  OBVIOUS
<1> HIDE DEF f, n, x0
<1>4. \A k \in 0..n : f[k] = IF k = 0 THEN x0 ELSE InstrumentReturn(m, f[k - 1], k)
  <2>1. f = [k \in 0..n |-> IF k = 0 THEN x0 ELSE InstrumentReturn(m, f[k - 1], k)]
    BY <1>2 DEF IsInstrumented, x0
  <2> QED BY <2>1
<1>5. T = {}
  <2> SUFFICES ASSUME T # {}
               PROVE  FALSE
    OBVIOUS
  <2>1. T \in SUBSET Nat
    OBVIOUS
  <2>2. PICK k \in T : \A z \in T : k <= z
    <3> HIDE DEF T
    <3> QED BY <2>1, Least
  <2>3. k \in 0..n /\ ~good(k)
    BY <2>2
  <2>4. CASE k = 0
    <3>1. f[0] = x0 /\ x0.registers = r /\ x0.code = c
      BY <1>1, <1>4 DEF x0
    <3>2. good(0)
      BY <1>1, <3>1
    <3> HIDE DEF good
    <3> QED BY <2>3, <2>4, <3>2
  <2>5. CASE k # 0
    <3>1. k - 1 \in 0..n /\ ~ (k <= k - 1) /\ k \in 1..n
      BY <1>1, <2>3, <2>5
    <3>2. good(k - 1)
      <4> HIDE DEF good
      <4> QED BY <2>2, <3>1
    <3>3. f[k] = InstrumentReturn(m, f[k - 1], k)
      BY <1>4, <2>3, <2>5
    <3>4. Fits(m, f[k].registers, f[k].code, reg) /\ f[k].registers >= f[k - 1].registers
      BY <1>1, <3>1, <3>2, <3>3, ReturnFits
    <3>5. f[k].registers \in Nat
      BY <3>4 DEF Fits
    <3>6. good(k)
      BY <1>1, <3>2, <3>4, <3>5
    <3> HIDE DEF good
    <3> QED BY <2>3, <3>6
  <2> QED BY <2>4, <2>5
<1>6. good(n)
  <2> HIDE DEF good
  <2> QED BY <1>1, <1>5
<1> QED BY <1>3, <1>6

----------------------------------------------------------------------------
(* The inductive invariant.                                                *)

HooksShape(h) ==
    h.enter \in BOOLEAN /\ h.exit \in BOOLEAN /\ h.params \in Seq(Nat)

\* The transform queued at i.
IsQueued(h, i, tr) ==
    \/ i \in DOMAIN h.params /\ tr = << "param", h.params[i], i = 1 >>
    \/ i > Len(h.params) /\ h.enter /\ tr = << "enter" >>
    \/ i > Len(h.params) /\ h.exit /\ tr = << "exit" >>

LEMMA TransformsQueued ==
    ASSUME NEW h, HooksShape(h)
    PROVE  /\ Transforms(h) \in Seq(Transform)
           /\ \A i \in DOMAIN Transforms(h) : IsQueued(h, i, Transforms(h)[i])
<1> DEFINE n == Len(h.params)
           tr(i) == << "param", h.params[i], i = 1 >>
           ps == [i \in DOMAIN h.params |-> tr(i)]
           en == IF h.enter THEN << << "enter" >> >> ELSE << >>
           ex == IF h.exit THEN << << "exit" >> >> ELSE << >>
           pe == ps \o en
           all == pe \o ex
<1>1. h.params \in Seq(Nat) /\ n \in Nat /\ DOMAIN h.params = 1..n
  BY DEF HooksShape
<1>2. ps \in Seq(Transform) /\ Len(ps) = n /\ \A i \in 1..n : ps[i] = tr(i)
  <2>1. \A i \in 1..n : tr(i) \in Transform
    <3> SUFFICES ASSUME NEW i \in 1..n
                 PROVE  tr(i) \in Transform
      OBVIOUS
    <3>1. h.params[i] \in Nat
      BY <1>1
    <3>2. (i = 1) \in BOOLEAN
      OBVIOUS
    <3> QED BY <3>1, <3>2 DEF Transform
  <2> HIDE DEF tr
  <2>2. ps \in [1..n -> Transform]
    BY <1>1, <2>1
  <2> QED BY <1>1, <2>2, SeqDef
<1>3. << "enter" >> \in Transform /\ << "exit" >> \in Transform
  BY DEF Transform
<1>4. en \in Seq(Transform) /\ \A i \in 1..Len(en) : h.enter /\ en[i] = << "enter" >>
  BY <1>3
<1>5. ex \in Seq(Transform) /\ \A i \in 1..Len(ex) : h.exit /\ ex[i] = << "exit" >>
  BY <1>3
<1>6. Transforms(h) = all
  BY DEF Transforms
<1> HIDE DEF ps, en, ex, tr, n
<1>7. /\ pe \in Seq(Transform) /\ Len(pe) = n + Len(en) /\ Len(en) \in Nat
      /\ \A i \in 1..n : pe[i] = tr(i)
      /\ \A i \in (n + 1)..(n + Len(en)) : pe[i] = << "enter" >> /\ h.enter
  <2>1. /\ pe \in Seq(Transform) /\ Len(pe) = Len(ps) + Len(en)
        /\ \A i \in 1..Len(ps) : pe[i] = ps[i]
        /\ \A i \in (Len(ps) + 1)..(Len(ps) + Len(en)) : pe[i] = en[i - Len(ps)]
    <3>1. ps \in Seq(Transform) /\ en \in Seq(Transform)
      BY <1>2, <1>4
    <3> QED BY <3>1, Concat
  <2> HIDE DEF pe
  <2>2. Len(en) \in Nat
    BY <1>4
  <2>3. \A i \in (n + 1)..(n + Len(en)) : i - n \in 1..Len(en)
    BY <1>1, <2>2
  <2> QED BY <1>1, <1>2, <1>4, <2>1, <2>2, <2>3
<1> HIDE DEF pe
<1>8. /\ all \in Seq(Transform) /\ DOMAIN all = 1..(Len(pe) + Len(ex)) /\ Len(ex) \in Nat
      /\ \A i \in 1..Len(pe) : all[i] = pe[i]
      /\ \A i \in (Len(pe) + 1)..(Len(pe) + Len(ex)) : all[i] = << "exit" >> /\ h.exit
  <2>1. /\ all \in Seq(Transform) /\ DOMAIN all = 1..(Len(pe) + Len(ex))
        /\ \A i \in 1..Len(pe) : all[i] = pe[i]
        /\ \A i \in (Len(pe) + 1)..(Len(pe) + Len(ex)) : all[i] = ex[i - Len(pe)]
    <3>1. pe \in Seq(Transform) /\ ex \in Seq(Transform)
      BY <1>5, <1>7
    <3> QED BY <3>1, Concat
  <2> HIDE DEF all
  <2>2. Len(ex) \in Nat /\ Len(pe) \in Nat
    BY <1>5, <1>7
  <2>3. \A i \in (Len(pe) + 1)..(Len(pe) + Len(ex)) : i - Len(pe) \in 1..Len(ex)
    BY <2>2
  <2> QED BY <1>5, <2>1, <2>2, <2>3
<1> HIDE DEF all
<1>9. ASSUME NEW i \in DOMAIN all
      PROVE  IsQueued(h, i, all[i])
  <2>1. CASE i \in 1..n
    <3>1. i \in 1..Len(pe)
      BY <1>1, <1>7, <2>1
    <3> QED BY <1>1, <1>7, <1>8, <2>1, <3>1 DEF IsQueued, tr
  <2>2. CASE i \in (n + 1)..(n + Len(en))
    <3>1. i \in 1..Len(pe) /\ i > n
      BY <1>1, <1>7, <2>2
    <3> QED BY <1>7, <1>8, <2>2, <3>1 DEF IsQueued, n
  <2>3. CASE i \in (Len(pe) + 1)..(Len(pe) + Len(ex))
    <3>1. i > n
      BY <1>1, <1>7, <1>8, <2>3
    <3> QED BY <1>8, <2>3, <3>1 DEF IsQueued, n
  <2> QED BY <1>1, <1>7, <1>8, <2>1, <2>2, <2>3
<1> QED BY <1>6, <1>8, <1>9

\* What ShapeAssumption says of the method at hand.
LEMMA JobShape ==
    ASSUME TypeOK
    PROVE  /\ MethodShape(method) /\ HooksShape(hooks)
           /\ \A k \in DOMAIN method.rets :
                 method.rets[k].reg + RetCount(method) <= method.locals + Ins(method)
<1>1. PICK job \in Jobs : method = job.method /\ hooks = job.hooks
  BY DEF TypeOK
<1>2. MethodShape(job.method) /\ HooksShape(job.hooks)
  BY ShapeAssumption DEF ShapeAssumption, HooksShape
<1>3. \A k \in DOMAIN job.method.rets :
          job.method.rets[k].reg + RetCount(job.method) <= job.method.locals + Ins(job.method)
  BY ShapeAssumption DEF ShapeAssumption
<1> QED BY <1>1, <1>2, <1>3

LEMMA WeavingInit == Init => WeavingInv
<1> SUFFICES ASSUME Init
             PROVE  WeavingInv
  OBVIOUS
<1>1. PICK job \in Jobs : method = job.method /\ hooks = job.hooks
  BY DEF Init
<1>2. MethodShape(method) /\ HooksShape(hooks)
  BY <1>1, ShapeAssumption DEF ShapeAssumption, HooksShape
<1>3. Fits(method, registers, code, TRUE)
  BY <1>2, CompiledFits DEF Init
<1>4. transforms \in Seq(Transform) /\ transforms = Transforms(hooks)
  BY <1>2, TransformsQueued DEF Init
<1>5. TypeOK
  <2>1. << >> \in Seq(Token) /\ << >> \in Seq(HookCall) /\ Undef \in Token
    BY TokensOK
  <2> QED BY <1>1, <1>3, <1>4, <2>1 DEF Init, TypeOK, Fits
<1>6. NotEntered /\ looped = "no"
  BY DEF Init, NotEntered
<1>7. TransformsLeft
  <2>1. Len(transforms) \in Nat /\ DOMAIN transforms = 1..Len(transforms)
    BY <1>4
  <2>2. Len(transforms) - Len(transforms) = 0
    BY <2>1
  <2>3. \A i \in DOMAIN transforms : 0 + i = i
    BY <2>1
  <2> QED BY <1>4, <2>2, <2>3 DEF TransformsLeft
<1>8. ArgumentsArrive
  <2>1. status = "transform"
    BY DEF Init
  <2> QED BY <1>3, <2>1 DEF Fits, ArgumentsArrive
<1> QED BY <1>5, <1>6, <1>7, <1>8 DEF WeavingInv

LEMMA InvariantFits ==
    ASSUME WeavingInv
    PROVE  Fits(method, registers, code, Regular)
<1>1. PICK b \in DOMAIN code : Skeleton(method, code, b)
                               /\ (Regular => Woven(method, code, registers, b))
  BY DEF WeavingInv, ArgumentsArrive
<1>2. registers \in Nat /\ registers >= method.locals + Ins(method) /\ code \in Seq(Instruction)
  BY DEF WeavingInv, TypeOK
<1> QED BY <1>1, <1>2 DEF Fits

\* A transform leaves the arguments arriving, and room where the next one that
\* needs it works.
LEMMA TransformFits ==
    ASSUME WeavingInv, ApplyTransform
    PROVE  \/ /\ status' = "failed" /\ transforms' = << >> /\ ~Regular
              /\ UNCHANGED << registers, code >>
           \/ /\ status' = status /\ transforms' = Tail(transforms)
              /\ Fits(method, registers', code', Regular)
              /\ hooks.params # << >> => HeadRoom(registers', Ins(method)) = 0
<1> DEFINE all == Transforms(hooks)
           done == Len(all) - Len(transforms)
           tr == Head(transforms)
           i == done + 1
<1>1. MethodShape(method) /\ HooksShape(hooks)
  BY JobShape DEF WeavingInv
<1>2. Fits(method, registers, code, Regular)
  BY InvariantFits
<1>3. /\ done >= 0
      /\ \A j \in DOMAIN transforms : transforms[j] = all[done + j]
      /\ done > 0 /\ hooks.params # << >> => HeadRoom(registers, Ins(method)) = 0
  BY DEF WeavingInv, TransformsLeft, ApplyTransform
<1>4. transforms \in Seq(Transform) /\ transforms # << >> /\ Len(transforms) \in Nat
      /\ Len(transforms) # 0 /\ tr = transforms[1] /\ 1 \in DOMAIN transforms
  BY DEF WeavingInv, TypeOK, ApplyTransform
<1>5. all \in Seq(Transform) /\ Len(all) \in Nat /\ DOMAIN all = 1..Len(all)
      /\ \A j \in DOMAIN all : IsQueued(hooks, j, all[j])
  BY <1>1, TransformsQueued
<1>6. done \in Nat /\ i \in DOMAIN all /\ tr = all[i]
  <2> HIDE DEF all, tr
  <2> QED BY <1>3, <1>4, <1>5
<1> HIDE DEF all, tr, done
<1>7. IsQueued(hooks, i, tr)
  BY <1>5, <1>6
<1>8. hooks.params \in Seq(Nat) /\ DOMAIN hooks.params = 1..Len(hooks.params)
      /\ Len(hooks.params) \in Nat /\ (hooks.params # << >> => Len(hooks.params) >= 1)
  BY <1>1 DEF HooksShape
<1>9. Regular => ~method.loop \/ hooks.params = << >>
  BY DEF Regular
<1>10. registers \in Nat /\ Ins(method) \in Nat /\ Ins(method) <= registers
  <2>1. Ins(method) \in Nat /\ method.locals \in Nat
    BY <1>1, InsIsNat
  <2> QED BY <1>2, <2>1 DEF Fits
<1>11. CASE i \in DOMAIN hooks.params /\ tr = << "param", hooks.params[i], i = 1 >>
  <2> DEFINE idx == hooks.params[i]
             first == i = 1
             shift == HeadRoom(registers, Ins(method))
  <2>1. idx \in Nat /\ hooks.params # << >>
    BY <1>8, <1>11
  <2>2. tr[1] = "param" /\ tr[2] = idx
    BY <1>11
  <2>3. tr[3] = first
    BY <1>11
  <2>4. ApplyModifyParameter(tr[2], tr[3])
    <3>1. CASE tr[1] = "param"
      BY <3>1 DEF ApplyTransform, tr
    <3> QED BY <2>2, <3>1
  <2>5. ApplyModifyParameter(idx, first)
    BY <2>2, <2>3, <2>4
  <2>6. CASE idx >= Len(method.params)
    <3>1. ~Regular
      <4>1. Len(method.params) \in Nat
        BY <1>1, SlotStep
      <4>2. ~ (idx < Len(method.params))
        BY <2>1, <2>6, <4>1
      <4> QED BY <1>11, <4>2 DEF Regular, IndexesExist
    <3> HIDE DEF idx, first, shift
    <3> QED BY <2>5, <2>6, <3>1 DEF ApplyModifyParameter
  <2>7. CASE ~ (idx >= Len(method.params))
    <3>1. Len(method.params) \in Nat
      BY <1>1, SlotStep
    <3>2. idx < Len(method.params)
      <4> HIDE DEF idx
      <4> QED BY <2>1, <2>7, <3>1
    <3>3. ~first => shift = 0
      BY <1>3, <1>6, <2>1
    <3>4. first \in BOOLEAN
      OBVIOUS
    <3>5. Regular => ~method.loop
      BY <1>9, <2>1
    <3> HIDE DEF idx, first
    <3>6. /\ Fits(method, registers + shift,
                  AtStart(code, ModifyCode(method, registers + shift, idx)
                      \o IF first THEN ShiftParams(method, registers + shift, shift) ELSE << >>),
                  Regular)
          /\ HeadRoom(registers + shift, Ins(method)) = 0
      BY <1>1, <1>2, <2>1, <3>2, <3>3, <3>4, <3>5, ModifyFits
    <3>7. /\ registers' = registers + shift
          /\ code' = AtStart(code, ModifyCode(method, registers + shift, idx)
                      \o IF first THEN ShiftParams(method, registers + shift, shift) ELSE << >>)
          /\ transforms' = Tail(transforms)
          /\ status' = status
      BY <2>5, <2>7 DEF ApplyModifyParameter
    <3> QED BY <3>6, <3>7
  <2> QED BY <2>6, <2>7
<1>12. CASE i > Len(hooks.params) /\ hooks.enter /\ tr = << "enter" >>
  <2> DEFINE shift == HeadRoom(registers, Ins(method))
  <2>1. tr[1] = "enter" /\ "enter" # "param"
    BY <1>12
  <2>2. ApplyEntryHook
    BY <2>1 DEF ApplyTransform, tr
  <2>3. Regular => ~method.loop
    BY <1>12 DEF Regular
  <2>4. /\ Fits(method, registers + shift,
                AtStart(code, EntryCode(method, registers + shift)
                    \o ShiftParams(method, registers + shift, shift)), Regular)
        /\ HeadRoom(registers + shift, Ins(method)) = 0
    BY <1>1, <1>2, <2>3, EntryFits
  <2> QED BY <2>2, <2>4 DEF ApplyEntryHook
<1>13. CASE i > Len(hooks.params) /\ hooks.exit /\ tr = << "exit" >>
  <2> DEFINE n == Len(method.rets)
             x == (CHOOSE f : IsInstrumented(method, registers, code, n, f))[n]
  <2>1. tr[1] = "exit" /\ "exit" # "param" /\ "exit" # "enter"
    BY <1>13
  <2>2. ApplyExitHook
    BY <2>1 DEF ApplyTransform, tr
  <2>3. /\ registers' = x.registers /\ code' = x.code
        /\ transforms' = Tail(transforms) /\ status' = status
    BY <2>2 DEF ApplyExitHook, IsInstrumented
  <2>4. Fits(method, x.registers, x.code, Regular) /\ x.registers >= registers
    BY <1>1, <1>2, ExitHookFits
  <2>5. ASSUME hooks.params # << >>
        PROVE  HeadRoom(registers', Ins(method)) = 0
    <3>1. done > 0
      BY <1>6, <1>8, <1>13, <2>5
    <3>2. HeadRoom(registers, Ins(method)) = 0
      BY <1>3, <2>5, <3>1
    <3>3. registers' \in Nat /\ registers' >= registers
      BY <2>3, <2>4 DEF Fits
    <3> QED BY <1>10, <3>2, <3>3 DEF HeadRoom
  <2> QED BY <2>3, <2>4, <2>5
<1> QED BY <1>7, <1>11, <1>12, <1>13 DEF IsQueued

\* Before the method is entered only the transforms, the registers and the
\* instruction list change.
LEMMA WeavingTransforms ==
    ASSUME WeavingInv, ApplyTransform
    PROVE  WeavingInv'
<1> DEFINE all == Transforms(hooks)
           L == Len(transforms)
<1>1. /\ UNCHANGED << method, hooks, regs, pc, array, pending, left, looped, calls >>
      /\ status = "transform" /\ transforms # << >>
  BY DEF ApplyTransform
<1>2. /\ TypeOK /\ (looped # "no" => method.loop)
      /\ pc = 1 /\ calls = << >> /\ looped = "no" /\ TransformsLeft
  BY <1>1 DEF WeavingInv, NotEntered
<1>3. transforms \in Seq(Transform) /\ L \in Nat /\ L # 0 /\ DOMAIN transforms = 1..L
  BY <1>1, <1>2 DEF TypeOK
<1>4. Regular' = Regular
  <2>1. IndexesExist' = IndexesExist
    BY <1>1 DEF IndexesExist
  <2> QED BY <1>1, <2>1 DEF Regular
<1>5. CASE /\ status' = "failed" /\ transforms' = << >> /\ ~Regular
           /\ UNCHANGED << registers, code >>
  <2>1. TypeOK'
    BY <1>1, <1>2, <1>5 DEF TypeOK
  <2>2. ArgumentsArrive'
    <3>1. PICK b \in DOMAIN code : Skeleton(method, code, b)
      BY DEF WeavingInv, ArgumentsArrive
    <3> QED BY <1>1, <1>4, <1>5, <3>1 DEF ArgumentsArrive
  <2> QED BY <1>1, <1>2, <1>5, <2>1, <2>2 DEF WeavingInv, NotEntered
<1>6. CASE /\ status' = status /\ transforms' = Tail(transforms)
           /\ Fits(method, registers', code', Regular)
           /\ hooks.params # << >> => HeadRoom(registers', Ins(method)) = 0
  <2>1. transforms' \in Seq(Transform) /\ Len(transforms') = L - 1
        /\ \A i \in 1..(L - 1) : transforms'[i] = transforms[i + 1]
    BY <1>3, <1>6
  <2>2. TypeOK'
    BY <1>1, <1>2, <1>6, <2>1 DEF TypeOK, Fits
  <2>3. ArgumentsArrive'
    BY <1>1, <1>4, <1>6 DEF Fits, ArgumentsArrive
  <2>4. TransformsLeft'
    <3> DEFINE done == Len(all) - L
               later == Len(all) - (L - 1)
    <3>1. /\ done >= 0 /\ \A i \in DOMAIN transforms : transforms[i] = all[done + i]
      BY <1>2 DEF TransformsLeft
    <3>2. all \in Seq(Transform)
      <4>1. HooksShape(hooks)
        BY <1>2, JobShape
      <4> QED BY <4>1, TransformsQueued
    <3>3. Len(all) \in Nat
      BY <3>2
    <3> HIDE DEF all, L
    <3>4. later \in Nat /\ later >= 0 /\ later = done + 1
      BY <1>3, <3>1, <3>3
    <3>5. ASSUME NEW i \in 1..(L - 1)
          PROVE  transforms'[i] = all[later + i]
      <4>1. i + 1 \in 1..L /\ done + (i + 1) = later + i
        BY <1>3, <3>1, <3>3
      <4> HIDE DEF done, later
      <4> QED BY <1>3, <2>1, <3>1, <4>1
    <3>6. DOMAIN transforms' = 1..(L - 1) /\ Len(transforms') = L - 1
      BY <1>3, <2>1
    <3>7. Transforms(hooks)' = all
      BY <1>1 DEF all
    <3> QED BY <1>1, <1>6, <3>4, <3>5, <3>6, <3>7 DEF TransformsLeft
  <2> QED BY <1>1, <1>2, <1>6, <2>2, <2>3, <2>4 DEF WeavingInv, NotEntered
<1> QED BY <1>5, <1>6, TransformFits

LEMMA WeavingAssembles ==
    ASSUME WeavingInv, Assemble \/ BailOut
    PROVE  WeavingInv'
<1>1. Regular' = Regular
  <2>1. UNCHANGED << method, hooks >>
    BY DEF Assemble, BailOut, build
  <2>2. IndexesExist' = IndexesExist
    BY <2>1 DEF IndexesExist
  <2> QED BY <2>1, <2>2 DEF Regular
<1>2. /\ TypeOK /\ NotEntered /\ (looped # "no" => method.loop) /\ ArgumentsArrive
  BY DEF WeavingInv
<1>3. CASE Assemble
  <2>1. UNCHANGED << method, hooks, transforms, registers, code >>
        /\ UNCHANGED << regs, pc, array, pending, left, looped, calls >>
        /\ status = "transform"
    BY <1>3 DEF Assemble, build
  <2>2. status' \in {"aborted", "rejected", "ready"}
    <3>1. status' = "aborted" \/ status' = "rejected" \/ status' = "ready"
      BY <1>3 DEF Assemble
    <3> QED BY <3>1
  <2>3. TypeOK'
    BY <1>2, <2>1, <2>2 DEF TypeOK
  <2>4. ArgumentsArrive'
    <3>1. PICK b \in DOMAIN code : /\ Skeleton(method, code, b)
                                   /\ Regular => Woven(method, code, registers, b)
      BY <1>2 DEF ArgumentsArrive
    <3> QED BY <1>1, <2>1, <2>2, <3>1 DEF ArgumentsArrive
  <2>5. NotEntered'
    BY <1>2, <2>1, <2>2 DEF NotEntered
  <2> QED BY <1>2, <2>1, <2>2, <2>3, <2>4, <2>5 DEF WeavingInv
<1>4. CASE BailOut
  <2>1. UNCHANGED << method, hooks, transforms, registers, regs, pc, array, pending, left, looped, calls >>
        /\ status = "failed" /\ status' = "ready" /\ code' = Compiled(method)
    BY <1>4 DEF BailOut
  <2>2. ~Regular
    BY <1>2, <2>1 DEF ArgumentsArrive
  <2>3. MethodShape(method)
    BY <1>2, JobShape
  <2>4. code' \in Seq(Instruction) /\ \E b \in DOMAIN code' : Skeleton(method, code', b)
    BY <2>1, <2>3, CompiledFits DEF Fits
  <2>5. TypeOK'
    BY <1>2, <2>1, <2>4 DEF TypeOK
  <2>6. ArgumentsArrive'
    BY <1>1, <2>1, <2>2, <2>4 DEF ArgumentsArrive
  <2>7. NotEntered'
    BY <1>2, <2>1 DEF NotEntered
  <2> QED BY <1>2, <2>1, <2>5, <2>6, <2>7 DEF WeavingInv
<1> QED BY <1>3, <1>4

----------------------------------------------------------------------------
(* The woven method runs.                                                  *)

Place(b) == Places(method, code, registers, b)

LEMMA ChainDomain ==
    ASSUME NEW m, NEW c, NEW r, NEW b \in Nat, NEW p, Chain(m, c, r, b, p)
    PROVE  \A j \in 1..b : DOMAIN p[j] = 0..(Ins(m) - 1)
<1> DEFINE T == {j \in 1..b : DOMAIN p[j] # 0..(Ins(m) - 1)}
<1> SUFFICES ASSUME T # {}
             PROVE  FALSE
  OBVIOUS
<1>1. T \in SUBSET Nat
  OBVIOUS
<1>2. PICK j \in T : \A x \in T : j <= x
  <2> HIDE DEF T
  <2> QED BY <1>1, Least
<1>3. j \in 1..b /\ DOMAIN p[j] # 0..(Ins(m) - 1)
  BY <1>2
<1>4. j # 1
  BY <1>3 DEF Chain, Block
<1>5. j - 1 \in 1..(b - 1) /\ j - 1 \in 1..b /\ (j - 1) + 1 = j /\ ~ (j <= j - 1)
  BY <1>3, <1>4
<1>6. DOMAIN p[j - 1] = 0..(Ins(m) - 1)
  BY <1>2, <1>5
<1>7. p[j] = Moved(c[j - 1], p[j - 1])
  BY <1>5 DEF Chain
<1>8. DOMAIN p[j] = DOMAIN p[j - 1]
  BY <1>7 DEF Moved
<1> QED BY <1>3, <1>6, <1>8

LEMMA RunningFacts ==
    ASSUME WeavingInv, status = "running"
    PROVE  /\ TypeOK /\ MethodShape(method)
           /\ code \in Seq(Instruction) /\ pc \in DOMAIN code /\ pc \in Nat /\ pc # 0
           /\ DOMAIN code = 1..Len(code) /\ Len(code) \in Nat
           /\ code[pc] \in Instruction
           /\ registers \in Nat /\ regs \in [0..(registers - 1) -> Token]
           /\ DOMAIN regs = 0..(registers - 1)
           /\ array \in Seq(Token) /\ pending \in Seq(Token) /\ left \in [this : Token, result : Seq(Token)]
           /\ calls \in Seq(HookCall)
           /\ Ins(method) \in Nat /\ method.locals \in Nat
           /\ registers >= method.locals + Ins(method)
<1>1. TypeOK
  BY DEF WeavingInv
<1>2. MethodShape(method)
  BY <1>1, JobShape
<1>3. code \in Seq(Instruction) /\ pc \in DOMAIN code
  BY <1>1 DEF TypeOK
<1>4. pc \in Nat /\ pc # 0 /\ DOMAIN code = 1..Len(code) /\ Len(code) \in Nat /\ code[pc] \in Instruction
  BY <1>3
<1>5. registers \in Nat /\ regs \in [0..(registers - 1) -> Token]
      /\ array \in Seq(Token) /\ pending \in Seq(Token) /\ left \in [this : Token, result : Seq(Token)]
      /\ calls \in Seq(HookCall) /\ registers >= method.locals + Ins(method)
  BY <1>1 DEF TypeOK
<1>6. DOMAIN regs = 0..(registers - 1)
  BY <1>5
<1> QED BY <1>1, <1>2, <1>3, <1>4, <1>5, <1>6, InsIsNat

\* A method that has been woven and where it is on the way to its own code.
OnTheWay(b) ==
    /\ b \in DOMAIN code
    /\ Skeleton(method, code, b)
    /\ Regular /\ Woven(method, code, registers, b)

LEMMA WayFacts ==
    ASSUME WeavingInv, status = "running", NEW b, OnTheWay(b)
    PROVE  /\ b \in Nat /\ b # 0
           /\ Place(b)[1] = Block(method, registers - Ins(method))
           /\ Place(b)[b] = Block(method, ThisIndex(method))
           /\ \A j \in 1..b : DOMAIN Place(b)[j] = 0..(Ins(method) - 1)
           /\ \A j \in 1..(b - 1) : /\ Place(b)[j + 1] = Moved(code[j], Place(b)[j])
                                    /\ Passes(method, code, j, Place(b)[j])
<1>1. b \in Nat /\ b # 0
  BY RunningFacts DEF OnTheWay
<1>2. Leads(method, code, registers, b, Place(b))
  BY <1>1, WovenLeads DEF OnTheWay, Place
<1>3. Chain(method, code, registers, b, Place(b))
  BY <1>2 DEF Leads
<1>4. \A j \in 1..b : DOMAIN Place(b)[j] = 0..(Ins(method) - 1)
  BY <1>1, <1>3, ChainDomain
<1> QED BY <1>1, <1>2, <1>3, <1>4 DEF Leads, Chain

LEMMA Ahead ==
    ASSUME WeavingInv, status = "running", NEW b, OnTheWay(b), pc' = pc + 1, pc' <= b
    PROVE  pc < b /\ pc <= b /\ pc \in 1..(b - 1) /\ pc \in 1..b
<1>1. pc \in Nat /\ pc # 0
  BY RunningFacts
<1>2. b \in Nat
  BY WayFacts
<1> QED BY <1>1, <1>2

\* What is to be shown of a step of the invocation.
LEMMA RunsOn ==
    ASSUME WeavingInv, status = "running", status' = "running", UNCHANGED build,
           pc' \in DOMAIN code, regs' \in [0..(registers - 1) -> Token],
           array' \in Seq(Token), pending' \in Seq(Token), left' \in [this : Token, result : Seq(Token)],
           calls' \in Seq(HookCall),
           looped' \in {"no", "kept", "assigned"}, looped' # "no" => method.loop,
           \A b : OnTheWay(b) /\ (pc <= b => ArgumentsKept(b)) /\ pc' <= b
                    => ArgumentsKept(b)'
    PROVE  WeavingInv'
<1>1. UNCHANGED << method, hooks, transforms, registers, code >>
  BY DEF build
<1>2. Regular' = Regular
  <2>1. IndexesExist' = IndexesExist
    BY <1>1 DEF IndexesExist
  <2> QED BY <1>1, <2>1 DEF Regular
<1>3. TypeOK'
  <2>1. TypeOK
    BY DEF WeavingInv
  <2> QED BY <1>1, <2>1 DEF TypeOK
<1>4. NotEntered'
  BY DEF NotEntered
<1>5. ArgumentsArrive'
  <2>1. PICK b \in DOMAIN code :
            /\ Skeleton(method, code, b)
            /\ Regular => /\ Woven(method, code, registers, b)
                          /\ pc <= b => ArgumentsKept(b)
    BY DEF WeavingInv, ArgumentsArrive
  <2>2. ASSUME Regular, pc' <= b
        PROVE  ArgumentsKept(b)'
    <3>1. OnTheWay(b) /\ (pc <= b => ArgumentsKept(b))
      BY <2>1, <2>2 DEF OnTheWay
    <3> QED BY <2>2, <3>1
  <2> QED BY <1>1, <1>2, <2>1, <2>2 DEF ArgumentsArrive
<1> QED BY <1>1, <1>3, <1>4, <1>5 DEF WeavingInv

\* The invocation ends, or does nothing.
LEMMA Stops ==
    ASSUME WeavingInv, Reject \/ Leave \/ Done
    PROVE  WeavingInv'
<1>1. UNCHANGED << method, hooks, transforms, registers, code, regs, pc, array, pending,
                   left, looped, calls >>
      /\ status' \in {"returned", "rejected", "aborted"}
  BY DEF Reject, Leave, Done, build, vars
<1>2. Regular' = Regular
  <2>1. IndexesExist' = IndexesExist
    BY <1>1 DEF IndexesExist
  <2> QED BY <1>1, <2>1 DEF Regular
<1>3. TypeOK'
  <2>1. TypeOK
    BY DEF WeavingInv
  <2> QED BY <1>1, <2>1 DEF TypeOK
<1>4. ArgumentsArrive'
  <2>1. PICK b \in DOMAIN code :
            Skeleton(method, code, b) /\ (Regular => Woven(method, code, registers, b))
    BY DEF WeavingInv, ArgumentsArrive
  <2> QED BY <1>1, <1>2, <2>1 DEF ArgumentsArrive
<1>5. NotEntered' /\ (looped' # "no" => method'.loop)
  BY <1>1 DEF WeavingInv, NotEntered
<1> QED BY <1>1, <1>3, <1>4, <1>5 DEF WeavingInv

LEMMA CurrentStays ==
    ASSUME UNCHANGED << method, looped, calls >>
    PROVE  \A s : Current(s)' = Current(s)
<1> SUFFICES ASSUME NEW s
             PROVE  Current(s)' = Current(s)
  OBVIOUS
<1>1. CallsOf("modify")' = CallsOf("modify")
  BY DEF CallsOf
<1>2. ResultsFor(s)' = ResultsFor(s)
  BY <1>1 DEF ResultsFor
<1> QED BY <1>2 DEF Current

LEMMA Stutters ==
    ASSUME WeavingInv, UNCHANGED vars
    PROVE  WeavingInv'
<1>1. UNCHANGED << method, hooks, transforms, registers, code, status, regs, pc, array,
                   pending, left, looped, calls >>
  BY DEF vars, build
<1>2. TypeOK' = TypeOK /\ NotEntered' = NotEntered /\ TransformsLeft' = TransformsLeft
  BY <1>1 DEF TypeOK, NotEntered, TransformsLeft
<1>3. Regular' = Regular
  BY <1>1 DEF Regular, IndexesExist
<1>4. \A s : Current(s)' = Current(s)
  BY <1>1, CurrentStays
<1>5. \A b : ArgumentsKept(b)' = ArgumentsKept(b)
  BY <1>1, <1>4 DEF ArgumentsKept
<1>6. ArgumentsArrive'
  BY <1>1, <1>3, <1>5 DEF WeavingInv, ArgumentsArrive
<1> QED BY <1>1, <1>2, <1>6 DEF WeavingInv

LEMMA Enters ==
    ASSUME WeavingInv, Enter
    PROVE  WeavingInv'
<1>1. UNCHANGED << method, hooks, transforms, registers, code, pc, array, pending,
                   left, looped, calls >>
      /\ status = "ready" /\ status' = "running"
      /\ regs' = [r \in 0..(registers - 1) |->
            IF r < registers - Ins(method) THEN Undef
            ELSE Arg(r - (registers - Ins(method)))]
  BY DEF Enter, build
<1>2. TypeOK /\ pc = 1 /\ calls = << >> /\ looped = "no" /\ MethodShape(method)
  BY <1>1, JobShape DEF WeavingInv, NotEntered
<1>3. /\ registers \in Nat /\ Ins(method) \in Nat /\ Ins(method) <= registers
      /\ code \in Seq(Instruction)
  <2>1. Ins(method) \in Nat /\ method.locals \in Nat
    BY <1>2, InsIsNat
  <2> QED BY <1>2, <2>1 DEF TypeOK
<1>4. regs' \in [0..(registers - 1) -> Token]
  <2>1. \A r \in 0..(registers - 1) :
            ~ (r < registers - Ins(method)) => r - (registers - Ins(method)) \in Nat
    BY <1>3
  <2> QED BY <1>1, <2>1, TokensOK
<1>5. Regular' = Regular
  <2>1. IndexesExist' = IndexesExist
    BY <1>1 DEF IndexesExist
  <2> QED BY <1>1, <2>1 DEF Regular
<1>6. PICK b \in DOMAIN code :
          Skeleton(method, code, b) /\ (Regular => Woven(method, code, registers, b))
  BY DEF WeavingInv, ArgumentsArrive
<1>7. 1 \in DOMAIN code /\ b \in Nat /\ b # 0
  BY <1>3
<1>8. TypeOK'
  BY <1>1, <1>2, <1>4, <1>7 DEF TypeOK
<1>9. ASSUME Regular
      PROVE  ArgumentsKept(b)'
  <2>1. Leads(method, code, registers, b, Place(b))
    BY <1>6, <1>7, <1>9, WovenLeads DEF Place
  <2>2. Place(b)[1] = Block(method, registers - Ins(method))
        /\ \A j \in 1..(b - 1) : Passes(method, code, j, Place(b)[j])
    BY <2>1 DEF Leads, Chain
  <2>3. code[1].op # "move_result"
    <3>1. CASE b = 1
      <4>1. code[1] = Body
        BY <1>6, <3>1 DEF Skeleton
      <4> QED BY <4>1 DEF Body
    <3>2. CASE b # 1
      <4>1. 1 \in 1..(b - 1)
        BY <1>7, <3>2
      <4>2. Passes(method, code, 1, Place(b)[1])
        BY <2>2, <4>1
      <4> QED BY <4>2 DEF Passes
    <3> QED BY <3>1, <3>2
  <2>4. ASSUME NEW s \in 0..(Ins(method) - 1)
        PROVE  /\ Place(b)[1][s] \in DOMAIN regs'
               /\ regs'[Place(b)[1][s]] = Arg(s)
    <3> DEFINE r == registers - Ins(method) + s
    <3>1. Place(b)[1][s] = r
      BY <2>2 DEF Block
    <3>2. r \in 0..(registers - 1) /\ ~ (r < registers - Ins(method)) /\ r - (registers - Ins(method)) = s
      BY <1>3
    <3> HIDE DEF r
    <3> QED BY <1>1, <3>1, <3>2
  <2>5. \A s : Current(s)' = Arg(s)
    <3>1. CallsOf("modify")' = {}
      BY <1>1, <1>2 DEF CallsOf
    <3>2. looped' # "assigned"
      BY <1>1, <1>2
    <3> QED BY <3>1, <3>2 DEF Current, ResultsFor
  <2>6. Places(method, code, registers, b)' = Place(b) /\ pc' = 1 /\ code' = code
        /\ Ins(method)' = Ins(method)
    BY <1>1, <1>2 DEF Place
  <2>7. \A s : ~IsResultFor(method, code, pc, s)'
    BY <1>1, <1>2, <2>3 DEF IsResultFor
  <2> QED BY <2>3, <2>4, <2>5, <2>6, <2>7 DEF ArgumentsKept
<1>10. ArgumentsArrive'
  BY <1>1, <1>5, <1>6, <1>9 DEF ArgumentsArrive
<1>11. NotEntered'
  BY <1>1 DEF NotEntered
<1> QED BY <1>1, <1>2, <1>8, <1>10, <1>11 DEF WeavingInv

LEMMA StraightOn ==
    ASSUME WeavingInv, status = "running", code[pc].op \notin {"body", "return"}
    PROVE  pc + 1 \in DOMAIN code
<1>1. PICK b \in DOMAIN code : Skeleton(method, code, b)
  BY DEF WeavingInv, ArgumentsArrive
<1>2. pc \in 1..Len(code) /\ DOMAIN code = 1..Len(code) /\ Len(code) \in Nat
  BY RunningFacts
<1>3. code[Len(code)].op \in {"body", "return"}
  BY <1>1 DEF Skeleton
<1>4. pc # Len(code)
  BY <1>3
<1> DEFINE L == Len(code)
<1> HIDE DEF L
<1>5. pc \in 1..L /\ DOMAIN code = 1..L /\ L \in Nat /\ pc # L
  BY <1>2, <1>4 DEF L
<1> QED BY <1>5

LEMMA BodyFields == Body.op = "body" /\ Label.op = "label" /\ \A k : Return(k).op = "return"
BY DEF Body, Label, Return

\* Only what a listener returns is moved back on the way to the method's own code.
LEMMA NextIsPlain ==
    ASSUME WeavingInv, status = "running", NEW b, OnTheWay(b), pc < b,
           ~ (code[pc].op = "invoke" /\ code[pc].hook = "modify")
    PROVE  code[pc + 1].op # "move_result"
<1>1. b \in Nat /\ pc \in Nat /\ pc # 0
  BY RunningFacts, WayFacts
<1>2. CASE pc + 1 = b
  <2>1. code[b] = Body
    BY DEF OnTheWay, Skeleton
  <2> QED BY <1>2, <2>1, BodyFields
<1>3. CASE pc + 1 # b
  <2>1. pc + 1 \in 1..(b - 1) /\ (pc + 1) - 1 = pc
    BY <1>1, <1>3
  <2>2. Passes(method, code, pc + 1, Place(b)[pc + 1])
    BY <2>1, WayFacts
  <2> QED BY <2>1, <2>2 DEF Passes
<1> QED BY <1>2, <1>3

\* Where the value of argument s is before the instruction at pc.
Held(s, b) ==
    IF IsResultFor(method, code, pc, s)
    THEN pending[s - Slot(method, code[pc - 1].idx) + 1]
    ELSE regs[Place(b)[pc][s]]

LEMMA StepKeeps ==
    ASSUME WeavingInv, status = "running", NEW b, OnTheWay(b), ArgumentsKept(b), pc < b,
           UNCHANGED build, pc' = pc + 1, UNCHANGED << looped, calls >>,
           code[pc].op # "invoke",
           \A s \in 0..(Ins(method) - 1) :
               LET w == Moved(code[pc], Place(b)[pc])[s]
               IN  w \in DOMAIN regs' /\ regs'[w] = Held(s, b)
    PROVE  ArgumentsKept(b)'
<1>1. UNCHANGED << method, hooks, transforms, registers, code >>
  BY DEF build
<1>2. pc \in 1..(b - 1) /\ b \in Nat
  BY RunningFacts, WayFacts
<1>3. Place(b)[pc + 1] = Moved(code[pc], Place(b)[pc])
  BY <1>2, WayFacts
<1>4. code[pc + 1].op # "move_result"
  BY NextIsPlain
<1>5. \A s : ~IsResultFor(method, code, pc + 1, s)
  BY <1>4 DEF IsResultFor
<1>6. \A s : Current(s)' = Current(s)
  BY <1>1, CurrentStays
<1>7. \A s \in 0..(Ins(method) - 1) : Held(s, b) = Current(s)
  BY DEF ArgumentsKept, Held, Place
<1>8. Places(method, code, registers, b)' = Place(b) /\ Ins(method)' = Ins(method)
  BY <1>1 DEF Place
<1>9. \A s : ~IsResultFor(method, code, pc, s)'
  BY <1>1, <1>5
<1> QED BY <1>1, <1>3, <1>4, <1>6, <1>7, <1>8, <1>9 DEF ArgumentsKept

LEMMA Written ==
    ASSUME WeavingInv, status = "running", NEW dst \in Nat, NEW vals \in Seq(Token),
           Write(dst, vals)
    PROVE  /\ regs' \in [0..(registers - 1) -> Token]
           /\ DOMAIN regs' = DOMAIN regs
           /\ \A r \in DOMAIN regs :
                 regs'[r] = IF dst <= r /\ r < dst + Len(vals) THEN vals[r - dst + 1] ELSE regs[r]
<1>1. regs \in [0..(registers - 1) -> Token] /\ DOMAIN regs = 0..(registers - 1)
      /\ registers \in Nat
  BY RunningFacts
<1>2. regs' = [r \in DOMAIN regs |->
          IF dst <= r /\ r < dst + Len(vals) THEN vals[r - dst + 1] ELSE regs[r]]
  BY DEF Write
<1>3. ASSUME NEW r \in DOMAIN regs
      PROVE  (IF dst <= r /\ r < dst + Len(vals) THEN vals[r - dst + 1] ELSE regs[r]) \in Token
  <2>1. Len(vals) \in Nat /\ DOMAIN vals = 1..Len(vals) /\ r \in Nat
    BY <1>1
  <2>2. dst <= r /\ r < dst + Len(vals) => r - dst + 1 \in DOMAIN vals
    BY <2>1
  <2>3. \A j \in DOMAIN vals : vals[j] \in Token
    OBVIOUS
  <2> QED BY <1>1, <2>2, <2>3
<1> QED BY <1>1, <1>2, <1>3

\* Nothing is moved, and no argument is overwritten.
LEMMA QuietKeeps ==
    ASSUME WeavingInv, status = "running", NEW b, OnTheWay(b), ArgumentsKept(b), pc < b,
           UNCHANGED build, pc' = pc + 1, UNCHANGED << looped, calls >>,
           code[pc].op \notin {"invoke", "move", "move_result"},
           DOMAIN regs' = DOMAIN regs,
           \A s \in 0..(Ins(method) - 1) :
               Place(b)[pc][s] \in DOMAIN regs
                   => regs'[Place(b)[pc][s]] = regs[Place(b)[pc][s]]
    PROVE  ArgumentsKept(b)'
<1>1. pc \in 1..b
  BY RunningFacts, WayFacts
<1>2. DOMAIN Place(b)[pc] = 0..(Ins(method) - 1)
  BY <1>1, WayFacts
<1>3. ASSUME NEW s \in 0..(Ins(method) - 1)
      PROVE  LET w == Moved(code[pc], Place(b)[pc])[s]
             IN  w \in DOMAIN regs' /\ regs'[w] = Held(s, b)
  <2>1. Moved(code[pc], Place(b)[pc])[s] = Place(b)[pc][s]
    BY <1>2 DEF Moved
  <2>2. ~IsResultFor(method, code, pc, s)
    BY DEF IsResultFor
  <2>3. Place(b)[pc][s] \in DOMAIN regs
    BY DEF ArgumentsKept, Place
  <2> QED BY <2>1, <2>2, <2>3 DEF Held
<1> QED BY <1>3, StepKeeps

LEMMA AtFacts ==
    ASSUME NEW op, At(op)
    PROVE  /\ status = "running" /\ code[pc].op = op /\ Verifies(code[pc])
           /\ Reads(code[pc]) \subseteq DOMAIN regs /\ Writes(code[pc]) \subseteq DOMAIN regs
BY DEF At, Verifies

LEMMA StepsConst ==
    ASSUME WeavingInv, At("const"), Write(code[pc].dst, code[pc].vals), Straight,
           UNCHANGED << array, pending, left, calls >>
    PROVE  WeavingInv'
<1> DEFINE i == code[pc]
<1>1. status = "running" /\ i.op = "const" /\ i \in Instruction
  BY AtFacts, RunningFacts
<1>2. i.dst \in Nat /\ i.vals \in Seq(Token)
  BY <1>1, InstructionFields
<1>3. UNCHANGED build /\ pc' = pc + 1 /\ UNCHANGED << status, looped >>
  BY DEF Straight
<1>4. pc + 1 \in DOMAIN code
  BY <1>1, StraightOn
<1>5. /\ regs' \in [0..(registers - 1) -> Token] /\ DOMAIN regs' = DOMAIN regs
      /\ \A r \in DOMAIN regs :
            ~ (i.dst <= r /\ r < i.dst + Len(i.vals)) => regs'[r] = regs[r]
  BY <1>1, <1>2, Written
<1>6. ASSUME NEW b, OnTheWay(b), pc <= b => ArgumentsKept(b), pc' <= b
      PROVE  ArgumentsKept(b)'
  <2>1. pc < b /\ pc \in 1..(b - 1) /\ ArgumentsKept(b)
    BY <1>1, <1>3, <1>6, Ahead
  <2>2. Passes(method, code, pc, Place(b)[pc]) /\ DOMAIN Place(b)[pc] = 0..(Ins(method) - 1)
    BY <1>1, <1>6, <2>1, WayFacts
  <2>3. \A s \in 0..(Ins(method) - 1) :
            ~ (i.dst <= Place(b)[pc][s] /\ Place(b)[pc][s] < i.dst + Len(i.vals))
    BY <1>1, <2>2 DEF Passes
  <2> QED BY <1>1, <1>3, <1>5, <1>6, <2>1, <2>3, QuietKeeps
<1> HIDE DEF i
<1> QED BY <1>1, <1>3, <1>4, <1>5, <1>6, RunningFacts, RunsOn DEF WeavingInv, TypeOK

LEMMA TokensRead ==
    ASSUME WeavingInv, status = "running", NEW src \in Nat, NEW n \in Nat,
           src .. (src + n - 1) \subseteq DOMAIN regs
    PROVE  /\ RegsFrom(src, n) \in Seq(Token) /\ Len(RegsFrom(src, n)) = n
           /\ \A i \in 1..n : RegsFrom(src, n)[i] = regs[src + i - 1]
<1>1. \A i \in 1..n : src + i - 1 \in src .. (src + n - 1)
  OBVIOUS
<1>2. \A i \in 1..n : regs[src + i - 1] \in Token
  BY <1>1, RunningFacts
<1>3. RegsFrom(src, n) \in [1..n -> Token]
  BY <1>2 DEF RegsFrom
<1>4. \A i \in 1..n : RegsFrom(src, n)[i] = regs[src + i - 1]
  BY DEF RegsFrom
<1> QED BY <1>3, <1>4, SeqDef

LEMMA StepsMove ==
    ASSUME WeavingInv, At("move"), Write(code[pc].dst, RegsFrom(code[pc].src, code[pc].n)),
           Straight, UNCHANGED << array, pending, left, calls >>
    PROVE  WeavingInv'
<1> DEFINE i == code[pc]
           vals == RegsFrom(i.src, i.n)
<1>1. status = "running" /\ i.op = "move" /\ i \in Instruction
  BY AtFacts, RunningFacts
<1>2. i.dst \in Nat /\ i.src \in Nat /\ i.n \in Nat
  BY <1>1, InstructionFields
<1>3. UNCHANGED build /\ pc' = pc + 1 /\ UNCHANGED << status, looped >>
  BY DEF Straight
<1>4. pc + 1 \in DOMAIN code
  BY <1>1, StraightOn
<1>5. /\ i.src .. (i.src + i.n - 1) \subseteq DOMAIN regs
      /\ i.dst .. (i.dst + i.n - 1) \subseteq DOMAIN regs
  BY <1>1, AtFacts DEF Reads, Writes
<1>6. vals \in Seq(Token) /\ Len(vals) = i.n /\ \A k \in 1..i.n : vals[k] = regs[i.src + k - 1]
  BY <1>1, <1>2, <1>5, TokensRead
<1>7. /\ regs' \in [0..(registers - 1) -> Token] /\ DOMAIN regs' = DOMAIN regs
      /\ \A r \in DOMAIN regs :
            regs'[r] = IF i.dst <= r /\ r < i.dst + i.n THEN vals[r - i.dst + 1] ELSE regs[r]
  <2>1. Write(i.dst, vals)
    OBVIOUS
  <2> HIDE DEF vals, i
  <2> QED BY <1>1, <1>2, <1>6, <2>1, Written
<1>8. ASSUME NEW b, OnTheWay(b), pc <= b => ArgumentsKept(b), pc' <= b
      PROVE  ArgumentsKept(b)'
  <2>1. pc < b /\ pc \in 1..(b - 1) /\ pc \in 1..b /\ ArgumentsKept(b)
    BY <1>1, <1>3, <1>8, Ahead
  <2> DEFINE p == Place(b)[pc]
  <2>3. Passes(method, code, pc, p) /\ DOMAIN p = 0..(Ins(method) - 1)
    BY <1>1, <1>8, <2>1, WayFacts
  <2>4. \A s \in DOMAIN p : i.dst <= p[s] /\ p[s] < i.dst + i.n
                              => i.src <= p[s] /\ p[s] < i.src + i.n
    BY <1>1, <2>3 DEF Passes
  <2>5. ASSUME NEW s \in 0..(Ins(method) - 1)
        PROVE  LET w == Moved(i, p)[s] IN w \in DOMAIN regs' /\ regs'[w] = Held(s, b)
    <3> DEFINE v == p[s]
               w == Moved(i, p)[s]
    <3>1. v \in DOMAIN regs /\ v \in Nat
      <4>1. v \in DOMAIN regs
        BY <2>1 DEF ArgumentsKept, Place
      <4> QED BY <1>1, <4>1, RunningFacts
    <3>2. Held(s, b) = regs[v]
      BY <1>1 DEF Held, IsResultFor
    <3>3. w = IF i.src <= v /\ v < i.src + i.n THEN v - i.src + i.dst ELSE v
      BY <1>1, <2>3 DEF Moved
    <3>4. i.dst <= v /\ v < i.dst + i.n => i.src <= v /\ v < i.src + i.n
      BY <2>3, <2>4
    <3> HIDE DEF p, i, v, w, vals
    <3>5. CASE i.src <= v /\ v < i.src + i.n
      <4> DEFINE k == v - i.src + 1
      <4>1. w \in i.dst .. (i.dst + i.n - 1) /\ i.dst <= w /\ w < i.dst + i.n
            /\ w - i.dst + 1 = k /\ k \in 1..i.n /\ i.src + k - 1 = v
        BY <1>2, <3>1, <3>3, <3>5
      <4>2. w \in DOMAIN regs
        BY <1>5, <4>1
      <4>3. regs'[w] = vals[k]
        BY <1>7, <4>1, <4>2
      <4> HIDE DEF k
      <4>4. vals[k] = regs[v]
        BY <1>6, <4>1
      <4> QED BY <1>7, <3>2, <4>2, <4>3, <4>4 DEF w
    <3>6. CASE ~ (i.src <= v /\ v < i.src + i.n)
      <4>1. w = v /\ ~ (i.dst <= v /\ v < i.dst + i.n)
        BY <3>3, <3>4, <3>6
      <4>2. regs'[v] = regs[v]
        BY <1>7, <3>1, <4>1
      <4> QED BY <1>7, <3>1, <3>2, <4>1, <4>2 DEF w
    <3> QED BY <3>5, <3>6
  <2>6. i.op # "invoke"
    BY <1>1
  <2> QED BY <1>1, <1>3, <1>8, <2>1, <2>5, <2>6, StepKeeps
<1> HIDE DEF i
<1> QED BY <1>1, <1>3, <1>4, <1>7, <1>8, RunningFacts, RunsOn DEF WeavingInv, TypeOK

\* One register that holds no argument is written, or none.
LEMMA StepsOne ==
    ASSUME WeavingInv, status = "running",
           code[pc].op \notin {"invoke", "move", "move_result", "body", "return"},
           Straight, array' \in Seq(Token), UNCHANGED << pending, left, calls >>,
           \/ regs' = regs
           \/ /\ code[pc].op \in {"box", "new_array"}
              /\ \E t \in Token : Write(code[pc].dst, << t >>)
    PROVE  WeavingInv'
<1> DEFINE i == code[pc]
<1>1. i \in Instruction
  BY RunningFacts
<1>2. UNCHANGED build /\ pc' = pc + 1 /\ UNCHANGED << status, looped >>
  BY DEF Straight
<1>3. pc + 1 \in DOMAIN code
  BY StraightOn
<1>4. /\ regs' \in [0..(registers - 1) -> Token] /\ DOMAIN regs' = DOMAIN regs
      /\ \A r \in DOMAIN regs :
            (i.op \in {"box", "new_array"} /\ r = i.dst) \/ regs'[r] = regs[r]
  <2>1. CASE regs' = regs
    BY <2>1, RunningFacts
  <2>2. CASE i.op \in {"box", "new_array"} /\ \E t \in Token : Write(i.dst, << t >>)
    <3>1. i.dst \in Nat
      BY <1>1, <2>2, InstructionFields
    <3>2. PICK t \in Token : Write(i.dst, << t >>)
      BY <2>2
    <3> DEFINE v == << t >>
    <3>3. v \in Seq(Token) /\ Len(v) = 1 /\ Write(i.dst, v)
      BY <3>2
    <3> HIDE DEF v, i
    <3>4. /\ regs' \in [0..(registers - 1) -> Token] /\ DOMAIN regs' = DOMAIN regs
          /\ \A r \in DOMAIN regs :
                regs'[r] = IF i.dst <= r /\ r < i.dst + Len(v) THEN v[r - i.dst + 1] ELSE regs[r]
      BY <3>1, <3>3, Written
    <3>5. \A r \in DOMAIN regs : r \in Nat
      BY RunningFacts
    <3> QED BY <2>2, <3>1, <3>3, <3>4, <3>5
  <2> QED BY <2>1, <2>2
<1>5. ASSUME NEW b, OnTheWay(b), pc <= b => ArgumentsKept(b), pc' <= b
      PROVE  ArgumentsKept(b)'
  <2>1. pc < b /\ pc \in 1..(b - 1) /\ pc \in 1..b /\ ArgumentsKept(b)
    BY <1>2, <1>5, Ahead
  <2>2. Passes(method, code, pc, Place(b)[pc]) /\ DOMAIN Place(b)[pc] = 0..(Ins(method) - 1)
    BY <1>5, <2>1, WayFacts
  <2>3. \A s \in 0..(Ins(method) - 1) : i.op \in {"box", "new_array"} => Place(b)[pc][s] # i.dst
    BY <2>2 DEF Passes
  <2> QED BY <1>2, <1>4, <1>5, <2>1, <2>3, QuietKeeps
<1> HIDE DEF i
<1> QED BY <1>2, <1>3, <1>4, <1>5, RunningFacts, RunsOn DEF WeavingInv, TypeOK

LEMMA TokenFields ==
    ASSUME NEW t \in Token
    PROVE  t[2] \in Nat
BY DEF Token

LEMMA Computes ==
    ASSUME WeavingInv, Compute
    PROVE  WeavingInv'
<1> DEFINE i == code[pc]
<1>1. Straight /\ UNCHANGED << array, pending, left, calls >>
  BY DEF Compute
<1>2. CASE At("const") /\ Write(i.dst, i.vals)
  BY <1>1, <1>2, StepsConst
<1>3. CASE At("move") /\ Write(i.dst, RegsFrom(i.src, i.n))
  BY <1>1, <1>3, StepsMove
<1>4. CASE At("box") /\ Write(i.dst, << Box(regs[i.src][2]) >>)
  <2>1. status = "running" /\ i.op = "box" /\ i \in Instruction /\ Verifies(i)
    BY <1>4, AtFacts, RunningFacts
  <2>2. i.src \in Nat /\ i.n \in Nat
    BY <2>1, InstructionFields
  <2>3. i.n # 0
    <3> DEFINE types == [j \in 1..i.n |-> TypeOf(regs[i.src + j - 1])]
    <3>1. types = IF i.n = 2 THEN << "wide0", "wide1" >> ELSE << "int" >>
      BY <2>1 DEF Verifies
    <3>2. DOMAIN types = 1..i.n
      OBVIOUS
    <3> HIDE DEF types
    <3>3. 1 \in DOMAIN types
      BY <3>1
    <3> QED BY <3>2, <3>3
  <2>4. i.src \in DOMAIN regs
    <3>1. i.src .. (i.src + i.n - 1) \subseteq DOMAIN regs
      BY <2>1 DEF Verifies, Reads
    <3> HIDE DEF i
    <3> QED BY <2>2, <2>3, <3>1
  <2>5. Box(regs[i.src][2]) \in Token
    <3>1. regs[i.src] \in Token
      BY <2>1, <2>4, RunningFacts
    <3> QED BY <3>1, TokenFields, TokensOK
  <2>6. array' \in Seq(Token)
    BY <1>1, <2>1, RunningFacts
  <2> QED BY <1>1, <1>4, <2>1, <2>5, <2>6, StepsOne
<1>5. CASE At("label") /\ UNCHANGED regs
  <2>1. status = "running" /\ i.op = "label"
    BY <1>5, AtFacts
  <2>2. array' \in Seq(Token)
    BY <1>1, <2>1, RunningFacts
  <2> QED BY <1>1, <1>5, <2>1, <2>2, StepsOne
<1> QED BY <1>2, <1>3, <1>4, <1>5 DEF Compute

LEMMA Allocates ==
    ASSUME WeavingInv, Allocate
    PROVE  WeavingInv'
<1> DEFINE i == code[pc]
<1>1. /\ Straight /\ UNCHANGED << pending, left, calls >>
      /\ At("new_array") /\ Write(i.dst, << ArrayRef >>)
      /\ array' = [j \in 1..regs[i.size][2] |-> Undef]
  BY DEF Allocate
<1>2. status = "running" /\ i.op = "new_array" /\ Verifies(i)
  BY <1>1, AtFacts
<1>3. i.size \in DOMAIN regs
  BY <1>2 DEF Verifies, Reads
<1>4. regs[i.size][2] \in Nat
  <2>1. regs[i.size] \in Token
    BY <1>2, <1>3, RunningFacts
  <2> QED BY <2>1, TokenFields
<1>5. array' \in Seq(Token)
  <2> DEFINE n == regs[i.size][2]
  <2>1. array' = [j \in 1..n |-> Undef] /\ n \in Nat
    BY <1>1, <1>4
  <2> HIDE DEF n
  <2>2. array' \in [1..n -> Token]
    BY <2>1, TokensOK
  <2> QED BY <2>1, <2>2, SeqDef
<1>6. ArrayRef \in Token
  BY TokensOK
<1> HIDE DEF i
<1> QED BY <1>1, <1>2, <1>5, <1>6, StepsOne DEF i

LEMMA Stores ==
    ASSUME WeavingInv, Store
    PROVE  WeavingInv'
<1> DEFINE i == code[pc]
           k == regs[i.idx][2] + 1
           t == regs[i.src]
<1>1. /\ Straight /\ UNCHANGED << regs, pending, left, calls >>
      /\ At("aput") /\ array' = [array EXCEPT ![k] = t]
  BY DEF Store
<1>2. status = "running" /\ i.op = "aput" /\ Verifies(i)
  BY <1>1, AtFacts
<1>3. i.src \in DOMAIN regs
  BY <1>2 DEF Verifies, Reads
<1>4. t \in Token
  BY <1>2, <1>3, RunningFacts
<1>5. array \in Seq(Token)
  BY <1>2, RunningFacts
<1> HIDE DEF k, t
<1>6. array' \in Seq(Token)
  <2>1. array' = [array EXCEPT ![k] = t]
    BY <1>1
  <2>2. array \in [1..Len(array) -> Token] /\ Len(array) \in Nat
    BY <1>5
  <2>3. array' \in [1..Len(array) -> Token]
    BY <1>4, <2>1, <2>2
  <2> QED BY <2>2, <2>3, SeqDef
<1> QED BY <1>1, <1>2, <1>6, StepsOne

\* What a listener has returned is put where its parameter was.
LEMMA MovesResultBack ==
    ASSUME WeavingInv, MoveResultBack
    PROVE  WeavingInv'
<1> DEFINE i == code[pc]
<1>1. /\ Straight /\ UNCHANGED << array, left, calls >>
      /\ At("move_result") /\ Write(i.dst, pending) /\ pending' = << >>
  BY DEF MoveResultBack
<1>2. status = "running" /\ i.op = "move_result" /\ i \in Instruction
  BY <1>1, AtFacts, RunningFacts
<1>3. i.dst \in Nat /\ i.n \in Nat /\ pending \in Seq(Token)
  BY <1>2, InstructionFields, RunningFacts
<1>4. UNCHANGED build /\ pc' = pc + 1 /\ UNCHANGED << status, looped >>
  BY <1>1 DEF Straight
<1>5. pc + 1 \in DOMAIN code
  BY <1>2, StraightOn
<1>6. /\ regs' \in [0..(registers - 1) -> Token] /\ DOMAIN regs' = DOMAIN regs
      /\ \A r \in DOMAIN regs :
            regs'[r] = IF i.dst <= r /\ r < i.dst + Len(pending)
                       THEN pending[r - i.dst + 1] ELSE regs[r]
  BY <1>1, <1>2, <1>3, Written
<1>7. ASSUME NEW b, OnTheWay(b), pc <= b => ArgumentsKept(b), pc' <= b
      PROVE  ArgumentsKept(b)'
  <2>1. pc < b /\ pc \in 1..(b - 1) /\ pc \in 1..b /\ ArgumentsKept(b)
    BY <1>2, <1>4, <1>7, Ahead
  <2> DEFINE p == Place(b)[pc]
             slot == Slot(method, code[pc - 1].idx)
  <2>2. Passes(method, code, pc, p) /\ DOMAIN p = 0..(Ins(method) - 1)
    BY <1>2, <1>7, <2>1, WayFacts
  <2>3. /\ code[pc - 1].op = "invoke" /\ code[pc - 1].hook = "modify" /\ pc > 1
        /\ \A s \in DOMAIN p :
              IF IsResultFor(method, code, pc, s)
              THEN p[s] = i.dst + s - slot
              ELSE ~ (i.dst <= p[s] /\ p[s] < i.dst + i.n)
    BY <1>2, <2>2 DEF Passes
  <2>4. Len(pending) = i.n
    BY <1>2, <2>1 DEF ArgumentsKept
  <2>5. slot \in Nat
    <3>1. pc - 1 \in DOMAIN code
      BY <1>2, <2>3, RunningFacts
    <3>2. code[pc - 1].idx < Len(method.params)
      BY <1>7, <2>3, <3>1 DEF OnTheWay, Skeleton
    <3>3. code[pc - 1] \in Instruction
      BY <1>2, <3>1, RunningFacts
    <3>4. code[pc - 1].idx \in Nat
      BY <2>3, <3>3, InstructionFields
    <3>5. MethodShape(method)
      BY <1>2, RunningFacts
    <3>6. Len(method.params) \in Nat
      BY <3>5, SlotStep
    <3>7. code[pc - 1].idx \in 0..Len(method.params)
      BY <3>2, <3>4, <3>6
    <3> QED BY <3>5, <3>7, SlotStep
  <2>6. ASSUME NEW s \in 0..(Ins(method) - 1)
        PROVE  LET w == Moved(i, p)[s] IN w \in DOMAIN regs' /\ regs'[w] = Held(s, b)
    <3> DEFINE v == p[s]
    <3>1. Moved(i, p)[s] = v
      BY <1>2, <2>2 DEF Moved
    <3>2. v \in DOMAIN regs /\ v \in Nat
      <4>1. v \in DOMAIN regs
        BY <2>1 DEF ArgumentsKept, Place
      <4> QED BY <1>2, <4>1, RunningFacts
    <3>3. CASE IsResultFor(method, code, pc, s)
      <4>1. slot <= s /\ s < slot + i.n
        BY <3>3 DEF IsResultFor
      <4>2. v = i.dst + s - slot
        BY <2>2, <2>3, <3>3
      <4>3. Held(s, b) = pending[s - slot + 1]
        BY <3>3 DEF Held
      <4>4. s \in Nat
        OBVIOUS
      <4> HIDE DEF v, slot, i
      <4>5. i.dst <= v /\ v < i.dst + Len(pending) /\ v - i.dst + 1 = s - slot + 1
        BY <1>3, <2>4, <2>5, <4>1, <4>2, <4>4
      <4>6. regs'[v] = pending[s - slot + 1]
        BY <1>6, <3>2, <4>5
      <4> QED BY <1>6, <3>1, <3>2, <4>3, <4>6
    <3>4. CASE ~IsResultFor(method, code, pc, s)
      <4>1. ~ (i.dst <= v /\ v < i.dst + Len(pending))
        BY <2>2, <2>3, <2>4, <3>4
      <4>2. Held(s, b) = regs[v]
        BY <3>4 DEF Held
      <4> HIDE DEF v, slot, i
      <4>3. regs'[v] = regs[v]
        BY <1>6, <3>2, <4>1
      <4> QED BY <1>6, <3>1, <3>2, <4>2, <4>3
    <3> QED BY <3>3, <3>4
  <2>7. i.op # "invoke"
    BY <1>2
  <2> QED BY <1>1, <1>2, <1>4, <1>7, <2>1, <2>6, <2>7, StepKeeps
<1>8. << >> \in Seq(Token)
  OBVIOUS
<1> HIDE DEF i
<1> QED BY <1>1, <1>2, <1>4, <1>5, <1>6, <1>7, <1>8, RunningFacts, RunsOn DEF WeavingInv, TypeOK

\* How many registers of result a hook may replace.
Replaces(m, hook, idx) ==
    CASE hook = "enter" -> 0
      [] hook = "modify" -> Len(Slots(m.params[idx + 1]))
      [] hook = "exit" -> RetCount(m)

LEMMA HookTypesCount ==
    ASSUME NEW m, MethodShape(m), NEW hook \in {"enter", "modify", "exit"}, NEW idx \in Nat,
           hook = "modify" => idx < Len(m.params)
    PROVE  /\ Replaces(m, hook, idx) \in 0..2
           /\ \E k \in Nat : /\ DOMAIN HookTypes(m, hook, idx) = 1..k
                             /\ Replaces(m, hook, idx) <= k
<1> DEFINE this == IF m.static THEN << >> ELSE << "ref" >>
           wide == << "wide0", "wide1" >>
<1>1. this \in Seq(SlotType) /\ wide \in Seq(SlotType) /\ Len(wide) = 2
  <2>1. "ref" \in SlotType /\ "wide0" \in SlotType /\ "wide1" \in SlotType
    BY DEF SlotType
  <2>2. << "ref" >> \in Seq(SlotType) /\ << >> \in Seq(SlotType)
    BY <2>1
  <2>3. wide \in Seq(SlotType) /\ Len(wide) = 2
    BY <2>1
  <2> QED BY <2>2, <2>3
<1>2. CASE hook = "enter"
  <2> DEFINE ref == << "ref" >>
  <2>1. ref \in Seq(SlotType)
    BY DEF SlotType
  <2>2. HookTypes(m, hook, idx) = wide \o ref /\ Replaces(m, hook, idx) = 0
    BY <1>2 DEF HookTypes, Replaces
  <2> HIDE DEF wide, ref
  <2>3. DOMAIN (wide \o ref) = 1..(Len(wide) + Len(ref)) /\ Len(wide) + Len(ref) \in Nat
    BY <1>1, <2>1, Concat
  <2> QED BY <2>2, <2>3
<1>3. CASE hook = "modify"
  <2> DEFINE int == << "int" >>
             slots == Slots(m.params[idx + 1])
             rest == int \o this
  <2>1. int \in Seq(SlotType)
    BY DEF SlotType
  <2>2. Replaces(m, hook, idx) = Len(slots)
    BY <1>3 DEF Replaces
  <2>3. HookTypes(m, hook, idx) = wide \o (rest \o slots)
    BY <1>3 DEF HookTypes
  <2>4. slots \in Seq(SlotType) /\ Len(slots) \in 1..2
    <3>1. idx + 1 \in DOMAIN m.params
      BY <1>3 DEF MethodShape
    <3>2. m.params[idx + 1] \in ParamType
      BY <3>1 DEF MethodShape
    <3> QED BY <3>2, SlotsOK
  <2> HIDE DEF wide, int, slots, this
  <2>5. rest \in Seq(SlotType)
    BY <1>1, <2>1, Concat
  <2> HIDE DEF rest
  <2>6. rest \o slots \in Seq(SlotType) /\ Len(rest \o slots) = Len(rest) + Len(slots)
    BY <2>4, <2>5, Concat
  <2> DEFINE tail == rest \o slots
  <2>7. Len(rest) \in Nat
    BY <2>5
  <2>8. tail \in Seq(SlotType) /\ Len(tail) >= Len(slots)
    BY <2>4, <2>6, <2>7
  <2> HIDE DEF tail
  <2>9. DOMAIN (wide \o tail) = 1..(Len(wide) + Len(tail)) /\ Len(wide) \in Nat /\ Len(tail) \in Nat
    <3>1. wide \in Seq(SlotType) /\ tail \in Seq(SlotType)
      BY <1>1, <2>8
    <3> QED BY <3>1, Concat
  <2>10. Len(wide) + Len(tail) \in Nat /\ Len(slots) <= Len(wide) + Len(tail)
    BY <2>4, <2>8, <2>9
  <2> QED BY <2>2, <2>3, <2>4, <2>9, <2>10 DEF tail
<1>4. CASE hook = "exit"
  <2> DEFINE slots == Slots(m.ret)
  <2>1. Replaces(m, hook, idx) = Len(slots)
    BY <1>4 DEF Replaces, RetCount
  <2>2. HookTypes(m, hook, idx) = wide \o (this \o slots)
    BY <1>4 DEF HookTypes
  <2>3. slots \in Seq(SlotType) /\ Len(slots) \in 0..2
    <3>1. CASE m.ret \in ParamType
      BY <3>1, SlotsOK
    <3>2. CASE m.ret = "void"
      BY <3>2 DEF Slots
    <3> QED BY <3>1, <3>2 DEF MethodShape
  <2> HIDE DEF wide, slots, this
  <2>4. this \o slots \in Seq(SlotType) /\ Len(this \o slots) = Len(this) + Len(slots)
    BY <1>1, <2>3, Concat
  <2> DEFINE tail == this \o slots
  <2>5. Len(this) \in Nat
    BY <1>1
  <2>6. tail \in Seq(SlotType) /\ Len(tail) >= Len(slots)
    BY <2>3, <2>4, <2>5
  <2> HIDE DEF tail
  <2>7. DOMAIN (wide \o tail) = 1..(Len(wide) + Len(tail)) /\ Len(wide) \in Nat /\ Len(tail) \in Nat
    <3>1. wide \in Seq(SlotType) /\ tail \in Seq(SlotType)
      BY <1>1, <2>6
    <3> QED BY <3>1, Concat
  <2>8. Len(wide) + Len(tail) \in Nat /\ Len(slots) <= Len(wide) + Len(tail)
    BY <2>3, <2>6, <2>7
  <2> QED BY <2>1, <2>2, <2>3, <2>7, <2>8 DEF tail
<1> QED BY <1>2, <1>3, <1>4

\* What a call of HookBridge passes, records and returns.
LEMMA CallFacts ==
    ASSUME WeavingInv, Call
    PROVE  LET i == code[pc]
               n == Replaces(method, i.hook, i.idx)
           IN  /\ Straight /\ UNCHANGED << regs, array, left >> /\ At("invoke")
               /\ i.hook \in {"enter", "modify", "exit"} /\ i.idx \in Nat
               /\ i.hook = "modify" => i.idx < Len(method.params)
               /\ n \in Nat /\ pending' \in Seq(Token) /\ Len(pending') = n
               /\ \E c \in HookCall : /\ c.hook = i.hook /\ c.idx = i.idx /\ c.out = pending'
                                      /\ calls' = Append(calls, c)
<1> DEFINE i == code[pc]
           vals == [j \in DOMAIN i.args |-> regs[i.args[j]]]
           n == Replaces(method, i.hook, i.idx)
           given == SubSeq(vals, Len(vals) - n + 1, Len(vals))
           other == [j \in 1..n |-> IF i.hook = "exit" THEN << "new", j - 1 >>
                                    ELSE Mod(Slot(method, i.idx) + j - 1)]
           c == [hook |-> i.hook, idx |-> i.idx, vals |-> vals, out |-> pending',
                 array |-> IF i.hook = "enter" THEN array ELSE << >>]
<1>1. /\ Straight /\ UNCHANGED << regs, array, left >> /\ At("invoke")
      /\ pending' \in {given, other} /\ calls' = Append(calls, c)
  BY DEF Call, Replaces
<1>2. status = "running" /\ i.op = "invoke" /\ i \in Instruction /\ Verifies(i)
  BY <1>1, AtFacts, RunningFacts
<1>3. i.hook \in {"enter", "modify", "exit"} /\ i.idx \in Nat /\ i.args \in Seq(Nat)
  BY <1>2, InstructionFields
<1>4. i.hook = "modify" => i.idx < Len(method.params)
  <2>1. PICK b \in DOMAIN code : Skeleton(method, code, b)
    BY DEF WeavingInv, ArgumentsArrive
  <2>2. pc \in DOMAIN code
    BY <1>2, RunningFacts
  <2> QED BY <1>2, <2>1, <2>2 DEF Skeleton
<1>5. MethodShape(method) /\ DOMAIN regs = 0..(registers - 1)
      /\ regs \in [0..(registers - 1) -> Token] /\ array \in Seq(Token)
  BY <1>2, RunningFacts
<1>6. Range(i.args) \subseteq DOMAIN regs
  BY <1>2 DEF Verifies, Reads
<1>7. /\ DOMAIN i.args = DOMAIN HookTypes(method, i.hook, i.idx)
  <2> DEFINE types == [j \in DOMAIN i.args |-> TypeOf(regs[i.args[j]])]
  <2>1. types = HookTypes(method, i.hook, i.idx)
    BY <1>2 DEF Verifies
  <2>2. DOMAIN types = DOMAIN i.args
    OBVIOUS
  <2> HIDE DEF types
  <2> QED BY <2>1, <2>2
<1>8. vals \in Seq(Token) /\ Len(vals) = Len(i.args) /\ DOMAIN i.args = 1..Len(i.args)
      /\ Len(i.args) \in Nat
  <2>1. DOMAIN i.args = 1..Len(i.args) /\ Len(i.args) \in Nat
    BY <1>3
  <2>2. \A j \in DOMAIN i.args : i.args[j] \in DOMAIN regs
    BY <1>6 DEF Range
  <2>3. \A j \in DOMAIN i.args : regs[i.args[j]] \in Token
    BY <1>5, <2>2
  <2>4. vals \in [1..Len(i.args) -> Token]
    BY <2>1, <2>3
  <2> QED BY <2>1, <2>4, SeqDef
<1> HIDE DEF i
<1>9. n \in 0..2 /\ n <= Len(vals)
  <2> HIDE DEF n, vals
  <2>1. /\ n \in 0..2
        /\ \E k \in Nat : DOMAIN HookTypes(method, i.hook, i.idx) = 1..k /\ n <= k
    BY <1>3, <1>4, <1>5, HookTypesCount DEF n
  <2>2. PICK k \in Nat : DOMAIN HookTypes(method, i.hook, i.idx) = 1..k /\ n <= k
    BY <2>1
  <2> DEFINE l == Len(i.args)
  <2>3. 1..l = 1..k /\ l \in Nat
    BY <1>7, <1>8, <2>2
  <2> HIDE DEF l
  <2>4. l = k
    BY <2>3
  <2> QED BY <1>8, <2>1, <2>2, <2>4 DEF l
<1>10. given \in Seq(Token) /\ Len(given) = n
  <2> HIDE DEF vals, n
  <2> QED BY <1>8, <1>9
<1>11. other \in Seq(Token) /\ Len(other) = n
  <2>1. ASSUME NEW j \in 1..n
        PROVE  other[j] \in Token
    <3>0. n \in Nat /\ j \in Nat /\ j - 1 \in Nat
      BY <1>9
    <3>1. CASE i.hook = "exit"
      BY <3>0, <3>1 DEF Token
    <3>2. CASE i.hook = "modify"
      <4>1. i.idx \in 0..Len(method.params)
        BY <1>3, <1>4, <1>5, <3>2, SlotStep
      <4>2. Slot(method, i.idx) \in Nat
        BY <1>5, <4>1, SlotStep
      <4> DEFINE q == Slot(method, i.idx) + j - 1
      <4>3. q \in Nat
        BY <3>0, <4>2
      <4>4. other[j] = Mod(q)
        BY <3>2
      <4> HIDE DEF q, other
      <4> QED BY <4>3, <4>4, TokensOK
    <3>3. CASE i.hook = "enter"
      <4>1. n = 0
        BY <3>3 DEF Replaces
      <4> QED BY <4>1
    <3> QED BY <1>3, <3>1, <3>2, <3>3
  <2>2. DOMAIN other = 1..n
    OBVIOUS
  <2>3. n \in Nat
    BY <1>9
  <2>4. other \in [1..n -> Token]
    BY <2>1, <2>2
  <2> HIDE DEF other, n
  <2> QED BY <2>2, <2>3, <2>4, SeqDef
<1>12. n \in Nat /\ pending' \in Seq(Token) /\ Len(pending') = n
  <2> HIDE DEF given, other, n
  <2> QED BY <1>1, <1>9, <1>10, <1>11
<1>13. c \in HookCall /\ c.hook = i.hook /\ c.idx = i.idx /\ c.out = pending'
  <2> DEFINE arr == IF i.hook = "enter" THEN array ELSE << >>
  <2>1. arr \in Seq(Token)
    BY <1>5
  <2> HIDE DEF arr, vals
  <2>2. c = [hook |-> i.hook, idx |-> i.idx, vals |-> vals, out |-> pending', array |-> arr]
    BY DEF arr
  <2> QED BY <1>3, <1>8, <1>12, <2>1, <2>2 DEF HookCall
<1> HIDE DEF c, n
<1> QED BY <1>1, <1>3, <1>4, <1>12, <1>13 DEF i, n

LEMMA Greatest ==
    ASSUME NEW n \in Nat, NEW S \in SUBSET (1..n), S # {}
    PROVE  \E m \in S : \A i \in S : i <= m
<1> DEFINE T == {n - i : i \in S}
<1>1. T \in SUBSET Nat /\ T # {}
  <2>1. \A i \in S : n - i \in Nat
    OBVIOUS
  <2> QED BY <2>1
<1>2. PICK t \in T : \A x \in T : t <= x
  <2> HIDE DEF T
  <2> QED BY <1>1, Least
<1>3. PICK m \in S : t = n - m
  BY <1>2
<1>4. ASSUME NEW i \in S
      PROVE  i <= m
  <2>1. n - i \in T
    OBVIOUS
  <2>2. n - m <= n - i
    BY <1>2, <1>3, <2>1
  <2>3. i \in Nat /\ m \in Nat
    OBVIOUS
  <2> QED BY <2>2, <2>3
<1> QED BY <1>4

\* A call only changes the latest value of what its listener has been passed.
LEMMA CurrentAfterCall ==
    ASSUME calls \in Seq(HookCall), NEW c \in HookCall, calls' = Append(calls, c),
           UNCHANGED << method, looped >>, NEW s
    PROVE  LET hit == /\ c.hook = "modify"
                      /\ Slot(method, c.idx) <= s /\ s < Slot(method, c.idx) + Len(c.out)
           IN  /\ ~hit => Current(s)' = Current(s)
               /\ hit /\ ~ (looped = "assigned" /\ (method.static \/ s > 0))
                      => Current(s)' = c.out[s - Slot(method, c.idx) + 1]
<1> DEFINE N == Len(calls) + 1
           hit == /\ c.hook = "modify"
                  /\ Slot(method, c.idx) <= s /\ s < Slot(method, c.idx) + Len(c.out)
<1>1. /\ N \in Nat /\ Len(calls) \in Nat /\ DOMAIN calls = 1..Len(calls) /\ DOMAIN calls' = 1..N
      /\ \A i \in DOMAIN calls : calls'[i] = calls[i] /\ i \in DOMAIN calls'
      /\ calls'[N] = c /\ N \notin DOMAIN calls
      /\ \A i \in DOMAIN calls' : i \in DOMAIN calls \/ i = N
  OBVIOUS
<1>2. ResultsFor(s) \subseteq DOMAIN calls
  BY DEF ResultsFor, CallsOf
<1>3. ResultsFor(s)' = {i \in DOMAIN calls' : /\ calls'[i].hook = "modify"
                                              /\ Slot(method, calls'[i].idx) <= s
                                              /\ s < Slot(method, calls'[i].idx) + Len(calls'[i].out)}
  BY DEF ResultsFor, CallsOf
<1>4. ResultsFor(s) = {i \in DOMAIN calls : /\ calls[i].hook = "modify"
                                            /\ Slot(method, calls[i].idx) <= s
                                            /\ s < Slot(method, calls[i].idx) + Len(calls[i].out)}
  BY DEF ResultsFor, CallsOf
<1>5. \A i \in DOMAIN calls : i \in ResultsFor(s)' <=> i \in ResultsFor(s)
  BY <1>1, <1>3, <1>4
<1>6. N \in ResultsFor(s)' <=> hit
  <2>1. N \in DOMAIN calls'
    BY <1>1
  <2> HIDE DEF N
  <2> QED BY <1>1, <1>3, <2>1
<1>7. ResultsFor(s)' \subseteq DOMAIN calls'
  BY <1>3
<1> HIDE DEF N, hit
<1>0. looped' = looped /\ method' = method
  OBVIOUS
<1>8. ASSUME ~hit
      PROVE  Current(s)' = Current(s)
  <2> DEFINE R == ResultsFor(s)'
             last == CHOOSE i \in R : \A j \in R : j <= i
             old == CHOOSE i \in ResultsFor(s) : \A j \in ResultsFor(s) : j <= i
  <2>1. R = ResultsFor(s)
    BY <1>1, <1>2, <1>5, <1>6, <1>7, <1>8
  <2>2. Current(s)' = IF looped = "assigned" /\ (method.static \/ s > 0) THEN Own(s)
                      ELSE IF R = {} THEN Arg(s)
                      ELSE calls'[last].out[s - Slot(method, calls'[last].idx) + 1]
    BY <1>0 DEF Current
  <2>3. Current(s) = IF looped = "assigned" /\ (method.static \/ s > 0) THEN Own(s)
                     ELSE IF ResultsFor(s) = {} THEN Arg(s)
                     ELSE calls[old].out[s - Slot(method, calls[old].idx) + 1]
    BY DEF Current
  <2>4. ASSUME R # {}
        PROVE  last = old /\ calls'[last] = calls[old]
    <3>1. R \in SUBSET (1..Len(calls))
      BY <1>1, <1>2, <2>1
    <3> HIDE DEF R
    <3>2. \E i \in R : \A j \in R : j <= i
      BY <1>1, <2>4, <3>1, Greatest
    <3>3. PICK k \in R : \A j \in R : j <= k
      BY <3>2
    <3>4. \A i \in R : (\A j \in R : j <= i) => i = k
      BY <3>1, <3>3
    <3>5. last = k
      BY <3>3, <3>4
    <3>6. k \in ResultsFor(s) /\ \A j \in ResultsFor(s) : j <= k
      BY <2>1, <3>3
    <3>7. \A i \in ResultsFor(s) : (\A j \in ResultsFor(s) : j <= i) => i = k
      BY <2>1, <3>4
    <3>8. old = k
      BY <3>6, <3>7
    <3> HIDE DEF last, old
    <3> QED BY <1>1, <1>2, <3>5, <3>6, <3>8
  <2> DEFINE assigned == looped = "assigned" /\ (method.static \/ s > 0)
             new == calls'[last].out[s - Slot(method, calls'[last].idx) + 1]
             before == calls[old].out[s - Slot(method, calls[old].idx) + 1]
  <2>5. new = before \/ R = {}
    BY <2>4
  <2>6. Current(s)' = IF assigned THEN Own(s) ELSE IF R = {} THEN Arg(s) ELSE new
    BY <2>2
  <2>7. Current(s) = IF assigned THEN Own(s) ELSE IF ResultsFor(s) = {} THEN Arg(s) ELSE before
    BY <2>3
  <2> HIDE DEF R, last, old, assigned, new, before
  <2> QED BY <2>1, <2>5, <2>6, <2>7
<1>9. ASSUME hit, ~ (looped = "assigned" /\ (method.static \/ s > 0))
      PROVE  Current(s)' = c.out[s - Slot(method, c.idx) + 1]
  <2> DEFINE R == ResultsFor(s)'
             last == CHOOSE i \in R : \A j \in R : j <= i
  <2>1. R \in SUBSET (1..N) /\ N \in R /\ N \in Nat
    BY <1>1, <1>6, <1>7, <1>9
  <2> HIDE DEF R
  <2>2. \A j \in R : j <= N
    BY <2>1
  <2>3. \A i \in R : (\A j \in R : j <= i) => i = N
    BY <2>1
  <2>4. last = N
    BY <2>1, <2>2, <2>3
  <2>5. Current(s)' = calls'[last].out[s - Slot(method, calls'[last].idx) + 1]
    BY <1>0, <1>9, <2>1 DEF Current, R
  <2> HIDE DEF last
  <2> QED BY <1>0, <1>1, <2>4, <2>5
<1> QED BY <1>8, <1>9 DEF hit

\* A call of HookBridge on the way to the method's own code.  Only a modifier
\* changes the latest value of an argument, and its move-result follows.
LEMMA CallKeeps ==
    ASSUME WeavingInv, Call, NEW b, OnTheWay(b), ArgumentsKept(b), pc < b
    PROVE  ArgumentsKept(b)'
<1> DEFINE i == code[pc]
           n == Replaces(method, i.hook, i.idx)
           p == Place(b)[pc]
<1>1. /\ Straight /\ UNCHANGED << regs, array, left >> /\ At("invoke")
      /\ i.hook \in {"enter", "modify", "exit"} /\ i.idx \in Nat
      /\ i.hook = "modify" => i.idx < Len(method.params)
      /\ n \in Nat /\ pending' \in Seq(Token) /\ Len(pending') = n
  BY CallFacts
<1>2. PICK c \in HookCall : /\ c.hook = i.hook /\ c.idx = i.idx /\ c.out = pending'
                            /\ calls' = Append(calls, c)
  BY CallFacts
<1>3. status = "running" /\ i.op = "invoke"
  BY <1>1, AtFacts
<1>4. UNCHANGED << method, hooks, transforms, registers, code, looped >> /\ pc' = pc + 1
  BY <1>1 DEF Straight, build
<1>5. b \in Nat /\ pc \in 1..(b - 1) /\ pc \in 1..b /\ pc \in Nat /\ (pc + 1) - 1 = pc
      /\ calls \in Seq(HookCall)
  BY <1>3, RunningFacts, WayFacts
<1>6. /\ Passes(method, code, pc, p) /\ DOMAIN p = 0..(Ins(method) - 1)
      /\ Place(b)[pc + 1] = Moved(i, p)
  BY <1>3, <1>5, WayFacts
<1>7. \A s \in 0..(Ins(method) - 1) : Moved(i, p)[s] = p[s]
  BY <1>3, <1>6 DEF Moved
<1>8. Places(method, code, registers, b)' = Place(b) /\ Ins(method)' = Ins(method)
  BY <1>4 DEF Place
<1>9. \A s \in 0..(Ins(method) - 1) : p[s] \in DOMAIN regs /\ regs[p[s]] = Current(s)
  BY <1>3 DEF ArgumentsKept, Place, IsResultFor
<1>10. \A s \in 0..(Ins(method) - 1) : Places(method, code, registers, b)'[pc'][s] = p[s]
  BY <1>4, <1>6, <1>7, <1>8
<1>11. CASE i.hook # "modify"
  <2>1. code[pc + 1].op # "move_result"
    BY <1>3, <1>11, NextIsPlain
  <2>2. \A s : Current(s)' = Current(s)
    BY <1>2, <1>4, <1>5, <1>11, CurrentAfterCall
  <2>3. \A s : ~IsResultFor(method, code, pc, s)'
    BY <1>4, <2>1 DEF IsResultFor
  <2> HIDE DEF p, i
  <2> QED BY <1>1, <1>4, <1>8, <1>9, <1>10, <2>1, <2>2, <2>3 DEF ArgumentsKept
<1>12. CASE i.hook = "modify"
  <2>1. code[pc + 1].op = "move_result"
    BY <1>3, <1>6, <1>12 DEF Passes
  <2>2. pc + 1 \in 1..(b - 1)
    <3>1. pc + 1 # b
      <4>1. code[b] = Body
        BY DEF OnTheWay, Skeleton
      <4> QED BY <2>1, <4>1, BodyFields
    <3> QED BY <1>5, <3>1
  <2>3. Passes(method, code, pc + 1, Place(b)[pc + 1])
    BY <1>3, <2>2, WayFacts
  <2>4. code[pc + 1].n = n
    <3>1. code[pc + 1].n = Len(Slots(method.params[i.idx + 1]))
      BY <1>5, <2>1, <2>3 DEF Passes
    <3> QED BY <1>12, <3>1 DEF Replaces
  <2>5. looped = "no"
    <3>1. ~method.loop
      BY <1>3, <1>5 DEF OnTheWay, Woven
    <3> QED BY <3>1 DEF WeavingInv
  <2>6. ASSUME NEW s \in 0..(Ins(method) - 1)
        PROVE  IF IsResultFor(method, code, pc, s)'
               THEN pending'[s - Slot(method, i.idx) + 1] = Current(s)'
               ELSE Current(s)' = Current(s)
    <3>1. IsResultFor(method, code, pc, s)'
              <=> Slot(method, i.idx) <= s /\ s < Slot(method, i.idx) + n
      BY <1>4, <1>5, <2>1, <2>4 DEF IsResultFor
    <3> HIDE DEF i, n, p
    <3>2. c.hook = "modify" /\ Slot(method, c.idx) = Slot(method, i.idx) /\ Len(c.out) = n
          /\ c.out = pending'
      BY <1>1, <1>2, <1>12
    <3> QED BY <1>2, <1>4, <1>5, <2>5, <3>1, <3>2, CurrentAfterCall
  <2>7. code'[pc' - 1].idx = i.idx
    BY <1>4, <1>5
  <2>8. code'[pc'].op = "move_result" => Len(pending') = code'[pc'].n
    BY <1>1, <1>4, <2>4
  <2> HIDE DEF p, i, n
  <2>9. ASSUME NEW s \in 0..(Ins(method) - 1)
        PROVE  /\ Places(method, code, registers, b)'[pc'][s] \in DOMAIN regs'
               /\ IF IsResultFor(method, code, pc, s)'
                  THEN pending'[s - Slot(method, code'[pc' - 1].idx) + 1] = Current(s)'
                  ELSE regs'[Places(method, code, registers, b)'[pc'][s]] = Current(s)'
    BY <1>1, <1>9, <1>10, <2>6, <2>7
  <2> QED BY <1>4, <1>8, <2>8, <2>9 DEF ArgumentsKept
<1> QED BY <1>11, <1>12

LEMMA Calls ==
    ASSUME WeavingInv, Call
    PROVE  WeavingInv'
<1> DEFINE i == code[pc]
<1>1. /\ Straight /\ UNCHANGED << regs, array, left >> /\ At("invoke")
      /\ pending' \in Seq(Token)
  BY CallFacts
<1>2. PICK c \in HookCall : calls' = Append(calls, c)
  BY CallFacts
<1>3. status = "running" /\ i.op = "invoke"
  BY <1>1, AtFacts
<1>4. UNCHANGED build /\ pc' = pc + 1 /\ UNCHANGED << status, looped >>
  BY <1>1 DEF Straight
<1>5. pc + 1 \in DOMAIN code
  BY <1>3, StraightOn
<1>6. calls' \in Seq(HookCall) /\ regs' \in [0..(registers - 1) -> Token]
      /\ array' \in Seq(Token) /\ left' \in [this : Token, result : Seq(Token)]
  BY <1>1, <1>2, <1>3, RunningFacts
<1>7. ASSUME NEW b, OnTheWay(b), pc <= b => ArgumentsKept(b), pc' <= b
      PROVE  ArgumentsKept(b)'
  <2>1. pc < b /\ ArgumentsKept(b)
    BY <1>3, <1>4, <1>7, Ahead
  <2> QED BY <1>7, <2>1, CallKeeps
<1> HIDE DEF i
<1> QED BY <1>1, <1>3, <1>4, <1>5, <1>6, <1>7, RunsOn DEF WeavingInv, TypeOK

LEMMA LabelIs ==
    ASSUME NEW i \in Instruction, i.op = "label"
    PROVE  i = Label
BY DEF Instruction, Label

LEMMA AtBody ==
    ASSUME WeavingInv, At("body"), NEW b, Skeleton(method, code, b)
    PROVE  status = "running" /\ pc = b /\ pc \in DOMAIN code /\ code[pc].op = "body"
<1>1. status = "running" /\ code[pc].op = "body"
  BY AtFacts
<1>2. pc \in DOMAIN code
  BY <1>1, RunningFacts
<1> QED BY <1>1, <1>2 DEF Skeleton

\* The jump back finds the arguments where the jump left them.
LEMMA LoopsBack ==
    ASSUME WeavingInv, BodyLoops
    PROVE  WeavingInv'
<1> DEFINE first == ThisIndex(method) + IF method.static THEN 0 ELSE 1
<1>1. /\ At("body") /\ method.loop /\ looped = "no" /\ looped' \in {"kept", "assigned"}
      /\ regs' = [r \in DOMAIN regs |->
              IF looped' = "assigned" /\ first <= r /\ r < method.locals + Ins(method)
              THEN Own(r - ThisIndex(method)) ELSE regs[r]]
      /\ pc' = CHOOSE j \in DOMAIN code : code[j] = Label
      /\ UNCHANGED << build, status, array, pending, left, calls >>
  BY DEF BodyLoops
<1>2. status = "running" /\ code[pc].op = "body"
  BY <1>1, AtFacts
<1>3. /\ MethodShape(method) /\ method.locals \in Nat /\ Ins(method) \in Nat
      /\ registers \in Nat /\ regs \in [0..(registers - 1) -> Token]
      /\ DOMAIN regs = 0..(registers - 1)
      /\ code \in Seq(Instruction)
      /\ array \in Seq(Token) /\ pending \in Seq(Token) /\ left \in [this : Token, result : Seq(Token)]
      /\ calls \in Seq(HookCall)
  BY <1>2, RunningFacts
<1>4. ThisIndex(method) \in Nat /\ first \in Nat /\ first >= ThisIndex(method)
      /\ ThisIndex(method) = method.locals
  BY <1>3 DEF ThisIndex, MethodShape
<1>5. PICK d \in DOMAIN code : Skeleton(method, code, d)
  BY DEF WeavingInv, ArgumentsArrive
<1>6. pc' \in DOMAIN code /\ code[pc'] = Label
  <2>1. PICK j \in DOMAIN code : code[j].op = "label"
    BY <1>1, <1>5 DEF Skeleton
  <2>2. code[j] = Label
    BY <1>3, <2>1, LabelIs
  <2> QED BY <1>1, <2>2
<1>7. DOMAIN regs' = DOMAIN regs /\ regs' \in [0..(registers - 1) -> Token]
  <2>1. ASSUME NEW r \in DOMAIN regs, first <= r
        PROVE  Own(r - ThisIndex(method)) \in Token
    <3>1. r - ThisIndex(method) \in Nat
      BY <1>3, <1>4, <2>1
    <3> QED BY <3>1, TokensOK
  <2> HIDE DEF first
  <2> QED BY <1>1, <1>3, <2>1
<1>8. ASSUME NEW b, OnTheWay(b), pc <= b => ArgumentsKept(b), pc' <= b
      PROVE  ArgumentsKept(b)'
  <2>1. pc = b /\ b \in Nat /\ b # 0
    BY <1>1, <1>2, <1>8, AtBody, WayFacts DEF OnTheWay
  <2>2. ArgumentsKept(b)
    BY <1>8, <2>1
  <2>3. b > 1 /\ code[b - 1] = Label
    BY <1>1, <1>8 DEF OnTheWay, Woven
  <2>4. b - 1 \in 1..(b - 1) /\ (b - 1) + 1 = b /\ b - 1 \in DOMAIN code /\ b - 1 \in 1..b
    BY <1>2, <2>1, <2>3, RunningFacts
  <2>5. pc' = b - 1
    BY <1>6, <1>8, <2>3, <2>4, BodyFields DEF OnTheWay, Skeleton
  <2>6. Place(b)[b] = Moved(Label, Place(b)[b - 1]) /\ DOMAIN Place(b)[b - 1] = 0..(Ins(method) - 1)
        /\ Place(b)[b] = Block(method, ThisIndex(method))
    BY <1>2, <1>8, <2>3, <2>4, WayFacts
  <2>7. ASSUME NEW s \in 0..(Ins(method) - 1)
        PROVE  /\ Place(b)[b - 1][s] = ThisIndex(method) + s
               /\ Place(b)[b][s] = ThisIndex(method) + s
    <3>1. Moved(Label, Place(b)[b - 1])[s] = Place(b)[b - 1][s]
      BY <2>6, BodyFields DEF Moved
    <3>2. Block(method, ThisIndex(method))[s] = ThisIndex(method) + s
      BY DEF Block
    <3> QED BY <2>6, <3>1, <3>2
  <2>8. UNCHANGED << method, hooks, transforms, registers, code, calls >>
    BY <1>1 DEF build
  <2>9. ASSUME NEW s \in 0..(Ins(method) - 1)
        PROVE  Current(s)' = IF looped' = "assigned" /\ (method.static \/ s > 0)
                             THEN Own(s) ELSE Current(s)
    <3>1. ResultsFor(s)' = ResultsFor(s)
      <4>1. CallsOf("modify")' = CallsOf("modify")
        BY <2>8 DEF CallsOf
      <4> QED BY <2>8, <4>1 DEF ResultsFor
    <3>2. looped # "assigned" /\ method' = method /\ calls' = calls
      BY <1>1, <2>8
    <3> QED BY <3>1, <3>2 DEF Current
  <2>10. ASSUME NEW s \in 0..(Ins(method) - 1)
         PROVE  /\ Place(b)[b - 1][s] \in DOMAIN regs'
                /\ regs'[Place(b)[b - 1][s]] = Current(s)'
    <3> DEFINE v == ThisIndex(method) + s
    <3>1. v \in DOMAIN regs /\ regs[v] = Current(s)
      <4>1. ~IsResultFor(method, code, pc, s)
        BY <1>2 DEF IsResultFor
      <4>2. Place(b)[pc][s] \in DOMAIN regs /\ regs[Place(b)[pc][s]] = Current(s)
        BY <2>2, <4>1 DEF ArgumentsKept, Place
      <4> QED BY <2>1, <2>7, <4>2
    <3>2. first <= v <=> method.static \/ s > 0
      BY <1>3, <1>4, SMTT(30)
    <3>3. v < method.locals + Ins(method) /\ v - ThisIndex(method) = s
      BY <1>3, <1>4
    <3>4. regs'[v] = IF looped' = "assigned" /\ first <= v THEN Own(s) ELSE regs[v]
      <4> HIDE DEF v, first
      <4> QED BY <1>1, <3>1, <3>3
    <3> HIDE DEF v, first
    <3>5. regs'[v] = Current(s)'
      <4> DEFINE assigned == looped' = "assigned" /\ (method.static \/ s > 0)
      <4>1. assigned <=> looped' = "assigned" /\ first <= v
        BY <3>2
      <4>2. Current(s)' = IF assigned THEN Own(s) ELSE Current(s)
        BY <2>9
      <4>3. regs'[v] = IF assigned THEN Own(s) ELSE regs[v]
        BY <3>4, <4>1
      <4> HIDE DEF assigned
      <4> QED BY <3>1, <4>2, <4>3
    <3>6. Place(b)[b - 1][s] = v
      BY <2>7 DEF v
    <3> QED BY <1>7, <3>1, <3>5, <3>6
  <2>11. Places(method, code, registers, b)' = Place(b) /\ Ins(method)' = Ins(method)
    BY <2>8 DEF Place
  <2>12. code'[pc'].op = "label"
    BY <1>6, <2>8, BodyFields
  <2>13. \A s : ~IsResultFor(method, code, pc, s)'
    BY <2>12 DEF IsResultFor
  <2> QED BY <2>5, <2>10, <2>11, <2>12, <2>13 DEF ArgumentsKept
<1> HIDE DEF first
<1> QED BY <1>1, <1>2, <1>3, <1>6, <1>7, <1>8, RunsOn

\* From instruction j on, past b, control comes to the k-th return.
ComesTo(c, b, k, j) ==
    /\ j > b
    /\ (j = b + 1 \/ c[j - 1].op = "return")
    /\ \E i \in j..Len(c) : c[i] = Return(k)
          /\ \A h \in j..(i - 1) : c[h].op # "return"

\* Behind the method's own code there is a way into each return.
LEMMA WayToReturn ==
    ASSUME NEW c, DOMAIN c = 1..Len(c), Len(c) \in Nat, NEW b \in DOMAIN c, NEW i \in DOMAIN c,
           b < i, NEW k, c[i] = Return(k)
    PROVE  \E j \in DOMAIN c : ComesTo(c, b, k, j)
<1> DEFINE T == {j \in (b + 1)..i : \A h \in j..(i - 1) : c[h].op # "return"}
<1>1. T \in SUBSET Nat /\ i \in T
  OBVIOUS
<1>2. PICK j \in T : \A x \in T : j <= x
  <2> HIDE DEF T
  <2> QED BY <1>1, Least
<1>3. j \in (b + 1)..i /\ \A h \in j..(i - 1) : c[h].op # "return"
  BY <1>2
<1>4. j \in DOMAIN c /\ j > b /\ i \in j..Len(c)
  BY <1>3
<1>5. j = b + 1 \/ c[j - 1].op = "return"
  <2> SUFFICES ASSUME j # b + 1
               PROVE  c[j - 1].op = "return"
    OBVIOUS
  <2>1. j - 1 \in (b + 1)..i /\ ~ (j <= j - 1)
    BY <1>3
  <2>2. j - 1 \notin T
    BY <1>2, <2>1
  <2>3. PICK h \in (j - 1)..(i - 1) : c[h].op = "return"
    BY <2>1, <2>2
  <2>4. h \notin j..(i - 1)
    BY <1>3, <2>3
  <2>5. h = j - 1
    BY <1>3, <2>3, <2>4
  <2> QED BY <2>3, <2>5
<1> QED BY <1>3, <1>4, <1>5 DEF ComesTo

LEMMA ReturnsOn ==
    ASSUME WeavingInv, BodyReturns
    PROVE  WeavingInv'
<1>1. PICK k \in DOMAIN method.rets :
          LET reg == method.rets[k].reg
              val == IF method.rets[k].own THEN RegsFrom(reg, RetCount(method))
                     ELSE [j \in 1..RetCount(method) |-> << "result", j - 1 >>]
          IN  /\ regs' = [r \in DOMAIN regs |->
                    IF reg <= r /\ r < reg + RetCount(method) THEN val[r - reg + 1]
                    ELSE IF r = ThisIndex(method) /\ ~method.static
                         THEN LeftInThis(method.rets[k].this)
                    ELSE IF r < method.locals + Ins(method) THEN Local ELSE regs[r]]
              /\ left' = [this   |-> IF method.static THEN Undef ELSE regs'[ThisIndex(method)],
                  result |-> val]
              /\ pc' = CHOOSE j \in DOMAIN code : j > pc
                          /\ (j = pc + 1 \/ code[j - 1].op = "return")
                          /\ \E i \in j..Len(code) : code[i] = Return(k)
                                /\ \A h \in j..(i - 1) : code[h].op # "return"
  BY DEF BodyReturns
<1> DEFINE reg == method.rets[k].reg
           n == RetCount(method)
           own == RegsFrom(reg, n)
           other == [j \in 1..n |-> << "result", j - 1 >>]
           val == IF method.rets[k].own THEN own ELSE other
<1>2. /\ At("body") /\ UNCHANGED << build, status, array, pending, looped, calls >>
      /\ regs' = [r \in DOMAIN regs |->
                    IF reg <= r /\ r < reg + n THEN val[r - reg + 1]
                    ELSE IF r = ThisIndex(method) /\ ~method.static
                         THEN LeftInThis(method.rets[k].this)
                    ELSE IF r < method.locals + Ins(method) THEN Local ELSE regs[r]]
      /\ left' = [this   |-> IF method.static THEN Undef ELSE regs'[ThisIndex(method)],
                  result |-> val]
  BY <1>1 DEF BodyReturns
<1>3. status = "running" /\ code[pc].op = "body"
  BY <1>2, AtFacts
<1>4. /\ MethodShape(method) /\ method.locals \in Nat /\ Ins(method) \in Nat
      /\ registers \in Nat /\ regs \in [0..(registers - 1) -> Token]
      /\ DOMAIN regs = 0..(registers - 1) /\ registers >= method.locals + Ins(method)
      /\ array \in Seq(Token) /\ pending \in Seq(Token) /\ calls \in Seq(HookCall)
      /\ DOMAIN code = 1..Len(code) /\ Len(code) \in Nat /\ pc \in DOMAIN code /\ TypeOK
  BY <1>3, RunningFacts
<1>5. reg \in Nat /\ n \in 0..2 /\ reg + n <= method.locals + Ins(method)
  BY <1>4, RetIsNat, JobShape
<1> HIDE DEF reg, n
<1>6. own \in Seq(Token) /\ Len(own) = n
  <2>1. n \in Nat /\ reg .. (reg + n - 1) \subseteq DOMAIN regs
    BY <1>4, <1>5
  <2> QED BY <1>3, <1>5, <2>1, TokensRead
<1>7. other \in Seq(Token) /\ Len(other) = n
  <2>1. \A j \in 1..n : << "result", j - 1 >> \in Token
    BY <1>5 DEF Token
  <2>2. n \in Nat /\ other \in [1..n -> Token] /\ DOMAIN other = 1..n
    BY <1>5, <2>1
  <2> HIDE DEF other
  <2> QED BY <2>2, SeqDef
<1> HIDE DEF own, other
<1>8. val \in Seq(Token) /\ Len(val) = n
  <2>1. CASE method.rets[k].own
    BY <1>6, <2>1
  <2>2. CASE ~method.rets[k].own
    BY <1>7, <2>2
  <2> QED BY <2>1, <2>2
<1> HIDE DEF val
<1>9. regs' \in [0..(registers - 1) -> Token]
  <2>1. ASSUME NEW r \in DOMAIN regs
        PROVE  (IF reg <= r /\ r < reg + n THEN val[r - reg + 1]
                ELSE IF r = ThisIndex(method) /\ ~method.static
                     THEN LeftInThis(method.rets[k].this)
                ELSE IF r < method.locals + Ins(method) THEN Local ELSE regs[r]) \in Token
    <3>1. DOMAIN val = 1..n /\ r \in Nat /\ n \in Nat
      BY <1>4, <1>5, <1>8
    <3>2. reg <= r /\ r < reg + n => r - reg + 1 \in DOMAIN val
      BY <1>5, <3>1
    <3>3. \A j \in DOMAIN val : val[j] \in Token
      BY <1>8
    <3>4. Local \in Token /\ Object \in Token /\ regs[r] \in Token
      BY <1>4, TokensOK
    <3>5. r = ThisIndex(method) => LeftInThis(method.rets[k].this) \in Token
      BY <1>4, <3>4, RetIsNat DEF LeftInThis
    <3> QED BY <3>2, <3>3, <3>4, <3>5
  <2> QED BY <1>2, <1>4, <2>1
<1>17. left' \in [this : Token, result : Seq(Token)]
  <2>1. ~method.static => ThisIndex(method) \in DOMAIN regs
    <3>1. ~method.static => Ins(method) > 0
      BY <1>4, ThisIsAnArgument
    <3> QED BY <1>4, <3>1 DEF ThisIndex
  <2>2. ~method.static => regs'[ThisIndex(method)] \in Token
    BY <1>4, <1>9, <2>1
  <2> QED BY <1>2, <1>8, <2>2, TokensOK
<1>10. PICK d \in DOMAIN code : Skeleton(method, code, d)
  BY DEF WeavingInv, ArgumentsArrive
<1>11. pc = d
  BY <1>2, <1>10, AtBody
<1>12. PICK i \in DOMAIN code : code[i] = Return(k)
  BY <1>10 DEF Skeleton
<1>13. pc < i
  <2>1. code[i].op = "return"
    BY <1>12, BodyFields
  <2>2. i > d
    BY <1>10, <1>12, <2>1 DEF Skeleton
  <2> QED BY <1>4, <1>11, <2>2
<1>14. pc' \in DOMAIN code /\ pc' > pc
  <2>1. \E j \in DOMAIN code : ComesTo(code, pc, k, j)
    BY <1>4, <1>12, <1>13, WayToReturn
  <2>2. pc' = CHOOSE j \in DOMAIN code : ComesTo(code, pc, k, j)
    BY <1>1 DEF ComesTo
  <2>3. pc' \in DOMAIN code /\ ComesTo(code, pc, k, pc')
    BY <2>1, <2>2
  <2> QED BY <2>3 DEF ComesTo
<1>15. ASSUME NEW b, OnTheWay(b), pc <= b => ArgumentsKept(b), pc' <= b
       PROVE  ArgumentsKept(b)'
  <2>1. pc = b /\ b \in Nat
    BY <1>2, <1>3, <1>15, AtBody, WayFacts DEF OnTheWay
  <2>2. pc' \in Nat
    BY <1>4, <1>14
  <2> QED BY <1>14, <1>15, <2>1, <2>2
<1>16. looped' \in {"no", "kept", "assigned"} /\ (looped' # "no" => method.loop)
  BY <1>2, <1>4 DEF WeavingInv, TypeOK
<1> QED BY <1>2, <1>3, <1>4, <1>8, <1>9, <1>14, <1>15, <1>16, <1>17, RunsOn

----------------------------------------------------------------------------
(* Theorems of the specification.                                          *)

\* Whatever the method and the hooks, every step of the transforms and of the
\* woven method keeps the invariant: the instruction list keeps its one body,
\* its returns and its label, and each of the moves, modifiers and the code of
\* the entry hook leaves the arguments where the next one expects them.
THEOREM WeavingInvariance == Spec => []WeavingInv
<1>1. Init => WeavingInv
  BY WeavingInit
<1>2. WeavingInv /\ [Next]_vars => WeavingInv'
  <2> SUFFICES ASSUME WeavingInv, [Next]_vars
               PROVE  WeavingInv'
    OBVIOUS
  <2>1. CASE ApplyTransform
    BY <2>1, WeavingTransforms
  <2>2. CASE Assemble \/ BailOut
    BY <2>2, WeavingAssembles
  <2>3. CASE Enter
    BY <2>3, Enters
  <2>4. CASE Reject \/ Leave \/ Done
    BY <2>4, Stops
  <2>5. CASE Compute
    BY <2>5, Computes
  <2>6. CASE Allocate
    BY <2>6, Allocates
  <2>7. CASE Store
    BY <2>7, Stores
  <2>8. CASE Call
    BY <2>8, Calls
  <2>9. CASE MoveResultBack
    BY <2>9, MovesResultBack
  <2>10. CASE BodyLoops
    BY <2>10, LoopsBack
  <2>11. CASE BodyReturns
    BY <2>11, ReturnsOn
  <2>12. CASE UNCHANGED vars
    BY <2>12, Stutters
  <2> QED BY <2>1, <2>2, <2>3, <2>4, <2>5, <2>6, <2>7, <2>8, <2>9, <2>10, <2>11, <2>12
      DEF Next
<1> QED BY <1>1, <1>2, PTL DEF Spec

\* The registers, the instruction list and the recorded calls have their
\* types; in particular an invocation never runs off its instruction list.
THEOREM TypeCorrect == Spec => []TypeOK
<1>1. WeavingInv => TypeOK
  BY DEF WeavingInv
<1> QED BY <1>1, WeavingInvariance, PTL

\* For methods with any number of parameters of any types, in any number of
\* registers, and any selection of hooks: when the method's own code starts,
\* each argument is where it was compiled to be, with the value its modifier
\* returned.  A method whose first instruction is the target of a jump is only
\* included with an exit hook: the code of the other hooks would be in its loop.
THEOREM ArgumentsInPlace ==
    ASSUME \A job \in Jobs : job.method.loop => ~job.hooks.enter /\ job.hooks.params = << >>
    PROVE  Spec => []ParamsInPlace
<1>1. ASSUME WeavingInv
      PROVE  ParamsInPlace
  <2> SUFFICES ASSUME IndexesExist, status = "running", code[pc] = Body,
                      NEW s \in 0..(Ins(method) - 1)
               PROVE  regs[ThisIndex(method) + s] = Current(s)
    BY DEF ParamsInPlace
  <2>1. Regular
    <3>1. \E job \in Jobs : method = job.method /\ hooks = job.hooks
      BY <1>1 DEF WeavingInv, TypeOK
    <3> QED BY <3>1 DEF Regular
  <2>2. PICK b \in DOMAIN code :
            /\ Skeleton(method, code, b) /\ Woven(method, code, registers, b)
            /\ pc <= b => ArgumentsKept(b)
    BY <1>1, <2>1 DEF WeavingInv, ArgumentsArrive
  <2>3. code[pc].op = "body" /\ pc \in DOMAIN code /\ b \in Nat
    BY <1>1, BodyFields, RunningFacts
  <2>4. pc = b
    BY <2>2, <2>3 DEF Skeleton
  <2>5. ArgumentsKept(b)
    BY <2>2, <2>3, <2>4
  <2>6. Place(b)[b] = Block(method, ThisIndex(method))
    BY <2>2 DEF Woven, Place
  <2>7. ~IsResultFor(method, code, pc, s)
    BY <2>3 DEF IsResultFor
  <2>8. regs[Place(b)[b][s]] = Current(s)
    BY <2>4, <2>5, <2>7 DEF ArgumentsKept, Place
  <2> QED BY <2>6, <2>8 DEF Block
<1> QED BY <1>1, WeavingInvariance, PTL
=============================================================================
