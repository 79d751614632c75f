--------------------------- MODULE CycleDecodeProofs ---------------------------
(***************************************************************************)
(* Proofs about CycleDecode, for any bytes and any table of labels: what   *)
(* leading_flags computes, by induction over the bytes that are left; that *)
(* the set keeps what was decoded first; and that a table no larger than   *)
(* the set's text fits it, braces included.                                *)
(***************************************************************************)
EXTENDS CycleDecode, FiniteSetTheorems, SetInduction, TLAPS

-----------------------------------------------------------------------------
(* leading_flags.  Skip is the recursion it stands for, from the flag where *)
(* it starts to where it stops.                                             *)

Skip(bytes) ==
    CHOOSE skip : skip =
      [i \in 0..Len(bytes) |->
         IF i + 1 < Len(bytes) /\ bytes[i + 1] = "flag" /\ bytes[i + 2] # "format"
           THEN skip[i + 1] ELSE i]

LEMMA LeadingFlagsSkip == \A bytes : LeadingFlags(bytes) = Skip(bytes)[0]
  BY DEF LeadingFlags, Skip

LEMMA CycleBytes ==
  ASSUME NEW bytes \in Cycles
  PROVE  Len(bytes) \in 1..MaxBytes
<1>1. PICK n \in 1..MaxBytes : bytes \in [1..n -> Class]
  BY DEF Cycles
<1>2. MaxBytes \in Nat /\ n \in Nat
  BY CycleAssumption DEF CycleAssumption
<1>3. Len(bytes) = n
  BY <1>1, <1>2
<1>4. QED
  BY <1>3

\* From the end of the bytes backwards the recursion has a solution.
LEMMA SkipSolves ==
  ASSUME NEW bytes \in Cycles
  PROVE  Skip(bytes) = [i \in 0..Len(bytes) |->
                          IF i + 1 < Len(bytes) /\ bytes[i + 1] = "flag" /\ bytes[i + 2] # "format"
                            THEN Skip(bytes)[i + 1] ELSE i]
<1> DEFINE L == Len(bytes)
           Opens(i) == i + 1 < L /\ bytes[i + 1] = "flag" /\ bytes[i + 2] # "format"
           Move(f) == [i \in 0..L |-> IF Opens(i) THEN f[i + 1] ELSE i]
           step == [p \in Nat \X Nat |-> IF p[1] <= L THEN (IF Opens(L - p[1]) THEN p[2] ELSE L - p[1])
                                         ELSE p[2]]
<1>1. L \in Nat
  BY CycleBytes, CycleAssumption DEF CycleAssumption
<1> HIDE DEF L, Opens
<1>2. step \in [Nat \X Nat -> Nat]
  BY <1>1
<1>3. PICK g : Solves(g, Nat, L, step, L)
  <2> HIDE DEF step
  <2>1. QED
    BY <1>1, <1>2, Recursion, Zenon
<1>4. g[0] = L /\ \A k \in 1..L : g[k] = step[<<k, g[k - 1]>>]
  BY <1>3 DEF Solves
<1>5. \A k \in 0..L : g[k] \in Nat
  BY <1>3 DEF Solves
<1>6. \A k \in 1..L : g[k] = IF Opens(L - k) THEN g[k - 1] ELSE L - k
  <2> TAKE k \in 1..L
  <2>1. k - 1 \in 0..L /\ k \in Nat /\ k <= L
    BY <1>1
  <2>2. g[k - 1] \in Nat
    BY <1>5, <2>1
  <2>3. QED
    BY <1>4, <2>1, <2>2
<1> DEFINE f == [i \in 0..L |-> g[L - i]]
<1>7. ~Opens(L)
  BY <1>1 DEF Opens
<1>8. \A i \in 0..L : f[i] = IF Opens(i) THEN f[i + 1] ELSE i
  <2> TAKE i \in 0..L
  <2>1. CASE i = L
    BY <1>1, <1>4, <1>7, <2>1
  <2>2. CASE i # L
    <3> DEFINE k == L - i
    <3>1. k \in 1..L /\ L - k = i /\ k - 1 = L - (i + 1) /\ i + 1 \in 0..L
      BY <1>1, <2>2
    <3>2. f[i] = g[k] /\ f[i + 1] = g[k - 1]
      BY <3>1
    <3>3. g[k] = IF Opens(L - k) THEN g[k - 1] ELSE L - k
      <4> HIDE DEF k
      <4>1. QED
        BY <1>6, <3>1
    <3>4. QED
      <4> HIDE DEF k, f
      <4>1. QED
        BY <3>1, <3>2, <3>3
  <2>3. QED
    BY <2>1, <2>2
<1>9. f = Move(f)
  <2>1. f = [i \in 0..L |-> f[i]]
    OBVIOUS
  <2> HIDE DEF f
  <2>2. QED
    BY <1>8, <2>1
<1>10. \E k : k = Move(k)
  <2> HIDE DEF Move, f
  <2>1. QED
    BY <1>9
<1>11. QED
  BY <1>10 DEF Skip, L, Opens

\* What the recursion computes, by induction over the bytes behind position i:
\* it stops at the first byte that opens something, before the end if it
\* started before the end.
Stops(bytes, i) ==
    LET k == Skip(bytes)[i] IN
        /\ k \in i..Len(bytes) /\ (i < Len(bytes) => k < Len(bytes))
        /\ \A j \in i + 1 .. k : FalseStart(bytes, j)
        /\ ~FalseStart(bytes, k + 1)

LEMMA SkipStops ==
  ASSUME NEW bytes \in Cycles
  PROVE  \A n \in 0..Len(bytes) : Stops(bytes, Len(bytes) - n)
<1> DEFINE L == Len(bytes)
           S == {n \in Nat : n <= L => Stops(bytes, L - n)}
<1>1. L \in Nat
  BY CycleBytes, CycleAssumption DEF CycleAssumption
<1>2. \A i \in 0..L : Skip(bytes)[i] =
        IF i + 1 < L /\ bytes[i + 1] = "flag" /\ bytes[i + 2] # "format"
          THEN Skip(bytes)[i + 1] ELSE i
  <2> DEFINE f == [i \in 0..L |->
                     IF i + 1 < L /\ bytes[i + 1] = "flag" /\ bytes[i + 2] # "format"
                       THEN Skip(bytes)[i + 1] ELSE i]
  <2>1. Skip(bytes) = f
    BY SkipSolves
  <2>2. \A i \in 0..L : Skip(bytes)[i] = f[i]
    <3> HIDE DEF f
    <3>1. QED
      BY <2>1
  <2>3. QED
    BY <2>2
<1> HIDE DEF L
<1>3. 0 \in S
  <2>1. Skip(bytes)[L] = L
    BY <1>1, <1>2
  <2>2. Stops(bytes, L)
    BY <1>1, <2>1 DEF Stops, FalseStart, L
  <2>3. QED
    BY <1>1, <2>2
<1>4. ASSUME NEW n \in Nat, n \in S PROVE n + 1 \in S
  <2> SUFFICES ASSUME n + 1 <= L PROVE Stops(bytes, L - (n + 1))
    OBVIOUS
  <2> DEFINE i == L - (n + 1)
  <2>1. i \in 0..L /\ i < L /\ L - n = i + 1 /\ i \in Nat
    BY <1>1
  <2>2. Stops(bytes, i + 1)
    BY <1>1, <1>4, <2>1
  <2> HIDE DEF i
  <2> DEFINE k == Skip(bytes)[i + 1]
  <2>3. /\ k \in i + 1 .. L /\ (i + 1 < L => k < L)
        /\ \A j \in i + 2 .. k : FalseStart(bytes, j)
        /\ ~FalseStart(bytes, k + 1)
    BY <2>1, <2>2 DEF Stops, L
  <2>4. CASE i + 1 < L /\ bytes[i + 1] = "flag" /\ bytes[i + 2] # "format"
    <3>1. Skip(bytes)[i] = k
      BY <1>2, <2>1, <2>4
    <3>2. FalseStart(bytes, i + 1)
      BY <1>1, <2>1, <2>4 DEF FalseStart, L
    <3> HIDE DEF k
    <3>3. \A j \in i + 1 .. k : FalseStart(bytes, j)
      <4> TAKE j \in i + 1 .. k
      <4>1. j = i + 1 \/ j \in i + 2 .. k
        BY <2>1
      <4>2. QED
        BY <2>3, <3>2, <4>1
    <3>4. k \in i..L /\ k < L
      BY <1>1, <2>1, <2>3, <2>4
    <3>5. Stops(bytes, i)
      BY <2>3, <3>1, <3>3, <3>4, Zenon DEF Stops, L
    <3>6. QED
      BY <3>5 DEF i
  <2>5. CASE ~(i + 1 < L /\ bytes[i + 1] = "flag" /\ bytes[i + 2] # "format")
    <3>1. Skip(bytes)[i] = i
      BY <1>2, <2>1, <2>5
    <3>2. ~FalseStart(bytes, i + 1)
      BY <1>1, <2>1, <2>5 DEF FalseStart, L
    <3>3. i \in i..L /\ i + 1 .. i = {}
      BY <1>1, <2>1
    <3>4. Stops(bytes, i)
      BY <2>1, <3>1, <3>2, <3>3 DEF Stops, L
    <3>5. QED
      BY <3>4 DEF i
  <2>6. QED
    BY <2>4, <2>5
<1>5. Nat \subseteq S
  <2> HIDE DEF S
  <2>1. QED
    BY <1>3, <1>4, Induction, Zenon
<1>6. \A n \in 0..L : Stops(bytes, L - n)
  BY <1>1, <1>5
<1>7. QED
  BY <1>6 DEF L

LEMMA LeadingFlagsStop ==
  ASSUME NEW bytes \in Cycles
  PROVE  /\ LeadingFlags(bytes) \in 0 .. Len(bytes) - 1
         /\ \A i \in 1 .. LeadingFlags(bytes) : FalseStart(bytes, i)
         /\ ~FalseStart(bytes, LeadingFlags(bytes) + 1)
<1> DEFINE L == Len(bytes)
           k == LeadingFlags(bytes)
<1>1. L \in Nat /\ L > 0
  BY CycleBytes, CycleAssumption DEF CycleAssumption
<1>2. L \in 0..L /\ L - L = 0
  BY <1>1
<1>3. Stops(bytes, 0)
  BY <1>2, SkipStops
<1>4. k = Skip(bytes)[0]
  BY LeadingFlagsSkip, Zenon
<1> HIDE DEF k
<1>5. k \in 0..L /\ k < L /\ ~FalseStart(bytes, k + 1)
      /\ \A i \in 0 + 1 .. k : FalseStart(bytes, i)
  BY <1>1, <1>3, <1>4 DEF Stops
<1>6. k \in 0 .. L - 1 /\ 0 + 1 = 1
  <2> HIDE DEF L
  <2>1. QED
    BY <1>1, <1>5
<1>7. QED
  BY <1>5, <1>6 DEF k

\* What leading_flags promises of the bytes a cycle hands to the parser, for
\* cycles of any length: only flags that open no frame are dropped, every one
\* of them is, and something is left.
THEOREM FrameStart == Spec => FrameStartKept
<1>1. ASSUME NEW bytes \in Cycles, Decode(bytes)
      PROVE  LET k == Len(bytes) - left' IN
                 /\ k < Len(bytes)
                 /\ \A i \in 1..k : FalseStart(bytes, i)
                 /\ ~FalseStart(bytes, k + 1)
  <2> DEFINE k == LeadingFlags(bytes)
  <2>1. Len(bytes) \in Nat
    BY CycleBytes, CycleAssumption DEF CycleAssumption
  <2>2. /\ k \in 0 .. Len(bytes) - 1 /\ \A i \in 1..k : FalseStart(bytes, i)
        /\ ~FalseStart(bytes, k + 1)
    BY LeadingFlagsStop, Zenon
  <2>3. left' = Len(bytes) - k
    BY <1>1 DEF Decode
  <2> HIDE DEF k
  <2>4. Len(bytes) - left' = k /\ k < Len(bytes)
    BY <2>1, <2>2, <2>3
  <2>5. QED
    BY <2>2, <2>4
<1> DEFINE Kept == \A bytes \in Cycles : Decode(bytes) =>
                     LET k == Len(bytes) - left' IN
                         /\ k < Len(bytes)
                         /\ \A i \in 1..k : FalseStart(bytes, i)
                         /\ ~FalseStart(bytes, k + 1)
<1>2. [Next]_vars => [Kept]_vars
  BY <1>1
<1>3. QED
  BY <1>2, PTL DEF Spec, FrameStartKept

-----------------------------------------------------------------------------
(* Types and the set.                                                       *)

LEMMA AfterType ==
  ASSUME NEW at \in 0 .. Capacity - 1, NEW n \in Nat
  PROVE  After(at, n) \in 0 .. Capacity - 1
  BY CycleAssumption DEF CycleAssumption, After, Fits

\* The text never outgrows its array, its terminating zero included, whatever
\* the table and the values.
THEOREM TypeCorrect == Spec => []TypeOK
<1> USE CycleAssumption DEF CycleAssumption
<1>0. Capacity \in Nat /\ 0 \in 0 .. Capacity - 1 /\ MaxBytes \in Nat
  OBVIOUS
<1>1. Init => TypeOK
  <2> SUFFICES ASSUME Init PROVE TypeOK
    OBVIOUS
  <2>1. closed \in BOOLEAN /\ brace \in BOOLEAN /\ identified \in BOOLEAN
    BY Zenon DEF Init
  <2>2. QED
    BY <1>0, <2>1 DEF Init, TypeOK
<1>2. TypeOK /\ [Next]_vars => TypeOK'
  <2> SUFFICES ASSUME TypeOK, [Next]_vars
               PROVE  TypeOK'
    OBVIOUS
  <2>1. ASSUME NEW bytes \in Cycles, Decode(bytes) PROVE TypeOK'
    <3> DEFINE k == LeadingFlags(bytes)
               n == Len(bytes)
    <3>1. k \in 0 .. n - 1 /\ n \in 1..MaxBytes
      BY LeadingFlagsStop, CycleBytes, Zenon
    <3>2. left' = n - k
      BY <2>1 DEF Decode
    <3> HIDE DEF k, n
    <3>3. left' \in 0..MaxBytes /\ left' # 0
      BY <3>1, <3>2
    <3>4. QED
      BY <1>0, <2>1, <3>3 DEF Decode, Clear, TypeOK
  <2>2. ASSUME NEW l \in Labels, NEW w \in Widths[l], OnNumber(l, w) PROVE TypeOK'
    <3>1. CASE Claim(l)
      <4> DEFINE key == LabelLen[l] + 4
                 at  == After(len, key)
                 e   == [label |-> l, value |-> w, whole |-> Fits(len, key) /\ Fits(at, w)]
      <4>1. key \in Nat /\ w \in Nat
        OBVIOUS
      <4>2. /\ labels' = labels \cup {l} /\ text' = text \cup {e} /\ len' = After(at, w)
            /\ UNCHANGED <<pc, left, passes, identified, closed, brace>>
        BY <2>2, <3>1 DEF OnNumber, Add
      <4>3. at \in 0 .. Capacity - 1
        <5> HIDE DEF key
        <5>1. QED
          BY <4>1, AfterType DEF TypeOK
      <4>4. e \in Entry
        BY <4>1 DEF Entry
      <4> HIDE DEF at, e
      <4>5. len' \in 0 .. Capacity - 1
        BY <4>1, <4>2, <4>3, AfterType
      <4>6. QED
        BY <4>2, <4>4, <4>5 DEF TypeOK
    <3>2. CASE ~Claim(l)
      BY <2>2, <3>2 DEF OnNumber, Add, set, TypeOK
    <3>3. QED
      BY <3>1, <3>2
  <2>3. CASE OnIdentity
    BY <2>3 DEF OnIdentity, set, TypeOK
  <2>4. CASE PassReturns
    BY <2>4 DEF PassReturns, PassEnds, set, TypeOK
  <2>5. CASE PublishCycle
    <3>1. pc' = "idle" /\ left' = 0 /\ passes' = 0 /\ UNCHANGED <<identified, labels, text>>
      BY <2>5 DEF PublishCycle, Close, set
    <3>2. closed' \in BOOLEAN /\ brace' \in BOOLEAN
      <4>1. CASE Close
        <5>1. brace' = brace \/ brace' = (len + 2 < Capacity)
          BY <4>1, Zenon DEF Close
        <5>2. closed' = TRUE
          BY <4>1 DEF Close
        <5>3. brace' \in BOOLEAN
          <6>1. brace \in BOOLEAN
            BY DEF TypeOK
          <6>2. CASE brace' = brace
            BY <6>1, <6>2, Zenon
          <6>3. CASE brace' = (len + 2 < Capacity)
            BY <6>3
          <6>4. QED
            BY <5>1, <6>2, <6>3
        <5>4. QED
          BY <5>2, <5>3, Zenon
      <4>2. CASE UNCHANGED set
        BY <4>2 DEF set, TypeOK
      <4>3. QED
        BY <2>5, <4>1, <4>2 DEF PublishCycle
    <3>3. len' \in 0 .. Capacity - 1
      BY <2>5 DEF PublishCycle, Close, set, TypeOK
    <3>4. QED
      BY <3>1, <3>2, <3>3 DEF TypeOK
  <2>6. CASE UNCHANGED vars
    BY <2>6 DEF vars, set, TypeOK
  <2>7. QED
    BY <2>1, <2>2, <2>3, <2>4, <2>5, <2>6 DEF Next
<1>3. QED
  BY <1>1, <1>2, PTL DEF Spec

Values == {<<e.label, e.value>> : e \in text}

\* The set is open while a cycle is decoded, and its labels are those of its
\* text and those of the values decoded so far.
SetInv ==
    /\ labels \subseteq Labels
    /\ pc # "idle" => ~closed
    /\ pc # "idle" \/ closed =>
        /\ Values = first
        /\ \A l \in Labels : l \in labels <=> \E v \in first : v[1] = l

\* A table no larger than the set never finds the set full.
LEMMA Room ==
  ASSUME IsFiniteSet(Labels), Cardinality(Labels) <= MaxValues, labels \subseteq Labels,
         NEW l \in Labels, l \notin labels
  PROVE  Cardinality(labels) < MaxValues
<1>1. /\ IsFiniteSet(labels) /\ Cardinality(labels) <= Cardinality(Labels)
      /\ Cardinality(labels) # Cardinality(Labels)
  BY FS_Subset
<1>2. Cardinality(labels) \in Nat /\ Cardinality(Labels) \in Nat
  BY <1>1, FS_CardinalityType
<1>3. MaxValues \in Nat
  BY CycleAssumption DEF CycleAssumption
<1>4. QED
  BY <1>1, <1>2, <1>3

\* Adding a value keeps what the first one of its label was.
LEMMA AddKeepsFirst ==
  ASSUME IsFiniteSet(Labels), Cardinality(Labels) <= MaxValues, SetInv,
         NEW l \in Labels, NEW w, OnNumber(l, w)
  PROVE  SetInv'
<1>1. pc = "parse" /\ pc' = "parse" /\ ~closed /\ ~closed'
  BY DEF OnNumber, Add, SetInv, set
<1>2. CASE l \in labels
  <2>1. UNCHANGED <<set, first>>
    BY <1>1, <1>2 DEF OnNumber, Add, Claim, SetInv
  <2>2. QED
    BY <1>1, <2>1 DEF SetInv, Values, set
<1>3. CASE l \notin labels
  <2>1. Claim(l)
    BY <1>1, <1>3, Room DEF Claim, SetInv
  <2>2. first' = first \cup {<<l, w>>}
    BY <1>1, <1>3, Zenon DEF OnNumber, SetInv
  <2>3. PICK whole : text' = text \cup {[label |-> l, value |-> w, whole |-> whole]}
    BY <2>1 DEF OnNumber, Add
  <2>4. labels' = labels \cup {l}
    BY <2>1 DEF OnNumber, Add
  <2>5. Values' = Values \cup {<<l, w>>}
    <3> DEFINE entry == [label |-> l, value |-> w, whole |-> whole]
    <3>1. entry.label = l /\ entry.value = w
      OBVIOUS
    <3> HIDE DEF entry
    <3>2. text' = text \cup {entry}
      BY <2>3 DEF entry
    <3>3. QED
      BY <3>1, <3>2, Zenon DEF Values
  <2>6. \A k \in Labels : k \in labels' <=> \E v \in first' : v[1] = k
    <3> SUFFICES ASSUME NEW k \in Labels
                 PROVE  k \in labels' <=> \E v \in first' : v[1] = k
      OBVIOUS
    <3>1. k \in labels <=> \E v \in first : v[1] = k
      BY <1>1, Zenon DEF SetInv
    <3>2. <<l, w>>[1] = l
      OBVIOUS
    <3>3. QED
      BY <2>2, <2>4, <3>1, <3>2, Zenon
  <2>7. QED
    BY <1>1, <2>2, <2>4, <2>5, <2>6, Zenon DEF SetInv
<1>4. QED
  BY <1>2, <1>3

\* With a table that fits the set, the set of a cycle holds the value decoded
\* first for every register and nothing of an earlier cycle (FR-AGG-02,
\* FR-AGG-04), whatever the parser reports and however values print.
THEOREM FirstKept ==
  ASSUME IsFiniteSet(Labels), Cardinality(Labels) <= MaxValues
  PROVE  Spec => []FirstRetained
<1>1. Init => SetInv
  BY DEF Init, SetInv
<1>2. SetInv /\ [Next]_vars => SetInv'
  <2> SUFFICES ASSUME SetInv, [Next]_vars
               PROVE  SetInv'
    OBVIOUS
  <2>1. CASE \E bytes \in Cycles : Decode(bytes)
    <3>1. text' = {} /\ first' = {} /\ labels' = {} /\ closed' = FALSE
      BY <2>1 DEF Decode, Clear
    <3>2. QED
      BY <3>1 DEF SetInv, Values
  <2>2. CASE \E l \in Labels : \E w \in Widths[l] : OnNumber(l, w)
    BY <2>2, AddKeepsFirst
  <2>3. CASE OnIdentity
    BY <2>3 DEF OnIdentity, SetInv, Values, set
  <2>4. CASE PassReturns
    <3>1. pc = "parse" /\ UNCHANGED <<set, first>>
      BY <2>4 DEF PassReturns, PassEnds
    <3>2. QED
      BY <3>1 DEF SetInv, Values, set
  <2>5. CASE PublishCycle
    <3>1. pc = "publish" /\ pc' = "idle" /\ UNCHANGED <<labels, text, first>>
      BY <2>5 DEF PublishCycle, Close, set
    <3>2. QED
      BY <3>1 DEF SetInv, Values
  <2>6. CASE UNCHANGED vars
    BY <2>6 DEF vars, SetInv, Values, set
  <2>7. QED
    BY <2>1, <2>2, <2>3, <2>4, <2>5, <2>6 DEF Next
<1>3. SetInv => FirstRetained
  BY DEF SetInv, FirstRetained, Values
<1>4. QED
  BY <1>1, <1>2, <1>3, PTL DEF Spec

\* No entry of a register of the table takes more than Longest characters.
EntryBound(Longest) ==
    /\ Longest \in Nat
    /\ \A l \in Labels : \A w \in Widths[l] : LabelLen[l] + 4 + w <= Longest

\* While the set is open its text is no longer than its labels allow, so
\* nothing has been cut off, nor is the brace when the set is closed.
FitInv(Longest) ==
    /\ labels \subseteq Labels
    /\ pc # "idle" => ~closed
    /\ closed => brace
    /\ \A e \in text : e.whole
    /\ ~closed => len \in Nat /\ len <= Cardinality(labels) * Longest

LEMMA Multiples ==
  ASSUME NEW n \in Nat, NEW m \in Nat, NEW k \in Nat, n <= m
  PROVE  n * k <= m * k /\ (n + 1) * k = n * k + k /\ n * k \in Nat /\ m * k \in Nat
<1>1. PICK d \in Nat : m = n + d
  <2>1. m - n \in Nat /\ m = n + (m - n)
    OBVIOUS
  <2>2. QED
    BY <2>1
<1>2. m * k = n * k + d * k /\ d * k \in Nat /\ n * k \in Nat
  BY <1>1
<1>3. (n + 1) * k = n * k + k
  OBVIOUS
<1>4. QED
  BY <1>2, <1>3

LEMMA AddFits ==
  ASSUME NEW Longest, EntryBound(Longest), IsFiniteSet(Labels),
         Cardinality(Labels) * Longest + 2 < Capacity, FitInv(Longest),
         NEW l \in Labels, NEW w \in Widths[l], OnNumber(l, w)
  PROVE  FitInv(Longest)'
<1>1. pc = "parse" /\ pc' = "parse" /\ ~closed
  BY DEF OnNumber, FitInv
<1>2. CASE ~Claim(l)
  BY <1>1, <1>2 DEF OnNumber, Add, set, FitInv
<1>3. CASE Claim(l)
  <2> DEFINE key == LabelLen[l] + 4
             at  == After(len, key)
             c   == Cardinality(labels)
             all == Cardinality(Labels)
             e   == [label |-> l, value |-> w, whole |-> Fits(len, key) /\ Fits(at, w)]
  <2>1. /\ labels' = labels \cup {l} /\ text' = text \cup {e} /\ len' = After(at, w)
        /\ ~closed' /\ brace' = brace
    BY <1>1, <1>3 DEF OnNumber, Add
  <2>2. key \in Nat /\ w \in Nat /\ key + w <= Longest /\ Longest \in Nat /\ Capacity \in Nat
    BY CycleAssumption DEF CycleAssumption, EntryBound
  <2>3. labels' \subseteq Labels /\ l \notin labels /\ IsFiniteSet(labels) /\ IsFiniteSet(labels')
    BY <1>3, <2>1, FS_Subset, FS_AddElement DEF Claim, FitInv
  <2>4. Cardinality(labels') = c + 1 /\ Cardinality(labels') <= all /\ c \in Nat /\ all \in Nat
    BY <2>1, <2>3, FS_Subset, FS_AddElement, FS_CardinalityType
  <2>5. len \in Nat /\ len <= c * Longest /\ all * Longest + 2 < Capacity
    BY <1>1 DEF FitInv
  <2> HIDE DEF key, c, all
  <2>6. c + 1 <= all /\ c <= all
    BY <2>4
  <2>7. /\ (c + 1) * Longest = c * Longest + Longest /\ (c + 1) * Longest <= all * Longest
        /\ c * Longest \in Nat /\ all * Longest \in Nat
    <3>1. c + 1 \in Nat
      BY <2>4
    <3>2. (c + 1) * Longest <= all * Longest /\ all * Longest \in Nat
      BY <2>2, <2>4, <2>6, <3>1, Multiples, Zenon
    <3>3. (c + 1) * Longest = c * Longest + Longest /\ c * Longest \in Nat
      BY <2>2, <2>4, <2>6, Multiples, Zenon
    <3>4. QED
      BY <3>2, <3>3
  <2>8. len + key + w <= (c + 1) * Longest /\ len + key + w < Capacity
    BY <2>2, <2>5, <2>7
  <2>9. Fits(len, key) /\ at = len + key /\ Fits(at, w) /\ len' = len + key + w
    BY <2>1, <2>2, <2>5, <2>8 DEF Fits, After
  <2>10. len' \in Nat /\ len' <= Cardinality(labels') * Longest
    BY <2>2, <2>4, <2>5, <2>8, <2>9
  <2>11. \A x \in text' : x.whole
    <3>1. e.whole
      BY <2>9
    <3> HIDE DEF e
    <3>2. QED
      BY <2>1, <3>1, Zenon DEF FitInv
  <2>12. QED
    <3> HIDE DEF e, at
    <3>1. QED
      BY <1>1, <2>1, <2>3, <2>10, <2>11, Zenon DEF FitInv
<1>4. QED
  BY <1>2, <1>3

\* With a table whose registers fit the set's text at the longest their values
\* print, a message is always one complete JSON object (FR-AGG-03).  The
\* committed table needs 11 * 44 + 2 of the 512 characters.
THEOREM CompleteMessage ==
  ASSUME NEW Longest, EntryBound(Longest), IsFiniteSet(Labels),
         Cardinality(Labels) * Longest + 2 < Capacity
  PROVE  Spec => []MessageComplete
<1>1. Init => FitInv(Longest)
  <2> SUFFICES ASSUME Init PROVE FitInv(Longest)
    OBVIOUS
  <2>1. labels = {} /\ text = {} /\ len = 0 /\ ~closed
    BY DEF Init
  <2>2. Cardinality(labels) = 0
    BY <2>1, FS_EmptySet
  <2>3. 0 * Longest = 0
    BY DEF EntryBound
  <2>4. QED
    BY <2>1, <2>2, <2>3 DEF FitInv
<1>2. FitInv(Longest) /\ [Next]_vars => FitInv(Longest)'
  <2> SUFFICES ASSUME FitInv(Longest), [Next]_vars
               PROVE  FitInv(Longest)'
    OBVIOUS
  <2>1. CASE \E bytes \in Cycles : Decode(bytes)
    <3>1. labels' = {} /\ text' = {} /\ len' = 0 /\ ~closed'
      BY <2>1 DEF Decode, Clear
    <3>2. Cardinality(labels') = 0
      BY <3>1, FS_EmptySet
    <3>3. 0 * Longest = 0
      BY DEF EntryBound
    <3>4. QED
      BY <3>1, <3>2, <3>3 DEF FitInv
  <2>2. CASE \E l \in Labels : \E w \in Widths[l] : OnNumber(l, w)
    BY <2>2, AddFits
  <2>3. CASE OnIdentity
    BY <2>3 DEF OnIdentity, set, FitInv
  <2>4. CASE PassReturns
    <3>1. pc = "parse" /\ UNCHANGED set
      BY <2>4 DEF PassReturns, PassEnds
    <3>2. QED
      BY <3>1 DEF FitInv, set
  <2>5. CASE PublishCycle
    <3>1. pc = "publish" /\ pc' = "idle" /\ UNCHANGED <<labels, text>> /\ ~closed
      BY <2>5 DEF PublishCycle, Close, set, FitInv
    <3>2. CASE Close
      <4>1. len + 2 < Capacity
        <5>1. /\ IsFiniteSet(labels) /\ Cardinality(labels) <= Cardinality(Labels)
              /\ Cardinality(labels) \in Nat /\ Cardinality(Labels) \in Nat
          BY FS_Subset, FS_CardinalityType DEF FitInv
        <5>2. Longest \in Nat /\ Capacity \in Nat
          BY CycleAssumption DEF CycleAssumption, EntryBound
        <5>3. /\ Cardinality(labels) * Longest <= Cardinality(Labels) * Longest
              /\ Cardinality(labels) * Longest \in Nat
              /\ Cardinality(Labels) * Longest \in Nat
          BY <5>1, <5>2, Multiples, Zenon
        <5>4. len \in Nat /\ len <= Cardinality(labels) * Longest
          BY <3>1 DEF FitInv
        <5>5. QED
          BY <5>2, <5>3, <5>4
      <4>2. closed' /\ brace'
        BY <3>1, <3>2, <4>1 DEF Close
      <4>3. QED
        BY <3>1, <4>2 DEF FitInv
    <3>3. CASE UNCHANGED set
      BY <3>1, <3>3 DEF set, FitInv
    <3>4. QED
      BY <2>5, <3>2, <3>3 DEF PublishCycle
  <2>6. CASE UNCHANGED vars
    BY <2>6 DEF vars, FitInv, set
  <2>7. QED
    BY <2>1, <2>2, <2>3, <2>4, <2>5, <2>6 DEF Next
<1>3. FitInv(Longest) => MessageComplete
  BY DEF FitInv, MessageComplete
<1>4. QED
  BY <1>1, <1>2, <1>3, PTL DEF Spec
=============================================================================
