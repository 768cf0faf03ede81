------------------------- MODULE TranscriptsProofs -------------------------
(***************************************************************************)
(* What holds of Transcripts for transcripts of every length: its types,   *)
(* and that a count of tool uses that is kept for the size the file has is *)
(* the number of them in it.                                               *)
(***************************************************************************)
EXTENDS Transcripts, FiniteSetTheorems, TLAPS

\* Never more uses than lines were counted.
CountBelow == tools # None => 2 * tools.count <= tools.offset

\* A line is begun only where there is room for it.
Room == torn => Len(file) < MaxLines

\* While nothing is cut, the count goes on from where it is true.
Uncut ==
  cut = "no" /\ tools # None =>
    /\ tools.size <= Size /\ tools.size <= tools.offset + 1 /\ tools.offset <= 2 * Len(file)
    /\ tools.count + UsesFrom(tools.offset \div 2, file) = UsesFrom(0, file)

\* What a scan is about to count, it counts from the right line.
Looks ==
  scan.at = "tools" =>
    /\ cut # "yes" => scan.size <= Size
    /\ cut = "no" /\ tools # None => tools.size <= scan.size
    /\ cut = "looking" /\ tools # None => scan.size < tools.size

\* A cut is noticed by the next scan that looks.
CutShows ==
  /\ cut = "looking" => scan.at = "tools"
  /\ cut = "yes" => Noticed(Size)

CountInv == TypeOK /\ Room /\ CountBelow /\ Uncut /\ Looks /\ CutShows

Bounds ==
  /\ FirstTail \in Nat /\ MaxLines \in Nat /\ MaxSize \in Nat /\ MaxSize = 2 * MaxLines + 1
  /\ 0 \in 0..MaxSize

LEMMA BoundsHold == Bounds
BY TranscriptsAssumption DEF Bounds, MaxSize

-----------------------------------------------------------------------------
(* Counting.                                                               *)

LEMMA UsesBounded ==
  ASSUME NEW S, NEW f \in Seq(S), NEW n \in Nat
  PROVE  /\ UsesFrom(n, f) \in Nat
         /\ n < Len(f) => UsesFrom(n, f) <= Len(f) - n
         /\ n >= Len(f) => UsesFrom(n, f) = 0
         /\ IsFiniteSet({i \in DOMAIN f : i > n /\ f[i] \in Uses})
<1> DEFINE U == {i \in DOMAIN f : i > n /\ f[i] \in Uses}
<1>1. Len(f) \in Nat /\ DOMAIN f = 1..Len(f)
  OBVIOUS
<1>2. IsFiniteSet((n + 1)..Len(f))
      /\ Cardinality((n + 1)..Len(f)) = IF n + 1 > Len(f) THEN 0 ELSE Len(f) - (n + 1) + 1
  <2> DEFINE a == n + 1
             b == Len(f)
  <2>1. a \in Int /\ b \in Int
    BY <1>1
  <2> HIDE DEF a, b
  <2>2. IsFiniteSet(a..b) /\ Cardinality(a..b) = IF a > b THEN 0 ELSE b - a + 1
    BY <2>1, FS_Interval
  <2> QED
    BY <2>2 DEF a, b
<1>3. U \subseteq (n + 1)..Len(f)
  BY <1>1
<1>4. IsFiniteSet(U) /\ Cardinality(U) <= Cardinality((n + 1)..Len(f))
  BY <1>2, <1>3, FS_Subset
<1>5. Cardinality(U) \in Nat
  BY <1>4, FS_CardinalityType
<1>6. UsesFrom(n, f) = Cardinality(U)
  BY DEF UsesFrom
<1> HIDE DEF U
<1>7. /\ n < Len(f) => Cardinality(U) <= Len(f) - n
      /\ n >= Len(f) => Cardinality(U) = 0
  BY <1>1, <1>2, <1>4, <1>5
<1> QED
  BY <1>4, <1>5, <1>6, <1>7 DEF U

\* Behind the last line there is none.
LEMMA UsesAtEnd ==
  ASSUME NEW S, NEW f \in Seq(S) PROVE UsesFrom(Len(f), f) = 0
<1>1. Len(f) \in Nat /\ Len(f) >= Len(f)
  OBVIOUS
<1> QED
  BY <1>1, UsesBounded

LEMMA UsesOfOneMore ==
  ASSUME NEW S, NEW f \in Seq(S), NEW e \in S, NEW n \in Nat, n <= Len(f)
  PROVE  UsesFrom(n, Append(f, e)) = UsesFrom(n, f) + (IF e \in Uses THEN 1 ELSE 0)
<1> DEFINE g == Append(f, e)
           U == {i \in DOMAIN f : i > n /\ f[i] \in Uses}
           V == {i \in DOMAIN g : i > n /\ g[i] \in Uses}
           k == Len(f) + 1
<1>1. /\ Len(f) \in Nat /\ DOMAIN f = 1..Len(f) /\ DOMAIN g = 1..k
      /\ g[k] = e /\ \A i \in DOMAIN f : g[i] = f[i]
  OBVIOUS
<1>2. UsesFrom(n, g) = Cardinality(V) /\ UsesFrom(n, f) = Cardinality(U)
  BY DEF UsesFrom
<1>3. IsFiniteSet(U) /\ Cardinality(U) \in Nat
  BY <1>2, UsesBounded
<1>4. k \notin U
  BY <1>1
<1>5. CASE e \in Uses
  <2>1. V = U \cup {k}
    BY <1>1, <1>5
  <2> HIDE DEF U, V, k, g
  <2>2. Cardinality(V) = Cardinality(U) + 1
    BY <1>3, <1>4, <2>1, FS_AddElement
  <2> QED
    BY <1>2, <1>5, <2>2 DEF g
<1>6. CASE e \notin Uses
  <2>1. V = U
    BY <1>1, <1>6
  <2> HIDE DEF U, V, k, g
  <2> QED
    BY <1>2, <1>3, <1>6, <2>1 DEF g
<1> QED
  BY <1>5, <1>6

-----------------------------------------------------------------------------
(* Types.                                                                  *)

LEMMA StateTyped == ASSUME NEW lines PROVE Classify(lines) \in States
BY DEF Classify, StateAfter, States

Typed(t) == t \in [size : 0..MaxSize, offset : {2 * n : n \in 0..MaxLines}, count : 0..MaxLines]

\* Counting on from a line boundary ends at one.
LEMMA CountedTyped ==
  ASSUME TypeOK, Bounds, NEW n \in 0..MaxLines, NEW count \in 0..MaxLines, count <= n
  PROVE  LET t == CountedFrom(2 * n, count)
         IN  /\ Typed(t) /\ t.size = scan.size
             /\ t.offset = IF Len(file) > n THEN 2 * Len(file) ELSE 2 * n
             /\ t.count = count + UsesFrom(n, file)
             /\ 2 * t.count <= t.offset
<1>1. file \in Seq(Entries) /\ Len(file) \in 0..MaxLines /\ scan.size \in 0..MaxSize
  BY DEF TypeOK, Scans, Bounds
<1>2. (2 * n) \div 2 = n
  BY DEF Bounds
<1>3. /\ UsesFrom(n, file) \in Nat
      /\ n < Len(file) => UsesFrom(n, file) <= Len(file) - n
      /\ n >= Len(file) => UsesFrom(n, file) = 0
  <2>1. n \in Nat
    BY DEF Bounds
  <2> QED
    BY <1>1, <2>1, UsesBounded
<1>4. CountedFrom(2 * n, count) =
        [size |-> scan.size, count |-> count + UsesFrom(n, file),
         offset |-> IF Len(file) * 2 > 2 * n THEN Len(file) * 2 ELSE 2 * n]
  BY <1>2 DEF CountedFrom
<1>5. (IF Len(file) * 2 > 2 * n THEN Len(file) * 2 ELSE 2 * n) =
        2 * (IF Len(file) > n THEN Len(file) ELSE n)
  BY <1>1 DEF Bounds
<1>6. (IF Len(file) > n THEN Len(file) ELSE n) \in 0..MaxLines
  BY <1>1
<1>7. /\ count + UsesFrom(n, file) <= (IF Len(file) > n THEN Len(file) ELSE n)
      /\ count + UsesFrom(n, file) \in 0..MaxLines
  BY <1>1, <1>3 DEF Bounds
<1> DEFINE u == UsesFrom(n, file)
           l == IF Len(file) > n THEN Len(file) ELSE n
<1>8. CountedFrom(2 * n, count) = [size |-> scan.size, count |-> count + u, offset |-> 2 * l]
  BY <1>4, <1>5
<1> HIDE DEF u
<1> QED
  BY <1>1, <1>6, <1>7, <1>8 DEF Typed, u, Bounds

-----------------------------------------------------------------------------
(* Steps.                                                                  *)

\* A write changes no cache but for the freshness of what was read.
LEMMA WriteKeeps ==
  ASSUME CountInv, Bounds, NEW f \in Seq(Entries), Len(f) <= MaxLines, NEW t \in BOOLEAN,
         Written(f, t), cut' \in {"no", "yes", "looking"}
  PROVE  /\ TypeOK' /\ CountBelow'
         /\ file' = f /\ torn' = t /\ tools' = tools
         /\ scan'.at = scan.at /\ scan'.size = scan.size /\ scan' \in Scans
         /\ Remembered' = Remembered
<1>1. /\ scan \in Scans /\ state \in [fresh : BOOLEAN, state : States] \cup {None}
      /\ scan' = [scan EXCEPT !.fresh = FALSE]
      /\ state' = IF state = None THEN None ELSE [state EXCEPT !.fresh = FALSE]
  BY DEF CountInv, TypeOK, Written, Touched
<1>2. /\ scan' \in Scans /\ scan'.at = scan.at /\ scan'.size = scan.size
  BY <1>1 DEF Scans
<1>3. state' \in [fresh : BOOLEAN, state : States] \cup {None}
  BY <1>1
<1>4. file' = f /\ torn' = t /\ UNCHANGED <<waiting, quiet, said, tools>>
  BY DEF Written
<1>5. TypeOK'
  BY <1>2, <1>3, <1>4 DEF CountInv, TypeOK
<1>6. CountBelow'
  BY <1>4 DEF CountInv, CountBelow
<1>7. Remembered' = Remembered
  BY <1>2, <1>4 DEF Remembered
<1> QED
  BY <1>2, <1>4, <1>5, <1>6, <1>7

\* Lines are added behind what was counted.
LEMMA GrowsKeeps ==
  ASSUME CountInv, Bounds, NEW f, f = file \/ \E e \in Entries : f = Append(file, e),
         Len(f) <= MaxLines, Written(f, torn'), torn' \in BOOLEAN, Room', Size' = Size + 1,
         UNCHANGED cut, cut = "yes" => Noticed(Size + 1)
  PROVE  CountInv'
<1> USE DEF CountInv
<1>1. file \in Seq(Entries) /\ Len(file) \in Nat /\ Size \in Nat
  BY DEF TypeOK, Size
<1>2. f \in Seq(Entries) /\ Len(f) \in Nat /\ Len(f) >= Len(file)
  BY <1>1
<1>3. cut' \in {"no", "yes", "looking"}
  BY DEF TypeOK
<1>4. /\ TypeOK' /\ CountBelow' /\ file' = f /\ tools' = tools
      /\ scan'.at = scan.at /\ scan'.size = scan.size /\ Remembered' = Remembered
  BY <1>2, <1>3, WriteKeeps
<1>5. Uncut'
  <2> SUFFICES ASSUME cut = "no", tools # None
               PROVE  /\ tools.size <= Size + 1 /\ tools.size <= tools.offset + 1
                      /\ tools.offset <= 2 * Len(f)
                      /\ tools.count + UsesFrom(tools.offset \div 2, f) = UsesFrom(0, f)
    BY <1>4 DEF Uncut
  <2>1. tools.size \in Nat /\ tools.count \in Nat /\ \E n \in Nat : tools.offset = 2 * n
    <3>1. tools \in [size : 0..MaxSize, offset : {2 * n : n \in 0..MaxLines}, count : 0..MaxLines]
      BY DEF TypeOK
    <3> QED
      BY <3>1 DEF Bounds
  <2>2. PICK n \in Nat : tools.offset = 2 * n /\ tools.offset \div 2 = n
    BY <2>1 DEF Bounds
  <2>3. /\ tools.size <= Size /\ tools.size <= tools.offset + 1 /\ tools.offset <= 2 * Len(file)
        /\ tools.count + UsesFrom(n, file) = UsesFrom(0, file)
    BY <2>2 DEF Uncut
  <2>4. n <= Len(file) /\ 0 <= Len(file)
    BY <1>1, <2>2, <2>3
  <2>5. tools.count + UsesFrom(n, f) = UsesFrom(0, f)
    <3>1. CASE f = file
      BY <2>3, <3>1
    <3>2. ASSUME NEW e \in Entries, f = Append(file, e)
          PROVE  tools.count + UsesFrom(n, f) = UsesFrom(0, f)
      <4>1. UsesFrom(n, f) = UsesFrom(n, file) + (IF e \in Uses THEN 1 ELSE 0)
        BY <1>1, <2>4, <3>2, UsesOfOneMore
      <4>2. UsesFrom(0, f) = UsesFrom(0, file) + (IF e \in Uses THEN 1 ELSE 0)
        BY <1>1, <2>4, <3>2, UsesOfOneMore
      <4>3. UsesFrom(n, file) \in Nat /\ UsesFrom(0, file) \in Nat
        BY <1>1, UsesBounded
      <4> QED
        BY <2>1, <2>3, <4>1, <4>2, <4>3
    <3> QED
      BY <3>1, <3>2
  <2> QED
    BY <1>1, <1>2, <2>1, <2>2, <2>3, <2>5
<1>6. Looks'
  BY <1>1, <1>4 DEF Looks, TypeOK, Scans, Bounds
<1>7. CutShows'
  BY <1>4 DEF CutShows, Noticed
<1> QED
  BY <1>4, <1>5, <1>6, <1>7

\* A cut file is shorter than whatever is known of it.
LEMMA RewriteKeeps ==
  ASSUME CountInv, Bounds, NEW n \in 0..MaxLines, NEW e \in Entries, Rewrites(n, e)
  PROVE  CountInv'
<1> USE DEF CountInv
<1> DEFINE f == Append(SubSeq(file, 1, n), e)
<1>1. file \in Seq(Entries) /\ Len(file) \in Nat /\ Len(file) <= MaxLines /\ n \in Nat /\ n <= Len(file)
  BY DEF TypeOK, Rewrites, Bounds
<1>2. SubSeq(file, 1, n) \in Seq(Entries) /\ Len(SubSeq(file, 1, n)) = n
  BY <1>1
<1>3. f \in Seq(Entries) /\ Len(f) = n + 1
  BY <1>2
<1> HIDE DEF f
<1>4. Written(f, FALSE) /\ cut' = "yes" /\ Noticed(2 * (n + 1))
  BY DEF Rewrites, f
<1>5. n + 1 <= MaxLines
  BY <1>1 DEF Rewrites, Room, Bounds
<1>6. /\ TypeOK' /\ CountBelow' /\ file' = f /\ torn' = FALSE /\ tools' = tools
      /\ scan'.at = scan.at /\ scan'.size = scan.size /\ Remembered' = Remembered
  BY <1>3, <1>4, <1>5, WriteKeeps
<1>7. Size' = 2 * (n + 1)
  BY <1>1, <1>3, <1>6 DEF Size
<1>8. Room' /\ Uncut' /\ Looks' /\ CutShows'
  BY <1>4, <1>6, <1>7 DEF Room, Uncut, Looks, CutShows, Noticed
<1> QED
  BY <1>6, <1>8

\* Whatever leaves the file, the count and the scan's place alone changes nothing.
LEMMA ElsewhereKeeps ==
  ASSUME CountInv, UNCHANGED <<file, torn, tools, cut>>, TypeOK',
         scan.at # "tools", scan'.at # "tools"
  PROVE  CountInv'
BY DEF CountInv, Room, CountBelow, Uncut, Looks, CutShows, Size, Noticed, Remembered

LEMMA CountInit == Bounds /\ Init => CountInv
<1> SUFFICES ASSUME Bounds, Init PROVE CountInv
  OBVIOUS
<1>1. file = <<>> /\ file \in Seq(Entries) /\ Len(file) = 0 /\ Len(file) <= MaxLines
  BY DEF Init, Bounds
<1>2. NoScan \in Scans
  BY DEF NoScan, Scans, Steps, Bounds
<1>3. TypeOK
  BY <1>1, <1>2 DEF Init, TypeOK
<1> QED
  BY <1>3 DEF Init, CountInv, Room, CountBelow, Uncut, Looks, CutShows, NoScan

\* What the count is once a scan has made it.
LEMMA CountKeeps ==
  ASSUME CountInv, Bounds, CountTools PROVE CountInv'
<1> USE DEF CountInv
<1>1. /\ file \in Seq(Entries) /\ Len(file) \in 0..MaxLines /\ scan \in Scans
      /\ scan.size \in Nat /\ Size \in Nat /\ torn \in BOOLEAN
      /\ Size <= 2 * Len(file) + 1
      /\ cut \in {"no", "yes", "looking"}
  BY DEF TypeOK, Scans, Size, Bounds
<1>2. /\ scan.at = "tools" /\ tools' = Counted /\ UNCHANGED <<file, torn>>
      /\ scan' = [scan EXCEPT !.at = "done", !.size = 0]
      /\ cut' = IF cut = "looking" THEN "no" ELSE cut
  BY DEF CountTools, agent
<1>3. scan' \in Scans /\ scan'.at = "done"
  BY <1>1, <1>2 DEF Scans, Steps, Bounds
<1>4. ASSUME tools # None
      PROVE  /\ tools.size \in 0..MaxSize /\ tools.count \in 0..MaxLines
             /\ \E n \in 0..MaxLines : tools.offset = 2 * n /\ tools.count <= n
  <2>1. /\ tools.size \in 0..MaxSize /\ tools.count \in 0..MaxLines
        /\ tools.offset \in {2 * n : n \in 0..MaxLines}
    BY <1>4 DEF TypeOK
  <2>2. 2 * tools.count <= tools.offset
    BY <1>4 DEF CountBelow
  <2>3. PICK n \in 0..MaxLines : tools.offset = 2 * n
    BY <2>1
  <2>4. tools.count <= n
    BY <2>1, <2>2, <2>3 DEF Bounds
  <2> QED
    BY <2>1, <2>3, <2>4
<1>5. CASE tools' = tools /\ tools # None /\ tools.size = scan.size
  <2>1. TypeOK'
    BY <1>2, <1>3, <1>5 DEF TypeOK, CountTools, agent
  <2>2. cut' = cut /\ (cut = "no" \/ cut = "yes")
    BY <1>1, <1>2, <1>5 DEF Looks
  <2>3. Room' /\ CountBelow' /\ Uncut' /\ Looks'
    BY <1>2, <1>3, <1>5, <2>2 DEF Room, CountBelow, Uncut, Looks, Size
  <2>4. Remembered' \subseteq Remembered
    BY <1>3, <1>5 DEF Remembered
  <2>5. CutShows'
    BY <1>2, <2>2, <2>4 DEF CutShows, Noticed, Size
  <2> QED
    BY <2>1, <2>3, <2>5
<1>6. CASE \E n \in 0..MaxLines, count \in 0..MaxLines :
             /\ count <= n /\ tools' = CountedFrom(2 * n, count)
             /\ cut # "yes" => n <= Len(file) /\ count + UsesFrom(n, file) = UsesFrom(0, file)
  <2>1. PICK n \in 0..MaxLines, count \in 0..MaxLines :
               /\ count <= n /\ tools' = CountedFrom(2 * n, count)
               /\ cut # "yes" => n <= Len(file) /\ count + UsesFrom(n, file) = UsesFrom(0, file)
    BY <1>6
  <2>2. /\ Typed(tools') /\ tools'.size = scan.size
        /\ tools'.offset = IF Len(file) > n THEN 2 * Len(file) ELSE 2 * n
        /\ tools'.count = count + UsesFrom(n, file)
        /\ 2 * tools'.count <= tools'.offset
    BY <2>1, CountedTyped
  <2>3. TypeOK' /\ Room' /\ CountBelow' /\ Looks'
    BY <1>2, <1>3, <2>2 DEF TypeOK, Room, CountBelow, Looks, Typed, CountTools, agent
  <2>4. Uncut'
    <3> SUFFICES ASSUME cut # "yes"
                 PROVE  /\ scan.size <= Size /\ scan.size <= tools'.offset + 1
                        /\ tools'.offset <= 2 * Len(file)
                        /\ tools'.count + UsesFrom(tools'.offset \div 2, file) = UsesFrom(0, file)
      BY <1>1, <1>2, <2>2 DEF Uncut, Size
    <3>1. scan.size <= Size
      BY <1>2 DEF Looks
    <3>2. n <= Len(file) /\ tools'.offset = 2 * Len(file) /\ tools'.offset \div 2 = Len(file)
      BY <1>1, <2>1, <2>2 DEF Bounds
    <3>3. UsesFrom(Len(file), file) = 0 /\ UsesFrom(n, file) \in Nat /\ UsesFrom(0, file) \in Nat
      <4>1. n \in Nat /\ Len(file) \in Nat
        BY <1>1 DEF Bounds
      <4>2. UsesFrom(Len(file), file) = 0
        BY <1>1, UsesAtEnd
      <4>3. UsesFrom(n, file) \in Nat
        BY <1>1, <4>1, UsesBounded
      <4>4. UsesFrom(0, file) \in Nat
        BY <1>1, UsesBounded
      <4> QED
        BY <4>2, <4>3, <4>4
    <3> QED
      BY <1>1, <2>1, <2>2, <3>1, <3>2, <3>3 DEF Bounds
  <2>5. CutShows'
    <3>1. Remembered' \subseteq {scan.size} /\ scan.size \in Remembered
      BY <1>2, <1>3, <2>2 DEF Remembered
    <3> QED
      BY <1>1, <1>2, <3>1 DEF CutShows, Noticed, Size
  <2> QED
    BY <2>3, <2>4, <2>5
<1> DEFINE Anew(n, count) ==
             /\ count <= n /\ tools' = CountedFrom(2 * n, count)
             /\ cut # "yes" => n <= Len(file) /\ count + UsesFrom(n, file) = UsesFrom(0, file)
<1>7. CASE tools' = CountedFrom(0, 0)
  <2>1. 0 \in 0..MaxLines /\ 2 * 0 = 0 /\ 0 <= Len(file)
    BY <1>1 DEF Bounds
  <2>2. UsesFrom(0, file) \in Nat
    BY <1>1, UsesBounded
  <2>3. Anew(0, 0)
    BY <1>7, <2>1, <2>2
  <2> QED
    BY <1>6, <2>1, <2>3
<1>8. CASE tools # None /\ tools.size < scan.size /\ tools' = CountedFrom(tools.offset, tools.count)
  <2>1. PICK n \in 0..MaxLines : tools.offset = 2 * n /\ tools.count <= n
    BY <1>4, <1>8
  <2>2. tools.offset \div 2 = n /\ tools.count \in 0..MaxLines
    BY <1>4, <1>8, <2>1 DEF Bounds
  <2>3. ASSUME cut # "yes"
        PROVE  n <= Len(file) /\ tools.count + UsesFrom(n, file) = UsesFrom(0, file)
    <3>1. cut = "no"
      BY <1>1, <1>2, <1>4, <1>8, <2>3 DEF Looks
    <3> QED
      BY <1>1, <1>8, <2>1, <2>2, <3>1 DEF Uncut, Bounds
  <2>4. Anew(n, tools.count)
    BY <1>8, <2>1, <2>3
  <2> QED
    BY <1>6, <2>2, <2>4
<1>9. \/ tools' = CountedFrom(0, 0)
      \/ tools' = tools /\ tools # None /\ tools.size = scan.size
      \/ tools # None /\ tools.size < scan.size /\ tools' = CountedFrom(tools.offset, tools.count)
  BY <1>2 DEF Counted, Grew
<1> QED
  BY <1>5, <1>7, <1>8, <1>9

LEMMA CountStep == CountInv /\ Bounds /\ [Next]_vars => CountInv'
<1> SUFFICES ASSUME CountInv, Bounds, [Next]_vars PROVE CountInv'
  OBVIOUS
<1> USE DEF CountInv
<1>1. /\ file \in Seq(Entries) /\ Len(file) \in 0..MaxLines /\ Len(file) \in Nat
      /\ Size \in 0..MaxSize /\ scan \in Scans
      /\ torn \in BOOLEAN /\ waiting \in BOOLEAN
      /\ state \in [fresh : BOOLEAN, state : States] \cup {None}
  BY DEF TypeOK, Size, Bounds
<1>2. ASSUME UNCHANGED vars PROVE CountInv'
  BY <1>2 DEF vars, TypeOK, Room, CountBelow, Uncut, Looks, CutShows, Size, Noticed, Remembered
<1>3. ASSUME StartsLine PROVE CountInv'
  <2>1. /\ Written(file, torn') /\ torn' = TRUE /\ file' = file /\ ~torn /\ Len(file) < MaxLines
        /\ cut' = cut /\ (cut = "yes" => Noticed(Size + 1))
    BY <1>3 DEF StartsLine, Written
  <2>2. Size' = Size + 1 /\ Room' /\ Len(file) <= MaxLines
    BY <1>1, <2>1 DEF Size, Room, Bounds
  <2> QED
    BY <2>1, <2>2, GrowsKeeps
<1>4. ASSUME NEW e \in Entries, EndsLine(e) PROVE CountInv'
  <2>1. /\ Written(Append(file, e), torn') /\ torn' = FALSE /\ file' = Append(file, e) /\ torn
        /\ cut' = cut /\ (cut = "yes" => Noticed(Size + 1))
    BY <1>4 DEF EndsLine, Written
  <2>2. Len(file') = Len(file) + 1 /\ Len(Append(file, e)) <= MaxLines
    BY <1>1, <2>1 DEF Room, Bounds
  <2>3. Size' = Size + 1 /\ Room'
    BY <1>1, <2>1, <2>2 DEF Size, Room
  <2> QED
    BY <2>1, <2>2, <2>3, GrowsKeeps
<1>5. ASSUME NEW n \in 0..MaxLines, NEW e \in Entries, Rewrites(n, e) PROVE CountInv'
  BY <1>5, RewriteKeeps
<1>6. ASSUME Prompt \/ Quiet PROVE CountInv'
  <2>1. UNCHANGED <<file, torn, scan, state, said, tools, cut>>
        /\ waiting' \in BOOLEAN /\ quiet' \in BOOLEAN
    BY <1>1, <1>6 DEF Prompt, Quiet, caches, TypeOK
  <2>2. TypeOK'
    BY <2>1 DEF TypeOK
  <2> QED
    BY <2>1, <2>2 DEF Room, CountBelow, Uncut, Looks, CutShows, Size, Noticed, Remembered
<1>7. ASSUME Begin \/ Stat \/ Measure \/ ReadTail \/ ReadHead \/ Publish PROVE CountInv'
  <2>1. /\ UNCHANGED <<file, torn, waiting, quiet, tools, cut>>
        /\ scan.at \in {"idle", "stat", "measure", "tail", "head", "done"}
    BY <1>7 DEF Begin, Stat, Measure, ReadTail, ReadHead, Publish, agent, caches
  <2>2. /\ scan' \in Scans /\ scan'.at # "tools" /\ said' \in BOOLEAN
        /\ state' \in [fresh : BOOLEAN, state : States] \cup {None}
    <3>1. CASE Begin
      BY <1>1, <3>1 DEF Begin, NoScan, Scans, Steps, caches, TypeOK, Bounds
    <3>2. CASE Stat
      BY <1>1, <3>2 DEF Stat, Scans, Steps, caches, TypeOK
    <3>3. CASE Measure
      BY <1>1, <3>3 DEF Measure, Scans, Steps, caches, TypeOK, Bounds
    <3>4. CASE ReadTail
      <4>1. 2 * scan.window \in Nat /\ Stamped \in BOOLEAN /\ said' = said
        BY <1>1, <3>4 DEF Scans, Stamped, ReadTail
      <4>2. CASE scan' = [scan EXCEPT !.window = 2 * scan.window] /\ state' = state
        BY <1>1, <3>4, <4>1, <4>2 DEF Scans, Steps, TypeOK, ReadTail
      <4>3. CASE /\ scan' = [scan EXCEPT !.at = "head", !.fresh = FALSE, !.total = 0, !.window = 0]
                 /\ state' = [fresh |-> Stamped, state |-> Classify(TailOf(scan.window))]
        BY <1>1, <4>1, <4>3, StateTyped DEF Scans, Steps, TypeOK, Bounds
      <4> QED
        BY <3>4, <4>2, <4>3 DEF ReadTail
    <3>5. CASE ReadHead
      BY <1>1, <3>5 DEF ReadHead, Scans, Steps, TypeOK, Said
    <3>6. CASE Publish
      BY <3>6 DEF Publish, NoScan, Scans, Steps, caches, TypeOK, Bounds
    <3> QED
      BY <1>7, <3>1, <3>2, <3>3, <3>4, <3>5, <3>6
  <2>3. TypeOK'
    BY <2>1, <2>2 DEF TypeOK
  <2> QED
    BY <2>1, <2>2, <2>3, ElsewhereKeeps
<1>8. ASSUME StatSize PROVE CountInv'
  <2>1. /\ scan.at = "size" /\ scan' = [scan EXCEPT !.at = "tools", !.size = Size]
        /\ cut' = IF cut = "yes" THEN "looking" ELSE cut
        /\ UNCHANGED <<file, torn, waiting, quiet, state, said, tools>>
    BY <1>8 DEF StatSize, agent, caches
  <2>2. scan' \in Scans /\ scan'.at = "tools" /\ scan'.size = Size
    BY <1>1, <2>1 DEF Scans, Steps
  <2>3. cut \in {"no", "yes"} /\ cut' \in {"no", "looking"}
    BY <2>1 DEF TypeOK, CutShows
  <2>4. TypeOK' /\ Room' /\ CountBelow'
    BY <2>1, <2>2, <2>3 DEF TypeOK, Room, CountBelow
  <2>5. Uncut'
    BY <2>1, <2>3 DEF Uncut, Size
  <2>6. cut = "yes" /\ tools # None => Size < tools.size
    BY <2>1 DEF CutShows, Noticed, Remembered
  <2>7. Looks'
    BY <1>1, <2>1, <2>2, <2>3, <2>6 DEF Looks, Uncut, Size, Bounds
  <2>8. CutShows'
    BY <2>2, <2>3 DEF CutShows
  <2> QED
    BY <2>4, <2>5, <2>7, <2>8
<1>9. ASSUME CountTools PROVE CountInv'
  BY <1>9, CountKeeps
<1>10. ASSUME Evict PROVE CountInv'
  <2>1. /\ tools' = None /\ state' = None /\ said' = FALSE /\ scan.at = "idle"
        /\ UNCHANGED <<file, torn, waiting, quiet, scan, cut>>
    BY <1>10 DEF Evict, agent
  <2>2. TypeOK' /\ Room' /\ CountBelow' /\ Uncut' /\ Looks'
    BY <2>1 DEF TypeOK, Room, CountBelow, Uncut, Looks
  <2>3. CutShows'
    BY <2>1 DEF CutShows, Noticed, Remembered, Size
  <2> QED
    BY <2>2, <2>3
<1> QED
  BY <1>2, <1>3, <1>4, <1>5, <1>6, <1>7, <1>8, <1>9, <1>10 DEF Next, Scan

-----------------------------------------------------------------------------
(* Theorems.                                                               *)

\* Every variable keeps its type; in particular the count goes on from the end
\* of a line (conversation/tool_counts), whatever is written or cut meanwhile.
THEOREM TypeCorrect == Spec => []TypeOK
<1>1. CountInv => TypeOK
  BY DEF CountInv
<1> QED
  BY <1>1, BoundsHold, CountInit, CountStep, PTL DEF Spec

\* CountMatches for transcripts of every length: the file may grow, tear, be cut
\* and be evicted between any two reads of the scan that counts.
THEOREM CountIsTrue == Spec => []CountMatches
<1>1. ASSUME CountInv, Bounds PROVE CountMatches
  <2> SUFFICES ASSUME tools # None, tools.size = Size, cut = "no"
               PROVE  tools.count = UsesFrom(0, file)
    BY DEF CountMatches
  <2>1. /\ file \in Seq(Entries) /\ Len(file) \in Nat /\ torn \in BOOLEAN
        /\ tools.count \in Nat /\ \E n \in Nat : tools.offset = 2 * n
    BY <1>1 DEF CountInv, TypeOK, Bounds
  <2>2. PICK n \in Nat : tools.offset = 2 * n
    BY <2>1
  <2>3. /\ 2 * Len(file) <= Size /\ Size <= tools.offset + 1 /\ tools.offset <= 2 * Len(file)
        /\ tools.count + UsesFrom(tools.offset \div 2, file) = UsesFrom(0, file)
    BY <1>1, <2>1 DEF CountInv, Uncut, Size
  <2>4. n = Len(file) /\ tools.offset \div 2 = n
    <3>1. Size \in Nat
      BY <2>1 DEF Size
    <3>2. n = Len(file)
      BY <2>1, <2>2, <2>3, <3>1
    <3>3. (2 * n) \div 2 = n
      OBVIOUS
    <3> QED
      BY <2>2, <3>2, <3>3
  <2>5. UsesFrom(n, file) = 0
    BY <2>1, <2>4, UsesAtEnd
  <2> QED
    BY <2>1, <2>3, <2>4, <2>5
<1> QED
  BY <1>1, BoundsHold, CountInit, CountStep, PTL DEF Spec

=============================================================================
