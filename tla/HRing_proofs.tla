---------------------------- MODULE HRing_proofs ----------------------------
(***************************************************************************)
(* What the operations of a ring do to its contents.                       *)
(***************************************************************************)
EXTENDS HRing, HBind_proofs

-----------------------------------------------------------------------------
(* The operations of a ring.                                               *)

(***************************************************************************)
(* The successor of a cell: the only use the ring makes of %.              *)
(***************************************************************************)
LEMMA AfterWraps ==
  ASSUME NEW i \in Cells
  PROVE  After(i) = IF i = Cap - 1 THEN 0 ELSE i + 1
  BY CapAssumption DEF After, Cells

(***************************************************************************)
(* A ring holds at most Cap - 1 events; head and tail meet only when it is *)
(* empty, and the tail is about to meet the head only when it is full.     *)
(***************************************************************************)
LEMMA CountBounds ==
  ASSUME NEW r \in Ring
  PROVE  /\ Count(r) \in 0 .. Cap - 1
         /\ IsEmpty(r) <=> Count(r) = 0
         /\ IsFull(r) <=> Count(r) = Cap - 1
<1>1. r.head \in Cells /\ r.tail \in Cells
  BY DEF Ring
<1>2. After(r.tail) = IF r.tail = Cap - 1 THEN 0 ELSE r.tail + 1
  BY <1>1, AfterWraps
<1> QED
  BY <1>1, <1>2, CapAssumption DEF Cells, Count, IsEmpty, IsFull

LEMMA CellInRange ==
  ASSUME NEW r \in Ring, NEW i \in 1 .. Count(r)
  PROVE  CellOf(r, i) \in Cells
<1>1. r.head \in Cells /\ r.tail \in Cells
  BY DEF Ring
<1> QED
  BY <1>1, CountBounds, CapAssumption DEF Cells, CellOf

LEMMA ContentsType ==
  ASSUME NEW r \in Ring
  PROVE  /\ Contents(r) \in Seq(Events)
         /\ Len(Contents(r)) = Count(r)
         /\ \A i \in 1 .. Count(r) : Contents(r)[i] = r.cells[CellOf(r, i)]
<1>1. Count(r) \in Nat
  BY CountBounds, CapAssumption
<1>2. \A i \in 1 .. Count(r) : r.cells[CellOf(r, i)] \in Events
  BY CellInRange DEF Ring
<1> QED
  BY <1>1, <1>2 DEF Contents

(***************************************************************************)
(* The three operations on the contents.                                   *)
(***************************************************************************)
LEMMA PushedIsRing ==
  ASSUME NEW r \in Ring, NEW e \in Events
  PROVE  Pushed(r, e) \in Ring
<1>1. After(r.tail) \in Cells /\ After(r.head) \in Cells
  BY AfterWraps, CapAssumption DEF Ring, Cells
<1> QED
  BY <1>1 DEF Ring, Pushed

LEMMA PushRoom ==
  ASSUME NEW r \in Ring, NEW e \in Events, ~IsFull(r)
  PROVE  Contents(Pushed(r, e)) = Append(Contents(r), e)
<1> DEFINE s == Pushed(r, e)
<1>1. s \in Ring
  BY PushedIsRing
<1>2. /\ s.head = r.head
      /\ s.tail = After(r.tail)
      /\ s.cells = [r.cells EXCEPT ![r.tail] = e]
  BY DEF Pushed
<1>3. r.head \in Cells /\ r.tail \in Cells /\ r.cells \in [Cells -> Events]
  BY DEF Ring
<1>4. After(r.tail) = IF r.tail = Cap - 1 THEN 0 ELSE r.tail + 1
  BY <1>3, AfterWraps
<1>5. Count(s) = Count(r) + 1
  BY <1>2, <1>3, <1>4, CapAssumption DEF Count, Cells, IsFull
<1>6. Contents(r) \in Seq(Events) /\ Len(Contents(r)) = Count(r)
  BY ContentsType
<1>7. Contents(s) \in Seq(Events) /\ Len(Contents(s)) = Count(s)
  BY <1>1, ContentsType
<1>8. Append(Contents(r), e) \in Seq(Events)
  BY <1>6
<1>9. ASSUME NEW i \in 1 .. Count(s)
      PROVE  Contents(s)[i] = Append(Contents(r), e)[i]
  <2>1. Contents(s)[i] = s.cells[CellOf(s, i)]
    BY <1>1, ContentsType
  <2>2. CellOf(s, i) = CellOf(r, i)
    BY <1>2 DEF CellOf
  <2>3. CASE i = Count(s)
    <3>1. CellOf(r, Count(r) + 1) = r.tail
      BY <1>3, CapAssumption DEF CellOf, Count, Cells
    <3> QED
      BY <2>1, <2>2, <2>3, <3>1, <1>2, <1>3, <1>5, <1>6
  <2>4. CASE i # Count(s)
    <3>1. i \in 1 .. Count(r)
      BY <2>4, <1>5, CountBounds, CapAssumption
    <3>2. CellOf(r, i) # r.tail
      BY <3>1, <1>3, CapAssumption DEF CellOf, Count, Cells
    <3>3. Contents(r)[i] = r.cells[CellOf(r, i)]
      BY <3>1, ContentsType
    <3> QED
      BY <2>1, <2>2, <3>1, <3>2, <3>3, <1>2, <1>3, <1>6, CellInRange
  <2> QED
    BY <2>3, <2>4
<1> QED
  BY <1>5, <1>6, <1>7, <1>8, <1>9, SeqEqual

LEMMA PushFull ==
  ASSUME NEW r \in Ring, NEW e \in Events, IsFull(r)
  PROVE  Contents(Pushed(r, e)) = Append(Tail(Contents(r)), e)
<1> DEFINE s == Pushed(r, e)
<1>1. s \in Ring
  BY PushedIsRing
<1>2. /\ s.head = After(r.head)
      /\ s.tail = After(r.tail)
      /\ s.cells = [r.cells EXCEPT ![r.tail] = e]
  BY DEF Pushed
<1>3. r.head \in Cells /\ r.tail \in Cells /\ r.cells \in [Cells -> Events]
  BY DEF Ring
<1>4. /\ After(r.tail) = IF r.tail = Cap - 1 THEN 0 ELSE r.tail + 1
      /\ After(r.head) = IF r.head = Cap - 1 THEN 0 ELSE r.head + 1
  BY <1>3, AfterWraps
<1>5. Count(r) = Cap - 1 /\ Count(s) = Cap - 1
  BY <1>2, <1>3, <1>4, CapAssumption DEF Count, Cells, IsFull
<1>6. Contents(r) \in Seq(Events) /\ Len(Contents(r)) = Cap - 1
  BY <1>5, ContentsType
<1>7. Contents(s) \in Seq(Events) /\ Len(Contents(s)) = Cap - 1
  BY <1>1, <1>5, ContentsType
<1>8. /\ Tail(Contents(r)) \in Seq(Events)
      /\ Len(Tail(Contents(r))) = Cap - 2
      /\ \A i \in 1 .. Cap - 2 : Tail(Contents(r))[i] = Contents(r)[i + 1]
  BY <1>6, CapAssumption
<1>9. Append(Tail(Contents(r)), e) \in Seq(Events)
  BY <1>8
<1>10. ASSUME NEW i \in 1 .. Cap - 1
       PROVE  Contents(s)[i] = Append(Tail(Contents(r)), e)[i]
  <2>1. Contents(s)[i] = s.cells[CellOf(s, i)]
    BY <1>1, <1>5, ContentsType
  <2>2. CASE i = Cap - 1
    <3>1. CellOf(s, i) = r.tail
      <4>1. s.head = IF r.head = Cap - 1 THEN 0 ELSE r.head + 1
        BY <1>2, <1>4
      <4>2. r.head = IF r.tail = Cap - 1 THEN 0 ELSE r.tail + 1
        BY <1>4 DEF IsFull
      <4>3. r.head \in 0 .. Cap - 1 /\ r.tail \in 0 .. Cap - 1
        BY <1>3 DEF Cells
      <4> QED
        BY <2>2, <4>1, <4>2, <4>3, CapAssumption DEF CellOf
    <3>2. s.cells[r.tail] = e
      BY <1>2, <1>3
    <3>3. Append(Tail(Contents(r)), e)[i] = e
      BY <1>8, <2>2, CapAssumption
    <3> QED
      BY <2>1, <3>1, <3>2, <3>3
  <2>3. CASE i # Cap - 1
    <3>1. i \in 1 .. Cap - 2 /\ i + 1 \in 1 .. Count(r)
      BY <2>3, <1>5, CapAssumption
    <3>2. CellOf(s, i) = CellOf(r, i + 1)
      BY <3>1, <1>2, <1>3, <1>4, CapAssumption DEF CellOf, Cells
    <3>3. CellOf(r, i + 1) # r.tail
      <4>1. CASE r.tail = Cap - 1
        <5>1. r.head = 0
          BY <4>1, <1>4 DEF IsFull
        <5> QED
          BY <4>1, <5>1, <3>1, CapAssumption DEF CellOf
      <4>2. CASE r.tail # Cap - 1
        <5>1. r.head = r.tail + 1
          BY <4>2, <1>4 DEF IsFull
        <5> QED
          BY <4>2, <5>1, <3>1, <1>3, CapAssumption DEF CellOf, Cells
      <4> QED
        BY <4>1, <4>2
    <3>4. Contents(r)[i + 1] = r.cells[CellOf(r, i + 1)]
      BY <3>1, ContentsType
    <3>5. CellOf(r, i + 1) \in Cells
      BY <3>1, CellInRange
    <3> QED
      BY <2>1, <3>1, <3>2, <3>4, <3>5, <3>3, <1>2, <1>3, <1>8, CapAssumption
  <2> QED
    BY <2>2, <2>3
<1> QED
  BY <1>7, <1>8, <1>9, <1>10, CapAssumption, SeqEqual

LEMMA PopContents ==
  ASSUME NEW r \in Ring, ~IsEmpty(r)
  PROVE  /\ Popped(r) \in Ring
         /\ Contents(r) # << >>
         /\ First(r) = Head(Contents(r))
         /\ Contents(Popped(r)) = Tail(Contents(r))
<1> DEFINE s == Popped(r)
<1>1. r.head \in Cells /\ r.tail \in Cells /\ r.cells \in [Cells -> Events]
  BY DEF Ring
<1>2. After(r.head) = IF r.head = Cap - 1 THEN 0 ELSE r.head + 1
  BY <1>1, AfterWraps
<1>3. s.head = After(r.head) /\ s.tail = r.tail /\ s.cells = r.cells
  BY DEF Popped, Ring
<1>4. s \in Ring
  BY <1>1, <1>2, CapAssumption DEF Popped, Ring, Cells
<1>5. Count(r) \in 1 .. Cap - 1 /\ Count(s) = Count(r) - 1
  BY <1>1, <1>2, <1>3, CapAssumption, SMTT(30) DEF Count, Cells, IsEmpty
<1>6. Contents(r) \in Seq(Events) /\ Len(Contents(r)) = Count(r)
  BY ContentsType
<1>7. Contents(r) # << >>
  BY <1>5, <1>6, CapAssumption
<1>8. First(r) = Head(Contents(r))
  <2>1. Contents(r)[1] = r.cells[CellOf(r, 1)]
    BY <1>5, ContentsType, CapAssumption
  <2>2. CellOf(r, 1) = r.head
    BY <1>1, CapAssumption DEF CellOf, Cells
  <2> QED
    BY <2>1, <2>2, <1>6, <1>7 DEF First
<1>9. Contents(s) \in Seq(Events) /\ Len(Contents(s)) = Count(s)
  BY <1>4, ContentsType
<1>10. /\ Tail(Contents(r)) \in Seq(Events)
       /\ Len(Tail(Contents(r))) = Count(s)
       /\ \A i \in 1 .. Count(s) : Tail(Contents(r))[i] = Contents(r)[i + 1]
  BY <1>5, <1>6, <1>7, CapAssumption
<1>11. ASSUME NEW i \in 1 .. Count(s)
       PROVE  Contents(s)[i] = Tail(Contents(r))[i]
  <2>1. i + 1 \in 1 .. Count(r)
    BY <1>5, CapAssumption
  <2>2. CellOf(s, i) = CellOf(r, i + 1)
    BY <1>1, <1>2, <1>3, <1>5, CapAssumption DEF CellOf, Cells
  <2> QED
    BY <2>1, <2>2, <1>3, <1>4, <1>10, ContentsType
<1> QED
  BY <1>4, <1>7, <1>8, <1>9, <1>10, <1>11, SeqEqual

LEMMA ClearContents ==
  ASSUME NEW r \in Ring
  PROVE  Cleared(r) \in Ring /\ Contents(Cleared(r)) = << >>
<1>1. 0 \in Cells
  BY CapAssumption DEF Cells
<1>2. /\ Cleared(r) \in Ring
      /\ Cleared(r).head = 0
      /\ Cleared(r).tail = 0
  BY <1>1 DEF Cleared, Ring
<1>3. Count(Cleared(r)) = 0
  BY <1>2 DEF Count
<1> QED
  BY <1>2, <1>3, ContentsType
=============================================================================
