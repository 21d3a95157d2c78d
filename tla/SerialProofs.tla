---------------------------- MODULE SerialProofs ----------------------------
(***************************************************************************)
(* Proofs about the path of the log, for every finite set of threads, size *)
(* of the queue and length of the lines.                                   *)
(***************************************************************************)
EXTENDS Serial, ThreadLists, FiniteSetTheorems, SequenceTheorems

(* A pointer that moves on stays in the buffer. *)
LEMMA AdvanceFacts ==
  ASSUME NEW i \in Index
  PROVE  /\ Advance(i) \in Index
         /\ \/ i = SERIAL_BUFFERS_SIZE - 1 /\ Advance(i) = 0
            \/ i < SERIAL_BUFFERS_SIZE - 1 /\ Advance(i) = i + 1
  BY SerialAssumption DEF Advance, Index

(* The empty queue is recognised, and no other is taken for it. *)
LEMMA EmptyIsEmpty ==
  ASSUME TypeOK, PointersAgree
  PROVE  chOQIsEmptyI <=> oqueue.counter = SERIAL_BUFFERS_SIZE
  BY SerialAssumption DEF TypeOK, PointersAgree, chOQIsEmptyI, Index

(* The woken threads can be counted. *)
LEMMA WokenCounted ==
  ASSUME NEW W, W \subseteq Thread, NEW t \in Thread
  PROVE  /\ Cardinality(W) \in Nat
         /\ Cardinality(W \ {t}) \in Nat /\ Cardinality(W \ {t}) >= Cardinality(W) - 1
         /\ t \notin W => Cardinality(W \cup {t}) = Cardinality(W) + 1
  <1>1. IsFiniteSet(W)
    BY SerialAssumption, FS_Subset
  <1>2. Cardinality(W) \in Nat
    BY <1>1, FS_CardinalityType
  <1>3. IsFiniteSet(W \ {t})
    BY <1>1, FS_RemoveElement
  <1>4. Cardinality(W \ {t}) = IF t \in W THEN Cardinality(W) - 1 ELSE Cardinality(W)
    BY <1>1, FS_RemoveElement
  <1>5. Cardinality(W \ {t}) \in Nat
    BY <1>3, FS_CardinalityType
  <1>6. t \notin W => Cardinality(W \cup {t}) = Cardinality(W) + 1
    BY <1>1, FS_AddElement
  <1>7. QED
    BY <1>2, <1>4, <1>5, <1>6

(* The registers and queues as the drivers leave them. *)
LEMMA InitIInv == Init => IInv
  <1> SUFFICES ASSUME Init PROVE IInv
    OBVIOUS
  <1> USE SerialAssumption DEF Init
  <1>1. TypeOK
    BY DEF TypeOK, Index, NotServed
  <1>2. InOneListOnce
    BY DEF InOneListOnce, Range, IsInjective
  <1>3. OutputEnabled /\ NoWriterLeftBehind /\ PointersAgree /\ ReadingCurrent
    BY DEF OutputEnabled, NoWriterLeftBehind, PointersAgree, ReadingCurrent
  <1>4. QED
    BY <1>1, <1>2, <1>3 DEF IInv

(* Every step of a thread, of the interrupt and of the USART keeps it. *)
LEMMA NextIInv == IInv /\ [Next]_vars => IInv'
  <1> SUFFICES ASSUME IInv, [Next]_vars PROVE IInv'
    OBVIOUS
  <1>0. /\ todo \in [Thread -> 0..MaxLine]
        /\ ready \in Seq(Thread) /\ waiting \in Seq(Thread) /\ woken \subseteq Thread
        /\ oqueue \in [counter : 0..SERIAL_BUFFERS_SIZE, wrptr : Index, rdptr : Index,
                       buffer : [Index -> Byte \cup {NoByte}]]
        /\ iqueue \in 0..SERIAL_BUFFERS_SIZE
        /\ usart \in [txeie : BOOLEAN, tcie : BOOLEAN, txe : BOOLEAN, tc : BOOLEAN,
                      rxne : BOOLEAN, tdr : Byte \cup {NoByte}, shift : Byte \cup {NoByte}]
        /\ isr \in [txeie : BOOLEAN, tcie : BOOLEAN, txe : BOOLEAN, tc : BOOLEAN, rxne : BOOLEAN]
        /\ MaxLine \in Nat \ {0} /\ SERIAL_BUFFERS_SIZE \in Nat \ {0}
    BY SerialAssumption DEF IInv, TypeOK
  <1>1. /\ IsInjective(ready) /\ IsInjective(waiting)
        /\ Range(ready) \cap Range(waiting) = {} /\ woken \subseteq Range(ready)
        /\ \A t \in Thread : todo[t] > 0 <=> t \in Range(ready) \cup Range(waiting)
        /\ Range(ready) \subseteq Thread /\ Range(waiting) \subseteq Thread
    <2>1. Range(ready) \subseteq Thread /\ Range(waiting) \subseteq Thread
      BY <1>0 DEF Range
    <2>2. QED
      BY <2>1 DEF IInv, InOneListOnce
  <1>2. ready # <<>> =>
          /\ Running \in Thread /\ Running \in Range(ready) /\ Running \notin Range(waiting)
          /\ Tail(ready) \in Seq(Thread) /\ IsInjective(Tail(ready))
          /\ Range(Tail(ready)) = Range(ready) \ {Running}
          /\ todo[Running] \in 1..MaxLine
    <2> SUFFICES ASSUME ready # <<>>
                 PROVE  /\ Running \in Thread /\ Running \in Range(ready)
                        /\ Running \notin Range(waiting)
                        /\ Tail(ready) \in Seq(Thread) /\ IsInjective(Tail(ready))
                        /\ Range(Tail(ready)) = Range(ready) \ {Running}
                        /\ todo[Running] \in 1..MaxLine
      OBVIOUS
    <2>1. /\ Tail(ready) \in Seq(Thread) /\ Running \in Range(ready)
          /\ Range(ready) = {Running} \cup Range(Tail(ready))
          /\ IsInjective(Tail(ready)) /\ Running \notin Range(Tail(ready))
      BY <1>0, <1>1, TailMembers DEF Running
    <2>2. Running \in Thread /\ Running \notin Range(waiting) /\ todo[Running] > 0
      BY <1>1, <2>1
    <2>3. todo[Running] \in 0..MaxLine
      BY <1>0, <2>2
    <2>4. QED
      BY <1>0, <2>1, <2>2, <2>3
  <1>3. ASSUME NEW t \in Thread, StartLine(t) PROVE IInv'
    <2>1. /\ todo[t] = 0 /\ ready' = Append(ready, t)
          /\ UNCHANGED <<waiting, woken, oqueue, iqueue, usart, isr>>
      BY <1>3 DEF StartLine
    <2>2. PICK n \in 1..MaxLine : todo' = [todo EXCEPT ![t] = n]
      BY <1>3, ZenonT(30) DEF StartLine
    <2>3. t \notin Range(ready) /\ t \notin Range(waiting)
      BY <1>0, <1>1, <2>1
    <2>4. /\ ready' \in Seq(Thread) /\ Range(ready') = Range(ready) \cup {t}
          /\ IsInjective(ready')
      BY <1>0, <1>1, <2>1, <2>3, AppendMembers
    <2>5. TypeOK'
      BY <1>0, <2>1, <2>2, <2>4 DEF TypeOK
    <2>6. InOneListOnce'
      BY <1>0, <1>1, <2>1, <2>2, <2>3, <2>4 DEF InOneListOnce
    <2>7. OutputEnabled' /\ NoWriterLeftBehind' /\ PointersAgree' /\ ReadingCurrent'
      BY <2>1 DEF IInv, OutputEnabled, NoWriterLeftBehind, PointersAgree, ReadingCurrent
    <2>8. QED
      BY <2>5, <2>6, <2>7 DEF IInv
  <1>4. CASE Put
    <2>1. /\ isr = NotServed /\ ready # <<>> /\ oqueue.counter # 0
          /\ oqueue' = [oqueue EXCEPT !.counter = @ - 1, !.wrptr = Advance(@),
                          !.buffer = [@ EXCEPT ![oqueue.wrptr] = <<Running, todo[Running]>>]]
          /\ usart' = [usart EXCEPT !.txeie = TRUE]
          /\ todo' = [todo EXCEPT ![Running] = @ - 1]
          /\ woken' = woken \ {Running}
          /\ ready' = IF todo[Running] = 1 THEN Tail(ready) ELSE ready
          /\ UNCHANGED <<waiting, iqueue, isr>>
      BY <1>4 DEF Put, chOQIsFullI
    <2>2. <<Running, todo[Running]>> \in Byte
      BY <1>2, <2>1 DEF Byte
    <2>3. /\ Advance(oqueue.wrptr) \in Index
          /\ \/ oqueue.wrptr = SERIAL_BUFFERS_SIZE - 1 /\ Advance(oqueue.wrptr) = 0
             \/ /\ oqueue.wrptr < SERIAL_BUFFERS_SIZE - 1
                /\ Advance(oqueue.wrptr) = oqueue.wrptr + 1
      BY <1>0, AdvanceFacts
    <2>4. /\ oqueue.counter \in 1..SERIAL_BUFFERS_SIZE /\ oqueue.wrptr \in Index
           /\ oqueue.rdptr \in Index /\ oqueue.buffer \in [Index -> Byte \cup {NoByte}]
           /\ oqueue'.counter = oqueue.counter - 1 /\ oqueue'.rdptr = oqueue.rdptr
           /\ oqueue'.wrptr = Advance(oqueue.wrptr)
      BY <1>0, <2>1
    <2>5. TypeOK'
      <3>1. todo' \in [Thread -> 0..MaxLine]
        BY <1>0, <1>2, <2>1
      <3>2. ready' \in Seq(Thread) /\ waiting' \in Seq(Thread) /\ woken' \subseteq Thread
        BY <1>0, <1>2, <2>1
      <3>3. oqueue' \in [counter : 0..SERIAL_BUFFERS_SIZE, wrptr : Index, rdptr : Index,
                         buffer : [Index -> Byte \cup {NoByte}]]
        <4> DEFINE B == [oqueue.buffer EXCEPT ![oqueue.wrptr] = <<Running, todo[Running]>>]
        <4>1. B \in [Index -> Byte \cup {NoByte}]
          BY <2>2, <2>4
        <4>2. oqueue' = [oqueue EXCEPT !.counter = oqueue.counter - 1,
                                       !.wrptr = Advance(oqueue.wrptr), !.buffer = B]
          BY <2>1
        <4> HIDE DEF B
        <4>3. oqueue.counter - 1 \in 0..SERIAL_BUFFERS_SIZE
          BY <1>0, <2>4
        <4>4. QED
          BY <1>0, <2>3, <4>1, <4>2, <4>3, ZenonT(30)
      <3>4. QED
        BY <1>0, <2>1, <3>1, <3>2, <3>3, ZenonT(30) DEF TypeOK
    <2>6. InOneListOnce'
      <3>1. CASE todo[Running] = 1
        BY <1>0, <1>1, <1>2, <2>1, <3>1 DEF InOneListOnce
      <3>2. CASE todo[Running] # 1
        BY <1>0, <1>1, <1>2, <2>1, <3>2 DEF InOneListOnce
      <3>3. QED
        BY <3>1, <3>2
    <2>7. NoWriterLeftBehind'
      <3>1. /\ Cardinality(woken) \in Nat /\ Cardinality(woken \ {Running}) \in Nat
            /\ Cardinality(woken \ {Running}) >= Cardinality(woken) - 1
        BY <1>0, <1>2, <2>1, WokenCounted, ZenonT(30)
      <3>2. QED
        BY <2>1, <2>4, <3>1 DEF IInv, NoWriterLeftBehind
    <2>8. PointersAgree'
      <3>1. oqueue.wrptr + oqueue.counter
              \in {oqueue.rdptr, oqueue.rdptr + SERIAL_BUFFERS_SIZE}
        BY DEF IInv, PointersAgree
      <3>2. /\ SERIAL_BUFFERS_SIZE \in Nat /\ oqueue.counter \in 1..SERIAL_BUFFERS_SIZE
            /\ oqueue.wrptr \in 0..(SERIAL_BUFFERS_SIZE - 1)
            /\ oqueue.rdptr \in 0..(SERIAL_BUFFERS_SIZE - 1)
        BY <1>0, <2>4 DEF Index
      <3>3. Advance(oqueue.wrptr) + (oqueue.counter - 1)
              \in {oqueue.rdptr, oqueue.rdptr + SERIAL_BUFFERS_SIZE}
        <4> DEFINE w == oqueue.wrptr
                   c == oqueue.counter
                   r == oqueue.rdptr
                   a == Advance(oqueue.wrptr)
        <4>1. /\ w + c = r \/ w + c = r + SERIAL_BUFFERS_SIZE
              /\ w \in Int /\ c \in Int /\ r \in Int /\ SERIAL_BUFFERS_SIZE \in Int
              /\ w >= 0 /\ c >= 1 /\ c <= SERIAL_BUFFERS_SIZE
              /\ r >= 0 /\ r < SERIAL_BUFFERS_SIZE
          BY <3>1, <3>2
        <4>2. (w = SERIAL_BUFFERS_SIZE - 1 /\ a = 0) \/ a = w + 1
          BY <2>3, ZenonT(30)
        <4> HIDE DEF w, c, r, a
        <4>3. a + (c - 1) = r \/ a + (c - 1) = r + SERIAL_BUFFERS_SIZE
          BY ONLY <4>1, <4>2
        <4>4. QED
          BY <4>3, ZenonT(30) DEF w, c, r, a
      <3>4. QED
        BY <2>4, <3>3 DEF PointersAgree
    <2>9. OutputEnabled' /\ ReadingCurrent'
      BY <1>0, <2>1 DEF OutputEnabled, ReadingCurrent
    <2>10. QED
      BY <2>5, <2>6, <2>7, <2>8, <2>9 DEF IInv
  <1>5. CASE Wait
    <2>1. /\ isr = NotServed /\ ready # <<>> /\ oqueue.counter = 0
          /\ ready' = Tail(ready) /\ waiting' = Append(waiting, Running)
          /\ woken' = woken \ {Running}
          /\ UNCHANGED <<todo, oqueue, iqueue, usart, isr>>
      BY <1>5 DEF Wait, chOQIsFullI
    <2>2. /\ waiting' \in Seq(Thread) /\ Range(waiting') = Range(waiting) \cup {Running}
          /\ IsInjective(waiting')
      BY <1>0, <1>1, <1>2, <2>1, AppendMembers
    <2>3. TypeOK'
      BY <1>0, <1>2, <2>1, <2>2 DEF TypeOK
    <2>4. InOneListOnce'
      BY <1>0, <1>1, <1>2, <2>1, <2>2 DEF InOneListOnce
    <2>5. NoWriterLeftBehind'
      <3>1. Cardinality(woken \ {Running}) \in Nat
        BY <1>0, <1>2, <2>1, WokenCounted, ZenonT(30)
      <3>2. QED
        BY <2>1, <3>1 DEF NoWriterLeftBehind
    <2>6. OutputEnabled' /\ PointersAgree' /\ ReadingCurrent'
      BY <2>1 DEF IInv, OutputEnabled, PointersAgree, ReadingCurrent
    <2>7. QED
      BY <2>3, <2>4, <2>5, <2>6 DEF IInv
  <1>6. CASE EnterIsr
    <2>1. /\ isr' = [txeie |-> usart.txeie, tcie |-> usart.tcie, txe |-> usart.txe,
                     tc |-> usart.tc, rxne |-> usart.rxne]
          /\ usart' = [usart EXCEPT !.tc = FALSE]
          /\ UNCHANGED <<todo, ready, waiting, woken, oqueue, iqueue>>
      BY <1>6 DEF EnterIsr
    <2>2. usart'.txeie = usart.txeie
      BY <1>0, <2>1
    <2>3. TypeOK'
      BY <1>0, <2>1, ZenonT(30) DEF TypeOK
    <2>4. ReadingCurrent'
      BY <2>1, <2>2 DEF ReadingCurrent
    <2>5. OutputEnabled' /\ NoWriterLeftBehind' /\ InOneListOnce' /\ PointersAgree'
      BY <2>1, <2>2 DEF IInv, OutputEnabled, NoWriterLeftBehind, InOneListOnce, PointersAgree
    <2>6. QED
      BY <2>3, <2>4, <2>5 DEF IInv
  <1>7. CR1.txeie \in BOOLEAN /\ CR1.tcie \in BOOLEAN
    BY <1>0, ZenonT(30) DEF CR1
  <1>8. ReceivedCounted => iqueue' \in 0..SERIAL_BUFFERS_SIZE
    BY <1>0 DEF ReceivedCounted
  <1>9. isr # NotServed => isr.txeie = usart.txeie
    BY DEF IInv, ReadingCurrent
  <1>10. chOQIsEmptyI <=> oqueue.counter = SERIAL_BUFFERS_SIZE
    BY EmptyIsEmpty DEF IInv
  <1>11. CASE ServeByte
    <2>1. /\ isr # NotServed /\ isr.txeie /\ ~chOQIsEmptyI
          /\ oqueue' = [oqueue EXCEPT !.counter = @ + 1, !.rdptr = Advance(@)]
          /\ IF waiting = <<>>
             THEN UNCHANGED <<ready, waiting, woken>>
             ELSE /\ ready' = Append(ready, Head(waiting))
                  /\ waiting' = Tail(waiting)
                  /\ woken' = woken \cup {Head(waiting)}
          /\ usart' = [usart EXCEPT !.tdr = oqueue.buffer[oqueue.rdptr], !.txe = FALSE,
                                    !.tc = FALSE, !.rxne = @ /\ ~isr.rxne,
                                    !.txeie = CR1.txeie, !.tcie = CR1.tcie]
          /\ ReceivedCounted /\ isr' = NotServed /\ todo' = todo
      BY <1>11 DEF ServeByte, TransmitServed
    <2>2. oqueue.counter \in 0..(SERIAL_BUFFERS_SIZE - 1)
      BY <1>0, <1>10, <2>1
    <2>3. /\ Advance(oqueue.rdptr) \in Index /\ oqueue.rdptr \in Index
          /\ \/ oqueue.rdptr = SERIAL_BUFFERS_SIZE - 1 /\ Advance(oqueue.rdptr) = 0
             \/ /\ oqueue.rdptr < SERIAL_BUFFERS_SIZE - 1
                /\ Advance(oqueue.rdptr) = oqueue.rdptr + 1
      BY <1>0, AdvanceFacts
    <2>4. /\ oqueue'.counter = oqueue.counter + 1 /\ oqueue'.wrptr = oqueue.wrptr
          /\ oqueue'.rdptr = Advance(oqueue.rdptr)
          /\ usart'.txeie = CR1.txeie
      BY <1>0, <2>1
    <2>5. CR1.txeie = TRUE
      BY <1>0, <1>9, <2>1, ZenonT(30) DEF CR1
    <2>6. waiting # <<>> =>
            /\ Head(waiting) \in Thread
            /\ ready' \in Seq(Thread) /\ Range(ready') = Range(ready) \cup {Head(waiting)}
            /\ IsInjective(ready')
            /\ waiting' \in Seq(Thread) /\ IsInjective(waiting')
            /\ Range(waiting') = Range(waiting) \ {Head(waiting)}
            /\ Head(waiting) \in Range(waiting) /\ Head(waiting) \notin woken
      <3> SUFFICES ASSUME waiting # <<>>
                   PROVE  /\ Head(waiting) \in Thread
                          /\ ready' \in Seq(Thread)
                          /\ Range(ready') = Range(ready) \cup {Head(waiting)}
                          /\ IsInjective(ready')
                          /\ waiting' \in Seq(Thread) /\ IsInjective(waiting')
                          /\ Range(waiting') = Range(waiting) \ {Head(waiting)}
                          /\ Head(waiting) \in Range(waiting) /\ Head(waiting) \notin woken
        OBVIOUS
      <3>1. /\ Tail(waiting) \in Seq(Thread) /\ Head(waiting) \in Range(waiting)
            /\ Range(waiting) = {Head(waiting)} \cup Range(Tail(waiting))
            /\ IsInjective(Tail(waiting)) /\ Head(waiting) \notin Range(Tail(waiting))
        BY <1>0, <1>1, TailMembers
      <3>2. Head(waiting) \in Thread /\ Head(waiting) \notin Range(ready)
        BY <1>1, <3>1
      <3>3. /\ Append(ready, Head(waiting)) \in Seq(Thread)
            /\ Range(Append(ready, Head(waiting))) = Range(ready) \cup {Head(waiting)}
            /\ IsInjective(Append(ready, Head(waiting)))
        BY <1>0, <1>1, <3>2, AppendMembers
      <3>4. ready' = Append(ready, Head(waiting)) /\ waiting' = Tail(waiting)
        BY <2>1
      <3>5. QED
        BY <1>1, <3>1, <3>2, <3>3, <3>4
    <2>7. TypeOK'
      <3>1. /\ ready' \in Seq(Thread) /\ waiting' \in Seq(Thread) /\ woken' \subseteq Thread
        BY <1>0, <2>1, <2>6
      <3>2. oqueue' \in [counter : 0..SERIAL_BUFFERS_SIZE, wrptr : Index, rdptr : Index,
                         buffer : [Index -> Byte \cup {NoByte}]]
        <4>1. oqueue.counter + 1 \in 0..SERIAL_BUFFERS_SIZE
          BY <1>0, <2>2
        <4>2. oqueue' = [oqueue EXCEPT !.counter = oqueue.counter + 1,
                                       !.rdptr = Advance(oqueue.rdptr)]
          BY <2>1
        <4>3. QED
          BY <1>0, <2>3, <4>1, <4>2, ZenonT(30)
      <3>3. oqueue.buffer[oqueue.rdptr] \in Byte \cup {NoByte}
        BY <1>0
      <3>4. usart' \in [txeie : BOOLEAN, tcie : BOOLEAN, txe : BOOLEAN, tc : BOOLEAN,
                        rxne : BOOLEAN, tdr : Byte \cup {NoByte}, shift : Byte \cup {NoByte}]
        <4> DEFINE r == usart.rxne /\ ~isr.rxne
                   d == oqueue.buffer[oqueue.rdptr]
                   U == [usart EXCEPT !.tdr = d, !.txe = FALSE, !.tc = FALSE]
        <4>1. usart' = [U EXCEPT !.rxne = r, !.txeie = CR1.txeie, !.tcie = CR1.tcie]
          BY <1>0, <2>1
        <4>2. r \in BOOLEAN /\ d \in Byte \cup {NoByte}
          BY <3>3
        <4> HIDE DEF r, d
        <4>3. U \in [txeie : BOOLEAN, tcie : BOOLEAN, txe : BOOLEAN, tc : BOOLEAN,
                     rxne : BOOLEAN, tdr : Byte \cup {NoByte}, shift : Byte \cup {NoByte}]
          BY <1>0, <4>2, ZenonT(30)
        <4> HIDE DEF U
        <4>4. QED
          BY <1>7, <4>1, <4>2, <4>3, ZenonT(30)
      <3>5. QED
        BY <1>0, <1>8, <2>1, <3>1, <3>2, <3>4 DEF TypeOK, NotServed
    <2>8. InOneListOnce'
      <3>1. CASE waiting = <<>>
        BY <1>1, <2>1, <3>1 DEF InOneListOnce
      <3>2. CASE waiting # <<>>
        BY <1>1, <2>1, <2>6, <3>2 DEF InOneListOnce
      <3>3. QED
        BY <3>1, <3>2
    <2>9. NoWriterLeftBehind'
      <3>1. CASE waiting = <<>>
        BY <2>1, <3>1 DEF NoWriterLeftBehind
      <3>2. CASE waiting # <<>>
        <4>1. /\ Cardinality(woken) \in Nat
              /\ Cardinality(woken \cup {Head(waiting)}) = Cardinality(woken) + 1
          BY <1>0, <2>6, <3>2, WokenCounted, ZenonT(30)
        <4>2. oqueue.counter <= Cardinality(woken)
          BY <3>2 DEF IInv, NoWriterLeftBehind
        <4>3. QED
          <5>1. woken' = woken \cup {Head(waiting)}
            BY <2>1, <3>2
          <5>2. oqueue'.counter <= Cardinality(woken')
            BY <2>2, <2>4, <4>1, <4>2, <5>1
          <5>3. QED
            BY <5>2 DEF NoWriterLeftBehind
      <3>3. QED
        BY <3>1, <3>2
    <2>10. PointersAgree'
      <3>1. oqueue.wrptr + oqueue.counter
              \in {oqueue.rdptr, oqueue.rdptr + SERIAL_BUFFERS_SIZE}
        BY DEF IInv, PointersAgree
      <3>2. oqueue.wrptr \in 0..(SERIAL_BUFFERS_SIZE - 1) /\ SERIAL_BUFFERS_SIZE \in Nat
        BY <1>0, SerialAssumption DEF Index
      <3>3. oqueue.rdptr \in 0..(SERIAL_BUFFERS_SIZE - 1)
        BY <1>0 DEF Index
      <3>4. oqueue.wrptr + (oqueue.counter + 1)
              \in {Advance(oqueue.rdptr), Advance(oqueue.rdptr) + SERIAL_BUFFERS_SIZE}
        BY <2>2, <2>3, <3>1, <3>2, <3>3
      <3>5. QED
        BY <2>4, <3>4 DEF PointersAgree
    <2>11. OutputEnabled' /\ ReadingCurrent'
      BY <2>1, <2>4, <2>5 DEF OutputEnabled, ReadingCurrent
    <2>12. QED
      BY <2>7, <2>8, <2>9, <2>10, <2>11 DEF IInv
  <1>12. CASE ServeNoByte
    <2>1. /\ isr # NotServed /\ ~(TransmitServed /\ ~chOQIsEmptyI)
          /\ usart' = [usart EXCEPT !.rxne = @ /\ ~isr.rxne, !.txeie = CR1.txeie,
                                    !.tcie = CR1.tcie]
          /\ ReceivedCounted /\ isr' = NotServed
          /\ UNCHANGED <<todo, ready, waiting, woken, oqueue>>
      BY <1>12 DEF ServeNoByte
    <2>2. usart' \in [txeie : BOOLEAN, tcie : BOOLEAN, txe : BOOLEAN, tc : BOOLEAN,
                      rxne : BOOLEAN, tdr : Byte \cup {NoByte}, shift : Byte \cup {NoByte}]
      BY <1>0, <1>7, <2>1, ZenonT(30)
    <2>3. usart'.txeie = CR1.txeie
      BY <1>0, <2>1
    <2>4. oqueue.counter # SERIAL_BUFFERS_SIZE => CR1.txeie = usart.txeie
      BY <1>0, <1>9, <1>10, <2>1, ZenonT(30) DEF CR1
    <2>5. TypeOK'
      BY <1>0, <1>8, <2>1, <2>2 DEF TypeOK, NotServed
    <2>6. OutputEnabled'
      BY <1>0, <2>1, <2>3, <2>4 DEF IInv, OutputEnabled
    <2>7. NoWriterLeftBehind' /\ InOneListOnce' /\ PointersAgree' /\ ReadingCurrent'
      BY <2>1 DEF IInv, NoWriterLeftBehind, InOneListOnce, PointersAgree, ReadingCurrent
    <2>8. QED
      BY <2>5, <2>6, <2>7 DEF IInv
  <1>13. ASSUME LoadShift \/ EndOfByte \/ ByteReceived PROVE IInv'
    <2>1. UNCHANGED <<todo, ready, waiting, woken, oqueue, iqueue, isr>>
      BY <1>13 DEF LoadShift, EndOfByte, ByteReceived
    <2>2. /\ usart' \in [txeie : BOOLEAN, tcie : BOOLEAN, txe : BOOLEAN, tc : BOOLEAN,
                         rxne : BOOLEAN, tdr : Byte \cup {NoByte}, shift : Byte \cup {NoByte}]
          /\ usart'.txeie = usart.txeie
      BY <1>0, <1>13, ZenonT(30) DEF LoadShift, EndOfByte, ByteReceived
    <2>3. TypeOK'
      BY <1>0, <2>1, <2>2 DEF TypeOK
    <2>4. /\ OutputEnabled' /\ NoWriterLeftBehind' /\ InOneListOnce'
          /\ PointersAgree' /\ ReadingCurrent'
      BY <2>1, <2>2
      DEF IInv, OutputEnabled, NoWriterLeftBehind, InOneListOnce, PointersAgree, ReadingCurrent
    <2>5. QED
      BY <2>3, <2>4 DEF IInv
  <1>14. CASE UNCHANGED vars
    <2>1. TypeOK'
      BY <1>14 DEF IInv, TypeOK, vars
    <2>2. QED
      BY <1>14, <2>1
      DEF vars, IInv, OutputEnabled, NoWriterLeftBehind, InOneListOnce, PointersAgree,
          ReadingCurrent
  <1>15. QED
    BY <1>3, <1>4, <1>5, <1>6, <1>11, <1>12, <1>13, <1>14 DEF Next, Scheduler

(* The queues, the registers and the lists of threads keep their types. *)
THEOREM SerialTypeCorrect == SafeSpec => []TypeOK
  <1>1. IInv => TypeOK
    BY DEF IInv
  <1>2. QED
    BY <1>1, InitIInv, NextIInv, PTL DEF SafeSpec

(* The transmit interrupt is enabled as long as there is output: no        *)
(* interleaving of chOQPutTimeout with serve_interrupt leaves characters   *)
(* in the queue that nobody will send.                                     *)
THEOREM OutputAlwaysEnabled == SafeSpec => []OutputEnabled
  <1>1. IInv => OutputEnabled
    BY DEF IInv
  <1>2. QED
    BY <1>1, InitIInv, NextIInv, PTL DEF SafeSpec

(* For any number of threads that log, no thread waits for room that is    *)
(* there unless one that was woken for it has yet to run.                  *)
THEOREM WritersAreWoken == SafeSpec => []NoWriterLeftBehind
  <1>1. IInv => NoWriterLeftBehind
    BY DEF IInv
  <1>2. QED
    BY <1>1, InitIInv, NextIInv, PTL DEF SafeSpec

-----------------------------------------------------------------------------
(* The place of the k-th character in the ring. *)
LEMMA RingPlace ==
  ASSUME NEW i \in Index, NEW k \in 1..SERIAL_BUFFERS_SIZE
  PROVE  /\ (i + k - 1) % SERIAL_BUFFERS_SIZE \in Index
         /\ (i + k - 1) % SERIAL_BUFFERS_SIZE
              = IF i + k - 1 < SERIAL_BUFFERS_SIZE THEN i + k - 1
                ELSE i + k - 1 - SERIAL_BUFFERS_SIZE
  <1> DEFINE a == i + k - 1
  <1>1. SERIAL_BUFFERS_SIZE \in Nat \ {0} /\ a \in 0..(2 * SERIAL_BUFFERS_SIZE - 2)
    BY SerialAssumption DEF Index
  <1> HIDE DEF a
  <1>2. a < SERIAL_BUFFERS_SIZE => a % SERIAL_BUFFERS_SIZE = a
    BY <1>1
  <1>3. a >= SERIAL_BUFFERS_SIZE => a % SERIAL_BUFFERS_SIZE = a - SERIAL_BUFFERS_SIZE
    BY <1>1
  <1>4. /\ a % SERIAL_BUFFERS_SIZE \in Index
        /\ a % SERIAL_BUFFERS_SIZE
             = IF a < SERIAL_BUFFERS_SIZE THEN a ELSE a - SERIAL_BUFFERS_SIZE
    BY <1>1, <1>2, <1>3 DEF Index
  <1>5. QED
    BY <1>1, <1>4, SerialAssumption DEF a, Index

(* The characters in a queue as a sequence. *)
LEMMA ContentsFacts ==
  ASSUME NEW q \in [counter : 0..SERIAL_BUFFERS_SIZE, wrptr : Index, rdptr : Index,
                    buffer : [Index -> Byte \cup {NoByte}]],
         NEW c, c = [k \in 1..(SERIAL_BUFFERS_SIZE - q.counter) |->
                       q.buffer[(q.rdptr + k - 1) % SERIAL_BUFFERS_SIZE]]
  PROVE  /\ c \in Seq(Byte \cup {NoByte})
         /\ Len(c) = SERIAL_BUFFERS_SIZE - q.counter
         /\ \A k \in 1..(SERIAL_BUFFERS_SIZE - q.counter) :
              c[k] = q.buffer[(q.rdptr + k - 1) % SERIAL_BUFFERS_SIZE]
  <1>1. /\ SERIAL_BUFFERS_SIZE \in Nat \ {0} /\ q.counter \in 0..SERIAL_BUFFERS_SIZE
        /\ q.rdptr \in Index /\ q.buffer \in [Index -> Byte \cup {NoByte}]
    BY SerialAssumption
  <1>2. ASSUME NEW k \in 1..(SERIAL_BUFFERS_SIZE - q.counter)
        PROVE  (q.rdptr + k - 1) % SERIAL_BUFFERS_SIZE \in Index
    <2>1. k \in 1..SERIAL_BUFFERS_SIZE
      BY <1>1
    <2>2. QED
      BY <1>1, <2>1, RingPlace
  <1>3. c \in [1..(SERIAL_BUFFERS_SIZE - q.counter) -> Byte \cup {NoByte}]
    BY <1>1, <1>2
  <1>4. SERIAL_BUFFERS_SIZE - q.counter \in Nat
    BY <1>1
  <1> DEFINE n == SERIAL_BUFFERS_SIZE - q.counter
  <1> HIDE DEF n
  <1>5. c \in [1..n -> Byte \cup {NoByte}] /\ n \in Nat
    BY <1>3, <1>4, ZenonT(30) DEF n
  <1>6. c \in Seq(Byte \cup {NoByte}) /\ Len(c) = n
    BY ONLY <1>5
  <1>7. QED
    BY <1>6, ZenonT(30) DEF n

(* chOQPutTimeout writes behind the last character. *)
LEMMA PutContents ==
  ASSUME TypeOK, TypeOK', PointersAgree, Put
  PROVE  Contents' = Append(Contents, <<Running, todo[Running]>>)
  <1> DEFINE n == SERIAL_BUFFERS_SIZE - oqueue.counter
             b == <<Running, todo[Running]>>
             place(k) == (oqueue.rdptr + k - 1) % SERIAL_BUFFERS_SIZE
  <1>1. /\ SERIAL_BUFFERS_SIZE \in Nat \ {0} /\ oqueue.counter \in 1..SERIAL_BUFFERS_SIZE
        /\ oqueue.rdptr \in Index /\ oqueue.wrptr \in Index
        /\ oqueue.buffer \in [Index -> Byte \cup {NoByte}]
        /\ oqueue'.counter = oqueue.counter - 1 /\ oqueue'.rdptr = oqueue.rdptr
        /\ oqueue'.buffer = [oqueue.buffer EXCEPT ![oqueue.wrptr] = b]
    BY SerialAssumption DEF TypeOK, Put, chOQIsFullI
  <1>2. oqueue.wrptr + oqueue.counter \in {oqueue.rdptr, oqueue.rdptr + SERIAL_BUFFERS_SIZE}
    BY DEF PointersAgree
  <1>3. n \in Nat /\ n + 1 \in 1..SERIAL_BUFFERS_SIZE
    BY <1>1
  <1>4. ASSUME NEW k \in 1..(n + 1)
        PROVE  /\ place(k) \in Index
               /\ place(k) = oqueue.wrptr <=> k = n + 1
    <2>1. k \in 1..SERIAL_BUFFERS_SIZE
      BY <1>1
    <2>2. /\ place(k) \in Index
          /\ place(k) = IF oqueue.rdptr + k - 1 < SERIAL_BUFFERS_SIZE THEN oqueue.rdptr + k - 1
                        ELSE oqueue.rdptr + k - 1 - SERIAL_BUFFERS_SIZE
      BY <1>1, <2>1, RingPlace
    <2> HIDE DEF place
    <2>3. /\ SERIAL_BUFFERS_SIZE \in Nat /\ oqueue.counter \in 1..SERIAL_BUFFERS_SIZE
          /\ oqueue.rdptr \in 0..(SERIAL_BUFFERS_SIZE - 1)
          /\ oqueue.wrptr \in 0..(SERIAL_BUFFERS_SIZE - 1)
      BY <1>1 DEF Index
    <2>4. place(k) = oqueue.wrptr <=> k = n + 1
      BY <1>2, <2>1, <2>2, <2>3
    <2>5. QED
      BY <2>2, <2>4
  <1>5. /\ Contents \in Seq(Byte \cup {NoByte}) /\ Len(Contents) = n
        /\ \A k \in 1..n : Contents[k] = oqueue.buffer[place(k)]
    BY ContentsFacts, ZenonT(30) DEF TypeOK, Contents
  <1>6. /\ Contents' \in Seq(Byte \cup {NoByte}) /\ Len(Contents') = n + 1
        /\ \A k \in 1..(n + 1) : Contents'[k] = oqueue'.buffer[place(k)]
    <2>1. /\ Contents' \in Seq(Byte \cup {NoByte})
          /\ Len(Contents') = SERIAL_BUFFERS_SIZE - oqueue'.counter
          /\ \A k \in 1..(SERIAL_BUFFERS_SIZE - oqueue'.counter) :
               Contents'[k] = oqueue'.buffer[(oqueue'.rdptr + k - 1) % SERIAL_BUFFERS_SIZE]
      BY ContentsFacts, ZenonT(30) DEF TypeOK, Contents
    <2>2. SERIAL_BUFFERS_SIZE - oqueue'.counter = n + 1
      BY <1>1
    <2>3. QED
      BY <1>1, <2>1, <2>2, ZenonT(30)
  <1> HIDE DEF n, place
  <1>7. ASSUME NEW k \in 1..(n + 1) PROVE Contents'[k] = IF k = n + 1 THEN b ELSE Contents[k]
    <2>1. Contents'[k] = IF place(k) = oqueue.wrptr THEN b ELSE oqueue.buffer[place(k)]
      BY <1>1, <1>4, <1>6
    <2>2. k # n + 1 => Contents[k] = oqueue.buffer[place(k)]
      BY <1>3, <1>5
    <2>3. QED
      BY <1>4, <2>1, <2>2
  <1> HIDE DEF b
  <1>8. QED
    <2>1. b \in Byte \cup {NoByte}
      <3>1. n + 1 \in 1..(n + 1)
        BY <1>3
      <3>2. Contents'[n + 1] \in Byte \cup {NoByte}
        BY <1>6, <3>1
      <3>3. QED
        BY <1>7, <3>1, <3>2
    <2> DEFINE a == Append(Contents, b)
    <2>2. /\ a \in Seq(Byte \cup {NoByte}) /\ Len(a) = n + 1
          /\ \A k \in 1..(n + 1) : a[k] = IF k = n + 1 THEN b ELSE Contents[k]
      BY <1>3, <1>5, <2>1
    <2> HIDE DEF a
    <2>3. Contents' = a
      BY <1>6, <1>7, <2>2, SeqEqual
    <2>4. QED
      BY <2>3 DEF a, b

(* chOQGetI takes the first one. *)
LEMMA GetContents ==
  ASSUME TypeOK, TypeOK', ~chOQIsEmptyI, PointersAgree,
         oqueue' = [oqueue EXCEPT !.counter = @ + 1, !.rdptr = Advance(@)]
  PROVE  /\ Contents # <<>> /\ Head(Contents) = oqueue.buffer[oqueue.rdptr]
         /\ Contents' = Tail(Contents)
  <1> DEFINE n == SERIAL_BUFFERS_SIZE - oqueue.counter
             place(r, k) == (r + k - 1) % SERIAL_BUFFERS_SIZE
  <1>1. /\ SERIAL_BUFFERS_SIZE \in Nat \ {0} /\ oqueue.counter \in 0..(SERIAL_BUFFERS_SIZE - 1)
        /\ oqueue.rdptr \in Index /\ oqueue.buffer \in [Index -> Byte \cup {NoByte}]
        /\ oqueue'.counter = oqueue.counter + 1 /\ oqueue'.rdptr = Advance(oqueue.rdptr)
        /\ oqueue'.buffer = oqueue.buffer
    BY SerialAssumption, EmptyIsEmpty DEF TypeOK
  <1>2. n \in 1..SERIAL_BUFFERS_SIZE
    BY <1>1
  <1>3. /\ Contents \in Seq(Byte \cup {NoByte}) /\ Len(Contents) = n
        /\ \A k \in 1..n : Contents[k] = oqueue.buffer[place(oqueue.rdptr, k)]
    BY ContentsFacts, ZenonT(30) DEF TypeOK, Contents
  <1>4. /\ Contents' \in Seq(Byte \cup {NoByte}) /\ Len(Contents') = n - 1
        /\ \A k \in 1..(n - 1) : Contents'[k] = oqueue.buffer[place(Advance(oqueue.rdptr), k)]
    <2>1. /\ Contents' \in Seq(Byte \cup {NoByte})
          /\ Len(Contents') = SERIAL_BUFFERS_SIZE - oqueue'.counter
          /\ \A k \in 1..(SERIAL_BUFFERS_SIZE - oqueue'.counter) :
               Contents'[k] = oqueue'.buffer[place(oqueue'.rdptr, k)]
      BY ContentsFacts, ZenonT(30) DEF TypeOK, Contents
    <2>2. SERIAL_BUFFERS_SIZE - oqueue'.counter = n - 1
      BY <1>1
    <2> HIDE DEF n, place
    <2>3. QED
      BY <1>1, <2>1, <2>2
  <1>5. ASSUME NEW k \in 1..(n - 1)
        PROVE  place(Advance(oqueue.rdptr), k) = place(oqueue.rdptr, k + 1)
    <2>1. k \in 1..SERIAL_BUFFERS_SIZE /\ k + 1 \in 1..SERIAL_BUFFERS_SIZE
      BY <1>1
    <2>2. /\ Advance(oqueue.rdptr) \in Index
          /\ \/ oqueue.rdptr = SERIAL_BUFFERS_SIZE - 1 /\ Advance(oqueue.rdptr) = 0
             \/ /\ oqueue.rdptr < SERIAL_BUFFERS_SIZE - 1
                /\ Advance(oqueue.rdptr) = oqueue.rdptr + 1
      BY <1>1, AdvanceFacts
    <2>3. place(oqueue.rdptr, k + 1)
            = IF oqueue.rdptr + (k + 1) - 1 < SERIAL_BUFFERS_SIZE
              THEN oqueue.rdptr + (k + 1) - 1
              ELSE oqueue.rdptr + (k + 1) - 1 - SERIAL_BUFFERS_SIZE
      BY <1>1, <2>1, RingPlace
    <2>4. place(Advance(oqueue.rdptr), k)
            = IF Advance(oqueue.rdptr) + k - 1 < SERIAL_BUFFERS_SIZE
              THEN Advance(oqueue.rdptr) + k - 1
              ELSE Advance(oqueue.rdptr) + k - 1 - SERIAL_BUFFERS_SIZE
      BY <2>1, <2>2, RingPlace
    <2>5. SERIAL_BUFFERS_SIZE \in Nat /\ oqueue.rdptr \in 0..(SERIAL_BUFFERS_SIZE - 1)
      BY <1>1 DEF Index
    <2> HIDE DEF place
    <2>6. QED
      BY <2>1, <2>2, <2>3, <2>4, <2>5
  <1>6. place(oqueue.rdptr, 1) = oqueue.rdptr
    <2>1. 1 \in 1..SERIAL_BUFFERS_SIZE
      BY <1>1
    <2>2. place(oqueue.rdptr, 1)
            = IF oqueue.rdptr + 1 - 1 < SERIAL_BUFFERS_SIZE THEN oqueue.rdptr + 1 - 1
              ELSE oqueue.rdptr + 1 - 1 - SERIAL_BUFFERS_SIZE
      BY <1>1, <2>1, RingPlace
    <2>3. SERIAL_BUFFERS_SIZE \in Nat /\ oqueue.rdptr \in 0..(SERIAL_BUFFERS_SIZE - 1)
      BY <1>1 DEF Index
    <2> HIDE DEF place
    <2>4. QED
      BY <2>2, <2>3
  <1> HIDE DEF n, place
  <1>7. Contents # <<>> /\ Head(Contents) = oqueue.buffer[oqueue.rdptr]
    <2>1. Contents # <<>> /\ Head(Contents) = Contents[1] /\ 1 \in 1..n
      BY <1>1, <1>2, <1>3
    <2>2. QED
      BY <1>3, <1>6, <2>1
  <1> DEFINE t == Tail(Contents)
  <1>8. /\ t \in Seq(Byte \cup {NoByte}) /\ Len(t) = n - 1
        /\ \A k \in 1..(n - 1) : t[k] = Contents[k + 1]
    BY <1>1, <1>2, <1>3, <1>7
  <1> HIDE DEF t
  <1>9. ASSUME NEW k \in 1..(n - 1) PROVE Contents'[k] = t[k]
    <2>1. k + 1 \in 1..n
      BY <1>1, <1>2
    <2>2. Contents[k + 1] = oqueue.buffer[place(oqueue.rdptr, k + 1)]
      BY <1>3, <2>1
    <2>3. QED
      BY <1>4, <1>5, <1>8, <2>2
  <1>10. Contents' = t
    BY <1>4, <1>8, <1>9, SeqEqual
  <1>11. QED
    BY <1>7, <1>10 DEF t

(* The queue does not change unless its record does. *)
LEMMA SameContents == oqueue' = oqueue => Contents' = Contents
  BY DEF Contents

(* Nothing is queued and TDR is empty when the driver has started. *)
LEMMA InitOrderInv == Init => OrderInv
  <1> SUFFICES ASSUME Init PROVE OrderInv
    OBVIOUS
  <1>1. IInv
    BY InitIInv
  <1>2. TxeTrue
    BY DEF Init, TxeTrue, NotServed
  <1>3. RingFilled
    <2>1. oqueue.counter = SERIAL_BUFFERS_SIZE
      BY DEF Init
    <2>2. /\ Contents \in Seq(Byte \cup {NoByte})
          /\ Len(Contents) = SERIAL_BUFFERS_SIZE - oqueue.counter
      BY <1>1, ContentsFacts, ZenonT(30) DEF IInv, TypeOK, Contents
    <2>3. Len(Contents) = 0
      BY <2>1, <2>2, SerialAssumption
    <2>4. Contents = <<>>
      BY <2>2, <2>3
    <2>5. QED
      BY <2>4 DEF RingFilled
  <1>4. QED
    BY <1>1, <1>2, <1>3 DEF OrderInv

(* TDR is written when it is empty, by a handler that has seen it so, and  *)
(* with a character of the ring.                                           *)
LEMMA NextOrderInv == OrderInv /\ [Next]_vars => OrderInv'
  <1> SUFFICES ASSUME OrderInv, [Next]_vars PROVE OrderInv'
    OBVIOUS
  <1>1. IInv /\ TypeOK /\ PointersAgree /\ TxeTrue /\ RingFilled
    BY DEF OrderInv, IInv
  <1>2. IInv' /\ TypeOK'
    BY <1>1, NextIInv DEF IInv
  <1>3. /\ usart \in [txeie : BOOLEAN, tcie : BOOLEAN, txe : BOOLEAN, tc : BOOLEAN,
                      rxne : BOOLEAN, tdr : Byte \cup {NoByte}, shift : Byte \cup {NoByte}]
        /\ isr \in [txeie : BOOLEAN, tcie : BOOLEAN, txe : BOOLEAN, tc : BOOLEAN, rxne : BOOLEAN]
    BY <1>1 DEF TypeOK
  <1>4. ASSUME oqueue' = oqueue, TxeTrue' PROVE OrderInv'
    BY <1>1, <1>2, <1>4, SameContents DEF OrderInv, RingFilled
  <1>5. CASE Put
    <2>1. <<Running, todo[Running]>> \in Byte
      <3>1. ready # <<>> /\ ready \in Seq(Thread) /\ todo \in [Thread -> 0..MaxLine]
        BY <1>1, <1>5 DEF Put, TypeOK
      <3>2. Running \in Range(ready) /\ Running \in Thread
        BY <3>1 DEF Running, Range
      <3>3. todo[Running] > 0 /\ todo[Running] \in 0..MaxLine
        BY <1>1, <3>1, <3>2 DEF IInv, InOneListOnce
      <3>4. QED
        BY <3>2, <3>3, SerialAssumption DEF Byte
    <2>2. Contents' = Append(Contents, <<Running, todo[Running]>>)
      BY <1>1, <1>2, <1>5, PutContents
    <2>3. RingFilled'
      BY <1>1, <2>1, <2>2 DEF RingFilled
    <2>4. TxeTrue'
      BY <1>1, <1>3, <1>5 DEF Put, TxeTrue
    <2>5. QED
      BY <1>2, <2>3, <2>4 DEF OrderInv
  <1>6. CASE ServeByte
    <2>1. /\ isr.txe /\ ~chOQIsEmptyI /\ isr' = NotServed
          /\ oqueue' = [oqueue EXCEPT !.counter = @ + 1, !.rdptr = Advance(@)]
      BY <1>6 DEF ServeByte, TransmitServed
    <2>2. /\ Contents # <<>> /\ Head(Contents) = oqueue.buffer[oqueue.rdptr]
          /\ Contents' = Tail(Contents)
      BY <1>1, <1>2, <2>1, GetContents
    <2>3. RingFilled' /\ oqueue.buffer[oqueue.rdptr] # NoByte
      <3>1. Contents \in Seq(Byte) /\ NoByte \notin Byte
        BY <1>1, SerialAssumption DEF RingFilled, Byte
      <3>2. Tail(Contents) \in Seq(Byte) /\ Head(Contents) \in Byte
        BY <2>2, <3>1
      <3>3. QED
        BY <2>2, <3>1, <3>2 DEF RingFilled
    <2>4. usart'.tdr = oqueue.buffer[oqueue.rdptr] /\ usart'.txe = FALSE
      BY <1>3, <1>6 DEF ServeByte
    <2>5. TxeTrue'
      BY <2>1, <2>3, <2>4 DEF TxeTrue, NotServed
    <2>6. QED
      BY <1>2, <2>3, <2>5 DEF OrderInv
  <1>7. CASE ServeNoByte
    <2>1. oqueue' = oqueue /\ usart'.tdr = usart.tdr /\ usart'.txe = usart.txe /\ ~isr'.txe
      BY <1>3, <1>7 DEF ServeNoByte, NotServed
    <2>2. QED
      BY <1>1, <1>4, <2>1 DEF TxeTrue
  <1>8. CASE EnterIsr
    <2>1. /\ oqueue' = oqueue /\ usart'.tdr = usart.tdr /\ usart'.txe = usart.txe
          /\ isr'.txe = usart.txe
      BY <1>3, <1>8 DEF EnterIsr
    <2>2. QED
      BY <1>1, <1>4, <2>1 DEF TxeTrue
  <1>9. CASE LoadShift
    <2>1. oqueue' = oqueue /\ usart'.tdr = NoByte /\ usart'.txe
      BY <1>3, <1>9 DEF LoadShift
    <2>2. QED
      BY <1>4, <2>1 DEF TxeTrue
  <1>10. ASSUME EndOfByte \/ ByteReceived PROVE OrderInv'
    <2>1. oqueue' = oqueue /\ usart'.tdr = usart.tdr /\ usart'.txe = usart.txe /\ isr' = isr
      BY <1>3, <1>10, ZenonT(30) DEF EndOfByte, ByteReceived
    <2>2. QED
      BY <1>1, <1>4, <2>1 DEF TxeTrue
  <1>11. ASSUME Wait \/ UNCHANGED vars \/ \E t \in Thread : StartLine(t) PROVE OrderInv'
    <2>1. oqueue' = oqueue /\ usart' = usart /\ isr' = isr
      BY <1>11 DEF Wait, vars, StartLine
    <2>2. QED
      BY <1>1, <1>4, <2>1 DEF TxeTrue
  <1>12. QED
    BY <1>5, <1>6, <1>7, <1>8, <1>9, <1>10, <1>11 DEF Next, Scheduler

-----------------------------------------------------------------------------
(* A character that joins the queue is the last of those under way. *)
LEMMA JoinsBehind ==
  ASSUME NEW S, NEW a \in Seq(S), NEW b \in Seq(S), NEW c \in Seq(S), NEW x \in S
  PROVE  a \o b \o Append(c, x) = Append(a \o b \o c, x)
  OBVIOUS

(* From the queue into an empty TDR. *)
LEMMA MovesToTdr ==
  ASSUME NEW S, NEW a \in Seq(S), NEW c \in Seq(S), c # <<>>
  PROVE  a \o <<Head(c)>> \o Tail(c) = a \o <<>> \o c
  OBVIOUS

(* From TDR into an empty shift register. *)
LEMMA MovesToShift ==
  ASSUME NEW S, NEW x \in S, NEW c \in Seq(S)
  PROVE  <<x>> \o <<>> \o c = <<>> \o <<x>> \o c
  OBVIOUS

(* Out of the shift register. *)
LEMMA LeavesShift ==
  ASSUME NEW S, NEW x \in S, NEW b \in Seq(S), NEW c \in Seq(S)
  PROVE  <<x>> \o b \o c # <<>> /\ Tail(<<x>> \o b \o c) = <<>> \o b \o c
  OBVIOUS

(* Every step of the threads, the interrupt and the USART is one of the    *)
(* log or leaves it alone.                                                 *)
LEMMA StepOfConsole == OrderInv /\ [Next]_vars => [Log!Next]_(Log!vars)
  <1> SUFFICES ASSUME OrderInv, [Next]_vars PROVE [Log!Next]_(Log!vars)
    OBVIOUS
  <1> DEFINE S == Byte \cup {NoByte}
  <1>1. IInv /\ TypeOK /\ TypeOK' /\ PointersAgree /\ TxeTrue /\ RingFilled
    <2>1. IInv'
      BY NextIInv DEF OrderInv
    <2>2. QED
      BY <2>1 DEF OrderInv, IInv
  <1>2. /\ usart \in [txeie : BOOLEAN, tcie : BOOLEAN, txe : BOOLEAN, tc : BOOLEAN,
                      rxne : BOOLEAN, tdr : S, shift : S]
        /\ todo \in [Thread -> 0..MaxLine] /\ usart.shift \in S /\ usart.tdr \in S
    BY <1>1 DEF TypeOK
  <1>3. /\ Contents \in Seq(S) /\ Len(Contents) = SERIAL_BUFFERS_SIZE - oqueue.counter
        /\ SERIAL_BUFFERS_SIZE \in Nat \ {0} /\ oqueue.counter \in 0..SERIAL_BUFFERS_SIZE
    BY <1>1, ContentsFacts, SerialAssumption, ZenonT(30) DEF TypeOK, Contents
  <1> HIDE DEF S
  <1>4. /\ Register(usart.shift) \in Seq(S) /\ Len(Register(usart.shift)) <= 1
        /\ Register(usart.tdr) \in Seq(S) /\ Len(Register(usart.tdr)) <= 1
    BY <1>2 DEF Register
  <1>5. ASSUME oqueue' = oqueue, usart'.shift = usart.shift, usart'.tdr = usart.tdr
        PROVE  UnderWay' = UnderWay
    BY <1>5, SameContents DEF UnderWay, Register
  <1>6. ASSUME todo' = todo, UnderWay' = UnderWay PROVE UNCHANGED Log!vars
    BY <1>6 DEF Log!vars
  <1>7. CASE Put
    <2> DEFINE b == <<Running, todo[Running]>>
    <2>1. /\ ready # <<>> /\ oqueue.counter # 0 /\ todo' = [todo EXCEPT ![Running] = @ - 1]
          /\ ready \in Seq(Thread)
      BY <1>1, <1>7 DEF Put, chOQIsFullI, TypeOK
    <2>2. Running \in Range(ready) /\ Running \in Thread
      BY <2>1 DEF Running, Range
    <2>3. todo[Running] > 0 /\ todo[Running] \in 1..MaxLine
      BY <1>1, <1>2, <2>2, SerialAssumption DEF IInv, InOneListOnce
    <2>4. b \in S
      BY <2>2, <2>3 DEF S, Byte
    <2>5. Contents' = Append(Contents, b)
      BY <1>1, <1>7, PutContents
    <2>6. usart'.shift = usart.shift /\ usart'.tdr = usart.tdr
      BY <1>2, <1>7 DEF Put
    <2> HIDE DEF b
    <2>7. UnderWay' = Append(UnderWay, b)
      <3>1. UnderWay' = Register(usart.shift) \o Register(usart.tdr) \o Append(Contents, b)
        BY <2>5, <2>6 DEF UnderWay, Register
      <3>2. Register(usart.shift) \o Register(usart.tdr) \o Append(Contents, b)
              = Append(Register(usart.shift) \o Register(usart.tdr) \o Contents, b)
        <4> DEFINE a == Register(usart.shift)
                   r == Register(usart.tdr)
                   c == Contents
        <4>1. a \in Seq(S) /\ r \in Seq(S) /\ c \in Seq(S)
          BY <1>3, <1>4
        <4> HIDE DEF a, r, c
        <4>2. a \o r \o Append(c, b) = Append(a \o r \o c, b)
          BY <2>4, <4>1, JoinsBehind
        <4>3. QED
          BY <4>2, ZenonT(30) DEF a, r, c
      <3>3. QED
        BY <3>1, <3>2, ZenonT(30) DEF UnderWay
    <2>8. Len(UnderWay) < SERIAL_BUFFERS_SIZE + 2
      <3>1. Len(UnderWay) = Len(Register(usart.shift)) + Len(Register(usart.tdr)) + Len(Contents)
        <4> DEFINE a == Register(usart.shift)
                   r == Register(usart.tdr)
                   c == Contents
        <4>1. a \in Seq(S) /\ r \in Seq(S) /\ c \in Seq(S)
          BY <1>3, <1>4
        <4> HIDE DEF a, r, c
        <4>2. Len(a \o r \o c) = Len(a) + Len(r) + Len(c)
          BY ONLY <4>1
        <4>3. QED
          BY <4>2, ZenonT(30) DEF UnderWay, a, r, c
      <3>2. QED
        BY <1>3, <1>4, <2>1, <3>1
    <2>9. Log!Put(Running)
      BY <2>1, <2>3, <2>7, <2>8 DEF Log!Put, b
    <2>10. QED
      BY <2>2, <2>9 DEF Log!Next
  <1>8. CASE ServeByte
    <2>1. /\ isr.txe /\ ~chOQIsEmptyI /\ todo' = todo
          /\ oqueue' = [oqueue EXCEPT !.counter = @ + 1, !.rdptr = Advance(@)]
      BY <1>8 DEF ServeByte, TransmitServed
    <2>2. /\ Contents # <<>> /\ Head(Contents) = oqueue.buffer[oqueue.rdptr]
          /\ Contents' = Tail(Contents)
      BY <1>1, <2>1, GetContents
    <2>3. usart.tdr = NoByte
      BY <1>1, <2>1 DEF TxeTrue
    <2>4. usart'.shift = usart.shift /\ usart'.tdr = Head(Contents)
      BY <1>2, <1>8, <2>2 DEF ServeByte
    <2>5. Head(Contents) # NoByte
      <3>1. Contents \in Seq(Byte) /\ NoByte \notin Byte
        BY <1>1, SerialAssumption DEF RingFilled, Byte
      <3>2. QED
        BY <2>2, <3>1
    <2>6. UnderWay' = Register(usart.shift) \o <<Head(Contents)>> \o Tail(Contents)
      BY <2>2, <2>4, <2>5 DEF UnderWay, Register
    <2>7. UnderWay = Register(usart.shift) \o <<>> \o Contents
      BY <2>3 DEF UnderWay, Register
    <2>8. UnderWay' = UnderWay
      BY <1>3, <1>4, <2>2, <2>6, <2>7, MovesToTdr, ZenonT(30)
    <2>9. QED
      BY <1>6, <2>1, <2>8
  <1>9. CASE LoadShift
    <2>1. /\ usart.shift = NoByte /\ usart.tdr # NoByte /\ todo' = todo /\ oqueue' = oqueue
          /\ usart'.shift = usart.tdr /\ usart'.tdr = NoByte
      BY <1>1, <1>2, <1>9 DEF LoadShift, TxeTrue
    <2>2. UnderWay' = <<usart.tdr>> \o <<>> \o Contents
      BY <2>1, SameContents DEF UnderWay, Register
    <2>3. UnderWay = <<>> \o <<usart.tdr>> \o Contents
      BY <2>1 DEF UnderWay, Register
    <2>4. UnderWay' = UnderWay
      BY <1>2, <1>3, <2>2, <2>3, MovesToShift
    <2>5. QED
      BY <1>6, <2>1, <2>4
  <1>10. CASE EndOfByte
    <2>1. /\ usart.shift # NoByte /\ todo' = todo /\ oqueue' = oqueue
          /\ usart'.shift = NoByte /\ usart'.tdr = usart.tdr
      BY <1>2, <1>10 DEF EndOfByte
    <2>2. UnderWay = <<usart.shift>> \o Register(usart.tdr) \o Contents
      BY <2>1 DEF UnderWay, Register
    <2>3. UnderWay' = <<>> \o Register(usart.tdr) \o Contents
      BY <2>1, SameContents DEF UnderWay, Register
    <2>4. UnderWay # <<>> /\ UnderWay' = Tail(UnderWay)
      <3>1. /\ <<usart.shift>> \o Register(usart.tdr) \o Contents # <<>>
            /\ Tail(<<usart.shift>> \o Register(usart.tdr) \o Contents)
                 = <<>> \o Register(usart.tdr) \o Contents
        <4> DEFINE x == usart.shift
                   r == Register(usart.tdr)
                   c == Contents
        <4>1. x \in S /\ r \in Seq(S) /\ c \in Seq(S)
          BY <1>2, <1>3, <1>4
        <4> HIDE DEF x, r, c
        <4>2. <<x>> \o r \o c # <<>> /\ Tail(<<x>> \o r \o c) = <<>> \o r \o c
          BY <4>1, LeavesShift
        <4>3. QED
          BY <4>2, ZenonT(30) DEF x, r, c
      <3>2. QED
        BY <2>2, <2>3, <3>1, ZenonT(30)
    <2>5. QED
      BY <2>1, <2>4 DEF Log!Next, Log!Send
  <1>11. ASSUME NEW t \in Thread, StartLine(t) PROVE Log!Next
    <2>1. todo[t] = 0 /\ \E n \in 1..MaxLine : todo' = [todo EXCEPT ![t] = n]
      BY <1>11, ZenonT(30) DEF StartLine
    <2>2. UnderWay' = UnderWay
      BY <1>5, <1>11 DEF StartLine
    <2>3. Log!StartLine(t)
      BY <2>1, <2>2, ZenonT(30) DEF Log!StartLine
    <2>4. QED
      BY <2>3 DEF Log!Next
  <1>12. ASSUME Wait \/ EnterIsr \/ ServeNoByte \/ ByteReceived \/ UNCHANGED vars
         PROVE  UNCHANGED Log!vars
    <2>1. todo' = todo /\ oqueue' = oqueue /\ usart'.shift = usart.shift /\ usart'.tdr = usart.tdr
      BY <1>2, <1>12, ZenonT(30) DEF Wait, EnterIsr, ServeNoByte, ByteReceived, vars
    <2>2. QED
      BY <1>5, <1>6, <2>1
  <1>13. QED
    BY <1>7, <1>8, <1>9, <1>10, <1>11, <1>12 DEF Next, Scheduler

(* The output path implements the log, as far as safety goes: for every    *)
(* number of threads, size of the queue and length of the lines, what      *)
(* leaves the shift register is what chOQPutTimeout was given, once each   *)
(* and in order, however the interrupt falls between the threads' steps.   *)
THEOREM ConsoleImplemented == SafeSpec => SendsInOrder
  <1>1. Init => Log!Init
    <2> SUFFICES ASSUME Init PROVE Log!Init
      OBVIOUS
    <2>1. /\ oqueue.counter = SERIAL_BUFFERS_SIZE /\ usart.shift = NoByte /\ usart.tdr = NoByte
      BY DEF Init
    <2>2. TypeOK
      BY InitIInv DEF IInv
    <2>3. /\ Contents \in Seq(Byte \cup {NoByte})
          /\ Len(Contents) = SERIAL_BUFFERS_SIZE - oqueue.counter
      BY <2>2, ContentsFacts, ZenonT(30) DEF TypeOK, Contents
    <2>4. Len(Contents) = 0
      BY <2>1, <2>3, SerialAssumption
    <2>5. UnderWay = <<>>
      BY <2>1, <2>3, <2>4 DEF UnderWay, Register
    <2>6. QED
      BY <2>5 DEF Init, Log!Init
  <1>2. QED
    BY <1>1, InitOrderInv, NextOrderInv, StepOfConsole, PTL
    DEF SafeSpec, SendsInOrder, Log!SafeSpec
=============================================================================
