---------------------------- MODULE HexcomProofs ----------------------------
(***************************************************************************)
(* The properties of Hexcom for every size of the address space, the page  *)
(* at its bottom, the CP/M record and the image, and any number of records. *)
(***************************************************************************)
EXTENDS Hexcom, SequenceTheorems, TLAPS

Reading == {"arguments", "source", "records", "convert"}
Writing == {"write", "close", "converted"}

(* What every variable holds, and that nothing is stored beyond the image.   *)
TypeInv ==
  /\ phase \in Reading \cup Writing \cup {"failed"}
  /\ imagesz \in ImageSizes
  /\ padding \in BOOLEAN
  /\ com \in [is : {"absent", "old", "new"}, bytes : Seq(Bytes)]
  /\ image \in [Addresses -> Bytes]
  /\ haveFirst \in BOOLEAN
  /\ firstAddr \in Addresses
  /\ haveFirst => firstAddr >= TPA
  /\ lastAddr \in Nat
  /\ loaded \in Seq([addr : Addresses, len : 0 .. MaxLength])
  /\ \A a \in Addresses : a >= imagesz => image[a] = Zero

(* The two addresses are the first record's and the greatest one.            *)
LoadInv ==
  phase # "failed" =>
    /\ \A n \in Used : /\ TPA <= loaded[n].addr
                       /\ loaded[n].addr + loaded[n].len <= lastAddr + 1
    /\ haveFirst => /\ \E n \in Used : FirstUsed(n) /\ firstAddr = loaded[n].addr
                    /\ \E n \in Used : loaded[n].addr + loaded[n].len = lastAddr + 1
    /\ ~haveFirst => Used = {} /\ firstAddr = 0 /\ lastAddr = 0

(* The image holds what the records say, and then the padding behind it.     *)
ImageInv ==
  /\ phase \in Reading => \A a \in Addresses : IsByteAt(image[a], a)
  /\ phase \in Writing =>
       \A a \in Addresses :
         IF padding /\ PadStart <= a /\ a < PadEnd
         THEN image[a] = Pad ELSE IsByteAt(image[a], a)

(* The .com is emptied before the first record and written once.             *)
FileInv ==
  /\ phase \in {"arguments", "source"} => com.is # "new" /\ com.bytes = <<>>
  /\ phase \in {"records", "convert", "write"} => com.is = "new" /\ com.bytes = <<>>
  /\ phase \in {"close", "converted"} => ~TooLarge /\ com.is = "new" /\ com.bytes = Image(Size)
  /\ MalformedLeavesEmpty

IInv == TypeInv /\ LoadInv /\ ImageInv /\ FileInv

-----------------------------------------------------------------------------
(* Rounding up to whole records loses nothing.                               *)
LEMMA RoundUpFacts ==
  ASSUME NEW n \in Nat
  PROVE  RoundUp(n) \in Nat /\ RoundUp(n) >= n /\ RoundUp(n) % RECSZ = 0
<1>1. RECSZ \in Nat /\ RECSZ > 0 BY HexcomAssumption
<1> DEFINE q == (n + RECSZ - 1) \div RECSZ
<1>2. q \in Nat BY <1>1
<1>3. q * RECSZ \in Nat BY <1>1, <1>2
<1>4. n + RECSZ - 1 = (q * RECSZ) + ((n + RECSZ - 1) % RECSZ) BY <1>1
<1>5. (n + RECSZ - 1) % RECSZ < RECSZ BY <1>1
<1>6. (q * RECSZ) % RECSZ = 0 BY <1>1, <1>2
<1> QED BY <1>1, <1>2, <1>3, <1>4, <1>5, <1>6 DEF RoundUp

(* What is written has at least the bytes between the two addresses.         *)
LEMMA SizeFacts ==
  ASSUME TypeInv
  PROVE  /\ Span \in Nat /\ Size \in Nat /\ Size >= Span
         /\ padding => Size = RoundUp(Span)
         /\ ~padding => Size = Span
         /\ Size % RECSZ = 0 \/ ~padding
         /\ PadStart \in Nat /\ PadEnd \in Nat /\ PadEnd <= imagesz
         /\ imagesz \in Nat /\ imagesz <= ADDRSP /\ ADDRSP \in Nat /\ firstAddr \in Nat
         /\ TPA \in Nat /\ TPA > 0
<1>1. /\ imagesz \in Nat /\ imagesz <= ADDRSP /\ ADDRSP \in Nat /\ firstAddr \in Nat
      /\ lastAddr \in Nat /\ TPA \in Nat /\ TPA > 0
  BY HexcomAssumption DEF TypeInv, Addresses
<1>2. Span \in Nat BY <1>1 DEF Span
<1>3. RoundUp(Span) \in Nat /\ RoundUp(Span) >= Span /\ RoundUp(Span) % RECSZ = 0
  BY <1>2, RoundUpFacts
<1>4. PadStart \in Nat /\ PadEnd \in Nat /\ PadEnd <= imagesz
  BY <1>1, <1>2, <1>3 DEF PadStart, PadEnd
<1> QED BY <1>1, <1>2, <1>3, <1>4 DEF Size

(* Two records with the same address and length cover an address alike.      *)
LEMMA SameCover ==
  ASSUME NEW r, NEW s, NEW a, r.addr = s.addr, r.len = s.len
  PROVE  (Covers(r, a) <=> Covers(s, a)) /\ OffsetOf(r, a) = OffsetOf(s, a)
BY DEF OffsetOf, Covers

(* The offset of a covered address is one of the record's.                   *)
LEMMA Offset ==
  ASSUME NEW r, NEW a, Covers(r, a)
  PROVE  OffsetOf(r, a) \in 0 .. (r.len - 1)
BY DEF OffsetOf, Covers

(* Reading a sequence of images of known size gives bytes.                   *)
LEMMA ImageIsBytes ==
  ASSUME TypeInv, NEW n \in Nat, n <= Size, ~TooLarge
  PROVE  Image(n) \in Seq(Bytes) /\ Len(Image(n)) = n
<1>1. Size \in Nat /\ imagesz \in Nat /\ imagesz <= ADDRSP /\ ADDRSP \in Nat /\ firstAddr \in Nat
  BY SizeFacts
<1>2. ASSUME NEW k \in 1 .. n PROVE image[firstAddr + k - 1] \in Bytes
  <2>1. firstAddr + k - 1 \in Addresses BY <1>1 DEF TooLarge, Addresses
  <2> QED BY <2>1 DEF TypeInv
<1>3. Image(n) \in [1 .. n -> Bytes] BY <1>2 DEF Image
<1> QED BY <1>3

-----------------------------------------------------------------------------
(* What storing a record puts into the image is a byte, and in the image.    *)
LEMMA StoredIsImage ==
  ASSUME TypeInv, NEW r \in Records, NEW n \in Nat
  PROVE  /\ StoredBelow(r, n) \in [Addresses -> Bytes]
         /\ \A a \in Addresses : a >= imagesz => StoredBelow(r, n)[a] = Zero
         /\ Stored(r, n) \in [Addresses -> Bytes]
         /\ ~TooHigh(r) => \A a \in Addresses : a >= imagesz => Stored(r, n)[a] = Zero
<1>1. image \in [Addresses -> Bytes] /\ \A a \in Addresses : a >= imagesz => image[a] = Zero
  BY DEF TypeInv
<1>2. r.len \in Nat /\ r.addr \in Nat /\ imagesz \in Nat /\ ADDRSP \in Nat
  BY HexcomAssumption, SizeFacts DEF Records, Addresses
<1>3. ASSUME NEW a, Covers(r, a) PROVE Token(n, OffsetOf(r, a)) \in Bytes
  BY <1>2, <1>3, Offset DEF Token, Bytes
<1>4. Stored(r, n) \in [Addresses -> Bytes] BY <1>1, <1>3 DEF Stored
<1>5. StoredBelow(r, n) \in [Addresses -> Bytes] BY <1>1, <1>3 DEF StoredBelow, Covers
<1>6. ASSUME NEW a \in Addresses, a >= imagesz PROVE StoredBelow(r, n)[a] = Zero
  <2>1. ~ \E i \in 0 .. (r.len - 1) : /\ Mask(r.addr + i) = a
                                      /\ \A j \in 0 .. i : Mask(r.addr + j) < imagesz
    BY <1>2, <1>6 DEF Addresses
  <2> QED BY <1>1, <1>6, <2>1 DEF StoredBelow
<1>7. ASSUME ~TooHigh(r), NEW a \in Addresses, a >= imagesz PROVE Stored(r, n)[a] = Zero
  <2>1. ~Covers(r, a) BY <1>7 DEF TooHigh, Covers
  <2> QED BY <1>1, <1>7, <2>1 DEF Stored
<1> QED BY <1>4, <1>5, <1>6, <1>7

(* Every step leaves every variable in its set.                              *)
LEMMA TypeStep ==
  ASSUME IInv, [Next]_vars
  PROVE  TypeInv'
<1>1. TypeInv BY DEF IInv
<1>2. ASSUME NEW n \in Nat, n <= Size, ~TooLarge, com' = [com EXCEPT !.bytes = Image(n)]
      PROVE  com' \in [is : {"absent", "old", "new"}, bytes : Seq(Bytes)]
  BY <1>1, <1>2, ImageIsBytes DEF TypeInv
<1>3. ASSUME NEW r \in Records, ~TooLow(r),
               haveFirst' = (haveFirst \/ r.len > 0), firstAddr' = FirstAfter(r)
       PROVE  /\ haveFirst' \in BOOLEAN /\ firstAddr' \in Addresses
              /\ haveFirst' => firstAddr' >= TPA
  <2>1. /\ r.addr \in Addresses /\ r.len \in Nat /\ firstAddr \in Addresses
        /\ haveFirst \in BOOLEAN /\ haveFirst => firstAddr >= TPA
    BY <1>1 DEF TypeInv, Records
  <2>2. r.len > 0 => r.addr >= TPA
    BY <1>3, <2>1, HexcomAssumption DEF TooLow, Addresses
  <2>3. firstAddr' \in {r.addr, firstAddr} BY <1>3 DEF FirstAfter
  <2>4. CASE haveFirst BY <1>3, <2>1, <2>4 DEF FirstAfter
  <2>5. CASE ~haveFirst /\ r.len > 0
    <3>1. firstAddr' = r.addr BY <1>3, <2>5 DEF FirstAfter
    <3>2. haveFirst' = TRUE BY <1>3, <2>5
    <3> QED BY <2>1, <2>2, <2>5, <3>1, <3>2
  <2>6. CASE ~haveFirst /\ ~(r.len > 0)
    <3>1. haveFirst' = FALSE BY <1>3, <2>6
    <3> QED BY <2>1, <2>3, <3>1
  <2> QED BY <2>4, <2>5, <2>6
<1> USE DEF TypeInv, Reading, Writing, Setting, Loader, Goto, Fatal, Continue
<1>4. CASE Usage BY <1>1, <1>4 DEF Usage
<1>5. CASE OpenSource BY <1>1, <1>5 DEF OpenSource
<1>6. CASE OpenOutput
  <2>1. com' = com \/ com' = [is |-> "new", bytes |-> <<>>] BY <1>6 DEF OpenOutput
  <2>2. com' \in [is : {"absent", "old", "new"}, bytes : Seq(Bytes)]
    <3>1. <<>> \in Seq(Bytes) BY EmptySeq
    <3>2. [is |-> "new", bytes |-> <<>>] \in [is : {"absent", "old", "new"}, bytes : Seq(Bytes)]
      BY <3>1
    <3> QED BY <1>1, <2>1, <3>2
  <2> QED BY <1>1, <1>6, <2>2 DEF OpenOutput
<1>7. CASE BadHeader BY <1>1, <1>7 DEF BadHeader
<1>8. CASE SkipRecord BY <1>1, <1>8 DEF SkipRecord, vars
<1>9. CASE EndOfInput BY <1>1, <1>9 DEF EndOfInput
<1>10. ASSUME NEW r \in Records, RefuseRecord(r) PROVE TypeInv'
  <2>1. /\ phase' = "failed" /\ UNCHANGED <<imagesz, padding, lastAddr, loaded, com>>
        /\ \/ haveFirst' = haveFirst /\ firstAddr' = firstAddr
           \/ ~TooLow(r) /\ haveFirst' = (haveFirst \/ r.len > 0) /\ firstAddr' = FirstAfter(r)
        /\ image' = image \/ image' = StoredBelow(r, Len(loaded) + 1)
    BY <1>10 DEF RefuseRecord
  <2>2. Len(loaded) + 1 \in Nat BY <1>1
  <2>3. image' \in [Addresses -> Bytes] /\ \A a \in Addresses : a >= imagesz => image'[a] = Zero
    BY <1>1, <2>1, <2>2, StoredIsImage
  <2>4. /\ haveFirst' \in BOOLEAN /\ firstAddr' \in Addresses
        /\ haveFirst' => firstAddr' >= TPA
    BY <1>1, <1>3, <2>1
  <2> QED BY <1>1, <2>1, <2>3, <2>4
<1>11. ASSUME NEW r \in Records, LoadRecord(r) PROVE TypeInv'
  <2>1. /\ Objection(r) = "none" /\ image' = Stored(r, Len(loaded) + 1)
        /\ haveFirst' = (haveFirst \/ r.len > 0) /\ firstAddr' = FirstAfter(r)
        /\ lastAddr' = LastAfter(r)
        /\ loaded' = Append(loaded, [addr |-> r.addr, len |-> r.len])
        /\ UNCHANGED <<phase, imagesz, padding, com>>
    BY <1>11 DEF LoadRecord
  <2>2. Len(loaded) + 1 \in Nat BY <1>1
  <2>3. ~TooLow(r) /\ ~TooHigh(r) BY <2>1 DEF Objection
  <2>4. image' \in [Addresses -> Bytes] /\ \A a \in Addresses : a >= imagesz => image'[a] = Zero
    BY <1>1, <2>1, <2>2, <2>3, StoredIsImage
  <2>5. /\ haveFirst' \in BOOLEAN /\ firstAddr' \in Addresses
        /\ haveFirst' => firstAddr' >= TPA
    BY <1>3, <2>1, <2>3
  <2>6. lastAddr' \in Nat
    BY <1>1, <2>1, HexcomAssumption DEF LastAfter, Records, Addresses
  <2>7. loaded' \in Seq([addr : Addresses, len : 0 .. MaxLength])
    BY <1>1, <2>1 DEF Records
  <2> QED BY <1>1, <2>1, <2>4, <2>5, <2>6, <2>7
<1>12. CASE PadImage
  <2>1. image' \in [Addresses -> Bytes] BY <1>1, <1>12 DEF PadImage, Pad, Bytes
  <2>2. PadEnd <= imagesz /\ PadEnd \in Nat /\ imagesz \in Nat BY <1>1, SizeFacts
  <2>3. \A a \in Addresses : a >= imagesz => image'[a] = Zero
    BY <1>1, <1>12, <2>2, HexcomAssumption DEF PadImage, Addresses
  <2> QED BY <1>1, <1>12, <2>1, <2>3 DEF PadImage
<1>13. CASE RefuseImage BY <1>1, <1>13 DEF RefuseImage
<1>14. CASE Write
  <2>1. Size \in Nat BY <1>1, SizeFacts
  <2>2. com' \in [is : {"absent", "old", "new"}, bytes : Seq(Bytes)]
    BY <1>2, <1>14, <2>1 DEF Write
  <2> QED BY <1>1, <1>14, <2>2 DEF Write
<1>15. CASE WriteFails
  <2>1. Size \in Nat BY <1>1, SizeFacts
  <2>2. PICK n \in 0 .. (Size - 1) : com' = [com EXCEPT !.bytes = Image(n)]
    BY <1>15 DEF WriteFails
  <2>3. ~TooLarge BY <1>15 DEF WriteFails
  <2>4. com' \in [is : {"absent", "old", "new"}, bytes : Seq(Bytes)]
    <3>1. n \in Nat /\ n <= Size BY <2>1
    <3> QED BY <1>2, <2>2, <2>3, <3>1
  <2> QED BY <1>1, <1>15, <2>4 DEF WriteFails
<1>16. CASE Close
  <2>1. ASSUME NEW n \in 0 .. Len(com.bytes) PROVE SubSeq(com.bytes, 1, n) \in Seq(Bytes)
    BY <1>1, SubSeqProperties
  <2>2. \/ com' = com
        \/ \E n \in 0 .. Len(com.bytes) : com' = [com EXCEPT !.bytes = SubSeq(@, 1, n)]
    BY <1>16 DEF Close
  <2>3. com' \in [is : {"absent", "old", "new"}, bytes : Seq(Bytes)]
    BY <1>1, <2>1, <2>2
  <2> QED BY <1>1, <1>16, <2>3 DEF Close
<1>17. CASE UNCHANGED vars BY <1>1, <1>17 DEF vars
<1> QED
  BY <1>4, <1>5, <1>6, <1>7, <1>8, <1>9, <1>10, <1>11, <1>12, <1>13, <1>14, <1>15, <1>16, <1>17
  DEF Next

-----------------------------------------------------------------------------
(* Every step but loading a record leaves what was loaded, or fails.         *)
LEMMA QuietSteps ==
  ASSUME IInv, [Next]_vars
  PROVE  \/ \E r \in Records : LoadRecord(r)
         \/ phase' = "failed"
         \/ /\ UNCHANGED <<haveFirst, firstAddr, lastAddr, loaded, imagesz, padding>>
            /\ phase # "failed"
         \/ UNCHANGED vars
<1> USE DEF Setting, Loader, Goto, Fatal, Continue
<1>1. CASE Usage \/ OpenSource \/ OpenOutput \/ BadHeader \/ EndOfInput
  BY <1>1 DEF Usage, OpenSource, OpenOutput, BadHeader, EndOfInput
<1>2. CASE SkipRecord BY <1>2 DEF SkipRecord
<1>3. ASSUME NEW r \in Records, RefuseRecord(r) PROVE phase' = "failed"
  BY <1>3 DEF RefuseRecord
<1>4. CASE PadImage \/ RefuseImage \/ Write \/ WriteFails \/ Close
  BY <1>4 DEF PadImage, RefuseImage, Write, WriteFails, Close
<1> QED BY <1>1, <1>2, <1>3, <1>4 DEF Next

(* What the loaded records are after one more.                               *)
LEMMA OneMore ==
  ASSUME TypeInv, NEW r \in Records, LoadRecord(r)
  PROVE  /\ Len(loaded) \in Nat /\ DOMAIN loaded = 1 .. Len(loaded)
         /\ DOMAIN loaded' = 1 .. Len(loaded) + 1
         /\ \A m \in DOMAIN loaded : loaded'[m] = loaded[m] /\ m <= Len(loaded)
         /\ loaded'[Len(loaded) + 1].addr = r.addr
         /\ loaded'[Len(loaded) + 1].len = r.len
         /\ Used' = IF r.len > 0 THEN Used \cup {Len(loaded) + 1} ELSE Used
         /\ Used \subseteq 1 .. Len(loaded)
         /\ ~TooLow(r) /\ r.addr \in Nat /\ r.len \in Nat
<1>1. loaded' = Append(loaded, [addr |-> r.addr, len |-> r.len]) /\ Objection(r) = "none"
  BY DEF LoadRecord
<1>2. loaded \in Seq([addr : Addresses, len : 0 .. MaxLength]) BY DEF TypeInv
<1>3. /\ Len(loaded) \in Nat /\ DOMAIN loaded = 1 .. Len(loaded)
      /\ DOMAIN loaded' = 1 .. Len(loaded) + 1
      /\ \A m \in DOMAIN loaded : loaded'[m] = loaded[m] /\ m <= Len(loaded)
      /\ loaded'[Len(loaded) + 1] = [addr |-> r.addr, len |-> r.len]
  BY <1>1, <1>2
<1>4. Used' = IF r.len > 0 THEN Used \cup {Len(loaded) + 1} ELSE Used
  <2>1. ASSUME NEW m PROVE m \in Used' <=> m \in Used \/ (r.len > 0 /\ m = Len(loaded) + 1)
    BY <1>3 DEF Used
  <2> QED BY <2>1
<1>5. ~TooLow(r) BY <1>1 DEF Objection
<1>6. r.addr \in Nat /\ r.len \in Nat BY HexcomAssumption DEF Records, Addresses
<1> QED BY <1>3, <1>4, <1>5, <1>6 DEF Used

(* Every step keeps the first and the last address.                          *)
LEMMA LoadStep ==
  ASSUME IInv, [Next]_vars
  PROVE  LoadInv'
<1>1. TypeInv /\ LoadInv BY DEF IInv
<1>2. ASSUME NEW r \in Records, LoadRecord(r) PROVE LoadInv'
  <2>1. PICK n \in Nat : n = Len(loaded) + 1 BY <1>1, <1>2, OneMore
  <2>2. /\ Len(loaded) \in Nat /\ DOMAIN loaded = 1 .. Len(loaded) /\ DOMAIN loaded' = 1 .. n
        /\ \A m \in DOMAIN loaded : loaded'[m] = loaded[m] /\ m <= Len(loaded)
        /\ loaded'[n].addr = r.addr /\ loaded'[n].len = r.len
        /\ Used' = IF r.len > 0 THEN Used \cup {n} ELSE Used
        /\ Used \subseteq 1 .. Len(loaded)
        /\ ~TooLow(r) /\ r.addr \in Nat /\ r.len \in Nat
    BY <1>1, <1>2, <2>1, OneMore
  <2>3. /\ phase = "records" /\ phase' = phase /\ lastAddr' = LastAfter(r)
        /\ haveFirst' = (haveFirst \/ r.len > 0) /\ firstAddr' = FirstAfter(r)
    BY <1>2 DEF LoadRecord
  <2>4. /\ lastAddr \in Nat /\ firstAddr \in Nat /\ haveFirst \in BOOLEAN
        /\ TPA \in Nat /\ TPA > 0
    BY <1>1, HexcomAssumption DEF TypeInv, Addresses
  <2>5. ASSUME NEW m \in Used
        PROVE  loaded[m].addr \in Nat /\ loaded[m].len \in Nat /\ m \in Nat
    <3>1. m \in DOMAIN loaded /\ m \in Nat BY <2>2 DEF Used
    <3>2. loaded[m] \in [addr : Addresses, len : 0 .. MaxLength]
      BY <1>1, <2>2, <3>1, ElementOfSeq DEF TypeInv
    <3> QED BY <3>1, <3>2, HexcomAssumption DEF Addresses
  <2>6. r.addr \in Nat /\ r.len \in Nat BY <2>2
  <2>7. \A m \in Used : /\ TPA <= loaded[m].addr
                        /\ loaded[m].addr + loaded[m].len <= lastAddr + 1
    BY <1>1, <2>3 DEF LoadInv
  <2>8. CASE r.len = 0
    <3>1. Used' = Used /\ lastAddr' = lastAddr /\ haveFirst' = haveFirst /\ firstAddr' = firstAddr
      BY <2>2, <2>3, <2>4, <2>8 DEF LastAfter, FirstAfter
    <3>2. \A m \in Used : loaded'[m] = loaded[m] BY <2>2
    <3>3. \A m \in Used : FirstUsed(m)' <=> FirstUsed(m) BY <3>1 DEF FirstUsed
    <3> QED BY <1>1, <2>3, <3>1, <3>2, <3>3 DEF LoadInv
  <2>9. CASE r.len > 0
    <3>1. /\ Used' = Used \cup {n}
          /\ lastAddr' = IF r.addr + r.len - 1 > lastAddr THEN r.addr + r.len - 1 ELSE lastAddr
      BY <2>2, <2>3, <2>9 DEF LastAfter
    <3>2. r.addr >= TPA BY <2>2, <2>4, <2>9 DEF TooLow
    <3>3. haveFirst' /\ firstAddr' = IF haveFirst THEN firstAddr ELSE r.addr
      BY <2>3, <2>9 DEF FirstAfter
    <3>4. \A m \in Used : loaded'[m] = loaded[m] BY <2>2
    <3>5. \A m \in Used' : /\ TPA <= loaded'[m].addr
                           /\ loaded'[m].addr + loaded'[m].len <= lastAddr' + 1
      <4>1. lastAddr' >= lastAddr /\ r.addr + r.len <= lastAddr' + 1 /\ lastAddr' \in Nat
        BY <2>4, <2>6, <3>1
      <4>2. ASSUME NEW m \in Used
            PROVE  /\ TPA <= loaded'[m].addr
                   /\ loaded'[m].addr + loaded'[m].len <= lastAddr' + 1
        BY <2>4, <2>7, <2>5, <3>4, <4>1
      <4> QED BY <2>2, <3>1, <3>2, <4>1, <4>2
    <3>6. \E m \in Used' : loaded'[m].addr + loaded'[m].len = lastAddr' + 1
      <4>1. CASE r.addr + r.len - 1 > lastAddr
        <5>1. r.addr + r.len = lastAddr' + 1 BY <2>4, <2>6, <3>1, <4>1
        <5> QED BY <2>2, <3>1, <5>1
      <4>2. CASE ~(r.addr + r.len - 1 > lastAddr)
        <5>1. haveFirst BY <1>1, <2>3, <2>4, <2>9, <2>6, <3>2, <4>2 DEF LoadInv
        <5>2. PICK m \in Used : loaded[m].addr + loaded[m].len = lastAddr + 1
          BY <1>1, <2>3, <5>1 DEF LoadInv
        <5> QED BY <3>1, <3>4, <4>2, <5>2
      <4> QED BY <4>1, <4>2
    <3>7. \E m \in Used' : FirstUsed(m)' /\ firstAddr' = loaded'[m].addr
      <4>1. CASE haveFirst
        <5>1. PICK m \in Used : FirstUsed(m) /\ firstAddr = loaded[m].addr
          BY <1>1, <2>3, <4>1 DEF LoadInv
        <5>2. m <= n BY <2>1, <2>2
        <5>3. FirstUsed(m)' BY <3>1, <5>1, <5>2 DEF FirstUsed
        <5> QED BY <3>1, <3>4, <3>3, <4>1, <5>1, <5>3
      <4>2. CASE ~haveFirst
        <5>1. Used = {} BY <1>1, <2>3, <4>2 DEF LoadInv
        <5>2. FirstUsed(n)' BY <2>2, <3>1, <5>1 DEF FirstUsed
        <5> QED BY <2>2, <3>1, <3>3, <4>2, <5>2
      <4> QED BY <4>1, <4>2
    <3> QED BY <3>3, <3>5, <3>6, <3>7 DEF LoadInv
  <2> QED BY <2>2, <2>8, <2>9
<1>3. CASE phase' = "failed" BY <1>3 DEF LoadInv
<1>4. CASE UNCHANGED <<haveFirst, firstAddr, lastAddr, loaded>> /\ phase # "failed"
  BY <1>1, <1>4 DEF LoadInv, Used, FirstUsed
<1>5. CASE UNCHANGED vars BY <1>1, <1>5 DEF LoadInv, Used, FirstUsed, vars
<1> QED BY <1>2, <1>3, <1>4, <1>5, QuietSteps

(* Every step leaves in the image what the records say.                      *)
LEMMA ImageStep ==
  ASSUME IInv, [Next]_vars
  PROVE  ImageInv'
<1>1. TypeInv /\ ImageInv BY DEF IInv
<1>2. ASSUME NEW r \in Records, LoadRecord(r) PROVE ImageInv'
  <2>1. PICK n \in Nat : n = Len(loaded) + 1 BY <1>1, <1>2, OneMore
  <2>2. loaded'[n].addr = r.addr /\ loaded'[n].len = r.len
    BY <1>1, <1>2, <2>1, OneMore
  <2>3. /\ \A m : m \in DOMAIN loaded' <=> m \in DOMAIN loaded \/ m = n
        /\ \A m \in DOMAIN loaded : loaded'[m] = loaded[m] /\ ~(m > n)
    <3>1. /\ Len(loaded) \in Nat /\ DOMAIN loaded = 1 .. Len(loaded) /\ DOMAIN loaded' = 1 .. n
          /\ \A m \in DOMAIN loaded : loaded'[m] = loaded[m]
      BY <1>1, <1>2, <2>1, OneMore
    <3> QED BY <2>1, <3>1
  <2>4. ~(n > n) BY <2>1
  <2>5. phase = "records" /\ phase' = phase /\ image' = Stored(r, n) BY <1>2, <2>1 DEF LoadRecord
  <2>6. \A a : Covers(loaded'[n], a) <=> Covers(r, a) BY <2>2, SameCover
  <2>7. ASSUME NEW a \in Addresses PROVE IsByteAt(image[a], a)'
    <3>1. CASE Covers(r, a)
      <4>1. image'[a] = Token(n, OffsetOf(loaded'[n], a))
        <5>1. OffsetOf(loaded'[n], a) = OffsetOf(r, a) BY <2>2, SameCover
        <5> QED BY <2>5, <3>1, <5>1 DEF Stored
      <4>2. LastCover(n, a)' BY <2>6, <2>3, <2>4, <3>1 DEF LastCover
      <4> QED BY <2>3, <4>1, <4>2 DEF IsByteAt
    <3>2. CASE ~Covers(r, a)
      <4>1. image'[a] = image[a] BY <2>5, <3>2 DEF Stored
      <4>2. IsByteAt(image[a], a) BY <1>1, <2>5 DEF ImageInv, Reading
      <4>3. CASE ~Loads(a) /\ image[a] = Zero
        <5>1. ~Loads(a)' BY <2>6, <2>3, <3>2, <4>3 DEF Loads
        <5> QED BY <4>1, <4>3, <5>1 DEF IsByteAt
      <4>4. ASSUME NEW m \in DOMAIN loaded, LastCover(m, a),
                   image[a] = Token(m, OffsetOf(loaded[m], a))
            PROVE  IsByteAt(image[a], a)'
        <5>1. m \in DOMAIN loaded' /\ loaded'[m] = loaded[m] BY <2>3
        <5>2. LastCover(m, a)' BY <2>6, <2>3, <3>2, <4>4, <5>1 DEF LastCover
        <5> QED BY <4>1, <4>4, <5>1, <5>2 DEF IsByteAt
      <4> QED BY <4>2, <4>3, <4>4 DEF IsByteAt
    <3> QED BY <3>1, <3>2
  <2> QED BY <2>5, <2>7 DEF ImageInv, Writing
<1>3. CASE phase' = "failed" BY <1>3 DEF ImageInv, Reading, Writing
<1>4. CASE PadImage
  <2>1. /\ phase = "convert" /\ phase' = "write"
        /\ UNCHANGED <<firstAddr, lastAddr, loaded, imagesz, padding>>
        /\ image' = [a \in Addresses |->
                      IF padding /\ PadStart <= a /\ a < PadEnd THEN Pad ELSE image[a]]
    BY <1>4 DEF PadImage, Continue, Goto, Setting
  <2>2. PadStart' = PadStart /\ PadEnd' = PadEnd BY <2>1 DEF PadStart, PadEnd, Span
  <2>3. ASSUME NEW a \in Addresses
        PROVE  IF (padding /\ PadStart <= a /\ a < PadEnd)'
               THEN image'[a] = Pad ELSE IsByteAt(image[a], a)'
    <3>1. IsByteAt(image[a], a) BY <1>1, <2>1 DEF ImageInv, Reading
    <3>2. CASE padding /\ PadStart <= a /\ a < PadEnd BY <2>1, <2>2, <3>2
    <3>3. CASE ~(padding /\ PadStart <= a /\ a < PadEnd)
      <4>1. image'[a] = image[a] BY <2>1, <3>3
      <4>2. IsByteAt(image[a], a)' BY <2>1, <3>1, <4>1 DEF IsByteAt, Loads, LastCover
      <4> QED BY <2>1, <2>2, <3>3, <4>2
    <3> QED BY <3>2, <3>3
  <2> QED BY <2>1, <2>3 DEF ImageInv, Reading
<1>5. CASE /\ UNCHANGED <<firstAddr, lastAddr, loaded, imagesz, padding, image>>
           /\ phase' \in Reading => phase \in Reading
           /\ phase' \in Writing => phase \in Writing
  BY <1>1, <1>5 DEF ImageInv, IsByteAt, Loads, LastCover, PadStart, PadEnd, Span
<1>6. CASE Next /\ ~PadImage /\ phase' # "failed" /\ ~ \E r \in Records : LoadRecord(r)
  BY <1>5, <1>6
  DEF Next, Usage, OpenSource, OpenOutput, BadHeader, SkipRecord, EndOfInput, RefuseRecord,
      RefuseImage, Write, WriteFails, Close, vars, Setting, Loader, Goto, Fatal, Continue,
      Reading, Writing
<1>7. CASE UNCHANGED vars BY <1>5, <1>7 DEF vars
<1> QED BY <1>2, <1>3, <1>4, <1>6, <1>7

(* Every step writes nothing but the image.                                  *)
LEMMA FileStep ==
  ASSUME IInv, [Next]_vars
  PROVE  FileInv'
<1>1. TypeInv /\ FileInv BY DEF IInv
<1> USE DEF FileInv, MalformedLeavesEmpty, EarlyDiagnoses, WriteDiagnoses,
            Goto, Fatal, Continue, Setting, Loader
<1>2. CASE Usage BY <1>1, <1>2 DEF Usage
<1>3. CASE OpenSource BY <1>1, <1>3 DEF OpenSource
<1>4. CASE OpenOutput
  <2>1. CASE phase' = "records" /\ com' = [is |-> "new", bytes |-> <<>>]
    <3>1. com'.is = "new" /\ com'.bytes = <<>> BY <2>1
    <3> QED BY <2>1, <3>1
  <2>2. CASE phase' = "failed" /\ diagnosis' = "DIRECTORY FULL" /\ com' = com
    BY <1>1, <1>4, <2>2 DEF OpenOutput
  <2> QED BY <1>4, <2>1, <2>2 DEF OpenOutput
<1>5. CASE BadHeader BY <1>1, <1>5 DEF BadHeader
<1>6. CASE SkipRecord BY <1>1, <1>6 DEF SkipRecord, vars, TooLarge, Size, Span, Image
<1>7. CASE EndOfInput BY <1>1, <1>7 DEF EndOfInput
<1>8. ASSUME NEW r \in Records, RefuseRecord(r) PROVE FileInv'
  <2>1. /\ phase = "records" /\ phase' = "failed" /\ com' = com
        /\ diagnosis' = Objection(r) /\ Objection(r) # "none"
    BY <1>8 DEF RefuseRecord
  <2> QED BY <1>1, <2>1 DEF Objection
<1>9. ASSUME NEW r \in Records, LoadRecord(r) PROVE FileInv'
  BY <1>1, <1>9 DEF LoadRecord
<1>10. CASE PadImage BY <1>1, <1>10 DEF PadImage
<1>11. CASE RefuseImage BY <1>1, <1>11 DEF RefuseImage
<1>12. CASE Write
  <2>1. /\ phase' = "close" /\ com' = [com EXCEPT !.bytes = Image(Size)]
        /\ com.is = "new" /\ ~TooLarge
        /\ UNCHANGED <<imagesz, padding, image, firstAddr, lastAddr>>
    BY <1>1, <1>12 DEF Write
  <2>2. com'.is = "new" /\ com'.bytes = Image(Size) BY <1>1, <2>1 DEF TypeInv
  <2>3. TooLarge' = TooLarge /\ Image(Size)' = Image(Size) BY <2>1 DEF TooLarge, Size, Span, Image
  <2> QED BY <2>1, <2>2, <2>3
<1>13. CASE WriteFails
  <2>1. /\ phase' = "failed" /\ diagnosis' = "DISK WRITE ERROR" /\ com.is = "new"
        /\ \E n \in 0 .. (Size - 1) : com' = [com EXCEPT !.bytes = Image(n)]
    BY <1>1, <1>13 DEF WriteFails
  <2>2. com'.is = "new" BY <1>1, <2>1 DEF TypeInv
  <2> QED BY <2>1, <2>2
<1>14. CASE Close
  <2>1. CASE phase' = "converted" /\ com' = com
    BY <1>1, <1>14, <2>1 DEF Close, TooLarge, Size, Span, Image
  <2>2. CASE /\ phase' = "failed" /\ diagnosis' = "CANNOT CLOSE FILE"
             /\ \E n \in 0 .. Len(com.bytes) : com' = [com EXCEPT !.bytes = SubSeq(@, 1, n)]
    <3>1. com.is = "new" BY <1>1, <1>14 DEF Close
    <3>2. com'.is = "new" BY <1>1, <2>2, <3>1 DEF TypeInv
    <3> QED BY <2>2, <3>2
  <2> QED BY <1>14, <2>1, <2>2 DEF Close
<1>15. CASE UNCHANGED vars BY <1>1, <1>15 DEF vars, TooLarge, Size, Span, Image
<1> QED
  BY <1>2, <1>3, <1>4, <1>5, <1>6, <1>7, <1>8, <1>9, <1>10, <1>11, <1>12, <1>13, <1>14, <1>15
  DEF Next

-----------------------------------------------------------------------------
(* The first state satisfies the invariant.                                  *)
LEMMA InitStep ==
  ASSUME Init
  PROVE  IInv
<1> USE DEF Init
<1>1. ADDRSP \in Nat /\ TPA \in Nat /\ TPA < ADDRSP /\ 0 < TPA BY HexcomAssumption
<1>2. Used = {} BY DEF Used
<1>3. TypeInv
  <2>1. <<>> \in Seq(Bytes) BY EmptySeq
  <2>2. loaded \in Seq([addr : Addresses, len : 0 .. MaxLength]) BY EmptySeq
  <2>3. com \in [is : {"absent", "old", "new"}, bytes : Seq(Bytes)] BY <2>1
  <2>4. image \in [Addresses -> Bytes] /\ \A a \in Addresses : image[a] = Zero
    BY DEF Zero, Bytes
  <2>5. firstAddr \in Addresses BY <1>1 DEF Addresses
  <2>6. phase \in Reading BY DEF Reading
  <2>7. padding \in BOOLEAN /\ haveFirst = FALSE /\ lastAddr \in Nat /\ imagesz \in ImageSizes
    OBVIOUS
  <2> QED BY <2>2, <2>3, <2>4, <2>5, <2>6, <2>7 DEF TypeInv
<1>4. LoadInv BY <1>2 DEF LoadInv
<1>5. ImageInv
  <2>1. ASSUME NEW a \in Addresses PROVE IsByteAt(image[a], a)
    <3>1. ~Loads(a) BY DEF Loads
    <3> QED BY <3>1 DEF IsByteAt
  <2> QED BY <2>1 DEF ImageInv, Writing
<1>6. FileInv BY DEF FileInv, MalformedLeavesEmpty
<1> QED BY <1>3, <1>4, <1>5, <1>6 DEF IInv

(* Every step keeps the invariant.                                           *)
LEMMA Inductive == IInv /\ [Next]_vars => IInv'
BY TypeStep, LoadStep, ImageStep, FileStep DEF IInv

(* The inductive invariant holds in every reachable state.                   *)
LEMMA Invariance == Spec => []IInv
<1>1. Init => IInv BY InitStep
<1> QED BY <1>1, Inductive, PTL DEF Spec

(* An address of a loaded record is a number, and a used record is loaded.   *)
LEMMA UsedIsRecord ==
  ASSUME TypeInv, NEW n \in DOMAIN loaded
  PROVE  n \in Nat /\ loaded[n].addr \in Nat /\ loaded[n].len \in Nat
<1>1. n \in 1 .. Len(loaded) BY DEF TypeInv
<1>2. loaded[n] \in [addr : Addresses, len : 0 .. MaxLength] BY <1>1, ElementOfSeq DEF TypeInv
<1> QED BY <1>1, <1>2, HexcomAssumption DEF Addresses

(* Where an image has been written, the addresses of the records lie in it.  *)
LEMMA WrittenFits ==
  ASSUME IInv, phase \in {"close", "converted"}
  PROVE  /\ Size > 0 => firstAddr + Size <= imagesz
         /\ Len(com.bytes) = Size
         /\ \A k \in 1 .. Size : com.bytes[k] = image[firstAddr + k - 1]
         /\ haveFirst => /\ lastAddr >= firstAddr /\ Span = lastAddr - firstAddr + 1
                         /\ lastAddr < imagesz
<1>1. TypeInv /\ LoadInv /\ FileInv BY DEF IInv
<1>2. /\ Span \in Nat /\ Size \in Nat /\ Size >= Span /\ imagesz \in Nat /\ firstAddr \in Nat
      /\ lastAddr \in Nat
  BY <1>1, SizeFacts DEF TypeInv
<1>3. ~TooLarge /\ com.bytes = Image(Size) BY <1>1 DEF FileInv
<1>4. Size > 0 => firstAddr + Size <= imagesz BY <1>2, <1>3 DEF TooLarge
<1>5. Len(com.bytes) = Size /\ \A k \in 1 .. Size : com.bytes[k] = image[firstAddr + k - 1]
  BY <1>1, <1>2, <1>3, ImageIsBytes DEF Image
<1>6. ASSUME haveFirst
      PROVE  lastAddr >= firstAddr /\ Span = lastAddr - firstAddr + 1 /\ lastAddr < imagesz
  <2>1. PICK n \in Used : firstAddr = loaded[n].addr BY <1>1, <1>6 DEF LoadInv
  <2>2. loaded[n].len > 0 /\ loaded[n].addr + loaded[n].len <= lastAddr + 1
    BY <1>1 DEF LoadInv, Used
  <2>3. loaded[n].len \in Nat BY <1>1, UsedIsRecord DEF Used
  <2>4. lastAddr >= firstAddr BY <1>2, <2>1, <2>2, <2>3
  <2>5. Span = lastAddr - firstAddr + 1 BY <2>4 DEF Span
  <2> QED BY <1>2, <1>4, <2>4, <2>5
<1> QED BY <1>4, <1>5, <1>6

(* The bytes of page zero that a written image leaves alone.                 *)
LEMMA PageZero ==
  ASSUME IInv, phase = "close", haveFirst, NEW a \in 0 .. (TPA - 1)
  PROVE  image[a] = Zero
<1>1. TypeInv /\ LoadInv /\ ImageInv BY DEF IInv
<1>2. /\ Size > 0 => firstAddr + Size <= imagesz
      /\ lastAddr >= firstAddr /\ lastAddr < imagesz
  BY WrittenFits
<1>3. /\ firstAddr >= TPA /\ firstAddr \in Nat /\ TPA \in Nat
      /\ imagesz \in Nat /\ imagesz <= ADDRSP
      /\ ADDRSP \in Nat /\ lastAddr \in Nat /\ Span \in Nat /\ TPA < ADDRSP
  BY <1>1, SizeFacts, HexcomAssumption DEF TypeInv
<1>4. a \in Addresses /\ a \in Nat /\ a < TPA BY <1>3 DEF Addresses
<1>5. ~(PadStart <= a) BY <1>3, <1>4 DEF PadStart
<1>6. IsByteAt(image[a], a) BY <1>1, <1>4, <1>5 DEF ImageInv, Writing
<1>7. ASSUME NEW m \in DOMAIN loaded PROVE ~Covers(loaded[m], a)
  <2>1. loaded[m].addr \in Nat /\ loaded[m].len \in Nat BY <1>1, UsedIsRecord
  <2>2. ASSUME NEW i \in 0 .. (loaded[m].len - 1) PROVE Mask(loaded[m].addr + i) # a
    <3>1. m \in Used BY <2>1 DEF Used
    <3>2. TPA <= loaded[m].addr /\ loaded[m].addr + loaded[m].len <= lastAddr + 1
      BY <1>1, <3>1 DEF LoadInv
    <3>3. loaded[m].addr + i < ADDRSP BY <1>2, <1>3, <2>1, <3>2
    <3> QED BY <1>3, <1>4, <2>1, <3>2, <3>3 DEF Mask
  <2> QED BY <2>2 DEF Covers
<1> QED BY <1>6, <1>7 DEF IsByteAt, LastCover

(* The program's state is well formed, no byte is stored or written beyond   *)
(* the image that calloc granted, and none of page zero is in a written one. *)
THEOREM TypeCorrect == Spec => []TypeOK
<1>1. ASSUME IInv PROVE TypeOK
  <2>1. TypeInv BY <1>1 DEF IInv
  <2>2. ASSUME phase = "close"
        PROVE  /\ firstAddr + Len(com.bytes) <= imagesz
               /\ haveFirst => \A a \in 0 .. (TPA - 1) : image[a] = Zero
    <3>1. Len(com.bytes) = Size /\ Size \in Nat /\ (Size > 0 => firstAddr + Size <= imagesz)
      BY <1>1, <2>1, <2>2, WrittenFits, SizeFacts
    <3>2. ~(Size > 0) => firstAddr + Size <= imagesz
      <4>1. haveFirst => Size > 0
        <5>1. haveFirst => lastAddr >= firstAddr /\ Span = lastAddr - firstAddr + 1
          BY <1>1, <2>2, WrittenFits
        <5> QED BY <2>1, <3>1, <5>1, SizeFacts DEF TypeInv
      <4>2. ~haveFirst => firstAddr = 0 BY <1>1, <2>2 DEF IInv, LoadInv
      <4> QED BY <2>1, <3>1, <4>1, <4>2, SizeFacts
    <3> QED BY <1>1, <2>2, <3>1, <3>2, PageZero
  <2> QED BY <2>1, <2>2 DEF TypeInv, TypeOK, Reading, Writing
<1> QED BY <1>1, Invariance, PTL

(* A converted file is the image of its records: every byte at its address,  *)
(* none lost, gaps zero, the end padded.                                     *)
THEOREM ConvertedIsImage == Spec => []FileIsImage
<1>1. ASSUME IInv, phase = "converted", NEW n \in Used, FirstUsed(n)
      PROVE  /\ \A k \in 1 .. Len(com.bytes) :
                  LET a == loaded[n].addr + k - 1 IN
                  IF Reached(a) THEN IsByteAt(com.bytes[k], a) ELSE com.bytes[k] = Pad
             /\ \A a \in loaded[n].addr .. ADDRSP :
                  Reached(a) => a - loaded[n].addr < Len(com.bytes)
             /\ IF padding THEN Len(com.bytes) % RECSZ = 0
                ELSE Reached(loaded[n].addr + Len(com.bytes) - 1)
             /\ \A m \in Used : loaded[m].addr + loaded[m].len <= imagesz
  <2>1. TypeInv /\ LoadInv /\ ImageInv BY <1>1 DEF IInv
  <2>2. haveFirst BY <1>1, <2>1 DEF LoadInv
  <2>3. firstAddr = loaded[n].addr
    <3>1. PICK m \in Used : FirstUsed(m) /\ firstAddr = loaded[m].addr
      BY <1>1, <2>1, <2>2 DEF LoadInv
    <3>2. m = n
      <4>1. m \in Nat /\ n \in Nat BY <2>1, UsedIsRecord DEF Used
      <4> QED BY <1>1, <3>1, <4>1 DEF FirstUsed
    <3> QED BY <3>1, <3>2
  <2>4. /\ Len(com.bytes) = Size
         /\ \A k \in 1 .. Size : com.bytes[k] = image[firstAddr + k - 1]
    BY <1>1, WrittenFits
  <2>5. /\ firstAddr + Size <= imagesz \/ Size = 0
        /\ lastAddr >= firstAddr /\ Span = lastAddr - firstAddr + 1 /\ lastAddr < imagesz
    BY <1>1, <2>1, <2>2, WrittenFits, SizeFacts
  <2>6. /\ Span \in Nat /\ Size \in Nat /\ Size >= Span /\ imagesz \in Nat /\ firstAddr \in Nat
        /\ imagesz <= ADDRSP /\ ADDRSP \in Nat /\ lastAddr \in Nat
        /\ padding => Size = RoundUp(Span)
        /\ ~padding => Size = Span
        /\ padding \in BOOLEAN
    BY <2>1, SizeFacts DEF TypeInv
  <2>7. ASSUME NEW m \in Used
        PROVE  /\ loaded[m].addr \in Nat /\ loaded[m].len \in Nat
               /\ loaded[m].addr + loaded[m].len <= lastAddr + 1
    <3>1. m \in DOMAIN loaded BY DEF Used
    <3> QED BY <1>1, <2>1, <3>1, UsedIsRecord DEF LoadInv
  <2>8. ASSUME NEW a \in Nat PROVE Reached(a) <=> a <= lastAddr
    <3>1. ASSUME NEW m \in Used, a < loaded[m].addr + loaded[m].len PROVE a <= lastAddr
      BY <2>6, <2>7, <3>1
    <3>2. PICK m \in Used : loaded[m].addr + loaded[m].len = lastAddr + 1
      BY <1>1, <2>1, <2>2 DEF LoadInv
    <3>3. ASSUME a <= lastAddr PROVE a < loaded[m].addr + loaded[m].len BY <2>6, <3>2, <3>3
    <3> QED BY <3>1, <3>3 DEF Reached
  <2>9. ASSUME NEW k \in 1 .. Len(com.bytes)
        PROVE  IF Reached(loaded[n].addr + k - 1)
               THEN IsByteAt(com.bytes[k], loaded[n].addr + k - 1) ELSE com.bytes[k] = Pad
    <3>1. k \in 1 .. Size BY <2>4
    <3>2. PICK a \in Nat : a = firstAddr + k - 1 BY <2>6, <3>1
    <3>3. com.bytes[k] = image[a] BY <2>4, <3>2, <3>1
    <3>4. a < firstAddr + Size /\ a < imagesz BY <2>5, <2>6, <3>2, <3>1
    <3>5. a \in Addresses BY <2>6, <3>4 DEF Addresses
    <3>6. IF padding /\ PadStart <= a /\ a < PadEnd THEN image[a] = Pad ELSE IsByteAt(image[a], a)
      BY <1>1, <2>1, <3>5 DEF ImageInv, Writing
    <3>7. PadStart = lastAddr + 1 BY <2>5, <2>6 DEF PadStart
    <3>8. CASE a <= lastAddr
      <4>1. Reached(a) /\ ~(PadStart <= a) BY <2>6, <2>8, <3>7, <3>8
      <4> QED BY <2>3, <3>2, <3>6, <3>3, <4>1
    <3>9. CASE ~(a <= lastAddr)
      <4>1. ~Reached(a) /\ PadStart <= a BY <2>6, <2>8, <3>7, <3>9
      <4>2. padding BY <2>5, <2>6, <3>9, <3>4
      <4>3. a < PadEnd BY <2>6, <3>4, <4>2 DEF PadEnd
      <4> QED BY <2>3, <3>2, <3>6, <3>3, <4>1, <4>2, <4>3
    <3> QED BY <3>8, <3>9
  <2>10. ASSUME NEW a \in loaded[n].addr .. ADDRSP, Reached(a)
        PROVE  a - loaded[n].addr < Len(com.bytes)
    <3>1. a \in Nat /\ a <= lastAddr BY <2>3, <2>6, <2>8, <2>10
    <3>2. a - firstAddr < Size BY <2>5, <2>6, <3>1
    <3> QED BY <2>3, <2>4, <3>2
  <2>11. IF padding THEN Len(com.bytes) % RECSZ = 0
         ELSE Reached(loaded[n].addr + Len(com.bytes) - 1)
    <3>1. CASE padding BY <2>6, <2>4, <3>1, RoundUpFacts
    <3>2. CASE ~padding
      <4>1. firstAddr + Size - 1 = lastAddr BY <2>5, <2>6, <3>2
      <4>2. loaded[n].addr + Len(com.bytes) - 1 = lastAddr BY <2>3, <2>4, <4>1
      <4> QED BY <2>6, <2>8, <3>2, <4>2
    <3> QED BY <3>1, <3>2
  <2>12. ASSUME NEW m \in Used PROVE loaded[m].addr + loaded[m].len <= imagesz
    BY ONLY <2>5, <2>6, <2>7
  <2> QED BY <2>9, <2>10, <2>11, <2>12
<1>2. IInv => FileIsImage BY <1>1 DEF FileIsImage
<1> QED BY <1>2, Invariance, PTL

(* A malformed source never leaves the image of an earlier run behind.       *)
THEOREM MalformedIsEmpty == Spec => []MalformedLeavesEmpty
<1>1. IInv => MalformedLeavesEmpty BY DEF IInv, FileInv
<1> QED BY <1>1, Invariance, PTL
=============================================================================
