------------------------------- MODULE Hexcom -------------------------------
(***************************************************************************)
(* src/tools/hexcom.c: an Intel HEX file becomes a CP/M-80 .com image.      *)
(*                                                                          *)
(* The program reads records until the end of the input, keeps the bytes in *)
(* an image of the address space and then writes the part of it that starts *)
(* at the first record's address.  Characters are abstracted to records:    *)
(* what is found after a colon is a record with an address, a length, a     *)
(* type and possibly a defect; the byte at position i of the n-th data      *)
(* record is the token [rec |-> n, at |-> i], different from every other,   *)
(* so that a byte that is misplaced, lost or overwritten is seen.  Between  *)
(* records anything but a colon or the end (EOF or 1Ah) is skipped.         *)
(***************************************************************************)
EXTENDS Naturals, Sequences

CONSTANTS
  ADDRSP,        \* size of the address space (10000h)
  TPA,           \* base of the transient program area (100h)
  RECSZ,         \* size of a CP/M record (128)
  ImageSizes,    \* sizes calloc may grant (10000h, FFFFh, and 400h less each)
  MaxLength,     \* greatest length of a record (255)
  MaxRecords     \* bound on the data records of the input

ASSUME HexcomAssumption ==
  /\ ADDRSP \in Nat /\ TPA \in Nat /\ RECSZ \in Nat \ {0}
  /\ 0 < TPA /\ TPA < ADDRSP
  /\ ImageSizes \subseteq (TPA + 1) .. ADDRSP
  /\ MaxLength \in Nat /\ MaxLength < ADDRSP
  /\ MaxRecords \in Nat

VARIABLES
  phase,         \* where the program is
  imagesz,       \* bytes of image that were granted
  padding,       \* HEXCOM_NO_PAD is not in the environment
  com,           \* the .com file: "absent", "old" or "new", and its bytes
  image,         \* what is loaded at each address
  haveFirst, firstAddr, lastAddr,
  diagnosis,     \* the message of a failed run
  loaded         \* history: address and length of the data records loaded

vars == <<phase, imagesz, padding, com, image, haveFirst, firstAddr, lastAddr,
          diagnosis, loaded>>

Addresses == 0 .. (ADDRSP - 1)
Zero == [rec |-> 0, at |-> 0]              \* calloc
Pad  == [rec |-> 0, at |-> 1]              \* 1Ah
Token(n, i) == [rec |-> n, at |-> i]
Bytes == [rec : Nat, at : Nat]

(* A data record as it stands in the file; defect is where reading it ends.  *)
Records == [addr : Addresses, len : 0 .. MaxLength,
            defect : {"none", "digit", "checksum"}]

(* The unsigned sum of a record's address and an offset, reduced to 16 bits. *)
Mask(x) == IF x < ADDRSP THEN x ELSE x - ADDRSP

(* Address a is stored to by the record, from this offset of it.             *)
Covers(r, a) == \E i \in 0 .. (r.len - 1) : Mask(r.addr + i) = a
OffsetOf(r, a) == CHOOSE i \in 0 .. (r.len - 1) : Mask(r.addr + i) = a

-----------------------------------------------------------------------------
(***************************************************************************)
(* The program                                                             *)
(***************************************************************************)

Init ==
  /\ phase = "arguments"
  /\ imagesz \in ImageSizes
  /\ padding \in BOOLEAN
  /\ com \in [is : {"absent", "old"}, bytes : {<<>>}]
  /\ image = [a \in Addresses |-> Zero]
  /\ haveFirst = FALSE /\ firstAddr = 0 /\ lastAddr = 0
  /\ diagnosis = "none"
  /\ loaded = <<>>

Goto(p) == phase' = p
Loader == <<image, haveFirst, firstAddr, lastAddr, loaded>>
Setting == <<imagesz, padding>>

(* fatal_load, record_error and the usage text all end in exit (1).          *)
Fatal(message) == Goto("failed") /\ diagnosis' = message
Continue(p)    == Goto(p) /\ UNCHANGED diagnosis

(* No memory, no argument, or one that does not fit base[256].               *)
Usage ==
  /\ phase = "arguments"
  /\ Fatal("USAGE")
  /\ UNCHANGED <<Setting, Loader, com>>

OpenSource ==
  /\ phase = "arguments"
  /\ \/ Continue("source")
     \/ Fatal("CANNOT OPEN SOURCE FILE")
  /\ UNCHANGED <<Setting, Loader, com>>

(* mutant: the output is opened when there is something to write *)
OpenOutputLate ==
  /\ phase = "source"
  /\ \/ Continue("records") /\ UNCHANGED com
     \/ Fatal("DIRECTORY FULL") /\ UNCHANGED com
  /\ UNCHANGED <<Setting, Loader>>

(* fopen "wb" empties the .com before the first record is looked at.         *)
OpenOutput ==
  /\ phase = "source"
  /\ \/ Continue("records") /\ com' = [is |-> "new", bytes |-> <<>>]
     \/ Fatal("DIRECTORY FULL") /\ UNCHANGED com
  /\ UNCHANGED <<Setting, Loader>>

(* A digit of the header is bad, or the file ends within the header.         *)
BadHeader ==
  /\ phase = "records"
  /\ Fatal("INVALID HEX DIGIT")
  /\ UNCHANGED <<Setting, Loader, com>>

(* Why a data record is refused; the address is judged before its bytes are  *)
(* read, the size of the image after the checksum.                           *)
TooLow(r) == r.len > 0 /\ r.addr < TPA
TooHigh(r) == \E i \in 0 .. (r.len - 1) : Mask(r.addr + i) >= imagesz

(* mutant: the image is taken to hold the whole address space *)
ObjectionWholeSpace(r) ==
  IF TooLow(r) THEN "LOAD ADDRESS LESS THAN 100"
  ELSE IF r.defect = "digit" THEN "INVALID HEX DIGIT"
  ELSE IF r.defect = "checksum" THEN "CHECKSUM ERROR"
  ELSE "none"

Objection(r) ==
  IF TooLow(r) THEN "LOAD ADDRESS LESS THAN 100"
  ELSE IF r.defect = "digit" THEN "INVALID HEX DIGIT"
  ELSE IF r.defect = "checksum" THEN "CHECKSUM ERROR"
  ELSE IF TooHigh(r) THEN "LOAD ADDRESS TOO HIGH"
  ELSE "none"

(* first_addr is the address of the first record that holds data.            *)
FirstAfter(r) == IF r.len > 0 /\ ~haveFirst THEN r.addr ELSE firstAddr

(* last_addr is not reduced to 16 bits.                                      *)
LastAfter(r) ==
  IF r.len > 0 /\ r.addr + r.len - 1 > lastAddr
  THEN r.addr + r.len - 1 ELSE lastAddr

Stored(r, n) ==
  [a \in Addresses |-> IF Covers(r, a) THEN Token(n, OffsetOf(r, a)) ELSE image[a]]

(* The bytes stored before the first one that is too high.                   *)
StoredBelow(r, n) ==
  [a \in Addresses |->
     IF \E i \in 0 .. (r.len - 1) : /\ Mask(r.addr + i) = a
                                    /\ \A j \in 0 .. i : Mask(r.addr + j) < imagesz
     THEN Token(n, OffsetOf(r, a)) ELSE image[a]]

RefuseRecord(r) ==
  /\ phase = "records"
  /\ Objection(r) # "none"
  /\ Fatal(Objection(r))
  /\ IF TooLow(r) THEN UNCHANGED <<haveFirst, firstAddr>>
     ELSE haveFirst' = (haveFirst \/ r.len > 0) /\ firstAddr' = FirstAfter(r)
  /\ image' = IF Objection(r) = "LOAD ADDRESS TOO HIGH"
              THEN StoredBelow(r, Len(loaded) + 1) ELSE image
  /\ UNCHANGED <<Setting, lastAddr, loaded, com>>

LoadRecord(r) ==
  /\ phase = "records"
  /\ Len(loaded) < MaxRecords
  /\ Objection(r) = "none"
  /\ image' = Stored(r, Len(loaded) + 1)
  /\ haveFirst' = (haveFirst \/ r.len > 0)
  /\ firstAddr' = FirstAfter(r)
  /\ lastAddr' = LastAfter(r)
  /\ loaded' = Append(loaded, [addr |-> r.addr, len |-> r.len])
  /\ UNCHANGED <<phase, diagnosis, Setting, com>>

(* A record of any other type: the scan for the next colon skips its rest.   *)
SkipRecord ==
  /\ phase = "records"
  /\ UNCHANGED vars

(* An end-of-file record, 1Ah, or the end of the file between two records;   *)
(* a read error looks like the end of the file until ferror is asked.        *)
EndOfInput ==
  /\ phase = "records"
  /\ \/ Continue("convert")
     \/ Fatal("DISK READ ERROR")
  /\ UNCHANGED <<Setting, Loader, com>>

Span == IF lastAddr >= firstAddr THEN lastAddr - firstAddr + 1 ELSE 0
RoundUp(n) == ((n + RECSZ - 1) \div RECSZ) * RECSZ

Size == IF padding THEN RoundUp(Span) ELSE Span

PadEnd ==
  IF firstAddr + RoundUp(Span) > imagesz THEN imagesz ELSE firstAddr + RoundUp(Span)

(* mutant: padding begins at the last byte *)
PadStartEarly == firstAddr + Span - 1

PadStart == firstAddr + Span

PadImage ==
  /\ phase = "convert"
  /\ image' = [a \in Addresses |->
                 IF padding /\ PadStart <= a /\ a < PadEnd THEN Pad ELSE image[a]]
  /\ Continue("write")
  /\ UNCHANGED <<haveFirst, firstAddr, lastAddr, loaded, Setting, com>>

Image(n) == [k \in 1 .. n |-> image[firstAddr + k - 1]]

TooLarge == Size > 0 /\ Size > imagesz - firstAddr

Write ==
  /\ phase = "write"
  /\ ~TooLarge
  /\ Continue("close")
  /\ com' = [com EXCEPT !.bytes = Image(Size)]
  /\ UNCHANGED <<Setting, Loader>>

RefuseImage ==
  /\ phase = "write"
  /\ TooLarge
  /\ Fatal("IMAGE TOO LARGE")
  /\ UNCHANGED <<Setting, Loader, com>>

(* fwrite is short: part of the image may already be in the file.            *)
WriteFails ==
  /\ phase = "write"
  /\ ~TooLarge /\ Size > 0
  /\ Fatal("DISK WRITE ERROR")
  /\ \E n \in 0 .. (Size - 1) : com' = [com EXCEPT !.bytes = Image(n)]
  /\ UNCHANGED <<Setting, Loader>>

(* What stdio still buffers when fclose fails is lost.                       *)
Close ==
  /\ phase = "close"
  /\ \/ Continue("converted") /\ UNCHANGED com
     \/ /\ Fatal("CANNOT CLOSE FILE")
        /\ \E n \in 0 .. Len(com.bytes) :
              com' = [com EXCEPT !.bytes = SubSeq(@, 1, n)]
  /\ UNCHANGED <<Setting, Loader>>

Next ==
  \/ Usage \/ OpenSource \/ OpenOutput
  \/ BadHeader \/ SkipRecord \/ EndOfInput
  \/ \E r \in Records : RefuseRecord(r) \/ LoadRecord(r)
  \/ PadImage \/ RefuseImage \/ Write \/ WriteFails \/ Close

Spec == Init /\ [][Next]_vars

-----------------------------------------------------------------------------
(***************************************************************************)
(* Properties                                                              *)
(***************************************************************************)

(* What every variable holds; and, whatever calloc granted, no byte is       *)
(* stored, padded or written beyond it, and nothing that was loaded into     *)
(* page zero is part of a written image.                                     *)
TypeOK ==
  /\ phase \in {"arguments", "source", "records", "convert", "write", "close",
                "converted", "failed"}
  /\ imagesz \in ImageSizes
  /\ padding \in BOOLEAN
  /\ com \in [is : {"absent", "old", "new"}, bytes : Seq(Bytes)]
  /\ image \in [Addresses -> Bytes]
  /\ haveFirst \in BOOLEAN
  /\ firstAddr \in Addresses
  /\ haveFirst => firstAddr >= TPA
  /\ lastAddr \in Nat
  /\ loaded \in Seq([addr : Addresses, len : 0 .. MaxLength])
  /\ \A a \in Addresses : a >= imagesz => image[a] = Zero
  /\ phase = "close" =>
       /\ firstAddr + Len(com.bytes) <= imagesz
       /\ haveFirst => \A a \in 0 .. (TPA - 1) : image[a] = Zero

(* The data of the input, whatever the program did with it: the records that *)
(* hold bytes, the first and the greatest address among them, and the byte   *)
(* the last record to cover an address puts there.                           *)
Used == {n \in DOMAIN loaded : loaded[n].len > 0}
FirstUsed(n) == n \in Used /\ \A m \in Used : n <= m
Reached(a) == \E n \in Used : a < loaded[n].addr + loaded[n].len
LastCover(n, a) ==
  /\ Covers(loaded[n], a)
  /\ \A m \in DOMAIN loaded : m > n => ~Covers(loaded[m], a)
Loads(a) == \E n \in DOMAIN loaded : Covers(loaded[n], a)
IsByteAt(b, a) ==
  \/ \E n \in DOMAIN loaded : LastCover(n, a) /\ b = Token(n, OffsetOf(loaded[n], a))
  \/ ~Loads(a) /\ b = Zero

(* After success the file holds, from the first record's address to the     *)
(* greatest loaded one, exactly what the records say, with zero in the gaps, *)
(* then 1Ah up to a whole number of records, or nothing: padding, rounding   *)
(* and address arithmetic neither replace nor drop a byte.  Input that runs  *)
(* past the top of memory, whose tail goes to address 0, never succeeds.     *)
FileIsImage ==
  phase = "converted" =>
    \A n \in Used : FirstUsed(n) =>
      /\ \A k \in 1 .. Len(com.bytes) :
           LET a == loaded[n].addr + k - 1 IN
           IF Reached(a) THEN IsByteAt(com.bytes[k], a) ELSE com.bytes[k] = Pad
      /\ \A a \in loaded[n].addr .. ADDRSP :
           Reached(a) => a - loaded[n].addr < Len(com.bytes)
      /\ IF padding THEN Len(com.bytes) % RECSZ = 0
         ELSE Reached(loaded[n].addr + Len(com.bytes) - 1)
      /\ \A m \in Used : loaded[m].addr + loaded[m].len <= imagesz

(* hexcom.c:381-384, "a malformed HEX leaves an empty .com behind": the      *)
(* image of an earlier run never survives a run that read its source, so it  *)
(* is not taken for the new one; before that nothing is touched.             *)
EarlyDiagnoses == {"USAGE", "CANNOT OPEN SOURCE FILE", "DIRECTORY FULL"}
WriteDiagnoses == {"DISK WRITE ERROR", "CANNOT CLOSE FILE"}

MalformedLeavesEmpty ==
  phase = "failed" =>
    /\ diagnosis \in EarlyDiagnoses => com.is # "new"
    /\ diagnosis \notin EarlyDiagnoses => com.is = "new"
    /\ diagnosis \notin WriteDiagnoses => com.bytes = <<>>

(* hexcom.c:20-21: "Absolute memory image from the lowest to the highest     *)
(* loaded address".  Violated: a record below the first one is dropped.      *)
LowestToHighest ==
  phase = "converted" =>
    \A a \in Addresses : Loads(a) =>
      \E k \in 1 .. Len(com.bytes) : IsByteAt(com.bytes[k], a)

(* hexcom.c:21-22: "padded up to a CP/M record boundary with 0x00".          *)
(* Violated: the padding is 1Ah.                                             *)
PaddedWithZero ==
  phase = "converted" =>
    \A n \in Used : FirstUsed(n) =>
      \A k \in 1 .. Len(com.bytes) :
        ~Reached(loaded[n].addr + k - 1) => com.bytes[k] = Zero
=============================================================================
