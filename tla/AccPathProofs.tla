--------------------------- MODULE AccPathProofs ---------------------------
(***************************************************************************)
(* Proofs about AccPath and AccPathDos: for every alphabet, every tree of  *)
(* files and every path, the canonical path on DOS is the normal form of   *)
(* what the path means; a path is accepted exactly when every name below   *)
(* its anchor is one DOS has; and a guest path names the file it was made  *)
(* for.                                                                    *)
(*                                                                         *)
(* The code works on characters, the properties speak of names.  The       *)
(* lemmas go from the one to the other: first where each name stands in    *)
(* the spelling of a path, then what folding components (AccPathDos) and   *)
(* counting characters (AccPath) has done to the part that has been read.  *)
(* Induction is over the numbers of a set (Least, Induction).              *)
(***************************************************************************)
EXTENDS AccPath, WellFoundedInduction, SequenceTheorems, TLAPS

(* A set of numbers that is not empty has a least one.                        *)
LEMMA Least == ASSUME NEW T \in SUBSET Nat, T # {} PROVE \E m \in T : \A k \in T : m <= k
<1>1. IsWellFoundedOn(OpToRel(<, Nat), Nat) BY NatLessThanWellFounded
<1>2. PICK x \in T : \A y \in T : ~(<<y, x>> \in OpToRel(<, Nat)) BY <1>1, WFMin
<1>3. \A y \in T : ~(y < x) BY <1>2 DEF OpToRel
<1> QED BY <1>3

(* A set of numbers that holds 0 and every successor holds all of them.       *)
LEMMA Induction == ASSUME NEW T \in SUBSET Nat, 0 \in T, \A n \in T : n + 1 \in T PROVE T = Nat
<1>1. SUFFICES ASSUME Nat \ T # {} PROVE FALSE OBVIOUS
<1>2. PICK m \in Nat \ T : \A k \in Nat \ T : m <= k BY Least, <1>1
<1>3. m # 0 /\ m - 1 \in Nat BY <1>2
<1>4. m - 1 \in T BY <1>2, <1>3
<1> QED BY <1>4, <1>2

(* The concatenations of the first sequences, which FlattenSeq computes.      *)
Flat(s) == CHOOSE f : f = [i \in 1 .. Len(s) |-> IF i = 1 THEN s[i] ELSE f[i-1] \o s[i]]

(* FlattenSeq is the last of the concatenations.                              *)
LEMMA FlattenIsFlat == ASSUME NEW s, Len(s) # 0 PROVE FlattenSeq(s) = Flat(s)[Len(s)]
BY DEF FlattenSeq, Flat

(* The concatenations that Flat chooses exist.                                *)
LEMMA FlatExists ==
  ASSUME NEW s, NEW n \in Nat
  PROVE  \E f : f = [i \in 1 .. n |-> IF i = 1 THEN s[i] ELSE f[i-1] \o s[i]]
<1> DEFINE T == {m \in Nat : \E f : f = [i \in 1 .. m |-> IF i = 1 THEN s[i] ELSE f[i-1] \o s[i]]}
<1>1. 0 \in T
  <2>1. [i \in 1 .. 0 |-> i] = [i \in 1 .. 0 |-> IF i = 1 THEN s[i] ELSE [j \in 1 .. 0 |-> j][i-1] \o s[i]] OBVIOUS
  <2> QED BY <2>1
<1>2. ASSUME NEW m \in T PROVE m + 1 \in T
  <2>1. PICK f : f = [i \in 1 .. m |-> IF i = 1 THEN s[i] ELSE f[i-1] \o s[i]] OBVIOUS
  <2> DEFINE g == [i \in 1 .. (m+1) |-> IF i <= m THEN f[i] ELSE IF i = 1 THEN s[i] ELSE f[i-1] \o s[i]]
  <2>2. g = [i \in 1 .. (m+1) |-> IF i = 1 THEN s[i] ELSE g[i-1] \o s[i]]
    <3>1. ASSUME NEW i \in 1 .. (m+1) PROVE g[i] = IF i = 1 THEN s[i] ELSE g[i-1] \o s[i]
      <4>1. CASE i <= m /\ i = 1 BY <2>1, <4>1
      <4>2. CASE i <= m /\ i # 1
        <5>1. i - 1 \in 1 .. m /\ i \in 1 .. m /\ i - 1 \in 1 .. (m+1) BY <4>2
        <5>2. g[i] = f[i] /\ g[i-1] = f[i-1] BY <5>1
        <5>3. f[i] = f[i-1] \o s[i] BY <2>1, <5>1, <4>2
        <5> QED BY <5>2, <5>3, <4>2
      <4>3. CASE i = m + 1
        <5>1. m # 0 => m \in 1 .. (m+1) /\ i - 1 = m BY <4>3
        <5>2. m # 0 => g[m] = f[m] BY <5>1
        <5> QED BY <5>1, <5>2, <4>3
      <4> QED BY <4>1, <4>2, <4>3
    <3> QED BY <3>1
  <2> HIDE DEF g
  <2>3. m + 1 \in Nat OBVIOUS
  <2> QED BY <2>2, <2>3
<1> HIDE DEF T
<1>3. T = Nat
  <2>1. T \in SUBSET Nat BY DEF T
  <2> QED BY <1>1, <1>2, <2>1, Induction
<1> QED BY <1>3 DEF T

(* Each concatenation is the one before and the next sequence.                *)
LEMMA FlatDef ==
  ASSUME NEW S, NEW s \in Seq(Seq(S)), NEW i \in 1 .. Len(s)
  PROVE  /\ Flat(s)[i] = IF i = 1 THEN s[i] ELSE Flat(s)[i-1] \o s[i]
<1>1. Len(s) \in Nat OBVIOUS
<1>2. Flat(s) = [j \in 1 .. Len(s) |-> IF j = 1 THEN s[j] ELSE Flat(s)[j-1] \o s[j]]
  BY FlatExists, <1>1 DEF Flat
<1> QED BY <1>2

(* A concatenation of sequences over S is one.                                *)
LEMMA FlatIsSeq ==
  ASSUME NEW S, NEW s \in Seq(Seq(S)), NEW i \in 1 .. Len(s)
  PROVE  Flat(s)[i] \in Seq(S)
<1> DEFINE T == {n \in Nat : n \in 1 .. Len(s) => Flat(s)[n] \in Seq(S)}
<1>1. 0 \in T OBVIOUS
<1>2. ASSUME NEW n \in T PROVE n + 1 \in T
  <2>1. SUFFICES ASSUME n + 1 \in 1 .. Len(s) PROVE Flat(s)[n + 1] \in Seq(S) OBVIOUS
  <2>2. Flat(s)[n + 1] = IF n + 1 = 1 THEN s[n + 1] ELSE Flat(s)[n + 1 - 1] \o s[n + 1]
    BY <2>1, FlatDef
  <2>3. s[n + 1] \in Seq(S) BY <2>1
  <2>4. CASE n = 0 BY <2>2, <2>3, <2>4
  <2>5. CASE n # 0
    <3>1. n \in 1 .. Len(s) /\ n + 1 - 1 = n BY <2>1, <2>5
    <3>2. Flat(s)[n] \in Seq(S) BY <3>1
    <3> QED BY <2>2, <2>3, <3>1, <3>2, <2>5
  <2> QED BY <2>4, <2>5
<1>3. T = Nat
  <2>1. T \in SUBSET Nat OBVIOUS
  <2> HIDE DEF T
  <2> QED BY <1>1, <1>2, <2>1, Induction
<1> QED BY <1>3

(* The first concatenations depend on the first sequences only.               *)
LEMMA FlatAgrees ==
  ASSUME NEW S, NEW s \in Seq(Seq(S)), NEW u \in Seq(Seq(S)), Len(s) <= Len(u),
         \A i \in 1 .. Len(s) : u[i] = s[i]
  PROVE  \A i \in 1 .. Len(s) : Flat(u)[i] = Flat(s)[i]
<1> DEFINE T == {n \in Nat : n \in 1 .. Len(s) => Flat(u)[n] = Flat(s)[n]}
<1>1. 0 \in T OBVIOUS
<1>2. ASSUME NEW n \in T PROVE n + 1 \in T
  <2>1. SUFFICES ASSUME n + 1 \in 1 .. Len(s) PROVE Flat(u)[n + 1] = Flat(s)[n + 1]
    OBVIOUS
  <2>2. Flat(s)[n + 1] = IF n + 1 = 1 THEN s[n + 1] ELSE Flat(s)[n + 1 - 1] \o s[n + 1]
    BY <2>1, FlatDef
  <2>3. n + 1 \in 1 .. Len(u) BY <2>1
  <2>4. Flat(u)[n + 1] = IF n + 1 = 1 THEN u[n + 1] ELSE Flat(u)[n + 1 - 1] \o u[n + 1]
    BY <2>3, FlatDef
  <2>5. u[n + 1] = s[n + 1] BY <2>1
  <2>6. n # 0 => n \in 1 .. Len(s) /\ n + 1 - 1 = n BY <2>1
  <2> QED BY <2>2, <2>4, <2>5, <2>6
<1>3. T = Nat
  <2>1. T \in SUBSET Nat OBVIOUS
  <2> HIDE DEF T
  <2> QED BY <1>1, <1>2, <2>1, Induction
<1> SUFFICES ASSUME NEW i \in 1 .. Len(s) PROVE Flat(u)[i] = Flat(s)[i] OBVIOUS
<1>4. i \in T
  <2>1. i \in Nat OBVIOUS
  <2> HIDE DEF T
  <2> QED BY <2>1, <1>3
<1> QED BY <1>4

(* FlattenSeq of one sequence more is one concatenation more.                 *)
LEMMA FlattenAppend ==
  ASSUME NEW S, NEW s \in Seq(Seq(S)), NEW t \in Seq(S)
  PROVE  /\ FlattenSeq(s) \in Seq(S)
         /\ FlattenSeq(Append(s, t)) = FlattenSeq(s) \o t
<1> DEFINE u == Append(s, t)
<1>0. u \in Seq(Seq(S)) /\ Len(u) = Len(s) + 1 /\ u[Len(s) + 1] = t /\ Len(s) \in Nat
      /\ \A i \in 1 .. Len(s) : u[i] = s[i]
  OBVIOUS
<1> HIDE DEF u
<1>1. FlattenSeq(u) = Flat(u)[Len(s) + 1]
  <2>1. Len(u) # 0 BY <1>0
  <2> QED BY <2>1, <1>0, FlattenIsFlat
<1>2. Len(s) + 1 \in 1 .. Len(u) BY <1>0
<1>3. Flat(u)[Len(s) + 1] = IF Len(s) + 1 = 1 THEN t ELSE Flat(u)[Len(s)+1-1] \o t
  BY <1>0, <1>2, FlatDef
<1>4. CASE Len(s) = 0
  <2>1. FlattenSeq(s) = s BY <1>4 DEF FlattenSeq
  <2>2. s = <<>> BY <1>4
  <2>3. <<>> \o t = t OBVIOUS
  <2> QED BY <2>1, <2>2, <2>3, <1>1, <1>3, <1>4 DEF u
<1>5. CASE Len(s) # 0
  <2>1. Len(s) \in 1 .. Len(s) /\ Len(s) + 1 - 1 = Len(s) BY <1>0, <1>5
  <2>2. FlattenSeq(s) = Flat(s)[Len(s)] BY <1>5, FlattenIsFlat
  <2>3. Flat(s)[Len(s)] \in Seq(S) BY <2>1, FlatIsSeq
  <2>4. Flat(u)[Len(s)] = Flat(s)[Len(s)]
    <3>1. Len(s) <= Len(u) BY <1>0
    <3> QED BY <2>1, <3>1, <1>0, FlatAgrees
  <2>6. Len(s) + 1 # 1 BY <1>0, <1>5
  <2>5. FlattenSeq(u) = FlattenSeq(s) \o t BY <2>1, <2>2, <2>4, <2>6, <1>1, <1>3
  <2> QED BY <2>2, <2>3, <2>5 DEF u
<1> QED BY <1>4, <1>5

(* The names one after the other, each after a separator. *)
Spelled(c, names) == FlattenSeq([i \in DOMAIN names |-> <<c>> \o names[i]])

(* No names are spelled as the empty text.                                    *)
LEMMA SpelledEmpty == ASSUME NEW c PROVE Spelled(c, <<>>) = <<>>
<1>1. [i \in DOMAIN <<>> |-> <<c>> \o <<>>[i]] = <<>> OBVIOUS
<1> QED BY <1>1 DEF Spelled, FlattenSeq

(* One more name is spelled after the others, behind a separator.             *)
LEMMA SpelledAppend ==
  ASSUME NEW S, NEW c \in S, NEW names \in Seq(Seq(S)), NEW x \in Seq(S)
  PROVE  /\ Spelled(c, names) \in Seq(S)
         /\ Spelled(c, Append(names, x)) = Spelled(c, names) \o (<<c>> \o x)
<1> DEFINE s == [i \in DOMAIN names |-> <<c>> \o names[i]]
<1>1. s \in Seq(Seq(S))
  <2>1. \A i \in 1 .. Len(names) : <<c>> \o names[i] \in Seq(S) OBVIOUS
  <2>2. Len(names) \in Nat /\ DOMAIN names = 1 .. Len(names) OBVIOUS
  <2> QED BY <2>1, <2>2
<1>2. [i \in DOMAIN Append(names, x) |-> <<c>> \o Append(names, x)[i]] = Append(s, <<c>> \o x)
  <2>1. DOMAIN Append(names, x) = 1 .. (Len(names) + 1) /\ Len(names) \in Nat OBVIOUS
  <2>2. Append(s, <<c>> \o x) = [i \in 1 .. (Len(names) + 1) |->
            IF i = Len(names) + 1 THEN <<c>> \o x ELSE s[i]]
    BY <1>1 
  <2>3. \A i \in 1 .. (Len(names) + 1) : Append(names, x)[i] = IF i = Len(names) + 1 THEN x ELSE names[i]
    OBVIOUS
  <2>4. \A i \in 1 .. (Len(names) + 1) : 
          <<c>> \o Append(names, x)[i] = IF i = Len(names) + 1 THEN <<c>> \o x ELSE s[i]
    BY <2>3
  <2> QED BY <2>1, <2>2, <2>4
<1>3. <<c>> \o x \in Seq(S) OBVIOUS
<1> HIDE DEF s
<1>4. FlattenSeq(s) \in Seq(S) /\ FlattenSeq(Append(s, <<c>> \o x)) = FlattenSeq(s) \o (<<c>> \o x)
  BY <1>1, <1>3, FlattenAppend
<1> QED BY <1>4, <1>2 DEF Spelled, s

(* The characters of texts; those the code names are strings like all others, *)
(* which the provers do not know of a literal.                                *)
Char == STRING \cup {"/", "\\", ":", "C", "D", "."}

Text == Seq(Char)
NameList == Seq(Text)

(* The spelling of names is a text.                                           *)
LEMMA SpelledText ==
  ASSUME NEW c \in Char, NEW names \in NameList
  PROVE  Spelled(c, names) \in Text
<1>1. <<>> \in Seq(Char) OBVIOUS
<1> QED BY <1>1, SpelledAppend DEF Text, NameList

(* SpelledAppend, for texts.                                                  *)
LEMMA SpelledMore ==
  ASSUME NEW c \in Char, NEW names \in NameList, NEW x \in Text
  PROVE  Spelled(c, Append(names, x)) = Spelled(c, names) \o (<<c>> \o x)
BY SpelledAppend DEF Text, NameList

(* One element makes a sequence.                                              *)
LEMMA OneIsSeq == ASSUME NEW S, NEW x \in S PROVE <<x>> \in Seq(S)
OBVIOUS

(* Characters and length of two texts joined.                                 *)
LEMMA Joined ==
  ASSUME NEW a \in Text, NEW b \in Text
  PROVE  /\ a \o b \in Text /\ Len(a) \in Nat /\ Len(b) \in Nat
         /\ Len(a \o b) = Len(a) + Len(b)
         /\ \A i \in 1 .. Len(a) : (a \o b)[i] = a[i]
         /\ \A i \in 1 .. Len(b) : (a \o b)[Len(a) + i] = b[i]
<1>1. /\ a \o b \in Seq(Char) /\ Len(a \o b) = Len(a) + Len(b)
      /\ \A i \in 1 .. Len(a) + Len(b) : (a \o b)[i] = IF i <= Len(a) THEN a[i] ELSE b[i - Len(a)]
  BY ConcatProperties DEF Text
<1>2. Len(a) \in Nat /\ Len(b) \in Nat BY DEF Text
<1>3. ASSUME NEW i \in 1 .. Len(b) PROVE (a \o b)[Len(a) + i] = b[i]
  <2>1. Len(a) + i \in 1 .. Len(a) + Len(b) /\ ~(Len(a) + i <= Len(a)) /\ Len(a) + i - Len(a) = i
    BY <1>2
  <2> QED BY <1>1, <2>1
<1>4. ASSUME NEW i \in 1 .. Len(a) PROVE (a \o b)[i] = a[i]
  <2>1. i \in 1 .. Len(a) + Len(b) /\ i <= Len(a) BY <1>2
  <2> QED BY <1>1, <2>1
<1> QED BY <1>1, <1>2, <1>3, <1>4 DEF Text

(* Texts are joined in any order.                                             *)
LEMMA JoinedTwice ==
  ASSUME NEW a \in Text, NEW b \in Text, NEW r \in Text
  PROVE  (a \o b) \o r = a \o (b \o r)
BY ConcatAssociative DEF Text

(* Characters and length of a text behind a separator.                        *)
LEMMA Separated ==
  ASSUME NEW c \in Char, NEW x \in Text
  PROVE  /\ <<c>> \o x \in Text /\ Len(<<c>> \o x) = 1 + Len(x) /\ (<<c>> \o x)[1] = c
         /\ \A i \in 1 .. Len(x) : (<<c>> \o x)[1 + i] = x[i]
<1>1. <<c>> \in Text /\ Len(<<c>>) = 1 /\ <<c>>[1] = c
  <2>1. <<c>> \in Seq(Char) BY OneIsSeq
  <2>2. Len(<<c>>) = 1 OBVIOUS
  <2>3. <<c>>[1] = c OBVIOUS
  <2> QED BY <2>1, <2>2, <2>3 DEF Text
<1>2. 1 \in 1 .. Len(<<c>>) BY <1>1
<1> QED BY <1>1, <1>2, Joined

(* Names one after the other are spelled one after the other.                 *)
LEMMA SpelledConcat ==
  ASSUME NEW c \in Char, NEW a \in NameList, NEW b \in NameList
  PROVE  Spelled(c, a \o b) = Spelled(c, a) \o Spelled(c, b)
<1> DEFINE T == {n \in Nat : \A d \in NameList : Len(d) = n => 
                    Spelled(c, a \o d) = Spelled(c, a) \o Spelled(c, d)}
<1>1. 0 \in T
  <2>1. SUFFICES ASSUME NEW d \in NameList, Len(d) = 0
                 PROVE  Spelled(c, a \o d) = Spelled(c, a) \o Spelled(c, d)
    OBVIOUS
  <2>2. d = <<>> /\ a \o d = a BY <2>1 DEF NameList
  <2>3. Spelled(c, d) = <<>> BY <2>2, SpelledEmpty
  <2>4. Spelled(c, a) \in Text BY SpelledText
  <2>5. Spelled(c, a) \o <<>> = Spelled(c, a) BY <2>4, ConcatEmptySeq DEF Text
  <2> QED BY <2>2, <2>3, <2>5
<1>2. ASSUME NEW n \in T PROVE n + 1 \in T
  <2>1. SUFFICES ASSUME NEW d \in NameList, Len(d) = n + 1
                 PROVE  Spelled(c, a \o d) = Spelled(c, a) \o Spelled(c, d)
    <3>1. n + 1 \in Nat OBVIOUS
    <3> QED BY <3>1
  <2> DEFINE e == SubSeq(d, 1, n)  x == d[n + 1]
  <2>2. /\ e \in NameList /\ x \in Text /\ Len(e) = n /\ d = Append(e, x)
        /\ a \o d = Append(a \o e, x) /\ a \o e \in NameList
    <3>1. d \in Seq(Text) /\ n \in Nat /\ a \in Seq(Text) BY DEF NameList
    <3>2. e \in Seq(Text) /\ x \in Text /\ Len(e) = n BY <3>1, <2>1
    <3>3. d = Append(e, x) BY <3>1, <3>2, <2>1
    <3> HIDE DEF e, x
    <3>4. a \o Append(e, x) = Append(a \o e, x) BY <3>1, <3>2
    <3> QED BY <3>1, <3>2, <3>3, <3>4 DEF NameList
  <2> HIDE DEF e, x
  <2>3. Spelled(c, a \o e) = Spelled(c, a) \o Spelled(c, e) BY <2>2
  <2>4. Spelled(c, a \o d) = (Spelled(c, a) \o Spelled(c, e)) \o (<<c>> \o x)
    BY <2>2, <2>3, SpelledMore, ZenonT(30)
  <2>5. Spelled(c, d) = Spelled(c, e) \o (<<c>> \o x) BY <2>2, SpelledMore
  <2>6. Spelled(c, a) \in Text /\ Spelled(c, e) \in Text /\ <<c>> \o x \in Text
    BY <2>2, SpelledText, Separated
  <2>7. (Spelled(c, a) \o Spelled(c, e)) \o (<<c>> \o x) = Spelled(c, a) \o (Spelled(c, e) \o (<<c>> \o x))
    BY <2>6, JoinedTwice
  <2> QED BY <2>4, <2>5, <2>7
<1>3. T = Nat
  <2>1. T \in SUBSET Nat OBVIOUS
  <2> HIDE DEF T
  <2> QED BY <1>1, <1>2, <2>1, Induction
<1>4. Len(b) \in T
  <2> HIDE DEF T
  <2> QED BY <1>3 DEF NameList
<1> QED BY <1>4

(* One name is spelled behind a separator.                                    *)
LEMMA SpelledOne ==
  ASSUME NEW c \in Char, NEW x \in Text PROVE Spelled(c, <<x>>) = <<c>> \o x
<1>1. <<>> \in NameList /\ Append(<<>>, x) = <<x>> BY DEF NameList
<1>2. Spelled(c, <<x>>) = <<>> \o (<<c>> \o x) BY <1>1, SpelledMore, SpelledEmpty, ZenonT(30)
<1>3. <<c>> \o x \in Seq(Char) BY Separated DEF Text
<1> QED BY <1>2, <1>3, ConcatEmptySeq

(* The length of the first n names, with their separators. *)
Size(c, names, n) == Len(Spelled(c, SubSeq(names, 1, n)))

(* Where the name i begins and ends in the spelling.                          *)
LEMMA Layout ==
  ASSUME NEW c \in Char, NEW names \in NameList, NEW i \in 1 .. Len(names)
  PROVE  LET t == Spelled(c, names)
             s == Size(c, names, i - 1)
         IN /\ s \in Nat /\ s + 1 + Len(names[i]) <= Len(t) /\ Len(t) \in Nat
            /\ Size(c, names, i) = s + 1 + Len(names[i])
            /\ t[s + 1] = c
            /\ \A k \in 1 .. Len(names[i]) : t[s + 1 + k] = names[i][k]
<1> DEFINE a == SubSeq(names, 1, i - 1)  x == names[i]  b == SubSeq(names, i + 1, Len(names))
<1>1. /\ a \in NameList /\ x \in Text /\ b \in NameList /\ <<x>> \in NameList
      /\ names = (a \o <<x>>) \o b /\ a \o <<x>> \in NameList
      /\ SubSeq(names, 1, i) = a \o <<x>>
  <2>1. names \in Seq(Text) /\ i \in Nat /\ Len(names) \in Nat BY DEF NameList
  <2>2. a \in Seq(Text) /\ x \in Text /\ b \in Seq(Text) /\ <<x>> \in Seq(Text)
    BY <2>1
  <2>3. 1 \in 1 .. Len(names) /\ i \in 1 .. Len(names) BY <2>1
  <2>4. SubSeq(names, 1, i) = a \o <<x>> BY <2>1, <2>3, SubSeqRecursiveSecond
  <2>5. 1 \in 1 .. Len(names) + 1 /\ i \in 1 - 1 .. Len(names) /\ Len(names) \in i .. Len(names) BY <2>1
  <2>6. SubSeq(names, 1, i) \o b = SubSeq(names, 1, Len(names))
    BY <2>1, <2>5, ConcatAdjacentSubSeq
  <2>7. names = (a \o <<x>>) \o b BY <2>1, <2>4, <2>6, SubSeqFull
  <2>8. a \o <<x>> \in Seq(Text) BY <2>2, ConcatProperties
  <2> QED BY <2>2, <2>4, <2>7, <2>8 DEF NameList
<1> HIDE DEF a, x, b
<1> DEFINE sa == Spelled(c, a)  sb == Spelled(c, b)  sx == <<c>> \o x
<1>2. Spelled(c, names) = (sa \o sx) \o sb /\ Spelled(c, a \o <<x>>) = sa \o sx
  <2>0. Spelled(c, <<x>>) = sx BY <1>1, SpelledOne
  <2> DEFINE y == <<x>>
  <2> HIDE DEF y
  <2>3. y \in NameList BY <1>1 DEF y
  <2>4. Spelled(c, a \o y) = sa \o Spelled(c, y) BY <1>1, <2>3, SpelledConcat
  <2>1. Spelled(c, a \o <<x>>) = sa \o sx BY <2>0, <2>4 DEF y
  <2>2. Spelled(c, (a \o <<x>>) \o b) = Spelled(c, a \o <<x>>) \o sb BY <1>1, SpelledConcat
  <2> QED BY <2>1, <2>2, <1>1
<1>3. sa \in Text /\ sb \in Text BY <1>1, SpelledText
<1>4. Size(c, names, i - 1) = Len(sa) BY DEF Size, a
<1>5. Size(c, names, i) = Len(sa \o sx)
  <2>1. Size(c, names, i) = Len(Spelled(c, SubSeq(names, 1, i))) BY DEF Size
  <2> QED BY <2>1, <1>1, <1>2
<1>6. /\ sx \in Text /\ Len(sx) = 1 + Len(x) /\ sx[1] = c /\ Len(x) \in Nat
      /\ \A k \in 1 .. Len(x) : sx[1 + k] = x[k]
  <2>1. Len(x) \in Nat BY <1>1 DEF Text
  <2> QED BY <2>1, <1>1, Separated
<1> HIDE DEF sa, sb, sx
<1>7. /\ sa \o sx \in Text /\ Len(sa) \in Nat /\ Len(sa \o sx) = Len(sa) + Len(sx)
      /\ \A k \in 1 .. Len(sx) : (sa \o sx)[Len(sa) + k] = sx[k]
  BY <1>3, <1>6, Joined
<1> DEFINE ss == sa \o sx
<1>8. ss \in Text BY <1>7
<1>9. /\ Len(ss) = Len(sa) + 1 + Len(x) /\ ss[Len(sa) + 1] = c
      /\ \A k \in 1 .. Len(x) : ss[Len(sa) + 1 + k] = x[k]
  <2>1. 1 \in 1 .. Len(sx) BY <1>6
  <2>2. ASSUME NEW k \in 1 .. Len(x) PROVE ss[Len(sa) + 1 + k] = x[k]
    <3>1. 1 + k \in 1 .. Len(sx) /\ Len(sa) + 1 + k = Len(sa) + (1 + k) BY <1>6, <1>7
    <3> QED BY <3>1, <1>6, <1>7
  <2>3. Len(ss) = Len(sa) + (1 + Len(x)) BY <1>6, <1>7
  <2>4. ss[Len(sa) + 1] = c BY <2>1, <1>6, <1>7
  <2> QED BY <2>2, <2>3, <2>4, <1>6, <1>7
<1> HIDE DEF ss
<1>10. /\ Len(ss \o sb) = Len(ss) + Len(sb) /\ Len(sb) \in Nat /\ Len(ss) \in Nat
       /\ \A k \in 1 .. Len(ss) : (ss \o sb)[k] = ss[k]
  BY <1>3, <1>8, Joined
<1>11. Len(sa) + 1 \in 1 .. Len(ss) /\ \A k \in 1 .. Len(x) : Len(sa) + 1 + k \in 1 .. Len(ss)
  BY <1>7, <1>6, <1>9
<1>12. Spelled(c, names) = ss \o sb /\ Size(c, names, i) = Len(ss) BY <1>2, <1>5 DEF ss
<1>13. x = names[i] BY DEF x
<1>14. (ss \o sb)[Len(sa) + 1] = c BY <1>9, <1>10, <1>11
<1>15. \A k \in 1 .. Len(x) : (ss \o sb)[Len(sa) + 1 + k] = x[k] BY <1>9, <1>10, <1>11
<1>16. Len(sa) + 1 + Len(x) <= Len(ss \o sb) /\ Len(ss \o sb) \in Nat BY <1>9, <1>10
<1> QED BY <1>4, <1>7, <1>9, <1>12, <1>13, <1>14, <1>15, <1>16

(* A text has a length.                                                       *)
LEMMA TextLength == ASSUME NEW t \in Text PROVE Len(t) \in Nat
BY DEF Text

(* The spelling of no name and of all names.                                  *)
LEMMA SizeEnds ==
  ASSUME NEW c \in Char, NEW names \in NameList
  PROVE  Size(c, names, 0) = 0 /\ Size(c, names, Len(names)) = Len(Spelled(c, names))
         /\ Len(names) \in Nat
<1>1. SubSeq(names, 1, 0) = <<>> /\ SubSeq(names, 1, Len(names)) = names /\ Len(names) \in Nat
  BY SubSeqFull DEF NameList
<1>2. Size(c, names, 0) = Len(Spelled(c, <<>>)) BY <1>1, Zenon DEF Size
<1>3. Size(c, names, Len(names)) = Len(Spelled(c, names)) BY <1>1, Zenon DEF Size
<1>4. Len(<<>>) = 0 OBVIOUS
<1> QED BY <1>1, <1>2, <1>3, <1>4, SpelledEmpty

(* Layout, with the name n + 1.                                               *)
LEMMA SizeStep ==
  ASSUME NEW c \in Char, NEW names \in NameList, NEW n \in Nat, n + 1 \in 1 .. Len(names)
  PROVE  /\ Size(c, names, n) \in Nat /\ Len(names[n + 1]) \in Nat
         /\ Size(c, names, n + 1) = Size(c, names, n) + 1 + Len(names[n + 1])
         /\ Size(c, names, n + 1) <= Len(Spelled(c, names)) /\ Len(Spelled(c, names)) \in Nat
         /\ Spelled(c, names)[Size(c, names, n) + 1] = c
         /\ \A k \in 1 .. Len(names[n + 1]) :
              Spelled(c, names)[Size(c, names, n) + 1 + k] = names[n + 1][k]
<1> DEFINE m == n + 1
<1>1. m - 1 = n OBVIOUS
<1>2. m \in 1 .. Len(names) OBVIOUS
<1>3. names[m] \in Text BY <1>2 DEF NameList
<1>4. Len(names[m]) \in Nat BY <1>3 DEF Text
<1> HIDE DEF m
<1>5. /\ Size(c, names, m - 1) \in Nat
      /\ Size(c, names, m - 1) + 1 + Len(names[m]) <= Len(Spelled(c, names))
      /\ Len(Spelled(c, names)) \in Nat
      /\ Size(c, names, m) = Size(c, names, m - 1) + 1 + Len(names[m])
      /\ Spelled(c, names)[Size(c, names, m - 1) + 1] = c
      /\ \A k \in 1 .. Len(names[m]) : Spelled(c, names)[Size(c, names, m - 1) + 1 + k] = names[m][k]
  BY <1>2, Layout
<1> QED BY <1>1, <1>4, <1>5 DEF m

(* The size of the first names is a number.                                   *)
LEMMA SizeIsNat ==
  ASSUME NEW c \in Char, NEW names \in NameList, NEW n \in 0 .. Len(names)
  PROVE  Size(c, names, n) \in Nat
<1>1. SubSeq(names, 1, n) \in NameList BY DEF NameList
<1>2. Spelled(c, SubSeq(names, 1, n)) \in Text BY <1>1, SpelledText
<1>3. Size(c, names, n) = Len(Spelled(c, SubSeq(names, 1, n))) BY DEF Size
<1> QED BY <1>2, <1>3, TextLength

(* The length does not depend on the separator. *)
LEMMA SizeOfAny ==
  ASSUME NEW c \in Char, NEW d \in Char, NEW names \in NameList
  PROVE  \A n \in 0 .. Len(names) : Size(c, names, n) = Size(d, names, n)
<1> DEFINE T == {n \in Nat : n \in 0 .. Len(names) => Size(c, names, n) = Size(d, names, n)}
<1>1. 0 \in T BY SizeEnds
<1>2. ASSUME NEW n \in T PROVE n + 1 \in T
  <2>1. n \in Nat /\ n + 1 \in Nat OBVIOUS
  <2>2. SUFFICES ASSUME n + 1 \in 0 .. Len(names) PROVE Size(c, names, n + 1) = Size(d, names, n + 1)
    BY <2>1
  <2>3. n + 1 \in 1 .. Len(names) /\ n \in 0 .. Len(names) BY <2>1, <2>2, SizeEnds
  <2>4. Size(c, names, n) = Size(d, names, n) BY <2>3
  <2> QED BY <2>1, <2>3, <2>4, SizeStep
<1>3. T = Nat
  <2>1. T \in SUBSET Nat OBVIOUS
  <2> HIDE DEF T
  <2> QED BY <1>1, <1>2, <2>1, Induction
<1> SUFFICES ASSUME NEW n \in 0 .. Len(names) PROVE Size(c, names, n) = Size(d, names, n) OBVIOUS
<1>4. n \in T
  <2>1. n \in Nat OBVIOUS
  <2> HIDE DEF T
  <2> QED BY <2>1, <1>3
<1> QED BY <1>4

(* More names have a longer spelling.                                         *)
LEMMA SizeGrows ==
  ASSUME NEW c \in Char, NEW names \in NameList
  PROVE  \A n \in 0 .. Len(names) : \A m \in 0 .. n :
           Size(c, names, m) <= Size(c, names, n) /\ (m < n => Size(c, names, m) < Size(c, names, n))
<1> DEFINE T == {n \in Nat : n \in 0 .. Len(names) => \A m \in 0 .. n : 
           Size(c, names, m) <= Size(c, names, n) /\ (m < n => Size(c, names, m) < Size(c, names, n))}
<1>1. 0 \in T
  <2>1. \A m \in 0 .. 0 : m = 0 OBVIOUS
  <2>2. Size(c, names, 0) = 0 /\ 0 <= 0 BY SizeEnds
  <2>3. ASSUME NEW m \in 0 .. 0 PROVE Size(c, names, m) <= Size(c, names, 0) /\ ~(m < 0)
    BY <2>1, <2>2
  <2> QED BY <2>3
<1>2. ASSUME NEW n \in T PROVE n + 1 \in T
  <2>1. n \in Nat /\ n + 1 \in Nat OBVIOUS
  <2>2. SUFFICES ASSUME n + 1 \in 0 .. Len(names), NEW m \in 0 .. (n + 1)
        PROVE Size(c, names, m) <= Size(c, names, n + 1) /\ (m < n + 1 => Size(c, names, m) < Size(c, names, n + 1))
    BY <2>1
  <2>3. n + 1 \in 1 .. Len(names) /\ n \in 0 .. Len(names) BY <2>1, <2>2, SizeEnds
  <2>4. /\ Size(c, names, n) \in Nat /\ Size(c, names, n + 1) \in Nat
        /\ Size(c, names, n + 1) > Size(c, names, n)
    <3>1. /\ Size(c, names, n) \in Nat /\ Len(names[n + 1]) \in Nat
          /\ Size(c, names, n + 1) = Size(c, names, n) + 1 + Len(names[n + 1])
      BY <2>1, <2>3, SizeStep
    <3> QED BY <3>1
  <2>5. CASE m = n + 1 BY <2>4, <2>5
  <2>6. CASE m # n + 1
    <3>1. m \in 0 .. n BY <2>1, <2>6
    <3>2. Size(c, names, m) \in Nat
      <4>1. m \in 0 .. Len(names) BY <2>3, <3>1, SizeEnds
      <4> QED BY <4>1, SizeIsNat
    <3>3. Size(c, names, m) <= Size(c, names, n) BY <3>1, <2>3
    <3> QED BY <3>2, <3>3, <2>4
  <2> QED BY <2>5, <2>6
<1>3. T = Nat
  <2>1. T \in SUBSET Nat OBVIOUS
  <2> HIDE DEF T
  <2> QED BY <1>1, <1>2, <2>1, Induction
<1> SUFFICES ASSUME NEW n \in 0 .. Len(names), NEW m \in 0 .. n
    PROVE Size(c, names, m) <= Size(c, names, n) /\ (m < n => Size(c, names, m) < Size(c, names, n)) OBVIOUS
<1>4. n \in T
  <2>1. n \in Nat OBVIOUS
  <2> HIDE DEF T
  <2> QED BY <2>1, <1>3
<1> QED BY <1>4

(* Every character is a separator or belongs to a name. *)
LEMMA Located ==
  ASSUME NEW c \in Char, NEW names \in NameList, NEW k \in 1 .. Len(Spelled(c, names))
  PROVE  \E n \in Nat : /\ n + 1 \in 1 .. Len(names)
                        /\ Size(c, names, n) < k /\ k <= Size(c, names, n + 1)
<1> DEFINE T == {n \in Nat : n <= Len(names) /\ k <= Size(c, names, n)}
<1>1. Len(names) \in T BY SizeEnds
<1>2. T \in SUBSET Nat /\ T # {} BY <1>1
<1>3. PICK n \in T : \A m \in T : n <= m
  <2> HIDE DEF T
  <2> QED BY <1>2, Least
<1>4. n # 0 BY <1>3, SizeEnds
<1>5. n - 1 \in Nat /\ n - 1 <= Len(names) /\ n - 1 \notin T /\ n - 1 \in 0 .. Len(names) BY <1>3, <1>4, SizeEnds
<1>6. Size(c, names, n - 1) \in Nat BY <1>5, SizeIsNat
<1>7. Size(c, names, n - 1) < k BY <1>5, <1>6
<1>8. (n - 1) + 1 = n /\ n \in 1 .. Len(names) BY <1>3, <1>4, SizeEnds
<1>9. k <= Size(c, names, (n - 1) + 1) BY <1>8, <1>3
<1> QED BY <1>5, <1>7, <1>8, <1>9

(* Texts with the same characters are the same.                               *)
LEMMA SameText ==
  ASSUME NEW t \in Text, NEW u \in Text, Len(t) = Len(u), \A k \in 1 .. Len(t) : t[k] = u[k]
  PROVE  t = u
BY SeqEqual DEF Text

(* Behind some of the names, but not all, comes a separator.                  *)
LEMMA NextSeparator ==
  ASSUME NEW c \in Char, NEW names \in NameList, NEW n \in 0 .. Len(names),
         Size(c, names, n) < Len(Spelled(c, names))
  PROVE  /\ n + 1 \in 1 .. Len(names) /\ Spelled(c, names)[Size(c, names, n) + 1] = c
<1>1. n \in Nat /\ Len(names) \in Nat BY SizeEnds
<1>2. n # Len(names)
  <2>1. Size(c, names, n) \in Nat BY SizeIsNat
  <2>2. Size(c, names, Len(names)) = Len(Spelled(c, names)) BY SizeEnds
  <2>3. Size(c, names, n) # Len(Spelled(c, names)) BY <2>1
  <2> QED BY <2>2, <2>3
<1>3. n + 1 \in 1 .. Len(names) BY <1>1, <1>2
<1> QED BY <1>1, <1>3, SizeStep

(* No name has the character in it. *)
Free(c, names) == \A i \in DOMAIN names : \A k \in DOMAIN names[i] : names[i][k] # c

(* No character of the names is c.                                            *)
LEMMA FreeOf ==
  ASSUME NEW c, NEW names \in NameList, Free(c, names), NEW i \in 1 .. Len(names),
         NEW k \in 1 .. Len(names[i])
  PROVE  names[i][k] # c
<1>1. i \in DOMAIN names /\ names[i] \in Text BY DEF NameList
<1>2. k \in DOMAIN names[i] BY <1>1 DEF Text
<1> QED BY <1>1, <1>2 DEF Free

(* A spelling that begins another and ends with it or before a separator has  *)
(* its next name.                                                             *)
LEMMA PrefixStep ==
  ASSUME NEW c \in Char, NEW a \in NameList, NEW b \in NameList, Free(c, a), Free(c, b),
         Len(Spelled(c, a)) <= Len(Spelled(c, b)),
         \A k \in 1 .. Len(Spelled(c, a)) : Spelled(c, a)[k] = Spelled(c, b)[k],
         \/ Len(Spelled(c, a)) = Len(Spelled(c, b))
         \/ Spelled(c, b)[Len(Spelled(c, a)) + 1] = c,
         NEW m \in Nat, m + 1 <= Len(a), m <= Len(b),
         Size(c, a, m) = Size(c, b, m)
  PROVE  /\ m + 1 <= Len(b) /\ a[m + 1] = b[m + 1]
         /\ Size(c, a, m + 1) = Size(c, b, m + 1)
<1> DEFINE s == Size(c, a, m)  ta == Spelled(c, a)  tb == Spelled(c, b)
           x == a[m + 1]  y == b[m + 1]  e == Size(c, a, m + 1)  f == Size(c, b, m + 1)
<1>0. Len(a) \in Nat /\ Len(b) \in Nat /\ m + 1 \in 1 .. Len(a) /\ m \in 0 .. Len(b)
      /\ Len(tb) \in Nat /\ Len(ta) \in Nat
  <2>1. Len(a) \in Nat /\ Len(b) \in Nat BY SizeEnds
  <2> QED BY <2>1, SpelledText, TextLength
<1>1. /\ s \in Nat /\ Len(x) \in Nat /\ e = s + 1 + Len(x) /\ e <= Len(ta) /\ Len(ta) \in Nat
      /\ ta[s + 1] = c /\ \A k \in 1 .. Len(x) : ta[s + 1 + k] = x[k]
  BY <1>0, SizeStep
<1>2. m + 1 \in 1 .. Len(b)
  <2>1. s < Len(tb) BY <1>0, <1>1
  <2> QED BY <2>1, <1>0, NextSeparator
<1>3. /\ Len(y) \in Nat /\ f = s + 1 + Len(y) /\ f <= Len(tb)
      /\ tb[s + 1] = c /\ \A k \in 1 .. Len(y) : tb[s + 1 + k] = y[k]
  BY <1>0, <1>2, SizeStep
<1>4. \A k \in 1 .. Len(x) : x[k] # c BY <1>0, FreeOf
<1>5. \A k \in 1 .. Len(y) : y[k] # c BY <1>2, FreeOf
<1>6. e < Len(ta) => ta[e + 1] = c
  <2>1. m + 1 \in 0 .. Len(a) BY <1>0
  <2> QED BY <2>1, NextSeparator
<1>7. f < Len(tb) => tb[f + 1] = c
  <2>1. m + 1 \in 0 .. Len(b) BY <1>2, <1>0
  <2> QED BY <2>1, NextSeparator
<1>8. x \in Text /\ y \in Text BY <1>0, <1>2 DEF NameList
<1>9. /\ Len(ta) <= Len(tb) /\ \A k \in 1 .. Len(ta) : ta[k] = tb[k]
      /\ Len(ta) = Len(tb) \/ tb[Len(ta) + 1] = c
  OBVIOUS
<1> HIDE DEF s, ta, tb, x, y, e, f
<1>10. ~(Len(x) < Len(y))
  <2> SUFFICES ASSUME Len(x) < Len(y) PROVE FALSE OBVIOUS
  <2>1. Len(x) + 1 \in 1 .. Len(y) /\ s + 1 + (Len(x) + 1) = e + 1 BY <1>1, <1>3, SMTT(30)
  <2>2. tb[e + 1] # c BY <2>1, <1>3, <1>5, ZenonT(30)
  <2>3. e + 1 <= Len(tb) BY <1>1, <1>3
  <2>4. CASE e < Len(ta)
    <3>1. e + 1 \in 1 .. Len(ta) BY <1>1, <2>4
    <3> QED BY <3>1, <2>2, <2>4, <1>6, <1>9
  <2>5. CASE e = Len(ta) BY <2>2, <2>3, <2>5, <1>9, <1>0, <1>1
  <2> QED BY <2>4, <2>5, <1>1
<1>11. ~(Len(y) < Len(x))
  <2> SUFFICES ASSUME Len(y) < Len(x) PROVE FALSE OBVIOUS
  <2>1. Len(y) + 1 \in 1 .. Len(x) /\ s + 1 + (Len(y) + 1) = f + 1 BY <1>1, <1>3, SMTT(30)
  <2>2. ta[f + 1] # c BY <2>1, <1>1, <1>4, ZenonT(30)
  <2>3. f + 1 \in 1 .. Len(ta) /\ f < Len(tb) BY <1>1, <1>3, <1>9, <1>0, SMTT(30)
  <2> QED BY <2>2, <2>3, <1>7, <1>9
<1>12. Len(x) = Len(y) BY <1>10, <1>11, <1>1, <1>3
<1>13. \A k \in 1 .. Len(x) : x[k] = y[k]
  <2>1. ASSUME NEW k \in 1 .. Len(x) PROVE x[k] = y[k]
    <3>1. s + 1 + k \in 1 .. Len(ta) /\ k \in 1 .. Len(y) BY <1>1, <1>12
    <3> QED BY <3>1, <1>1, <1>3, <1>9
  <2> QED BY <2>1
<1>14. x = y BY <1>8, <1>12, <1>13, SameText
<1>15. e = f BY <1>1, <1>3, <1>12
<1>16. m + 1 <= Len(b) BY <1>2, <1>0
<1> QED BY <1>14, <1>15, <1>16 DEF x, y, e, f

(* Names whose spelling begins another so are the first of its names.         *)
LEMMA PrefixOfNames ==
  ASSUME NEW c \in Char, NEW a \in NameList, NEW b \in NameList, Free(c, a), Free(c, b),
         Len(Spelled(c, a)) <= Len(Spelled(c, b)),
         \A k \in 1 .. Len(Spelled(c, a)) : Spelled(c, a)[k] = Spelled(c, b)[k],
         \/ Len(Spelled(c, a)) = Len(Spelled(c, b))
         \/ Spelled(c, b)[Len(Spelled(c, a)) + 1] = c
  PROVE  Len(a) <= Len(b) /\ \A i \in 1 .. Len(a) : a[i] = b[i]
<1> DEFINE T == {m \in Nat : m <= Len(a) => /\ m <= Len(b) /\ Size(c, a, m) = Size(c, b, m)
                                            /\ \A i \in 1 .. m : a[i] = b[i]}
<1>0. Len(a) \in Nat /\ Len(b) \in Nat BY SizeEnds
<1>1. 0 \in T
  <2>1. Size(c, a, 0) = 0 /\ Size(c, b, 0) = 0 BY SizeEnds
  <2> QED BY <2>1, <1>0
<1>2. ASSUME NEW m \in T PROVE m + 1 \in T
  <2>1. m \in Nat /\ m + 1 \in Nat OBVIOUS
  <2>2. SUFFICES ASSUME m + 1 <= Len(a)
                 PROVE  /\ m + 1 <= Len(b) /\ Size(c, a, m + 1) = Size(c, b, m + 1)
                        /\ \A i \in 1 .. (m + 1) : a[i] = b[i]
    BY <2>1
  <2>3. /\ m <= Len(b) /\ Size(c, a, m) = Size(c, b, m) /\ \A i \in 1 .. m : a[i] = b[i]
    BY <2>1, <2>2, <1>0
  <2>4. /\ m + 1 <= Len(b) /\ a[m + 1] = b[m + 1] /\ Size(c, a, m + 1) = Size(c, b, m + 1)
    BY <2>1, <2>2, <2>3, PrefixStep
  <2> QED BY <2>1, <2>3, <2>4
<1>3. T = Nat
  <2>1. T \in SUBSET Nat OBVIOUS
  <2> HIDE DEF T
  <2> QED BY <1>1, <1>2, <2>1, Induction
<1>4. Len(a) \in T
  <2> HIDE DEF T
  <2> QED BY <1>0, <1>3
<1> QED BY <1>4, <1>0

(* A text with the names at their places is their spelling.                   *)
LEMMA SameSpelling ==
  ASSUME NEW c \in Char, NEW names \in NameList, NEW t \in Text, Len(t) = Len(Spelled(c, names)),
         \A n \in Nat : n + 1 \in 1 .. Len(names) =>
            /\ t[Size(c, names, n) + 1] = c
            /\ \A k \in 1 .. Len(names[n + 1]) : t[Size(c, names, n) + 1 + k] = names[n + 1][k]
  PROVE  t = Spelled(c, names)
<1>1. Spelled(c, names) \in Text BY SpelledText
<1>2. ASSUME NEW k \in 1 .. Len(t) PROVE t[k] = Spelled(c, names)[k]
  <2>1. PICK n \in Nat : /\ n + 1 \in 1 .. Len(names)
                         /\ Size(c, names, n) < k /\ k <= Size(c, names, n + 1)
    BY Located
  <2>2. /\ Size(c, names, n) \in Nat /\ Len(names[n + 1]) \in Nat
        /\ Size(c, names, n + 1) = Size(c, names, n) + 1 + Len(names[n + 1])
        /\ Spelled(c, names)[Size(c, names, n) + 1] = c
        /\ \A j \in 1 .. Len(names[n + 1]) :
             Spelled(c, names)[Size(c, names, n) + 1 + j] = names[n + 1][j]
    BY <2>1, SizeStep, ZenonT(30)
  <2>3. CASE k = Size(c, names, n) + 1 BY <2>1, <2>2, <2>3
  <2>4. CASE k # Size(c, names, n) + 1
    <3> DEFINE j == k - (Size(c, names, n) + 1)
    <3>1. j \in 1 .. Len(names[n + 1]) /\ Size(c, names, n) + 1 + j = k BY <2>1, <2>2, <2>4, SMTT(30)
    <3> QED BY <3>1, <2>1, <2>2
  <2> QED BY <2>3, <2>4
<1> QED BY <1>1, <1>2, SameText

-----------------------------------------------------------------------------
(* The characters that the code itself writes.                                *)
LEMMA Chars == /\ "/" \in Char /\ "\\" \in Char /\ ":" \in Char /\ "C" \in Char /\ "D" \in Char
               /\ "." \in Char
BY DEF Char

(* The operators of the community modules are the same in both modules.       *)
LEMMA DosOperators ==
  ASSUME NEW t
  PROVE  Dos!FlattenSeq(t) = FlattenSeq(t) /\ Dos!Front(t) = Front(t) /\ Dos!Last(t) = Last(t)
<1>1. Dos!FlattenSeq(t) = FlattenSeq(t) BY DEF FlattenSeq, Dos!FlattenSeq
<1>2. Dos!Front(t) = Front(t) BY DEF Front, Dos!Front
<1>3. Dos!Last(t) = Last(t) BY DEF Last, Dos!Last
<1> QED BY <1>1, <1>2, <1>3

(* The names without the last one, and the last one.                          *)
LEMMA LastName ==
  ASSUME NEW names \in NameList, names # <<>>
  PROVE  /\ Front(names) \in NameList /\ names[Len(names)] \in Text /\ Len(names) \in Nat \ {0}
         /\ Len(Front(names)) = Len(names) - 1
         /\ \A i \in 1 .. Len(names) - 1 : Front(names)[i] = names[i]
         /\ Append(Front(names), names[Len(names)]) = names
<1>1. names \in Seq(Text) /\ Len(names) \in Nat /\ Len(names) # 0 BY DEF NameList
<1>2. Front(names) = SubSeq(names, 1, Len(names) - 1) BY DEF Front
<1>3. /\ Front(names) \in Seq(Text) /\ Len(Front(names)) = Len(names) - 1
      /\ \A i \in 1 .. Len(names) - 1 : Front(names)[i] = names[i]
  <2> DEFINE n == Len(names) - 1
  <2>1. n \in Nat /\ n <= Len(names) BY <1>1
  <2> HIDE DEF n
  <2>2. /\ SubSeq(names, 1, n) \in Seq(Text) /\ Len(SubSeq(names, 1, n)) = n
        /\ \A i \in 1 .. n : SubSeq(names, 1, n)[i] = names[i]
    BY <1>1, <2>1
  <2> QED BY <2>2, <1>2 DEF n
<1>4. names[Len(names)] \in Text BY <1>1
<1> DEFINE f == Front(names)
<1> HIDE DEF f
<1>5. Append(f, names[Len(names)]) = names BY <1>1, <1>3, <1>4 DEF f
<1> QED BY <1>1, <1>3, <1>4, <1>5 DEF NameList, f

(* One more name in a current directory.                                      *)
LEMMA DosSpellMore ==
  ASSUME NEW e \in NameList, e # <<>>, NEW x \in Text
  PROVE  /\ Dos!Spell(e) \in Text /\ Dos!Spell(<<x>>) = x
         /\ Dos!Spell(Append(e, x)) = Dos!Spell(e) \o (<<"\\">> \o x)
<1> DEFINE F(names) == [i \in DOMAIN names |-> IF i = 1 THEN names[i] ELSE <<"\\">> \o names[i]]
<1>7. \A names : Dos!Spell(names) = FlattenSeq(F(names))
  BY DosOperators DEF Dos!Spell
<1>1. \A names \in NameList : F(names) \in NameList
  <2> SUFFICES ASSUME NEW names \in NameList PROVE F(names) \in NameList OBVIOUS
  <2>1. DOMAIN names = 1 .. Len(names) /\ Len(names) \in Nat /\ \A i \in 1 .. Len(names) : names[i] \in Text
    BY DEF NameList
  <2>2. \A i \in 1 .. Len(names) : <<"\\">> \o names[i] \in Text BY <2>1, Chars, Separated
  <2> QED BY <2>1, <2>2 DEF NameList
<1>2. <<"\\">> \o x \in Text BY Chars, Separated
<1>3. F(Append(e, x)) = Append(F(e), <<"\\">> \o x)
  <2>1. /\ DOMAIN e = 1 .. Len(e) /\ Len(e) \in Nat \ {0} /\ DOMAIN Append(e, x) = 1 .. (Len(e) + 1)
        /\ Append(e, x)[Len(e) + 1] = x /\ \A i \in 1 .. Len(e) : Append(e, x)[i] = e[i]
    BY DEF NameList
  <2> DEFINE fe == F(e)  y == <<"\\">> \o x
  <2>2. /\ fe \in Seq(Text) /\ Len(fe) = Len(e)
        /\ \A i \in 1 .. Len(e) : fe[i] = IF i = 1 THEN e[i] ELSE <<"\\">> \o e[i]
    <3>1. fe \in Seq(Text) BY <1>1 DEF NameList
    <3>2. DOMAIN fe = 1 .. Len(e) BY <2>1
    <3>3. Len(fe) = Len(e) BY <3>1, <3>2, <2>1
    <3>4. \A i \in 1 .. Len(e) : fe[i] = IF i = 1 THEN e[i] ELSE <<"\\">> \o e[i] BY <2>1
    <3> QED BY <3>1, <3>3, <3>4
  <2> HIDE DEF fe
  <2>3. Append(fe, y) = [i \in 1 .. (Len(e) + 1) |-> IF i = Len(e) + 1 THEN y ELSE fe[i]]
    BY <2>1, <2>2, <1>2
  <2>4. F(Append(e, x)) = [i \in 1 .. (Len(e) + 1) |-> IF i = Len(e) + 1 THEN y ELSE fe[i]]
    BY <2>1, <2>2
  <2> QED BY <2>3, <2>4 DEF fe
<1>4. F(e) \in Seq(Seq(Char)) /\ <<"\\">> \o x \in Seq(Char) BY <1>1, <1>2 DEF NameList, Text
<1>5. FlattenSeq(F(e)) \in Text
      /\ FlattenSeq(Append(F(e), <<"\\">> \o x)) = FlattenSeq(F(e)) \o (<<"\\">> \o x)
  <2> HIDE DEF F
  <2> QED BY <1>4, FlattenAppend DEF Text
<1>6. Dos!Spell(<<x>>) = x
  <2>1. F(<<x>>) = <<x>> OBVIOUS
  <2>2. <<x>> = Append(<<>>, x) /\ <<>> \in Seq(Seq(Char)) /\ x \in Seq(Char) BY DEF Text
  <2>3. FlattenSeq(<<x>>) = FlattenSeq(<<>>) \o x BY <2>2, FlattenAppend
  <2>4. FlattenSeq(<<>>) = <<>> BY DEF FlattenSeq
  <2>5. <<>> \o x = x BY <2>2, ConcatEmptySeq
  <2>6. Dos!Spell(<<x>>) = FlattenSeq(F(<<x>>)) BY <1>7
  <2> QED BY <2>1, <2>3, <2>4, <2>5, <2>6
<1> QED BY <1>3, <1>5, <1>6, <1>7

(* A current directory is a spelling without its first separator.             *)
LEMMA DosSpell ==
  ASSUME NEW names \in NameList, names # <<>>
  PROVE  /\ Dos!Spell(names) \in Text
         /\ <<"\\">> \o Dos!Spell(names) = Spelled("\\", names)
<1> DEFINE P(ns) == Dos!Spell(ns) \in Text /\ <<"\\">> \o Dos!Spell(ns) = Spelled("\\", ns)
           T == {n \in Nat : \A ns \in NameList : Len(ns) = n + 1 => P(ns)}
<1>0. <<"\\">> \in Text
  <2>1. <<"\\">> \in Seq(Char) BY Chars, OneIsSeq
  <2> QED BY <2>1 DEF Text
<1>1. 0 \in T
  <2>1. SUFFICES ASSUME NEW ns \in NameList, Len(ns) = 1 PROVE P(ns) OBVIOUS
  <2>2. ns[1] \in Text /\ ns = <<ns[1]>>
    <3>1. ns \in Seq(Text) BY DEF NameList
    <3>2. ns[1] \in Text BY <3>1, <2>1
    <3>3. ns = <<ns[1]>> BY <3>1, <2>1
    <3> QED BY <3>2, <3>3
  <2> DEFINE x == ns[1]
  <2>3. <<x>> \in NameList /\ <<x>> # <<>> BY <2>2 DEF NameList
  <2> HIDE DEF x
  <2>4. x \in Text /\ ns = <<x>> BY <2>2 DEF x
  <2>5. Dos!Spell(<<x>>) = x BY <2>3, <2>4, DosSpellMore
  <2>6. Spelled("\\", <<x>>) = <<"\\">> \o x BY <2>4, Chars, SpelledOne
  <2> QED BY <2>4, <2>5, <2>6
<1>2. ASSUME NEW n \in T PROVE n + 1 \in T
  <2>1. n \in Nat /\ n + 1 \in Nat OBVIOUS
  <2>2. SUFFICES ASSUME NEW ns \in NameList, Len(ns) = n + 1 + 1 PROVE P(ns) BY <2>1
  <2> DEFINE e == Front(ns)  x == ns[Len(ns)]
  <2>3. ns # <<>> BY <2>1, <2>2
  <2>4. e \in NameList /\ x \in Text /\ Len(e) = n + 1 /\ ns = Append(e, x) BY <2>1, <2>2, <2>3, LastName
  <2>5. e # <<>> /\ P(e) BY <2>1, <2>4
  <2> HIDE DEF e, x
  <2>6. Dos!Spell(ns) = Dos!Spell(e) \o (<<"\\">> \o x) BY <2>4, <2>5, DosSpellMore
  <2>7. <<"\\">> \o x \in Text BY <2>4, Chars, Separated
  <2>8. Spelled("\\", ns) = Spelled("\\", e) \o (<<"\\">> \o x) BY <2>4, Chars, SpelledMore
  <2>9. Dos!Spell(ns) \in Text BY <2>5, <2>6, <2>7, Joined
  <2>10. (<<"\\">> \o Dos!Spell(e)) \o (<<"\\">> \o x) = <<"\\">> \o (Dos!Spell(e) \o (<<"\\">> \o x))
    BY <1>0, <2>5, <2>7, JoinedTwice
  <2> QED BY <2>5, <2>6, <2>8, <2>9, <2>10
<1>3. T = Nat
  <2>1. T \in SUBSET Nat OBVIOUS
  <2> HIDE DEF T
  <2> QED BY <1>1, <1>2, <2>1, Induction
<1>4. Len(names) - 1 \in T /\ Len(names) = Len(names) - 1 + 1
  <2>1. Len(names) - 1 \in Nat /\ Len(names) = Len(names) - 1 + 1 BY LastName
  <2> HIDE DEF T
  <2> QED BY <2>1, <1>3
<1> QED BY <1>4

(* The guest path of names on a drive, with separator c. *)
Letter(d) == <<d, ":">>
One(c) == <<c>>
Guest(d, c, names) == Letter(d) \o (IF names = <<>> THEN One(c) ELSE Spelled(c, names))

(* The text of a drive.                                                       *)
LEMMA DriveText ==
  ASSUME NEW d \in Char
  PROVE  /\ Letter(d) \in Text /\ Len(Letter(d)) = 2 /\ Letter(d)[1] = d /\ Letter(d)[2] = ":"
<1>1. ":" \in Char BY Chars
<1>2. \A a, b \in Char : <<a, b>> \in Seq(Char) OBVIOUS
<1>3. Len(<<d, ":">>) = 2 /\ <<d, ":">>[1] = d /\ <<d, ":">>[2] = ":" OBVIOUS
<1> QED BY <1>1, <1>2, <1>3 DEF Text, Letter

(* The text of one character.                                                 *)
LEMMA OneText == ASSUME NEW c \in Char PROVE One(c) \in Text /\ Len(One(c)) = 1 /\ One(c)[1] = c
<1>1. <<c>> \in Seq(Char) BY OneIsSeq
<1> QED BY <1>1 DEF Text, One

(* A spelling begins with a separator.                                        *)
LEMMA SpelledStarts ==
  ASSUME NEW c \in Char, NEW names \in NameList, names # <<>>
  PROVE  Spelled(c, names)[1] = c /\ Len(Spelled(c, names)) \in Nat \ {0}
<1>1. 0 + 1 \in 1 .. Len(names) /\ Size(c, names, 0) = 0 BY LastName, SizeEnds
<1>2. Spelled(c, names)[0 + 1] = c /\ 0 + 1 + Len(names[0 + 1]) <= Len(Spelled(c, names))
      /\ Len(names[0 + 1]) \in Nat /\ Len(Spelled(c, names)) \in Nat
  BY <1>1, SizeStep
<1> QED BY <1>2

(* Characters and length of a guest path.                                     *)
LEMMA GuestLayout ==
  ASSUME NEW d \in Char, NEW c \in Char, NEW names \in NameList
  PROVE  /\ Guest(d, c, names) \in Text
         /\ Len(Guest(d, c, names)) \in Nat /\ Len(Guest(d, c, names)) >= 3
         /\ Len(Guest(d, c, names)) = IF names = <<>> THEN 3 ELSE 2 + Len(Spelled(c, names))
         /\ Guest(d, c, names)[1] = d /\ Guest(d, c, names)[2] = ":" /\ Guest(d, c, names)[3] = c
         /\ \A k \in 1 .. Len(Spelled(c, names)) : Guest(d, c, names)[2 + k] = Spelled(c, names)[k]
<1> DEFINE g == Letter(d)  t == IF names = <<>> THEN One(c) ELSE Spelled(c, names)
<1>1. g \in Text /\ Len(g) = 2 /\ g[1] = d /\ g[2] = ":" BY DriveText
<1>2. t \in Text BY OneText, SpelledText
<1>3. t[1] = c /\ Len(t) \in Nat \ {0} /\ Len(t) = IF names = <<>> THEN 1 ELSE Len(Spelled(c, names))
  <2>1. CASE names = <<>> BY <2>1, OneText
  <2>2. CASE names # <<>> BY <2>2, SpelledStarts
  <2> QED BY <2>1, <2>2
<1>4. \A k \in 1 .. Len(Spelled(c, names)) : t[k] = Spelled(c, names)[k] /\ k \in 1 .. Len(t)
  <2>1. CASE names = <<>>
    <3>1. Len(Spelled(c, names)) = 0 BY <2>1, SpelledEmpty
    <3> QED BY <3>1
  <2>2. CASE names # <<>> BY <2>2
  <2> QED BY <2>1, <2>2
<1>5. Guest(d, c, names) = g \o t BY DEF Guest
<1> HIDE DEF g, t
<1> DEFINE u == g \o t
<1>6. /\ u \in Text /\ Len(u) = 2 + Len(t) /\ \A i \in 1 .. Len(g) : u[i] = g[i]
      /\ \A i \in 1 .. Len(t) : u[Len(g) + i] = t[i]
  <2>1. g \in Text /\ t \in Text BY <1>1, <1>2
  <2>2. /\ u \in Text /\ Len(u) = Len(g) + Len(t) /\ \A i \in 1 .. Len(g) : u[i] = g[i]
        /\ \A i \in 1 .. Len(t) : u[Len(g) + i] = t[i]
    BY <2>1, Joined
  <2> HIDE DEF u
  <2> QED BY <2>2, <1>1
<1> HIDE DEF u
<1>7. u[3] = t[1] /\ u[1] = g[1] /\ u[2] = g[2]
  <2>1. 1 \in 1 .. Len(t) BY <1>3
  <2>2. u[2 + 1] = t[1] BY <2>1, <1>6, <1>1
  <2>3. 2 + 1 = 3 /\ 1 \in 1 .. Len(g) /\ 2 \in 1 .. Len(g) BY <1>1
  <2> QED BY <2>2, <2>3, <1>6
<1>8. Guest(d, c, names) = u BY <1>5 DEF u
<1>9. Len(u) = (IF names = <<>> THEN 3 ELSE 2 + Len(Spelled(c, names))) /\ Len(u) \in Nat /\ Len(u) >= 3
  BY <1>6, <1>3
<1>10. \A k \in 1 .. Len(Spelled(c, names)) : u[2 + k] = Spelled(c, names)[k]
  BY <1>4, <1>6, <1>1
<1> QED BY <1>1, <1>3, <1>6, <1>7, <1>8, <1>9, <1>10

(* The root of a drive is a guest path.                                       *)
LEMMA RootText ==
  ASSUME NEW d \in Char
  PROVE  /\ Dos!Root(d) = Letter(d) \o One("\\") /\ Dos!Root(d) = Guest(d, "\\", <<>>)
         /\ Dos!Root(d) \in Text /\ Len(Dos!Root(d)) = 3
<1>1. Dos!Root(d) = Letter(d) \o One("\\")
  <2> DEFINE g == Letter(d)  t == One("\\")  r == Dos!Root(d)
  <2>1. g \in Text /\ t \in Text /\ Len(g) = 2 /\ Len(t) = 1 /\ g[1] = d /\ g[2] = ":" /\ t[1] = "\\"
    BY Chars, DriveText, OneText
  <2>2. r \in Text /\ Len(r) = 3 /\ r[1] = d /\ r[2] = ":" /\ r[3] = "\\"
    <3>1. \A a, b, e \in Char : <<a, b, e>> \in Seq(Char) OBVIOUS
    <3>2. <<d, ":", "\\">> \in Seq(Char) BY <3>1, Chars
    <3>3. LET q == <<d, ":", "\\">> IN Len(q) = 3 /\ q[1] = d /\ q[2] = ":" /\ q[3] = "\\" OBVIOUS
    <3> QED BY <3>2, <3>3 DEF Text, Dos!Root
  <2> HIDE DEF g, t, r
  <2> DEFINE u == g \o t
  <2>3. /\ u \in Text /\ Len(u) = Len(g) + Len(t) /\ \A i \in 1 .. Len(g) : u[i] = g[i]
        /\ \A i \in 1 .. Len(t) : u[Len(g) + i] = t[i]
    BY <2>1, Joined
  <2> HIDE DEF u
  <2>4. u[1] = d /\ u[2] = ":" /\ u[2 + 1] = "\\" /\ Len(u) = 3
    <3>1. 1 \in 1 .. Len(g) /\ 2 \in 1 .. Len(g) /\ 1 \in 1 .. Len(t) BY <2>1
    <3>2. u[Len(g) + 1] = t[1] BY <3>1, <2>3
    <3> QED BY <3>1, <3>2, <2>1, <2>3
  <2>5. \A k \in 1 .. Len(r) : r[k] = u[k]
    <3>1. \A k \in 1 .. 3 : k = 1 \/ k = 2 \/ k = 3 OBVIOUS
    <3> QED BY <3>1, <2>2, <2>4
  <2>6. r = u BY <2>2, <2>3, <2>4, <2>5, SameText
  <2> QED BY <2>6 DEF g, t, r, u
<1>3. Dos!Root(d) = Guest(d, "\\", <<>>) BY <1>1 DEF Guest
<1> DEFINE none == <<>>
<1>4. none \in NameList BY DEF NameList
<1>5. none = <<>> OBVIOUS
<1> HIDE DEF none
<1>6. Guest(d, "\\", none) \in Text /\ Len(Guest(d, "\\", none)) = 3 BY <1>4, <1>5, Chars, GuestLayout
<1> QED BY <1>1, <1>3, <1>5, <1>6

(* A directory behind the root of a drive is a guest path.                    *)
LEMMA DosRoot ==
  ASSUME NEW d \in Char, NEW names \in NameList
  PROVE  /\ Dos!Root(d) \o Dos!Spell(names) = Guest(d, "\\", names)
         /\ Dos!Spell(names) \in Text
         /\ Len(Dos!Spell(names)) = IF names = <<>> THEN 0 ELSE Len(Spelled("\\", names)) - 1
<1>1. CASE names = <<>>
  <2>1. [i \in DOMAIN <<>> |-> IF i = 1 THEN <<>>[i] ELSE <<"\\">> \o <<>>[i]] = <<>> OBVIOUS
  <2>2. Dos!Spell(<<>>) = FlattenSeq(<<>>) BY <2>1, DosOperators DEF Dos!Spell
  <2>3. Dos!Spell(<<>>) = <<>> BY <2>2 DEF FlattenSeq
  <2>4. Dos!Root(d) \o <<>> = Dos!Root(d) BY RootText, ConcatEmptySeq DEF Text
  <2>5. <<>> \in Text /\ Len(<<>>) = 0 BY DEF Text
  <2>6. Dos!Root(d) = Guest(d, "\\", <<>>) BY RootText
  <2>7. Dos!Spell(names) = <<>> BY <1>1, <2>3, Zenon
  <2>8. Guest(d, "\\", names) = Guest(d, "\\", <<>>) BY <1>1, Zenon
  <2>9. Dos!Root(d) \o Dos!Spell(names) = Guest(d, "\\", names) BY <2>4, <2>6, <2>7, <2>8, Zenon
  <2>10. Dos!Spell(names) \in Text /\ Len(Dos!Spell(names)) = 0 BY <2>5, <2>7, Zenon
  <2> QED BY <1>1, <2>9, <2>10
<1>2. CASE names # <<>>
  <2>1. Dos!Spell(names) \in Text /\ <<"\\">> \o Dos!Spell(names) = Spelled("\\", names)
    BY <1>2, DosSpell
  <2>2. Letter(d) \in Text /\ One("\\") \in Text BY DriveText, OneText, Chars
  <2>3. Dos!Root(d) \o Dos!Spell(names) = Letter(d) \o (One("\\") \o Dos!Spell(names))
    <3> DEFINE g == Letter(d)  t == One("\\")  r == Dos!Spell(names)
    <3>1. g \in Text /\ t \in Text /\ r \in Text /\ Dos!Root(d) = g \o t BY <2>1, <2>2, RootText
    <3> HIDE DEF g, t, r
    <3>2. (g \o t) \o r = g \o (t \o r) BY <3>1, JoinedTwice
    <3>3. Dos!Root(d) \o r = g \o (t \o r) BY <3>1, <3>2, Zenon
    <3> QED BY <3>3 DEF g, t, r
  <2>4. Len(<<"\\">> \o Dos!Spell(names)) = 1 + Len(Dos!Spell(names)) /\ Len(Dos!Spell(names)) \in Nat
    BY <2>1, Chars, Separated, TextLength
  <2>5. One("\\") \o Dos!Spell(names) = Spelled("\\", names) BY <2>1 DEF One
  <2>6. Guest(d, "\\", names) = Letter(d) \o Spelled("\\", names) BY <1>2 DEF Guest
  <2>7. Len(Dos!Spell(names)) = Len(Spelled("\\", names)) - 1 BY <2>1, <2>4
  <2> QED BY <1>2, <2>1, <2>3, <2>5, <2>6, <2>7
<1> QED BY <1>1, <1>2

(* The guest path of one more name.                                           *)
LEMMA GuestMore ==
  ASSUME NEW d \in Char, NEW c \in Char, NEW names \in NameList, NEW x \in Text
  PROVE  Guest(d, c, Append(names, x)) =
           (IF names = <<>> THEN Guest(d, c, names) ELSE Guest(d, c, names) \o <<c>>) \o x
<1>1. Append(names, x) # <<>> /\ Append(names, x) \in NameList BY AppendProperties DEF NameList
<1> DEFINE s == Spelled(c, names)  dr == Letter(d)  cc == One(c)
<1>2. dr \in Text /\ cc \in Text /\ cc \o x \in Text /\ s \in Text
  BY DriveText, OneText, Separated, SpelledText DEF One
<1>3. Guest(d, c, Append(names, x)) = dr \o (s \o (cc \o x))
  BY <1>1, SpelledMore DEF Guest, One
<1>4. CASE names = <<>>
  <2>1. s = <<>> BY <1>4, SpelledEmpty
  <2>2. Guest(d, c, names) = dr \o cc BY <1>4 DEF Guest
  <2> HIDE DEF s, dr, cc
  <2>3. s \o (cc \o x) = cc \o x BY <2>1, <1>2, ConcatEmptySeq DEF Text
  <2>4. (dr \o cc) \o x = dr \o (cc \o x) BY <1>2, JoinedTwice, ZenonT(30)
  <2> QED BY <1>4, <1>3, <2>2, <2>3, <2>4
<1>5. CASE names # <<>>
  <2>1. Guest(d, c, names) = dr \o s BY <1>5 DEF Guest
  <2> HIDE DEF s, dr, cc
  <2>4. dr \o s \in Text BY <1>2, Joined
  <2>5. ((dr \o s) \o cc) \o x = (dr \o s) \o (cc \o x) BY <1>2, <2>4, JoinedTwice
  <2>6. (dr \o s) \o (cc \o x) = dr \o (s \o (cc \o x)) BY <1>2, JoinedTwice, ZenonT(30)
  <2>7. Guest(d, c, Append(names, x)) = (Guest(d, c, names) \o cc) \o x BY <2>1, <1>3, <2>5, <2>6
  <2> QED BY <2>7, <1>5 DEF cc, One
<1> QED BY <1>4, <1>5

(* Characters and length of the beginning of a text.                          *)
LEMMA Start ==
  ASSUME NEW t \in Text, NEW n \in 0 .. Len(t)
  PROVE  /\ SubSeq(t, 1, n) \in Text /\ Len(SubSeq(t, 1, n)) = n
         /\ \A i \in 1 .. n : SubSeq(t, 1, n)[i] = t[i]
<1>1. t \in Seq(Char) BY DEF Text
<1> QED BY <1>1 DEF Text

(* The beginning of two joined texts is the first one.                        *)
LEMMA Kept == ASSUME NEW g \in Text, NEW y \in Text PROVE SubSeq(g \o y, 1, Len(g)) = g
<1> DEFINE u == g \o y
<1>1. /\ u \in Text /\ Len(g) \in Nat /\ Len(u) = Len(g) + Len(y) /\ Len(y) \in Nat
      /\ \A i \in 1 .. Len(g) : u[i] = g[i]
  BY Joined
<1> HIDE DEF u
<1>2. Len(g) \in 0 .. Len(u) BY <1>1
<1> DEFINE v == SubSeq(u, 1, Len(g))
<1>3. v \in Text /\ Len(v) = Len(g) /\ \A i \in 1 .. Len(g) : v[i] = u[i] BY <1>1, <1>2, Start
<1> HIDE DEF v
<1>4. v = g BY <1>1, <1>3, SameText
<1> QED BY <1>4 DEF v, u

(* WithoutLast cuts at the last separator.                                    *)
LEMMA LastSeparator ==
  ASSUME NEW t \in Text, NEW q \in 3 .. Len(t), q = 3 \/ t[q] = "\\",
         \A i \in (q + 1) .. Len(t) : t[i] # "\\"
  PROVE  Dos!WithoutLast(t) = SubSeq(t, 1, IF q > 3 THEN q - 1 ELSE q)
<1> DEFINE P(n) == /\ n = 3 \/ t[n] = "\\"
                   /\ \A i \in (n + 1) .. Len(t) : t[i] # "\\"
<1>1. P(q) OBVIOUS
<1>2. ASSUME NEW n \in 3 .. Len(t), P(n) PROVE n = q
  <2>1. Len(t) \in Nat BY TextLength
  <2>2. CASE n < q
    <3>1. q \in (n + 1) .. Len(t) /\ q # 3 BY <2>1, <2>2
    <3> QED BY <3>1, <1>2
  <2>3. CASE q < n
    <3>1. n \in (q + 1) .. Len(t) /\ n # 3 BY <2>1, <2>3
    <3> QED BY <3>1, <1>2
  <2> QED BY <2>2, <2>3
<1>3. (CHOOSE n \in 3 .. Len(t) : P(n)) = q
  <2> HIDE DEF P
  <2> QED BY <1>1, <1>2
<1> QED BY <1>3 DEF Dos!WithoutLast

(* WithoutLast keeps the root of the drive.                                   *)
LEMMA RootSeparator ==
  ASSUME NEW t \in Text, 3 <= Len(t), \A i \in (3 + 1) .. Len(t) : t[i] # "\\"
  PROVE  Dos!WithoutLast(t) = SubSeq(t, 1, 3)
<1> DEFINE q == 3
<1>1. q \in 3 .. Len(t) /\ (q = 3 \/ t[q] = "\\") /\ \A i \in (q + 1) .. Len(t) : t[i] # "\\"
  BY TextLength
<1>2. q = 3 OBVIOUS
<1> HIDE DEF q
<1>3. Dos!WithoutLast(t) = SubSeq(t, 1, IF q > 3 THEN q - 1 ELSE q) BY <1>1, LastSeparator
<1>4. (IF q > 3 THEN q - 1 ELSE q) = 3 BY <1>2
<1> QED BY <1>3, <1>4

(* The write pointer that goes back removes exactly the last name.            *)
LEMMA GuestWithoutLast ==
  ASSUME NEW d \in Char, NEW names \in NameList, Free("\\", names)
  PROVE  Dos!WithoutLast(Guest(d, "\\", names)) =
           Guest(d, "\\", IF names = <<>> THEN names ELSE Front(names))
<1> DEFINE t == Guest(d, "\\", names)
<1>1. t \in Text /\ Len(t) \in Nat /\ Len(t) >= 3 BY Chars, GuestLayout
<1>2. CASE names = <<>>
  <2>1. Len(t) = 3 BY <1>2, Chars, GuestLayout
  <2> HIDE DEF t
  <2>2. 3 \in 3 .. Len(t) /\ \A i \in (3 + 1) .. Len(t) : t[i] # "\\" BY <2>1
  <2>3. Dos!WithoutLast(t) = SubSeq(t, 1, 3) BY <1>1, <2>2, RootSeparator
  <2>4. SubSeq(t, 1, 3) = t BY <1>1, <2>1, SubSeqFull DEF Text
  <2> QED BY <2>3, <2>4, <1>2 DEF t
<1>3. CASE names # <<>>
  <2> DEFINE f == Front(names)  x == names[Len(names)]  g == Guest(d, "\\", f)
  <2>1. f \in NameList /\ x \in Text /\ names = Append(f, x) /\ Len(names) \in 1 .. Len(names)
    <3>1. Len(names) \in Nat \ {0} BY <1>3, LastName
    <3> QED BY <1>3, <3>1, LastName
  <2>2. \A k \in 1 .. Len(x) : x[k] # "\\" BY <2>1, FreeOf
  <2>3. g \in Text /\ Len(g) \in Nat /\ Len(g) >= 3 /\ (f = <<>> => Len(g) = 3) BY <2>1, Chars, GuestLayout
  <2>4. t = (IF f = <<>> THEN g ELSE g \o <<"\\">>) \o x
    <3>1. f \in NameList /\ x \in Text /\ "\\" \in Char BY <2>1, Chars
    <3>2. names = Append(f, x) BY <2>1
    <3> HIDE DEF f, x
    <3>3. Guest(d, "\\", Append(f, x)) = (IF f = <<>> THEN g ELSE g \o <<"\\">>) \o x BY <3>1, GuestMore
    <3> QED BY <3>2, <3>3, Zenon
  <2>5. Len(x) \in Nat BY <2>1, TextLength
  <2> HIDE DEF f, x, g
  <2>6. CASE f = <<>>
    <3>1. t = g \o x /\ Len(g) = 3 BY <2>4, <2>3, <2>6
    <3>2. Len(t) = 3 + Len(x) /\ \A k \in 1 .. Len(x) : t[3 + k] = x[k]
      <4> DEFINE u == g \o x
      <4>1. Len(u) = Len(g) + Len(x) /\ \A k \in 1 .. Len(x) : u[Len(g) + k] = x[k] BY <2>1, <2>3, Joined
      <4> HIDE DEF u
      <4>2. t = u BY <3>1 DEF u
      <4> HIDE DEF t
      <4> QED BY <3>1, <4>1, <4>2
    <3>3. SubSeq(t, 1, 3) = g BY <3>1, <2>1, <2>3, Kept
    <3> HIDE DEF t
    <3>4. ASSUME NEW i \in (3 + 1) .. Len(t) PROVE t[i] # "\\"
      <4>1. i - 3 \in 1 .. Len(x) /\ 3 + (i - 3) = i BY <3>2, <2>5
      <4> QED BY <4>1, <3>2, <2>2
    <3>5. 3 \in 3 .. Len(t) BY <1>1
    <3>6. Dos!WithoutLast(t) = SubSeq(t, 1, 3) BY <1>1, <3>4, RootSeparator
    <3> QED BY <1>3, <3>3, <3>6 DEF t, g, f
  <2>7. CASE f # <<>>
    <3> DEFINE o == <<"\\">>  h == g \o o  q == Len(g) + 1
    <3>1. o \in Text /\ Len(o) = 1 /\ o[1] = "\\" BY OneText, Chars DEF One
    <3>2. t = h \o x BY <2>4, <2>7
    <3> HIDE DEF o
    <3>3. h \in Text /\ Len(h) = Len(g) + Len(o) /\ \A k \in 1 .. Len(o) : h[Len(g) + k] = o[k]
      BY <2>3, <3>1, Joined
    <3>4. Len(h) = q /\ h[q] = "\\" /\ q \in 1 .. Len(h)
      <4>1. 1 \in 1 .. Len(o) BY <3>1
      <4>2. h[Len(g) + 1] = o[1] BY <3>3, <4>1
      <4> HIDE DEF h
      <4> QED BY <3>1, <3>3, <4>2, <2>3
    <3>5. h \o x = g \o (o \o x) /\ o \o x \in Text
      <4>1. o \o x \in Text BY <2>1, <3>1, Joined
      <4>2. (g \o o) \o x = g \o (o \o x) BY <2>1, <2>3, <3>1, JoinedTwice
      <4> QED BY <4>1, <4>2
    <3>6. SubSeq(t, 1, Len(g)) = g BY <3>2, <3>5, <2>3, Kept
    <3> HIDE DEF h
    <3>7. Len(t) = q + Len(x) /\ t[q] = "\\" /\ \A k \in 1 .. Len(x) : t[q + k] = x[k]
      <4> DEFINE u == h \o x
      <4>1. /\ Len(u) = Len(h) + Len(x) /\ \A k \in 1 .. Len(x) : u[Len(h) + k] = x[k]
            /\ \A k \in 1 .. Len(h) : u[k] = h[k]
        BY <2>1, <3>3, Joined
      <4> HIDE DEF u
      <4>2. t = u BY <3>2 DEF u
      <4> HIDE DEF t, q
      <4> QED BY <3>4, <4>1, <4>2
    <3> HIDE DEF t
    <3>8. ASSUME NEW i \in (q + 1) .. Len(t) PROVE t[i] # "\\"
      <4>1. i - q \in 1 .. Len(x) /\ q + (i - q) = i BY <3>7, <2>5, <2>3
      <4> QED BY <4>1, <3>7, <2>2
    <3>9. q \in 3 .. Len(t) /\ q > 3 /\ q - 1 = Len(g) BY <1>1, <2>3, <2>5, <3>7
    <3>10. Dos!WithoutLast(t) = SubSeq(t, 1, IF q > 3 THEN q - 1 ELSE q)
      <4> HIDE DEF q
      <4> QED BY <1>1, <3>7, <3>8, <3>9, LastSeparator
    <3>11. Dos!WithoutLast(t) = g BY <3>6, <3>9, <3>10
    <3> QED BY <1>3, <3>11 DEF t, g, f
  <2> QED BY <2>6, <2>7
<1> QED BY <1>2, <1>3

-----------------------------------------------------------------------------
(* A recursive function that reads a text from the left exists, so Reading   *)
(* satisfies its own equation.                                               *)
Step(last, ch) ==
  IF Dos!IsSeparator(ch)
  THEN [at |-> Dos!Enter(last.at, last.name), name |-> <<>>]
  ELSE [at |-> last.at, name |-> Append(last.name, ch)]

(* f is the reading of the first n characters of s, begun with z.             *)
Reads(f, s, z, n) == f = [i \in 0 .. n |-> IF i = 0 THEN z ELSE Step(f[i - 1], s[i])]

(* The function that Reading describes exists.                                *)
LEMMA ReadingExists == ASSUME NEW s, NEW z, NEW n \in Nat PROVE \E f : Reads(f, s, z, n)
<1> DEFINE T == {m \in Nat : \E f : f = [i \in 0 .. m |-> IF i = 0 THEN z ELSE Step(f[i - 1], s[i])]}
<1>1. 0 \in T
  <2> DEFINE g == [i \in 0 .. 0 |-> z]
  <2>1. \A i \in 0 .. 0 : i = 0 OBVIOUS
  <2>2. g = [i \in 0 .. 0 |-> IF i = 0 THEN z ELSE Step(g[i - 1], s[i])] BY <2>1
  <2> HIDE DEF g
  <2> QED BY <2>2
<1>2. ASSUME NEW m \in T PROVE m + 1 \in T
  <2>1. PICK f : f = [i \in 0 .. m |-> IF i = 0 THEN z ELSE Step(f[i - 1], s[i])] OBVIOUS
  <2> DEFINE g == [i \in 0 .. (m + 1) |-> IF i <= m THEN f[i] ELSE Step(f[m], s[i])]
  <2>2. g = [i \in 0 .. (m + 1) |-> IF i = 0 THEN z ELSE Step(g[i - 1], s[i])]
    <3>1. ASSUME NEW i \in 0 .. (m + 1) PROVE g[i] = IF i = 0 THEN z ELSE Step(g[i - 1], s[i])
      <4>1. CASE i = 0
        <5>1. 0 \in 0 .. m BY <4>1
        <5>2. f[0] = z BY <2>1, <5>1
        <5>3. 0 <= m BY <5>1
        <5>4. g[0] = f[0] BY <5>3
        <5> QED BY <4>1, <5>2, <5>4
      <4>2. CASE i # 0 /\ i <= m
        <5>1. i \in 0 .. m /\ i - 1 \in 0 .. (m + 1) /\ i - 1 <= m BY <4>2
        <5>2. f[i] = Step(f[i - 1], s[i]) BY <2>1, <5>1, <4>2
        <5>3. g[i] = f[i] BY <4>2
        <5>4. g[i - 1] = f[i - 1] BY <5>1
        <5> QED BY <5>2, <5>3, <5>4, <4>2
      <4>3. CASE i = m + 1
        <5>1. i - 1 = m /\ m \in 0 .. (m + 1) /\ ~(i <= m) /\ i # 0 BY <4>3
        <5>2. g[m] = f[m] BY <5>1
        <5>3. g[i] = Step(f[m], s[i]) BY <5>1
        <5> QED BY <5>1, <5>2, <5>3
      <4> QED BY <4>1, <4>2, <4>3
    <3> HIDE DEF g
    <3>2. DOMAIN g = 0 .. (m + 1) /\ g = [i \in DOMAIN g |-> g[i]] BY DEF g
    <3> QED BY <3>1, <3>2
  <2> HIDE DEF g
  <2>3. m + 1 \in Nat OBVIOUS
  <2> QED BY <2>2, <2>3
<1> HIDE DEF T
<1>3. T = Nat
  <2>1. T \in SUBSET Nat BY DEF T
  <2> QED BY <1>1, <1>2, <2>1, Induction
<1> QED BY <1>3 DEF T, Reads

(* Reading, from one character to the next.                                   *)
LEMMA ReadingEquation ==
  ASSUME NEW from, NEW text \in Text
  PROVE  /\ Dos!Reading(from, text)[0] = [at |-> from, name |-> <<>>]
         /\ \A i \in 1 .. Len(text) :
              Dos!Reading(from, text)[i] = Step(Dos!Reading(from, text)[i - 1], text[i])
<1> DEFINE z == [at |-> from, name |-> <<>>]  r == Dos!Reading(from, text)
<1>1. Len(text) \in Nat BY TextLength
<1>2. r = CHOOSE f : Reads(f, text, z, Len(text)) BY DEF Dos!Reading, Step, Reads
<1>3. \E f : Reads(f, text, z, Len(text)) BY <1>1, ReadingExists
<1> HIDE DEF r, z
<1>4. r = [i \in 0 .. Len(text) |-> IF i = 0 THEN z ELSE Step(r[i - 1], text[i])]
  <2>1. Reads(r, text, z, Len(text)) BY <1>2, <1>3
  <2> QED BY <2>1 DEF Reads
<1>5. r[0] = z
  <2>1. 0 \in 0 .. Len(text) BY <1>1
  <2> QED BY <2>1, <1>4
<1>6. \A i \in 1 .. Len(text) : r[i] = Step(r[i - 1], text[i])
  <2>1. \A i \in 1 .. Len(text) : i \in 0 .. Len(text) /\ i # 0 BY <1>1
  <2> QED BY <2>1, <1>4
<1> QED BY <1>5, <1>6 DEF r, z

(* Texts without a separator, and the names of a directory. *)
Clean(x) == x \in Text /\ \A k \in 1 .. Len(x) : x[k] # "/" /\ x[k] # "\\"
Dir(names) ==
  /\ names \in NameList
  /\ \A i \in 1 .. Len(names) : Clean(names[i]) /\ names[i] \notin {<<>>, <<".">>, <<".", ".">>}

(* A directory has no separator in its names.                                 *)
LEMMA DirFree ==
  ASSUME NEW names, Dir(names)
  PROVE  names \in NameList /\ Free("/", names) /\ Free("\\", names)
<1>1. names \in NameList /\ DOMAIN names = 1 .. Len(names) BY DEF Dir, NameList
<1>2. ASSUME NEW i \in DOMAIN names PROVE Clean(names[i]) /\ DOMAIN names[i] = 1 .. Len(names[i])
  <2>1. names[i] \in Text BY <1>1 DEF NameList
  <2> QED BY <1>1, <2>1 DEF Dir, Text
<1> QED BY <1>1, <1>2 DEF Free, Clean

(* The root is a directory.                                                   *)
LEMMA DirEmpty == Dir(<<>>)
<1>1. <<>> \in Seq(Text) /\ Len(<<>>) = 0 OBVIOUS
<1> QED BY <1>1 DEF Dir, NameList

(* A name with one more character that is no separator.                       *)
LEMMA CleanMore ==
  ASSUME NEW x, Clean(x), NEW ch \in Char, ~Dos!IsSeparator(ch)
  PROVE  Clean(Append(x, ch))
<1>1. x \in Seq(Char) /\ Len(x) \in Nat BY DEF Clean, Text
<1>2. /\ Append(x, ch) \in Seq(Char) /\ Len(Append(x, ch)) = Len(x) + 1
      /\ \A k \in 1 .. Len(x) + 1 : Append(x, ch)[k] = IF k <= Len(x) THEN x[k] ELSE ch
  BY <1>1
<1>3. ch # "/" /\ ch # "\\" BY DEF Dos!IsSeparator
<1> DEFINE y == Append(x, ch)
<1> HIDE DEF y
<1>4. ASSUME NEW k \in 1 .. Len(y) PROVE y[k] # "/" /\ y[k] # "\\"
  <2>1. k \in 1 .. Len(x) + 1 /\ (k <= Len(x) => k \in 1 .. Len(x)) BY <1>1, <1>2 DEF y
  <2>2. y[k] = IF k <= Len(x) THEN x[k] ELSE ch BY <1>2, <2>1 DEF y
  <2> QED BY <2>1, <2>2, <1>3 DEF Clean
<1>5. y \in Text BY <1>2 DEF y, Text
<1> QED BY <1>4, <1>5 DEF Clean, y

(* Entering a name leads from a directory to one.                             *)
LEMMA EnterDir ==
  ASSUME NEW at, Dir(at), NEW x, Clean(x)
  PROVE  Dir(Dos!Enter(at, x))
<1>0. at \in NameList /\ x \in Text BY DEF Dir, Clean
<1>1. CASE x = <<".", ".">> /\ at # <<>>
  <2>1. Dos!Enter(at, x) = Front(at) BY <1>1, DosOperators DEF Dos!Enter
  <2> DEFINE f == Front(at)
  <2>2. /\ f \in NameList /\ Len(at) \in Nat \ {0} /\ Len(f) = Len(at) - 1
        /\ \A i \in 1 .. Len(at) - 1 : f[i] = at[i]
    BY <1>0, <1>1, LastName
  <2> HIDE DEF f
  <2>3. \A i \in 1 .. Len(f) : i \in 1 .. Len(at) /\ f[i] = at[i] BY <2>2
  <2>4. Dir(f) BY <2>2, <2>3 DEF Dir
  <2> QED BY <2>1, <2>4 DEF f
<1>2. CASE x = <<".", ".">> /\ at = <<>> BY <1>2, DirEmpty DEF Dos!Enter
<1>3. CASE x # <<".", ".">> /\ x \in {<<>>, <<".">>} BY <1>3 DEF Dos!Enter
<1>4. CASE x # <<".", ".">> /\ x \notin {<<>>, <<".">>}
  <2>1. Dos!Enter(at, x) = Append(at, x) BY <1>4 DEF Dos!Enter
  <2> DEFINE f == Append(at, x)
  <2>2. /\ f \in NameList /\ Len(at) \in Nat /\ Len(f) = Len(at) + 1
        /\ \A i \in 1 .. Len(at) + 1 : f[i] = IF i <= Len(at) THEN at[i] ELSE x
    <3>1. at \in Seq(Text) BY <1>0 DEF NameList
    <3> QED BY <3>1, <1>0 DEF NameList
  <2> HIDE DEF f
  <2>3. ASSUME NEW i \in 1 .. Len(f) 
        PROVE Clean(f[i]) /\ f[i] \notin {<<>>, <<".">>, <<".", ".">>}
    <3>1. CASE i <= Len(at)
      <4>1. i \in 1 .. Len(at) BY <3>1, <2>2
      <4> QED BY <4>1, <3>1, <2>2 DEF Dir
    <3>2. CASE ~(i <= Len(at)) BY <3>2, <2>2, <1>4
    <3> QED BY <3>1, <3>2
  <2>4. Dir(f) BY <2>2, <2>3 DEF Dir
  <2> QED BY <2>1, <2>4 DEF f
<1> QED BY <1>1, <1>2, <1>3, <1>4

(* What is read leads to directories.                                         *)
LEMMA ReadingDir ==
  ASSUME NEW from, Dir(from), NEW text \in Text
  PROVE  \A i \in 0 .. Len(text) :
           /\ Dir(Dos!Reading(from, text)[i].at) /\ Clean(Dos!Reading(from, text)[i].name)
<1> DEFINE r == Dos!Reading(from, text)
           T == {n \in Nat : n \in 0 .. Len(text) => Dir(r[n].at) /\ Clean(r[n].name)}
<1>0. /\ Len(text) \in Nat /\ r[0] = [at |-> from, name |-> <<>>]
      /\ \A i \in 1 .. Len(text) : r[i] = Step(r[i - 1], text[i])
  BY TextLength, ReadingEquation
<1>5. \A i \in 1 .. Len(text) : text[i] \in Char BY DEF Text
<1> HIDE DEF r
<1>1. 0 \in T
  <2>1. <<>> \in Text /\ Len(<<>>) = 0 BY DEF Text
  <2>2. Clean(<<>>) BY <2>1 DEF Clean
  <2> QED BY <2>2, <1>0
<1>2. ASSUME NEW n \in T PROVE n + 1 \in T
  <2>1. n \in Nat /\ n + 1 \in Nat OBVIOUS
  <2>2. SUFFICES ASSUME n + 1 \in 0 .. Len(text) PROVE Dir(r[n + 1].at) /\ Clean(r[n + 1].name)
    BY <2>1
  <2>3. n \in 0 .. Len(text) /\ n + 1 \in 1 .. Len(text) /\ n + 1 - 1 = n BY <2>1, <2>2
  <2>4. Dir(r[n].at) /\ Clean(r[n].name) BY <2>3
  <2>5. r[n + 1] = Step(r[n], text[n + 1]) /\ text[n + 1] \in Char BY <2>3, <1>0, <1>5
  <2> DEFINE q == r[n]  ch == text[n + 1]  s == r[n + 1]
  <2> HIDE DEF q, ch, s
  <2>6. Dir(q.at) /\ Clean(q.name) /\ ch \in Char /\ s = Step(q, ch) BY <2>4, <2>5 DEF q, ch, s
  <2>7. CASE Dos!IsSeparator(ch)
    <3>1. s = [at |-> Dos!Enter(q.at, q.name), name |-> <<>>] BY <2>6, <2>7 DEF Step
    <3>2. Dir(Dos!Enter(q.at, q.name)) BY <2>6, EnterDir
    <3>3. <<>> \in Text /\ Len(<<>>) = 0 BY DEF Text
    <3>4. Clean(<<>>) BY <3>3 DEF Clean
    <3> QED BY <3>1, <3>2, <3>4 DEF s
  <2>8. CASE ~Dos!IsSeparator(ch)
    <3>1. s = [at |-> q.at, name |-> Append(q.name, ch)] BY <2>6, <2>8 DEF Step
    <3>2. Clean(Append(q.name, ch)) BY <2>6, <2>8, CleanMore
    <3> QED BY <3>1, <3>2, <2>6 DEF s
  <2> QED BY <2>7, <2>8
<1>3. T = Nat
  <2>1. T \in SUBSET Nat OBVIOUS
  <2> HIDE DEF T
  <2> QED BY <1>1, <1>2, <2>1, Induction
<1> SUFFICES ASSUME NEW i \in 0 .. Len(text) PROVE Dir(r[i].at) /\ Clean(r[i].name) BY DEF r
<1>4. i \in T
  <2>1. i \in Nat OBVIOUS
  <2> HIDE DEF T
  <2> QED BY <2>1, <1>3
<1> QED BY <1>4

(* The text goes on with x, in which there is no separator.                   *)
GoesOn(text, a, x) == \A i \in 1 .. Len(x) : text[a + i] = x[i] /\ ~Dos!IsSeparator(x[i])

(* Characters that are no separators make up a name.                          *)
LEMMA ReadingRun ==
  ASSUME NEW from, NEW text \in Text, NEW a \in Nat, NEW x \in Text,
         NEW e \in Nat, e = a + Len(x), e <= Len(text),
         Dos!Reading(from, text)[a].name = <<>>,
         GoesOn(text, a, x)
  PROVE  /\ Dos!Reading(from, text)[e].at = Dos!Reading(from, text)[a].at
         /\ Dos!Reading(from, text)[e].name = x
<1> DEFINE r == Dos!Reading(from, text)  at == Dos!Reading(from, text)[a].at
           T == {n \in Nat : n <= Len(x) => r[a + n].at = at /\ r[a + n].name = SubSeq(x, 1, n)}
<1>0. /\ Len(text) \in Nat /\ Len(x) \in Nat
      /\ \A i \in 1 .. Len(text) : r[i] = Step(r[i - 1], text[i])
  BY TextLength, ReadingEquation
<1>6. r[a].name = <<>> /\ at = r[a].at OBVIOUS
<1>5. x \in Seq(Char) BY DEF Text
<1>8. \A i \in 1 .. Len(x) : text[a + i] = x[i] /\ ~Dos!IsSeparator(x[i]) BY DEF GoesOn
<1> HIDE DEF r, at
<1>1. 0 \in T
  <2>1. SubSeq(x, 1, 0) = <<>> BY <1>5
  <2>2. a + 0 = a OBVIOUS
  <2> QED BY <2>1, <2>2, <1>6
<1>2. ASSUME NEW n \in T PROVE n + 1 \in T
  <2>1. n \in Nat /\ n + 1 \in Nat OBVIOUS
  <2>2. SUFFICES ASSUME n + 1 <= Len(x) 
                 PROVE  r[a + (n + 1)].at = at /\ r[a + (n + 1)].name = SubSeq(x, 1, n + 1)
    BY <2>1
  <2>3. n + 1 \in 1 .. Len(x) /\ a + (n + 1) \in 1 .. Len(text) /\ a + (n + 1) - 1 = a + n BY <2>1, <2>2, <1>0
  <2> DEFINE y == SubSeq(x, 1, n)  z == SubSeq(x, 1, n + 1)  ch == x[n + 1]
  <2>4. r[a + n].at = at /\ r[a + n].name = y
    <3>1. n <= Len(x) BY <2>1, <2>2, <1>0
    <3> QED BY <3>1
  <2>5. r[a + (n + 1)] = Step(r[a + n], ch) /\ ~Dos!IsSeparator(ch) BY <2>3, <1>0, <1>8
  <2>6. z = Append(y, ch) BY <1>5, <2>1, <2>3
  <2> HIDE DEF y, z, ch
  <2>7. r[a + (n + 1)] = [at |-> at, name |-> Append(y, ch)] BY <2>4, <2>5 DEF Step
  <2>8. r[a + (n + 1)].at = at /\ r[a + (n + 1)].name = z BY <2>6, <2>7
  <2> QED BY <2>8 DEF z
<1>3. T = Nat
  <2>1. T \in SUBSET Nat OBVIOUS
  <2> HIDE DEF T
  <2> QED BY <1>1, <1>2, <2>1, Induction
<1>4. Len(x) \in T
  <2> HIDE DEF T
  <2> QED BY <1>0, <1>3
<1>7. SubSeq(x, 1, Len(x)) = x BY <1>5, SubSeqFull
<1> QED BY <1>0, <1>4, <1>7 DEF r, at

(* A path from a directory, spelled out from the root. *)
Whole(names, t) == (Spelled("\\", names) \o One("\\")) \o t

(* Characters and length of a directory with a text behind it.                *)
LEMMA WholeLayout ==
  ASSUME NEW names \in NameList, NEW t \in Text
  PROVE  LET w == Whole(names, t)  s == Len(Spelled("\\", names))
         IN /\ w \in Text /\ s \in Nat /\ Len(t) \in Nat /\ Len(w) = s + 1 + Len(t)
            /\ \A k \in 1 .. s : w[k] = Spelled("\\", names)[k]
            /\ w[s + 1] = "\\"
            /\ \A j \in 1 .. Len(t) : w[s + 1 + j] = t[j]
<1> DEFINE a == Spelled("\\", names)  o == One("\\")  b == a \o o  w == b \o t
<1>1. a \in Text /\ o \in Text /\ Len(o) = 1 /\ o[1] = "\\" BY Chars, SpelledText, OneText
<1> HIDE DEF a, o
<1>2. /\ b \in Text /\ Len(a) \in Nat /\ Len(b) = Len(a) + Len(o) /\ \A i \in 1 .. Len(a) : b[i] = a[i]
      /\ \A i \in 1 .. Len(o) : b[Len(a) + i] = o[i]
  BY <1>1, Joined
<1> HIDE DEF b
<1>3. /\ w \in Text /\ Len(t) \in Nat /\ Len(w) = Len(b) + Len(t) /\ \A i \in 1 .. Len(b) : w[i] = b[i]
      /\ \A i \in 1 .. Len(t) : w[Len(b) + i] = t[i]
  BY <1>2, Joined
<1> HIDE DEF w
<1>4. Len(b) = Len(a) + 1 BY <1>1, <1>2
<1>5. b[Len(a) + 1] = "\\"
  <2>1. 1 \in 1 .. Len(o) BY <1>1
  <2> QED BY <2>1, <1>1, <1>2
<1>6. Whole(names, t) = w BY DEF Whole, w, b, a, o
<1>7. \A k \in 1 .. Len(a) : w[k] = a[k]
  <2>1. \A k \in 1 .. Len(a) : k \in 1 .. Len(b) BY <1>4, <1>2
  <2> QED BY <2>1, <1>2, <1>3
<1>8. w[Len(a) + 1] = "\\"
  <2>1. Len(a) + 1 \in 1 .. Len(b) BY <1>4, <1>2
  <2> QED BY <2>1, <1>3, <1>5
<1>9. \A j \in 1 .. Len(t) : w[Len(a) + 1 + j] = t[j] BY <1>3, <1>4
<1>10. w \in Text /\ Len(a) \in Nat /\ Len(t) \in Nat /\ Len(w) = Len(a) + 1 + Len(t)
  BY <1>2, <1>3, <1>4
<1> QED BY <1>6, <1>7, <1>8, <1>9, <1>10 DEF a

(* Reading a directory leads there.                                           *)
LEMMA ReadingDirectory ==
  ASSUME NEW names, Dir(names), NEW t \in Text
  PROVE  Dos!Reading(<<>>, Whole(names, t))[Len(Spelled("\\", names)) + 1] = [at |-> names, name |-> <<>>]
<1> DEFINE w == Whole(names, t)  s == Len(Spelled("\\", names))  r == Dos!Reading(<<>>, w)
           T == {n \in Nat : n <= Len(names) => 
                   r[Size("\\", names, n) + 1] = [at |-> SubSeq(names, 1, n), name |-> <<>>]}
<1>0. names \in NameList /\ names \in Seq(Text) /\ Len(names) \in Nat /\ "\\" \in Char
  BY Chars, SizeEnds DEF Dir, NameList
<1>1. /\ w \in Text /\ s \in Nat /\ Len(t) \in Nat /\ Len(w) = s + 1 + Len(t)
      /\ \A k \in 1 .. s : w[k] = Spelled("\\", names)[k]
      /\ w[s + 1] = "\\"
  BY <1>0, WholeLayout
<1>2. /\ r[0] = [at |-> <<>>, name |-> <<>>] /\ \A i \in 1 .. Len(w) : r[i] = Step(r[i - 1], w[i])
  BY <1>1, ReadingEquation
<1>3. Size("\\", names, 0) = 0 /\ Size("\\", names, Len(names)) = s BY <1>0, SizeEnds
<1>4. \A n \in 0 .. Len(names) : /\ Size("\\", names, n) \in 0 .. s
                                 /\ w[Size("\\", names, n) + 1] = "\\"
  <2> SUFFICES ASSUME NEW n \in 0 .. Len(names)
               PROVE  Size("\\", names, n) \in 0 .. s /\ w[Size("\\", names, n) + 1] = "\\"
    OBVIOUS
  <2>1. Size("\\", names, n) \in Nat BY <1>0, SizeIsNat
  <2>2. Size("\\", names, n) <= s
    <3>1. Len(names) \in 0 .. Len(names) /\ n \in 0 .. Len(names) BY <1>0
    <3>2. Size("\\", names, n) <= Size("\\", names, Len(names)) BY <1>0, <3>1, SizeGrows
    <3> QED BY <3>2, <1>3
  <2>3. CASE Size("\\", names, n) = s BY <2>3, <1>1
  <2>4. CASE Size("\\", names, n) < s
    <3>1. Spelled("\\", names)[Size("\\", names, n) + 1] = "\\" BY <1>0, <2>4, NextSeparator
    <3>2. Size("\\", names, n) + 1 \in 1 .. s BY <2>1, <2>4, <1>1
    <3> QED BY <3>1, <3>2, <1>1, <2>1, <2>2
  <2> QED BY <2>1, <2>2, <2>3, <2>4, <1>1
<1>5. \A n \in 0 .. Len(names) : n + 1 \in 1 .. Len(names) =>
        LET x == names[n + 1] IN
        /\ Len(x) \in Nat /\ Size("\\", names, n + 1) = Size("\\", names, n) + 1 + Len(x)
        /\ \A i \in 1 .. Len(x) : w[Size("\\", names, n) + 1 + i] = x[i]
  <2> SUFFICES ASSUME NEW n \in 0 .. Len(names), n + 1 \in 1 .. Len(names)
      PROVE /\ Len(names[n + 1]) \in Nat
            /\ Size("\\", names, n + 1) = Size("\\", names, n) + 1 + Len(names[n + 1])
            /\ \A i \in 1 .. Len(names[n + 1]) : w[Size("\\", names, n) + 1 + i] = names[n + 1][i]
    OBVIOUS
  <2>1. n \in Nat OBVIOUS
  <2>2. /\ Size("\\", names, n) \in Nat /\ Len(names[n + 1]) \in Nat
        /\ Size("\\", names, n + 1) = Size("\\", names, n) + 1 + Len(names[n + 1])
        /\ Size("\\", names, n + 1) <= s
        /\ \A k \in 1 .. Len(names[n + 1]) :
              Spelled("\\", names)[Size("\\", names, n) + 1 + k] = names[n + 1][k]
    BY <1>0, <2>1, SizeStep
  <2>3. ASSUME NEW i \in 1 .. Len(names[n + 1]) PROVE w[Size("\\", names, n) + 1 + i] = names[n + 1][i]
    <3>1. Size("\\", names, n) + 1 + i \in 1 .. s BY <2>2, <1>1, SMTT(30)
    <3> QED BY <3>1, <2>2, <1>1
  <2> QED BY <2>2, <2>3
<1> HIDE DEF r, w, s
<1>6. 0 \in T
  <2>1. r[1] = Step(r[0], w[1])
    <3>1. 1 \in 1 .. Len(w) /\ 1 - 1 = 0 BY <1>1
    <3> QED BY <3>1, <1>2
  <2>2. w[1] = "\\"
    <3>1. 0 \in 0 .. Len(names) BY <1>0
    <3>2. w[Size("\\", names, 0) + 1] = "\\" BY <3>1, <1>4
    <3> QED BY <3>2, <1>3
  <2>3. Dos!Enter(<<>>, <<>>) = <<>> BY DEF Dos!Enter
  <2>4. r[1] = [at |-> <<>>, name |-> <<>>] BY <2>1, <2>2, <2>3, <1>2 DEF Step, Dos!IsSeparator
  <2>5. SubSeq(names, 1, 0) = <<>> BY <1>0
  <2> QED BY <2>4, <2>5, <1>3
<1>7. ASSUME NEW n \in T PROVE n + 1 \in T
  <2>1. n \in Nat /\ n + 1 \in Nat OBVIOUS
  <2> DEFINE m == n + 1
  <2>2. SUFFICES ASSUME m <= Len(names)
                 PROVE  r[Size("\\", names, m) + 1] = [at |-> SubSeq(names, 1, m), name |-> <<>>]
    BY <2>1
  <2>3. n \in 0 .. Len(names) /\ n + 1 \in 1 .. Len(names) /\ m \in 0 .. Len(names) BY <2>1, <2>2, <1>0
  <2> DEFINE x == names[n + 1]  a == Size("\\", names, n) + 1  b == Size("\\", names, m)  y == SubSeq(names, 1, n)
  <2>4. r[a] = [at |-> y, name |-> <<>>]
    <3>1. n <= Len(names) BY <2>3
    <3> QED BY <3>1, <2>1
  <2>5. a \in Nat /\ b \in 0 .. s /\ w[b + 1] = "\\" BY <2>3, <1>4
  <2>6. Len(x) \in Nat /\ b = a + Len(x) /\ \A i \in 1 .. Len(x) : w[a + i] = x[i] BY <2>3, <1>5
  <2>7. Clean(x) /\ x \notin {<<>>, <<".">>, <<".", ".">>} BY <2>3 DEF Dir
  <2>8. SubSeq(names, 1, m) = Append(y, x) BY <1>0, <2>1, <2>3
  <2> HIDE DEF x, a, b, y, m
  <2>9. r[a + Len(x)].at = y /\ r[a + Len(x)].name = x
    <3>1. x \in Text /\ a + Len(x) <= Len(w) BY <2>5, <2>6, <2>7, <1>1 DEF Clean
    <3>2. GoesOn(w, a, x) BY <2>6, <2>7 DEF Clean, Dos!IsSeparator, GoesOn
    <3>3. Dos!Reading(<<>>, w)[a] = [at |-> y, name |-> <<>>] BY <2>4 DEF r
    <3> DEFINE none == <<>>
    <3>4. Dos!Reading(none, w)[a].name = <<>> /\ Dos!Reading(none, w)[a].at = y
      BY <3>3
    <3> HIDE DEF none
    <3>5. w \in Text /\ a \in Nat BY <1>1, <2>5
    <3> DEFINE e == a + Len(x)
    <3>8. e \in Nat /\ e = a + Len(x) /\ e <= Len(w) BY <3>1, <3>5, <2>6
    <3> HIDE DEF e, T
    <3>7. Dos!Reading(none, w)[e].at = Dos!Reading(none, w)[a].at /\ Dos!Reading(none, w)[e].name = x
      BY <3>1, <3>2, <3>4, <3>5, <3>8, ReadingRun
    <3>6. Dos!Reading(none, w)[a + Len(x)].at = y /\ Dos!Reading(none, w)[a + Len(x)].name = x BY <3>4, <3>7 DEF e
    <3> QED BY <3>6 DEF r, none
  <2>10. r[b + 1] = Step(r[b], w[b + 1])
    <3> DEFINE i == b + 1
    <3>1. i \in 1 .. Len(w) /\ i - 1 = b BY <2>5, <1>1
    <3> HIDE DEF i
    <3>2. r[i] = Step(r[i - 1], w[i]) BY <3>1, <1>2
    <3> QED BY <3>1, <3>2 DEF i
  <2>11. Dos!Enter(y, x) = Append(y, x) BY <2>7 DEF Dos!Enter
  <2>12. r[b + 1] = [at |-> Append(y, x), name |-> <<>>]
    <3>1. r[b].at = y /\ r[b].name = x BY <2>6, <2>9
    <3> DEFINE l == r[b]
    <3>2. l.at = y /\ l.name = x BY <3>1
    <3>3. Step(l, "\\") = [at |-> Dos!Enter(l.at, l.name), name |-> <<>>]  BY DEF Step, Dos!IsSeparator
    <3> QED BY <2>5, <2>10, <2>11, <3>2, <3>3
  <2> QED BY <2>8, <2>12 DEF b
<1>8. T = Nat
  <2>1. T \in SUBSET Nat OBVIOUS
  <2> HIDE DEF T
  <2> QED BY <1>6, <1>7, <2>1, Induction
<1>9. Len(names) \in T
  <2> HIDE DEF T
  <2> QED BY <1>0, <1>8
<1>10. SubSeq(names, 1, Len(names)) = names BY <1>0, SubSeqFull
<1>11. r[s + 1] = [at |-> names, name |-> <<>>] BY <1>0, <1>3, <1>9, <1>10
<1> QED BY <1>11 DEF r, s, w

(* Reading goes on behind a directory as it does from it.                     *)
LEMMA ReadingFrom ==
  ASSUME NEW names, Dir(names), NEW t \in Text
  PROVE  /\ Len(Whole(names, t)) = Len(Spelled("\\", names)) + 1 + Len(t)
         /\ \A j \in 0 .. Len(t) :
              Dos!Reading(<<>>, Whole(names, t))[Len(Spelled("\\", names)) + 1 + j] = Dos!Reading(names, t)[j]
<1> DEFINE w == Whole(names, t)  s == Len(Spelled("\\", names))  r == Dos!Reading(<<>>, w)
           q == Dos!Reading(names, t)  T == {n \in Nat : n <= Len(t) => r[s + 1 + n] = q[n]}
<1>0. names \in NameList BY DEF Dir
<1>1. /\ w \in Text /\ s \in Nat /\ Len(t) \in Nat /\ Len(w) = s + 1 + Len(t)
      /\ \A j \in 1 .. Len(t) : w[s + 1 + j] = t[j]
  BY <1>0, WholeLayout
<1>2. \A i \in 1 .. Len(w) : r[i] = Step(r[i - 1], w[i]) BY <1>1, ReadingEquation
<1>3. q[0] = [at |-> names, name |-> <<>>] /\ \A i \in 1 .. Len(t) : q[i] = Step(q[i - 1], t[i])
  BY ReadingEquation
<1>4. r[s + 1] = [at |-> names, name |-> <<>>] BY ReadingDirectory
<1> HIDE DEF r, w, s, q
<1>6. 0 \in T
  <2>1. s + 1 + 0 = s + 1 BY <1>1
  <2> QED BY <2>1, <1>3, <1>4
<1>7. ASSUME NEW n \in T PROVE n + 1 \in T
  <2>1. n \in Nat /\ n + 1 \in Nat OBVIOUS
  <2>2. SUFFICES ASSUME n + 1 <= Len(t) PROVE r[s + 1 + (n + 1)] = q[n + 1] BY <2>1
  <2>3. n <= Len(t) /\ n + 1 \in 1 .. Len(t) /\ n + 1 - 1 = n BY <2>1, <2>2, <1>1
  <2>4. s + 1 + (n + 1) \in 1 .. Len(w) /\ s + 1 + (n + 1) - 1 = s + 1 + n BY <2>1, <2>3, <1>1
  <2>5. r[s + 1 + n] = q[n] BY <2>1, <2>3
  <2>6. w[s + 1 + (n + 1)] = t[n + 1] BY <2>3, <1>1
  <2>7. r[s + 1 + (n + 1)] = Step(r[s + 1 + n], w[s + 1 + (n + 1)])
    <3> DEFINE i == s + 1 + (n + 1)
    <3>1. i \in 1 .. Len(w) /\ i - 1 = s + 1 + n BY <2>4, <2>1, <1>1
    <3> HIDE DEF i
    <3>2. r[i] = Step(r[i - 1], w[i]) BY <3>1, <1>2
    <3> QED BY <3>1, <3>2 DEF i
  <2>8. q[n + 1] = Step(q[n], t[n + 1]) BY <2>3, <1>3
  <2> QED BY <2>5, <2>6, <2>7, <2>8
<1>8. T = Nat
  <2>1. T \in SUBSET Nat OBVIOUS
  <2> HIDE DEF T
  <2> QED BY <1>6, <1>7, <2>1, Induction
<1>9. \A j \in 0 .. Len(t) : j \in T
  <2> HIDE DEF T
  <2> QED BY <1>8
<1>10. \A j \in 0 .. Len(t) : r[s + 1 + j] = q[j] BY <1>9
<1> QED BY <1>1, <1>10 DEF r, s, w, q

(* A path from a directory means what the whole path means.                   *)
LEMMA WalkFrom ==
  ASSUME NEW names, Dir(names), NEW t \in Text
  PROVE  Dos!Walk(<<>>, Whole(names, t)) = Dos!Walk(names, t)
<1>1. Len(t) \in 0 .. Len(t) BY TextLength
<1>2. Dos!Reading(<<>>, Whole(names, t))[Len(Whole(names, t))] = Dos!Reading(names, t)[Len(t)]
  BY <1>1, ReadingFrom
<1> QED BY <1>2 DEF Dos!Walk

(* What a path means is a directory.                                          *)
LEMMA WalkDir ==
  ASSUME NEW names, Dir(names), NEW t \in Text PROVE Dir(Dos!Walk(names, t))
<1>1. Len(t) \in 0 .. Len(t) BY TextLength
<1>2. LET e == Dos!Reading(names, t)[Len(t)] IN Dir(e.at) /\ Clean(e.name) BY <1>1, ReadingDir
<1> QED BY <1>2, EnterDir DEF Dos!Walk

(* path_join turns every slash into a backslash.                              *)
LEMMA Backslash ==
  ASSUME NEW t \in Text
  PROVE  /\ Dos!Backslashed(t) \in Text /\ Len(Dos!Backslashed(t)) = Len(t)
         /\ \A k \in 1 .. Len(t) : Dos!Backslashed(t)[k] = IF t[k] = "/" THEN "\\" ELSE t[k]
<1>1. /\ DOMAIN t = 1 .. Len(t) /\ Len(t) \in Nat /\ \A k \in 1 .. Len(t) : t[k] \in Char
      /\ "\\" \in Char
  BY Chars DEF Text
<1> DEFINE b == Dos!Backslashed(t)
<1>2. b = [k \in 1 .. Len(t) |-> IF t[k] = "/" THEN "\\" ELSE t[k]] BY <1>1 DEF Dos!Backslashed
<1> HIDE DEF b
<1>3. b \in Seq(Char) /\ Len(b) = Len(t)
  <2>1. \A k \in 1 .. Len(t) : (IF t[k] = "/" THEN "\\" ELSE t[k]) \in Char BY <1>1
  <2> QED BY <2>1, <1>1, <1>2
<1> QED BY <1>2, <1>3 DEF b, Text

(* A character in no name and not the separator is not in the spelling.       *)
LEMMA SpelledFree ==
  ASSUME NEW c \in Char, NEW e, e # c, NEW names \in NameList, Free(e, names),
         NEW k \in 1 .. Len(Spelled(c, names))
  PROVE  Spelled(c, names)[k] # e
<1>1. PICK n \in Nat : /\ n + 1 \in 1 .. Len(names)
                       /\ Size(c, names, n) < k /\ k <= Size(c, names, n + 1)
  BY Located
<1>2. /\ Size(c, names, n) \in Nat /\ Len(names[n + 1]) \in Nat
      /\ Size(c, names, n + 1) = Size(c, names, n) + 1 + Len(names[n + 1])
      /\ Spelled(c, names)[Size(c, names, n) + 1] = c
      /\ \A j \in 1 .. Len(names[n + 1]) :
           Spelled(c, names)[Size(c, names, n) + 1 + j] = names[n + 1][j]
  BY <1>1, SizeStep
<1>3. CASE k = Size(c, names, n) + 1 BY <1>2, <1>3
<1>4. CASE k # Size(c, names, n) + 1
  <2> DEFINE j == k - (Size(c, names, n) + 1)
  <2>1. j \in 1 .. Len(names[n + 1]) /\ Size(c, names, n) + 1 + j = k
    <3>1. k \in Nat BY SpelledText, TextLength
    <3> DEFINE m == Size(c, names, n)
               l == Len(names[n + 1])
    <3>2. m \in Nat /\ l \in Nat /\ m < k /\ k <= m + 1 + l /\ k # m + 1 BY <1>1, <1>2, <1>4
    <3> HIDE DEF m, l
    <3>3. k - (m + 1) \in 1 .. l /\ m + 1 + (k - (m + 1)) = k BY <3>1, <3>2
    <3> QED BY <3>3 DEF m, l
  <2> HIDE DEF j
  <2>2. names[n + 1][j] # e BY <2>1, <1>1, FreeOf
  <2> QED BY <2>1, <2>2, <1>2
<1> QED BY <1>3, <1>4

(* The spelling of a directory does not end with a separator.                 *)
LEMMA SpelledLast ==
  ASSUME NEW c \in Char, NEW names, Dir(names), names # <<>>
  PROVE  LET last == Spelled(c, names)[Len(Spelled(c, names))] IN last # "/" /\ last # "\\"
<1>0. names \in NameList BY DEF Dir
<1> DEFINE n == Len(names) - 1  x == names[n + 1]
<1>1. n \in Nat /\ n + 1 = Len(names) /\ n + 1 \in 1 .. Len(names) BY <1>0, LastName
<1>2. Clean(x) /\ x # <<>> BY <1>1 DEF Dir
<1>3. Len(x) \in 1 .. Len(x) /\ Len(x) \in Nat BY <1>2 DEF Clean, Text
<1> HIDE DEF n
<1>4. /\ Size(c, names, n) \in Nat /\ Size(c, names, n + 1) = Size(c, names, n) + 1 + Len(x)
      /\ \A j \in 1 .. Len(x) : Spelled(c, names)[Size(c, names, n) + 1 + j] = x[j]
  BY <1>0, <1>1, SizeStep
<1>5. Size(c, names, n + 1) = Len(Spelled(c, names)) BY <1>0, <1>1, SizeEnds
<1> HIDE DEF x
<1>6. Spelled(c, names)[Len(Spelled(c, names))] = x[Len(x)] BY <1>3, <1>4, <1>5
<1> QED BY <1>2, <1>3, <1>6 DEF Clean

(* Only the root of a drive has three characters.                             *)
LEMMA DirLength ==
  ASSUME NEW c \in Char, NEW d \in Char, NEW names, Dir(names)
  PROVE  /\ Len(Guest(d, c, names)) > 3 <=> names # <<>>
         /\ names # <<>> => Len(Spelled(c, names)) > 1
<1>0. names \in NameList BY DEF Dir
<1>1. CASE names = <<>>
  <2>1. Len(Guest(d, c, names)) = IF names = <<>> THEN 3 ELSE 2 + Len(Spelled(c, names))
    BY <1>0, GuestLayout
  <2>2. Len(Guest(d, c, names)) = 3 BY <2>1, <1>1, Zenon
  <2> QED BY <2>2, <1>1
<1>2. CASE names # <<>>
  <2>1. Len(Spelled(c, names)) \in Nat BY <1>0, SpelledText, TextLength
  <2>2. 0 + 1 \in 1 .. Len(names) /\ 0 \in Nat BY <1>0, <1>2, LastName
  <2>3. /\ Size(c, names, 0) = 0 /\ Len(names[0 + 1]) \in Nat
        /\ Size(c, names, 0 + 1) = Size(c, names, 0) + 1 + Len(names[0 + 1])
        /\ Size(c, names, 0 + 1) <= Len(Spelled(c, names))
    BY <1>0, <2>2, SizeStep, SizeEnds
  <2>4. names[0 + 1] \in Text /\ names[0 + 1] # <<>> BY <2>2 DEF Dir, Clean
  <2>5. Len(names[0 + 1]) # 0 BY <2>4 DEF Text
  <2>6. Len(Spelled(c, names)) > 1 BY <2>1, <2>3, <2>5
  <2>7. Len(Guest(d, c, names)) = 2 + Len(Spelled(c, names)) BY <1>0, <1>2, GuestLayout
  <2> QED BY <1>2, <2>1, <2>6, <2>7
<1> QED BY <1>1, <1>2

(* The last character.                                                        *)
LEMMA LastOf ==
  ASSUME NEW t \in Text, t # <<>>
  PROVE  Dos!Last(t) = t[Len(t)] /\ Last(t) = t[Len(t)] /\ Len(t) \in 1 .. Len(t) /\ Len(t) \in Nat \ {0}
<1>1. Last(t) = t[Len(t)] BY DEF Last
<1>2. Len(t) \in Nat /\ Len(t) # 0 BY DEF Text
<1> QED BY <1>1, <1>2, DosOperators

(* What follows the letter and the colon in the combined path: every         *)
(* separator of the path has become a backslash.                             *)
Slashes(c, w) ==
  /\ c \in Text /\ Len(c) = 2 + Len(w)
  /\ \A k \in 1 .. Len(w) : c[2 + k] = IF Dos!IsSeparator(w[k]) THEN "\\" ELSE w[k]

(* path_join of the root and an absolute path.                                *)
LEMMA JoinAbsolute ==
  ASSUME NEW d \in Char, NEW t \in Text, t # <<>>, Dos!IsSeparator(t[1])
  PROVE  Slashes(Dos!Join(Dos!Root(d), Tail(t)), t)
<1> DEFINE r == Dos!Root(d)  y == Tail(t)  u == r \o y  c == Dos!Join(r, y)
<1>1. r \in Text /\ Len(r) = 3 /\ r[3] = "\\"
  <2> DEFINE none == <<>>
  <2>1. none \in NameList /\ none = <<>> BY DEF NameList
  <2> HIDE DEF none
  <2>2. Guest(d, "\\", none)[3] = "\\" BY <2>1, Chars, GuestLayout
  <2> QED BY <2>1, <2>2, RootText
<1>2. /\ y \in Text /\ Len(t) \in Nat \ {0} /\ Len(y) = Len(t) - 1
      /\ \A k \in 1 .. Len(y) : y[k] = t[k + 1]
  BY DEF Text
<1> HIDE DEF r, y
<1>3. /\ u \in Text /\ Len(u) = Len(r) + Len(y) /\ \A i \in 1 .. Len(r) : u[i] = r[i]
      /\ \A i \in 1 .. Len(y) : u[Len(r) + i] = y[i]
  BY <1>1, <1>2, Joined
<1>4. c = Dos!Backslashed(u)
  <2>1. r # <<>> BY <1>1
  <2>2. Dos!Last(r) = "\\" BY <1>1, <2>1, LastOf
  <2>3. Dos!IsSeparator(Dos!Last(r)) BY <2>2 DEF Dos!IsSeparator
  <2> QED BY <2>3 DEF Dos!Join
<1> HIDE DEF u, c
<1>5. /\ c \in Text /\ Len(c) = Len(u)
      /\ \A k \in 1 .. Len(u) : c[k] = IF u[k] = "/" THEN "\\" ELSE u[k]
  BY <1>3, <1>4, Backslash
<1>6. Len(u) = 2 + Len(t) BY <1>1, <1>2, <1>3
<1>7. ASSUME NEW k \in 1 .. Len(t) PROVE c[2 + k] = IF Dos!IsSeparator(t[k]) THEN "\\" ELSE t[k]
  <2>1. 2 + k \in 1 .. Len(u) BY <1>2, <1>6
  <2>2. c[2 + k] = IF u[2 + k] = "/" THEN "\\" ELSE u[2 + k] BY <2>1, <1>5
  <2>3. CASE k = 1
    <3>1. 3 \in 1 .. Len(r) /\ 2 + k = 3 BY <1>1, <2>3
    <3>2. u[2 + k] = "\\" BY <3>1, <1>1, <1>3
    <3> QED BY <3>2, <2>2, <2>3
  <2>4. CASE k # 1
    <3>1. k - 1 \in 1 .. Len(y) /\ Len(r) + (k - 1) = 2 + k /\ (k - 1) + 1 = k BY <1>1, <1>2, <2>4
    <3>2. u[2 + k] = t[k] BY <3>1, <1>2, <1>3, ZenonT(30)
    <3> QED BY <3>2, <2>2 DEF Dos!IsSeparator
  <2> QED BY <2>3, <2>4
<1> QED BY <1>5, <1>6, <1>7 DEF Slashes, c, r, y

(* path_join of the root and a current directory.                             *)
LEMMA JoinBase ==
  ASSUME NEW d \in Char, NEW names, Dir(names)
  PROVE  LET b == Dos!Join(Dos!Root(d), Dos!Spell(names)) IN
         /\ b \in Text /\ Len(b) = Len(Guest(d, "\\", names)) /\ Len(b) = 3 + Len(Dos!Spell(names))
         /\ \A k \in 1 .. Len(Spelled("\\", names)) : b[2 + k] = Spelled("\\", names)[k]
         /\ b[3] = "\\"
         /\ Dos!IsSeparator(Dos!Last(b)) <=> names = <<>>
<1> DEFINE r == Dos!Root(d)  y == Dos!Spell(names)  g == Guest(d, "\\", names)  b == Dos!Join(r, y)
           s == Spelled("\\", names)
<1>0. names \in NameList /\ Free("/", names) BY DirFree
<1>1. r \in Text /\ Len(r) = 3 /\ r # <<>> /\ r[3] = "\\" /\ y \in Text /\ Len(y) \in Nat
      /\ Len(y) = IF names = <<>> THEN 0 ELSE Len(s) - 1
  <2> DEFINE none == <<>>
  <2>1. none \in NameList /\ none = <<>> BY DEF NameList
  <2> HIDE DEF none
  <2>2. Guest(d, "\\", none)[3] = "\\" BY <2>1, Chars, GuestLayout
  <2>3. r \in Text /\ Len(r) = 3 /\ r[3] = "\\" BY <2>1, <2>2, RootText
  <2>4. y \in Text /\ Len(y) = IF names = <<>> THEN 0 ELSE Len(s) - 1 BY <1>0, DosRoot
  <2>5. r # <<>> BY <2>3
  <2> HIDE DEF r, y, s
  <2> QED BY <2>3, <2>4, <2>5, TextLength
<1>2. r \o y = g BY <1>0, DosRoot
<1>3. /\ g \in Text /\ Len(g) \in Nat /\ Len(g) >= 3 /\ g[3] = "\\"
      /\ Len(g) = IF names = <<>> THEN 3 ELSE 2 + Len(s)
      /\ \A k \in 1 .. Len(s) : g[2 + k] = s[k]
  BY <1>0, Chars, GuestLayout
<1>4. b = Dos!Backslashed(g)
  <2> HIDE DEF r, y, g
  <2>2. Dos!Last(r) = "\\" BY <1>1, LastOf
  <2>3. Dos!IsSeparator(Dos!Last(r)) BY <2>2 DEF Dos!IsSeparator
  <2> QED BY <2>3, <1>2 DEF Dos!Join
<1>5. s \in Text /\ Len(s) \in Nat BY <1>0, Chars, SpelledText, TextLength
<1>6. \A k \in 1 .. Len(s) : s[k] # "/" BY <1>0, Chars, SpelledFree
<1>7. names # <<>> => s[Len(s)] # "/" /\ s[Len(s)] # "\\" /\ Len(s) > 1 BY Chars, SpelledLast, DirLength
<1>8. names = <<>> => Len(s) = 0 BY SpelledEmpty
<1> HIDE DEF r, y, g, b, s
<1>9. /\ b \in Text /\ Len(b) = Len(g) /\ \A k \in 1 .. Len(g) : b[k] = IF g[k] = "/" THEN "\\" ELSE g[k]
  BY <1>3, <1>4, Backslash
<1>10. b[3] = "\\"
  <2>1. 3 \in 1 .. Len(g) BY <1>3
  <2> QED BY <2>1, <1>3, <1>9
<1>11. ASSUME NEW k \in 1 .. Len(s) PROVE b[2 + k] = s[k]
  <2>1. 2 + k \in 1 .. Len(g) BY <1>3, <1>5, <1>8
  <2> QED BY <2>1, <1>3, <1>6, <1>9
<1>12. Dos!Last(b) = b[Len(b)]
  <2>1. b # <<>> BY <1>3, <1>9
  <2> QED BY <2>1, <1>9, LastOf
<1>13. CASE names = <<>>
  <2>1. Dos!Last(b) = "\\" BY <1>3, <1>9, <1>10, <1>12, <1>13
  <2> QED BY <1>1, <1>3, <1>9, <1>10, <1>11, <1>13, <2>1 DEF b, g, s, r, y, Dos!IsSeparator
<1>14. CASE names # <<>>
  <2>1. Len(s) \in 1 .. Len(s) /\ Len(b) = 2 + Len(s) BY <1>3, <1>5, <1>7, <1>9, <1>14
  <2>2. Dos!Last(b) = s[Len(s)] BY <2>1, <1>11, <1>12
  <2>3. ~Dos!IsSeparator(Dos!Last(b)) BY <2>2, <1>7, <1>14 DEF Dos!IsSeparator
  <2>4. Len(b) = 3 + Len(y) BY <2>1, <1>1, <1>5, <1>14
  <2> QED BY <1>9, <1>10, <1>11, <1>14, <2>3, <2>4 DEF b, g, s, r, y
<1> QED BY <1>13, <1>14

(* path_join of a current directory and a relative path.                      *)
LEMMA JoinRelative ==
  ASSUME NEW d \in Char, NEW names, Dir(names), NEW t \in Text
  PROVE  LET b == Dos!Join(Dos!Root(d), Dos!Spell(names))
             c == Dos!Join(b, t)
         IN Slashes(c, Whole(names, t)) /\ Len(c) <= Len(b) + 1 + Len(t)
<1> DEFINE b == Dos!Join(Dos!Root(d), Dos!Spell(names))  c == Dos!Join(b, t)  w == Whole(names, t)
           s == Spelled("\\", names)  o == One("\\")
<1>0. names \in NameList BY DEF Dir
<1>1. /\ b \in Text /\ \A k \in 1 .. Len(s) : b[2 + k] = s[k] 
      /\ b[3] = "\\" /\ Len(b) = Len(Guest(d, "\\", names))
      /\ Dos!IsSeparator(Dos!Last(b)) <=> names = <<>>
  BY JoinBase
<1>2. Len(b) = IF names = <<>> THEN 3 ELSE 2 + Len(s) BY <1>0, <1>1, Chars, GuestLayout
<1>3. names = <<>> => Len(s) = 0 BY SpelledEmpty
<1>4. /\ w \in Text /\ Len(s) \in Nat /\ Len(t) \in Nat /\ Len(w) = Len(s) + 1 + Len(t)
      /\ \A k \in 1 .. Len(s) : w[k] = s[k]
      /\ w[Len(s) + 1] = "\\"
      /\ \A j \in 1 .. Len(t) : w[Len(s) + 1 + j] = t[j]
  BY <1>0, WholeLayout
<1>5. o \in Text /\ Len(o) = 1 /\ o[1] = "\\" BY Chars, OneText
<1>6. b # <<>>
  <2> HIDE DEF b, s
  <2>1. Len(b) # 0 BY <1>2, <1>4
  <2> QED BY <2>1
<1> DEFINE u == IF names = <<>> THEN b \o t ELSE (b \o o) \o t
<1>7. c = Dos!Backslashed(u) BY <1>1, <1>6 DEF Dos!Join, One
<1> HIDE DEF c, w, s, o, b
<1>8. /\ u \in Text /\ Len(u) = Len(s) + 3 + Len(t) /\ \A k \in 1 .. Len(s) : u[2 + k] = s[k]
      /\ u[Len(s) + 3] = "\\" /\ \A j \in 1 .. Len(t) : u[Len(s) + 3 + j] = t[j]
  <2>1. CASE names = <<>>
    <3>1. u = b \o t /\ Len(b) = 3 /\ Len(s) = 0 BY <2>1, <1>2, <1>3
    <3> HIDE DEF u
    <3>2. /\ b \o t \in Text /\ Len(b \o t) = Len(b) + Len(t)
          /\ \A i \in 1 .. Len(b) : (b \o t)[i] = b[i]
          /\ \A i \in 1 .. Len(t) : (b \o t)[Len(b) + i] = t[i]
      BY <1>1, Joined
    <3>3. /\ u \in Text /\ Len(u) = 3 + Len(t) /\ \A i \in 1 .. 3 : u[i] = b[i]
          /\ \A i \in 1 .. Len(t) : u[3 + i] = t[i]
      BY <3>1, <3>2
    <3>4. u[3] = "\\" 
      <4>1. 3 \in 1 .. 3 OBVIOUS
      <4> QED BY <4>1, <3>3, <1>1
    <3> QED BY <3>1, <3>3, <3>4
  <2>2. CASE names # <<>>
    <3> DEFINE h == b \o o
    <3>1. u = h \o t /\ Len(b) = 2 + Len(s) BY <2>2, <1>2
    <3> HIDE DEF u
    <3>2. /\ h \in Text /\ Len(h) = Len(b) + Len(o) /\ \A i \in 1 .. Len(b) : h[i] = b[i]
          /\ \A i \in 1 .. Len(o) : h[Len(b) + i] = o[i]
      BY <1>1, <1>5, Joined
    <3> HIDE DEF h
    <3>3. Len(h) = Len(s) + 3 /\ h[Len(s) + 3] = "\\"
      <4>1. 1 \in 1 .. Len(o) BY <1>5
      <4>2. h[Len(b) + 1] = "\\" BY <4>1, <3>2, <1>5
      <4>3. Len(b) + 1 = Len(s) + 3 /\ Len(h) = Len(s) + 3 BY <3>1, <3>2, <1>4, <1>5
      <4> QED BY <4>2, <4>3
    <3>4. \A k \in 1 .. Len(s) : h[2 + k] = s[k]
      <4>1. \A k \in 1 .. Len(s) : 2 + k \in 1 .. Len(b) BY <3>1, <1>4
      <4> QED BY <4>1, <3>2, <1>1
    <3> DEFINE v == h \o t
    <3>5. /\ v \in Text /\ Len(v) = Len(h) + Len(t) /\ \A i \in 1 .. Len(h) : v[i] = h[i]
          /\ \A i \in 1 .. Len(t) : v[Len(h) + i] = t[i]
      BY <3>2, Joined
    <3>6. u = v BY <3>1
    <3> HIDE DEF v
    <3>7. \A k \in 1 .. Len(s) : 2 + k \in 1 .. Len(h) BY <3>3, <1>4
    <3>8. Len(s) + 3 \in 1 .. Len(h) BY <3>3, <1>4
    <3>9. \A k \in 1 .. Len(s) : u[2 + k] = s[k] BY <3>4, <3>5, <3>6, <3>7
    <3>10. u[Len(s) + 3] = "\\" BY <3>3, <3>5, <3>6, <3>8
    <3>11. \A j \in 1 .. Len(t) : u[Len(s) + 3 + j] = t[j] BY <3>3, <3>5, <3>6
    <3>12. u \in Text /\ Len(u) = Len(s) + 3 + Len(t) BY <3>3, <3>5, <3>6
    <3> QED BY <3>9, <3>10, <3>11, <3>12
  <2> QED BY <2>1, <2>2
<1> HIDE DEF u
<1>9. \A k \in 1 .. Len(w) : u[2 + k] = w[k]
  <2> SUFFICES ASSUME NEW k \in 1 .. Len(w) PROVE u[2 + k] = w[k] OBVIOUS
  <2>1. CASE k <= Len(s)
    <3>1. k \in 1 .. Len(s) BY <2>1, <1>4
    <3> QED BY <3>1, <1>4, <1>8
  <2>2. CASE k = Len(s) + 1
    <3>1. 2 + k = Len(s) + 3 BY <2>2, <1>4
    <3> QED BY <3>1, <2>2, <1>4, <1>8
  <2>3. CASE k > Len(s) + 1
    <3> DEFINE j == k - (Len(s) + 1)
    <3>1. j \in 1 .. Len(t) /\ 2 + k = Len(s) + 3 + j /\ k = Len(s) + 1 + j BY <2>3, <1>4
    <3> HIDE DEF j
    <3>2. u[2 + k] = t[j] BY <3>1, <1>8
    <3>3. w[k] = t[j] BY <3>1, <1>4
    <3> QED BY <3>2, <3>3
  <2> QED BY <2>1, <2>2, <2>3, <1>4
<1>10. /\ c \in Text /\ Len(c) = Len(u) /\ \A k \in 1 .. Len(u) : c[k] = IF u[k] = "/" THEN "\\" ELSE u[k]
  BY <1>7, <1>8, Backslash
<1>11. ASSUME NEW k \in 1 .. Len(w) PROVE c[2 + k] = IF Dos!IsSeparator(w[k]) THEN "\\" ELSE w[k]
  <2>1. 2 + k \in 1 .. Len(u) BY <1>4, <1>8
  <2>2. c[2 + k] = IF u[2 + k] = "/" THEN "\\" ELSE u[2 + k] BY <2>1, <1>10
  <2>3. u[2 + k] = w[k] BY <1>9
  <2> QED BY <2>2, <2>3 DEF Dos!IsSeparator
<1>12. Len(c) = 2 + Len(w) BY <1>4, <1>8, <1>10
<1>13. Slashes(c, w) BY <1>10, <1>11, <1>12 DEF Slashes
<1>14. Len(c) <= Len(b) + 1 + Len(t) BY <1>2, <1>3, <1>4, <1>12
<1> QED BY <1>13, <1>14 DEF c, b, w

(* The end of the component that is read.                                     *)
LEMMA EndOfComponent ==
  ASSUME combined \in Text, read \in Nat, 1 <= read, read <= Len(combined)
  PROVE  /\ Dos!End \in Nat /\ read - 1 <= Dos!End /\ Dos!End <= Len(combined)
         /\ \A i \in read .. Dos!End : combined[i] # "\\"
         /\ Dos!End = Len(combined) \/ combined[Dos!End + 1] = "\\"
<1> DEFINE T == {e \in Nat : /\ read - 1 <= e /\ e <= Len(combined)
                             /\ e = Len(combined) \/ combined[e + 1] = "\\"}
           P(e) == /\ \A i \in read .. e : combined[i] # "\\"
                   /\ e = Len(combined) \/ combined[e + 1] = "\\"
<1>0. Len(combined) \in Nat BY TextLength
<1>1. Len(combined) \in T BY <1>0
<1>2. PICK m \in T : \A k \in T : m <= k
  <2>1. T \in SUBSET Nat /\ T # {} BY <1>1
  <2> HIDE DEF T
  <2> QED BY <2>1, Least
<1>3. m \in (read - 1) .. Len(combined) BY <1>0, <1>2
<1>4. P(m)
  <2>1. ASSUME NEW i \in read .. m PROVE combined[i] # "\\"
    <3>1. SUFFICES ASSUME combined[i] = "\\" PROVE FALSE OBVIOUS
    <3>2. i - 1 \in Nat /\ read - 1 <= i - 1 /\ i - 1 <= Len(combined) /\ (i - 1) + 1 = i /\ i - 1 < m
      BY <1>0, <1>2
    <3>3. i - 1 \in T BY <3>1, <3>2
    <3> QED BY <3>2, <3>3, <1>2
  <2> QED BY <2>1, <1>2
<1>5. Dos!End \in (read - 1) .. Len(combined) /\ P(Dos!End)
  <2>1. Dos!End = CHOOSE e \in (read - 1) .. Len(combined) : P(e) BY DEF Dos!End
  <2> HIDE DEF P
  <2> QED BY <2>1, <1>3, <1>4
<1> QED BY <1>0, <1>5

(* Characters and length of a piece of a text.                                *)
LEMMA Piece ==
  ASSUME NEW t \in Text, NEW a \in Nat, NEW e \in Nat, 1 <= a, a - 1 <= e, e <= Len(t)
  PROVE  /\ SubSeq(t, a, e) \in Text /\ Len(SubSeq(t, a, e)) = (e - a) + 1
         /\ \A i \in 1 .. (e - a) + 1 : SubSeq(t, a, e)[i] = t[(a + i) - 1]
<1>1. t \in Seq(Char) /\ Len(t) \in Nat BY DEF Text
<1> QED BY <1>1 DEF Text

(* The guest path of the parent is not longer.                                *)
LEMMA FrontShorter ==
  ASSUME NEW d \in Char, NEW names \in NameList, names # <<>>
  PROVE  Len(Guest(d, "\\", Front(names))) <= Len(Guest(d, "\\", names))
<1> DEFINE f == Front(names)  x == names[Len(names)]  g == Guest(d, "\\", f)  o == <<"\\">>
           h == g \o o
<1>1. f \in NameList /\ x \in Text /\ names = Append(f, x) /\ "\\" \in Char BY LastName, Chars
<1>2. g \in Text BY <1>1, GuestLayout
<1>3. o \in Text BY Chars, OneText DEF One
<1> HIDE DEF f, x
<1>4. Guest(d, "\\", Append(f, x)) = (IF f = <<>> THEN g ELSE h) \o x BY <1>1, GuestMore
<1>5. Guest(d, "\\", names) = (IF f = <<>> THEN g ELSE h) \o x BY <1>1, <1>4, Zenon
<1> HIDE DEF g, o
<1>6. h \in Text /\ Len(h) = Len(g) + Len(o) /\ Len(g) \in Nat /\ Len(o) \in Nat /\ Len(x) \in Nat
  BY <1>1, <1>2, <1>3, Joined
<1> HIDE DEF h
<1>7. Len(g \o x) = Len(g) + Len(x) /\ Len(h \o x) = Len(h) + Len(x) BY <1>1, <1>2, <1>6, Joined
<1>8. CASE f = <<>>
  <2>1. Guest(d, "\\", names) = g \o x BY <1>5, <1>8
  <2>2. Len(g) <= Len(Guest(d, "\\", names)) BY <2>1, <1>6, <1>7
  <2> QED BY <2>2 DEF g, f
<1>9. CASE f # <<>>
  <2>1. Guest(d, "\\", names) = h \o x BY <1>5, <1>9
  <2>2. Len(g) <= Len(Guest(d, "\\", names)) BY <2>1, <1>6, <1>7
  <2> QED BY <2>2 DEF g, f
<1> QED BY <1>8, <1>9

(* What FoldComponent writes for a component.                                 *)
Rewritten(text, x) ==
  CASE x = <<".", ".">> -> Dos!WithoutLast(text)
    [] x \in {<<>>, <<".">>} -> text
    [] OTHER -> (IF Len(text) > 3 THEN text \o <<"\\">> ELSE text) \o x

(* What path_canonical writes for a component is what entering its name       *)
(* means, and how much longer it is.                                          *)
LEMMA EnterWrites ==
  ASSUME NEW d \in Char, NEW at, Dir(at), NEW x, Clean(x), NEW text, text = Guest(d, "\\", at)
  PROVE  LET new == Rewritten(text, x)
         IN /\ new = Guest(d, "\\", Dos!Enter(at, x))
            /\ Len(text) \in Nat /\ Len(text) >= 3 /\ Len(new) \in Nat
            /\ \/ Len(new) <= Len(text)
               \/ Len(text) = 3 /\ Len(new) = 3 + Len(x)
               \/ Len(text) > 3 /\ Len(new) = Len(text) + 1 + Len(x)
<1> DEFINE new == Rewritten(text, x)
<1>0. at \in NameList /\ Free("\\", at) /\ x \in Text /\ "\\" \in Char BY DirFree, Chars DEF Clean
<1>1. text \in Text /\ Len(text) \in Nat /\ Len(text) >= 3 BY <1>0, GuestLayout
<1>2. Len(text) > 3 <=> at # <<>> BY <1>0, DirLength
<1>3. <<>> # <<".", ".">> /\ <<".">> # <<".", ".">> OBVIOUS
<1>4. CASE x = <<".", ".">>
  <2>1. new = Dos!WithoutLast(text) BY <1>4 DEF Rewritten
  <2>2. Dos!WithoutLast(Guest(d, "\\", at)) = Guest(d, "\\", IF at = <<>> THEN at ELSE Front(at))
    BY <1>0, GuestWithoutLast
  <2>3. Dos!Enter(at, x) = IF at = <<>> THEN at ELSE Front(at) BY <1>4, DosOperators DEF Dos!Enter
  <2>4. new = Guest(d, "\\", Dos!Enter(at, x)) BY <2>1, <2>2, <2>3, Zenon
  <2>5. Len(new) <= Len(text)
    <3>1. CASE at = <<>>
      <4>1. new = text BY <2>3, <2>4, <3>1
      <4> QED BY <4>1, <1>1
    <3>2. CASE at # <<>>
      <4>1. new = Guest(d, "\\", Front(at)) BY <2>3, <2>4, <3>2
      <4>2. Len(Guest(d, "\\", Front(at))) <= Len(Guest(d, "\\", at)) BY <1>0, <3>2, FrontShorter
      <4> QED BY <4>1, <4>2
    <3> QED BY <3>1, <3>2
  <2>6. Len(new) \in Nat
    <3>1. Dos!Enter(at, x) \in NameList BY EnterDir DEF Dir
    <3> QED BY <3>1, <2>4, <1>0, GuestLayout
  <2> QED BY <2>4, <2>5, <2>6, <1>1
<1>5. CASE x \in {<<>>, <<".">>}
  <2>1. new = text BY <1>3, <1>5 DEF Rewritten
  <2>2. Dos!Enter(at, x) = at BY <1>3, <1>5 DEF Dos!Enter
  <2>3. new = Guest(d, "\\", Dos!Enter(at, x)) BY <2>1, <2>2
  <2> HIDE DEF new
  <2>4. Len(new) = Len(text) BY <2>1
  <2>5. Len(new) \in Nat /\ Len(new) <= Len(text) BY <2>4, <1>1
  <2> QED BY <2>3, <2>5, <1>1 DEF new
<1>6. CASE x # <<".", ".">> /\ x \notin {<<>>, <<".">>}
  <2> DEFINE h == text \o <<"\\">>
  <2>1. new = (IF Len(text) > 3 THEN h ELSE text) \o x BY <1>6 DEF Rewritten
  <2>2. Dos!Enter(at, x) = Append(at, x) BY <1>6 DEF Dos!Enter
  <2>3. Guest(d, "\\", Append(at, x)) =
          (IF at = <<>> THEN Guest(d, "\\", at) ELSE Guest(d, "\\", at) \o <<"\\">>) \o x
    BY <1>0, GuestMore
  <2>4. new = Guest(d, "\\", Dos!Enter(at, x))
    <3>1. CASE at = <<>>
      <4>1. new = text \o x BY <2>1, <1>2, <3>1
      <4>2. Guest(d, "\\", Append(at, x)) = text \o x BY <2>3, <3>1
      <4> QED BY <4>1, <4>2, <2>2
    <3>2. CASE at # <<>>
      <4>1. new = h \o x BY <2>1, <1>2, <3>2
      <4>2. Guest(d, "\\", Append(at, x)) = h \o x BY <2>3, <3>2
      <4> QED BY <4>1, <4>2, <2>2
    <3> QED BY <3>1, <3>2
  <2> DEFINE o == <<"\\">>
  <2>5. o \in Text /\ Len(o) = 1 BY Chars, OneText DEF One
  <2>6. h \in Text /\ Len(h) = Len(text) + 1
    <3> HIDE DEF o
    <3>1. text \o o \in Text /\ Len(text \o o) = Len(text) + Len(o) BY <1>1, <2>5, Joined
    <3> QED BY <3>1, <2>5 DEF o
  <2> HIDE DEF h
  <2>7. Len(text \o x) = Len(text) + Len(x) /\ Len(h \o x) = Len(h) + Len(x) /\ Len(x) \in Nat
    BY <1>0, <1>1, <2>6, Joined
  <2>8. /\ Len(new) \in Nat
        /\ \/ Len(text) = 3 /\ Len(new) = 3 + Len(x)
           \/ Len(text) > 3 /\ Len(new) = Len(text) + 1 + Len(x)
    <3> DEFINE v == IF Len(text) > 3 THEN h ELSE text
    <3>1. CASE Len(text) > 3
      <4>1. new = h \o x BY <2>1, <3>1
      <4> HIDE DEF new
      <4>2. Len(new) = Len(text) + 1 + Len(x) BY <4>1, <2>6, <2>7, <1>1
      <4> QED BY <4>2, <3>1, <2>7, <1>1
    <3>2. CASE ~(Len(text) > 3)
      <4>1. new = text \o x BY <2>1, <3>2
      <4> HIDE DEF new
      <4>2. Len(new) = Len(text) + Len(x) BY <4>1, <2>7
      <4> DEFINE n == Len(text)
      <4>5. n \in Nat /\ n >= 3 /\ ~(n > 3) BY <3>2, <1>1
      <4> HIDE DEF n
      <4>6. n = 3 BY <4>5
      <4>3. Len(text) = 3 BY <4>6 DEF n
      <4>4. Len(new) = 3 + Len(x) /\ Len(x) \in Nat BY <4>2, <4>3, <2>7
      <4>7. Len(new) \in Nat BY <4>4
      <4> QED BY <4>3, <4>4, <4>7
    <3> QED BY <3>1, <3>2
  <2> HIDE DEF new
  <2> QED BY <2>4, <2>8, <1>1 DEF new
<1> QED BY <1>4, <1>5, <1>6

(* One component: what is written is what has been read means, and the write  *)
(* pointer stays behind the read pointer.                                     *)
LEMMA FoldStep ==
  ASSUME NEW d \in Char, NEW w \in Text, Slashes(combined, w), Len(w) >= 1,
         read \in Nat, 4 <= read, read <= Len(combined), 
         Dos!Reading(<<>>, w)[read - 3].name = <<>>,
         folded = Guest(d, "\\", Dos!Reading(<<>>, w)[read - 3].at),
         Len(folded) <= read - 1, Len(folded) > 3 => Len(folded) <= read - 2
  PROVE  LET x == Dos!Component
             new == Rewritten(folded, x)
             next == IF Dos!End < Len(combined) THEN Dos!End + 2 ELSE Dos!End + 1
         IN /\ next \in Nat /\ 4 <= next /\ next <= Len(combined) + 1
            /\ next <= Len(combined) =>
                 /\ Dos!Reading(<<>>, w)[next - 3].name = <<>>
                 /\ new = Guest(d, "\\", Dos!Reading(<<>>, w)[next - 3].at)
                 /\ Len(new) > 3 => Len(new) <= next - 2
            /\ next > Len(combined) => new = Guest(d, "\\", Dos!Walk(<<>>, w))
            /\ Len(new) <= next - 1
<1> DEFINE none == <<>>  r == Dos!Reading(none, w)  at == r[read - 3].at  x == Dos!Component  e == Dos!End
           new == Rewritten(folded, x)
           next == IF e < Len(combined) THEN e + 2 ELSE e + 1
<1>1. /\ combined \in Text /\ Len(combined) = 2 + Len(w) /\ Len(w) \in Nat
      /\ \A k \in 1 .. Len(w) : combined[2 + k] = IF Dos!IsSeparator(w[k]) THEN "\\" ELSE w[k]
  BY TextLength DEF Slashes
<1>2. /\ e \in Nat /\ read - 1 <= e /\ e <= Len(combined)
      /\ \A i \in read .. e : combined[i] # "\\"
      /\ e = Len(combined) \/ combined[e + 1] = "\\"
  <2>1. combined \in Text /\ read \in Nat /\ 1 <= read /\ read <= Len(combined) BY <1>1
  <2> QED BY <2>1, EndOfComponent
<1>3. /\ x \in Text /\ Len(x) = (e - read) + 1 /\ Len(x) \in Nat
      /\ \A i \in 1 .. Len(x) : x[i] = combined[(read + i) - 1]
  <2>1. x = SubSeq(combined, read, e) BY DEF Dos!Component
  <2> HIDE DEF x, e
  <2>2. 1 <= read BY <1>1
  <2>3. /\ SubSeq(combined, read, e) \in Text /\ Len(SubSeq(combined, read, e)) = (e - read) + 1
        /\ \A i \in 1 .. (e - read) + 1 : SubSeq(combined, read, e)[i] = combined[(read + i) - 1]
    BY <1>1, <1>2, <2>2, Piece
  <2>4. (e - read) + 1 \in Nat BY <1>2
  <2> QED BY <2>1, <2>3, <2>4
<1>4. Dir(at) /\ r[read - 3].name = <<>>
  <2>1. read - 3 \in 0 .. Len(w) BY <1>1
  <2>2. Dir(none) BY DirEmpty
  <2>3. r[read - 3].name = <<>> OBVIOUS
  <2> HIDE DEF none
  <2>4. \A i \in 0 .. Len(w) : Dir(Dos!Reading(none, w)[i].at) BY <2>2, ReadingDir
  <2> QED BY <2>1, <2>3, <2>4
<1>5. folded = Guest(d, "\\", at) OBVIOUS
<1>6. \A i \in 1 .. Len(w) : r[i] = Step(r[i - 1], w[i]) 
  <2> HIDE DEF none
  <2> QED BY ReadingEquation
<1>20. Len(folded) <= read - 1 /\ (Len(folded) > 3 => Len(folded) <= read - 2) /\ 4 <= read 
       /\ read \in Nat /\ read <= Len(combined)
  OBVIOUS
<1> HIDE DEF x, e, at
<1>7. \A i \in 1 .. Len(x) : w[(read - 3) + i] = x[i] /\ ~Dos!IsSeparator(x[i])
  <2> SUFFICES ASSUME NEW i \in 1 .. Len(x) PROVE w[(read - 3) + i] = x[i] /\ ~Dos!IsSeparator(x[i])
    OBVIOUS
  <2> DEFINE k == (read - 3) + i  c == combined[2 + k]
  <2>1. k \in 1 .. Len(w) /\ 2 + k = (read + i) - 1 /\ 2 + k \in read .. e BY <1>1, <1>2, <1>3
  <2> HIDE DEF k
  <2>2. x[i] = c /\ c # "\\" BY <2>1, <1>2, <1>3
  <2>3. c = IF Dos!IsSeparator(w[k]) THEN "\\" ELSE w[k] BY <2>1, <1>1
  <2> HIDE DEF c
  <2>4. c = w[k] /\ ~Dos!IsSeparator(w[k]) BY <2>2, <2>3
  <2> QED BY <2>2, <2>4 DEF k
<1>8. Clean(x) BY <1>3, <1>7 DEF Clean, Dos!IsSeparator
<1>9. r[e - 2].at = at /\ r[e - 2].name = x
  <2> DEFINE a == read - 3  z == e - 2
  <2>1. a \in Nat /\ z \in Nat /\ z = a + Len(x) /\ z <= Len(w)
    <3> DEFINE lx == Len(x)  lw == Len(w)  lc == Len(combined)
    <3>1. /\ lc = 2 + lw /\ lw \in Nat /\ e \in Nat /\ e <= lc /\ lx = (e - read) + 1 /\ lx \in Nat
          /\ read \in Nat /\ 4 <= read /\ read - 1 <= e
      BY <1>1, <1>2, <1>3
    <3> HIDE DEF lx, lw, lc
    <3>2. a \in Nat /\ z \in Nat BY <3>1
    <3>3. z = a + lx BY <3>1
    <3>4. z <= lw BY <3>1
    <3> HIDE DEF a, z
    <3> QED BY <3>2, <3>3, <3>4 DEF lx, lw
  <2>2. GoesOn(w, a, x) BY <1>7 DEF GoesOn
  <2>3. Dos!Reading(none, w)[a].name = <<>> BY <1>4
  <2> HIDE DEF none, a, z
  <2>4. Dos!Reading(none, w)[z].at = Dos!Reading(none, w)[a].at /\ Dos!Reading(none, w)[z].name = x
    <3>1. x \in Text /\ w \in Text BY <1>3
    <3>2. a \in Nat /\ z \in Nat BY <2>1
    <3>3. z = a + Len(x) BY <2>1
    <3>4. z <= Len(w) BY <2>1
    <3> QED BY <3>1, <3>2, <3>3, <3>4, <2>2, <2>3, ReadingRun
  <2> QED BY <2>4 DEF r, at, a, z
<1>10. /\ new = Guest(d, "\\", Dos!Enter(at, x))
       /\ Len(folded) \in Nat /\ Len(folded) >= 3 /\ Len(new) \in Nat
       /\ \/ Len(new) <= Len(folded)
          \/ Len(folded) = 3 /\ Len(new) = 3 + Len(x)
          \/ Len(folded) > 3 /\ Len(new) = Len(folded) + 1 + Len(x)
  <2>1. Dir(at) /\ Clean(x) /\ folded = Guest(d, "\\", at) BY <1>4, <1>5, <1>8
  <2> HIDE DEF new
  <2>2. LET nw == Rewritten(folded, x)
         IN /\ nw = Guest(d, "\\", Dos!Enter(at, x))
            /\ Len(folded) \in Nat /\ Len(folded) >= 3 /\ Len(nw) \in Nat
            /\ \/ Len(nw) <= Len(folded)
               \/ Len(folded) = 3 /\ Len(nw) = 3 + Len(x)
               \/ Len(folded) > 3 /\ Len(nw) = Len(folded) + 1 + Len(x)
    BY <2>1, EnterWrites
  <2> QED BY <2>2 DEF new
<1>11. Len(new) <= next - 1 /\ (next <= Len(combined) => Len(new) <= next - 2)
       /\ next \in Nat /\ 4 <= next /\ next <= Len(combined) + 1
  <2> HIDE DEF new
  <2>1. Len(combined) \in Nat BY <1>1
  <2>2. next \in Nat /\ read + 1 <= next /\ next <= Len(combined) + 1 /\ e <= next - 1 
        /\ (next <= Len(combined) => e = next - 2)
    BY <2>1, <1>2, <1>20
  <2> HIDE DEF next
  <2>3. CASE Len(new) <= Len(folded) BY <2>1, <2>2, <2>3, <1>10, <1>20
  <2>4. CASE Len(folded) = 3 /\ Len(new) = 3 + Len(x)
    <3>1. Len(new) <= e BY <2>4, <1>2, <1>3, <1>20
    <3> QED BY <3>1, <2>2, <1>2, <1>10, <1>20
  <2>5. CASE Len(folded) > 3 /\ Len(new) = Len(folded) + 1 + Len(x)
    <3>1. Len(new) <= e BY <2>5, <1>2, <1>3, <1>10, <1>20, SMTT(30)
    <3> QED BY <3>1, <2>2, <1>2, <1>10, <1>20
  <2> QED BY <2>3, <2>4, <2>5, <1>10
<1>12. CASE e < Len(combined)
  <2>1. next = e + 2 /\ next - 3 = e - 1 /\ e - 1 \in 1 .. Len(w) /\ (e - 1) - 1 = e - 2 /\ 2 + (e - 1) = e + 1
    BY <1>12, <1>1, <1>2, <1>20
  <2> DEFINE i == e - 1
  <2>2. i \in 1 .. Len(w) /\ i - 1 = e - 2 /\ 2 + i = e + 1 BY <2>1
  <2> HIDE DEF i
  <2>3. combined[2 + i] = "\\"
    <3>1. e # Len(combined) BY <1>12, <1>1, <1>2
    <3> QED BY <3>1, <2>2, <1>2
  <2>4. combined[2 + i] = IF Dos!IsSeparator(w[i]) THEN "\\" ELSE w[i] BY <2>2, <1>1
  <2>5. Dos!IsSeparator(w[i]) BY <2>3, <2>4 DEF Dos!IsSeparator
  <2>6. r[i] = Step(r[i - 1], w[i]) BY <2>2, <1>6
  <2> DEFINE l == r[i - 1]
  <2>7. l.at = at /\ l.name = x BY <2>2, <1>9
  <2>8. Step(l, w[i]) = [at |-> Dos!Enter(l.at, l.name), name |-> <<>>] BY <2>5 DEF Step
  <2> HIDE DEF r, l, new
  <2>9. Step(l, w[i]).at = Dos!Enter(at, x) /\ Step(l, w[i]).name = <<>> BY <2>7, <2>8
  <2>10. r[i] = Step(l, w[i]) BY <2>6 DEF l
  <2>11. r[i].at = Dos!Enter(at, x) /\ r[i].name = <<>> BY <2>9, <2>10
  <2>12. next <= Len(combined) =>
           /\ r[next - 3].name = <<>> /\ new = Guest(d, "\\", r[next - 3].at) /\ Len(new) <= next - 2
    BY <2>1, <2>11, <1>10, <1>11 DEF i
  <2>13. next > Len(combined) => new = Guest(d, "\\", Dos!Walk(none, w))
    <3>1. SUFFICES ASSUME next > Len(combined) PROVE new = Guest(d, "\\", Dos!Walk(none, w)) OBVIOUS
    <3>2. i = Len(w) BY <3>1, <2>1, <2>2, <1>1, <1>2, <1>12
    <3>3. Dos!Walk(none, w) = Dos!Enter(r[i].at, r[i].name) BY <3>2 DEF Dos!Walk, r
    <3>4. \A q : Dos!Enter(q, <<>>) = q BY DEF Dos!Enter
    <3>5. Dos!Walk(none, w) = Dos!Enter(at, x) BY <3>3, <3>4, <2>11
    <3> QED BY <3>5, <1>10
  <2> QED BY <2>12, <2>13, <1>11 DEF new, r, x, e
<1>13. CASE e = Len(combined)
  <2>1. next = Len(combined) + 1 /\ e - 2 = Len(w) BY <1>13, <1>1, <1>2
  <2>2. Dos!Walk(none, w) = Dos!Enter(r[e - 2].at, r[e - 2].name) BY <2>1 DEF Dos!Walk
  <2> HIDE DEF new, r
  <2>3. Dos!Walk(none, w) = Dos!Enter(at, x) BY <2>2, <1>9
  <2>4. new = Guest(d, "\\", Dos!Walk(none, w)) BY <2>3, <1>10
  <2>5. next > Len(combined) BY <2>1, <1>1
  <2> QED BY <2>4, <2>5, <1>11, <1>1 DEF new, r, x, e
<1>14. e < Len(combined) \/ e = Len(combined) BY <1>2, <1>1
<1> QED BY <1>12, <1>13, <1>14

-----------------------------------------------------------------------------
(* Where the path starts, and the whole path from the root of its drive.     *)
Home == IF Dos!IsAbsolute THEN <<>> ELSE dosCwd[Dos!Drive]
Walked == IF Dos!IsAbsolute THEN given.text ELSE Whole(dosCwd[Dos!Drive], given.text)
OnADrive == Dos!IsAbsolute \/ Dos!Drive \in Drives

(* The request is one that AccPathDos starts with.                            *)
DosRequest ==
  /\ given.text \in Texts /\ given.drive \in Drives \cup {NoDrive, NotADrive}
  /\ output \in BOOLEAN /\ current \in Drives
  /\ \A x \in Drives : dosCwd[x] \in Directories /\ (x # current => dosCwd[x] = <<>>)

(* What is written is what the part that has been read means; the write       *)
(* pointer stays behind the read pointer, so the text never overtakes itself. *)
DosFolding ==
  folding = "fold" =>
    /\ OnADrive /\ Slashes(combined, Walked) /\ Len(combined) < ACC_PATH
    /\ Len(Walked) >= 1 /\ Dos!IsSeparator(Walked[1])
    /\ read \in Nat /\ 4 <= read /\ read <= Len(combined) + 1
    /\ read <= Len(combined) =>
         /\ Dos!Reading(<<>>, Walked)[read - 3].name = <<>>
         /\ folded = Guest(Dos!Drive, "\\", Dos!Reading(<<>>, Walked)[read - 3].at)
         /\ Len(folded) > 3 => Len(folded) <= read - 2
    /\ read > Len(combined) => folded = Guest(Dos!Drive, "\\", Dos!Meant)
    /\ Len(folded) <= read - 1

(* All has been read.                                                         *)
DosFolded ==
  /\ folding \in {"parent", "accepted"} =>
       OnADrive /\ folded = Guest(Dos!Drive, "\\", Dos!Meant)
  /\ folding = "parent" => output /\ Dos!Meant # <<>>

(* The buffers hold a guest path that fits.                                   *)
DosBuffers ==
  /\ folding \in {"start", "fold", "parent", "accepted", "refused"}
  /\ Len(combined) \in Nat /\ Len(combined) < ACC_PATH
  /\ read \in 1 .. (Len(combined) + 1)
  /\ \/ folded = <<>>
     \/ Len(folded) < ACC_PATH /\ \E names : Dir(names) /\ folded = Guest(Dos!Drive, "\\", names)
  /\ folding = "start" => combined = <<>> /\ read = 1 /\ folded = <<>>

(* The inductive invariant of path_canonical on DOS.                          *)
DosInv ==
  /\ system \in {"unix", "dos"}
  /\ system = "dos" =>
       DosRequest /\ DosFolding /\ DosFolded /\ DosBuffers /\ Dos!OutputNeedsItsParent

(* A sequence of some of the characters is a text.                            *)
LEMMA TextIn ==
  ASSUME NEW A, A \subseteq Char, NEW t \in Seq(A)
  PROVE  t \in Text /\ \A k \in 1 .. Len(t) : t[k] \in A
<1>1. Len(t) \in Nat /\ DOMAIN t = 1 .. Len(t) /\ \A k \in 1 .. Len(t) : t[k] \in A OBVIOUS
<1>2. t = [k \in 1 .. Len(t) |-> t[k]] BY <1>1
<1>3. [k \in 1 .. Len(t) |-> t[k]] \in Seq(Char) BY <1>1
<1> QED BY <1>1, <1>2, <1>3 DEF Text

(* The directories of the disk are directories.                               *)
LEMMA DirectoryIsDir == ASSUME NEW names \in Directories PROVE Dir(names)
<1>1. /\ names \in Seq(Seq(STRING)) /\ \A i \in DOMAIN names : Dos!DirectoryName(names[i])
  BY DosPathAssumption DEF Dos!DosAssumption
<1>2. Len(names) \in Nat /\ DOMAIN names = 1 .. Len(names) BY <1>1
<1> DEFINE A == STRING \ {"/", "\\"}
<1>3. A \subseteq Char /\ "/" \notin A /\ "\\" \notin A BY DEF Char
<1> HIDE DEF A
<1>4. ASSUME NEW i \in 1 .. Len(names)
      PROVE  Clean(names[i]) /\ names[i] \notin {<<>>, <<".">>, <<".", ".">>}
  <2>1. names[i] \in Seq(A) /\ names[i] \notin {<<>>, <<".">>, <<".", ".">>}
    BY <1>1, <1>2 DEF Dos!DirectoryName, A
  <2>2. names[i] \in Text /\ \A k \in 1 .. Len(names[i]) : names[i][k] \in A BY <2>1, <1>3, TextIn
  <2> QED BY <2>1, <2>2, <1>3 DEF Clean
<1>5. names \in Seq(Text)
  <2>1. \A i \in 1 .. Len(names) : names[i] \in Text BY <1>4 DEF Clean
  <2>2. names = [i \in 1 .. Len(names) |-> names[i]] BY <1>1
  <2>3. [i \in 1 .. Len(names) |-> names[i]] \in Seq(Text) BY <2>1, <1>2
  <2> QED BY <2>2, <2>3
<1> QED BY <1>4, <1>5 DEF Dir, NameList

(* What the request means.                                                    *)
LEMMA DosFacts ==
  ASSUME DosRequest
  PROVE  /\ given.text \in Text /\ Dos!Drive \in Char
         /\ Dos!IsAbsolute => given.text # <<>> /\ Dos!IsSeparator(given.text[1])
         /\ OnADrive => /\ Dir(Home) /\ Dir(Dos!Meant) /\ Walked \in Text
                        /\ Dos!Walk(<<>>, Walked) = Dos!Meant
<1>1. given.text \in Text
  <2>1. given.text \in Seq(STRING) BY DosPathAssumption DEF DosRequest, Dos!DosAssumption
  <2>2. STRING \subseteq Char BY DEF Char
  <2> QED BY <2>1, <2>2, TextIn
<1>2. Dos!Drive \in Char
  <2>1. Drives \cup {NotADrive} \subseteq STRING BY DosPathAssumption DEF Dos!DosAssumption
  <2>2. Drives \cup {NotADrive} \subseteq Char BY <2>1 DEF Char
  <2>3. Dos!Drive \in Drives \cup {NotADrive} BY DEF DosRequest, Dos!Drive
  <2> QED BY <2>2, <2>3
<1>3. Dos!IsAbsolute => given.text # <<>> /\ Dos!IsSeparator(given.text[1])
  <2>1. given.text # <<>> => Head(given.text) = given.text[1] BY <1>1 DEF Text
  <2> QED BY <2>1 DEF Dos!IsAbsolute
<1>4. ASSUME OnADrive
      PROVE  Dir(Home) /\ Dir(Dos!Meant) /\ Walked \in Text /\ Dos!Walk(<<>>, Walked) = Dos!Meant
  <2>1. CASE Dos!IsAbsolute
    <3> DEFINE none == <<>>
    <3>1. Home = none /\ Walked = given.text /\ Dos!Meant = Dos!Walk(none, given.text) /\ Dir(none)
      BY <2>1, DirEmpty DEF Home, Walked, Dos!Meant
    <3> HIDE DEF none
    <3>2. Dir(Dos!Walk(none, given.text)) BY <3>1, <1>1, WalkDir
    <3> QED BY <3>1, <3>2, <1>1 DEF none
  <2>2. CASE ~Dos!IsAbsolute
    <3>1. Dos!Drive \in Drives BY <2>2, <1>4 DEF OnADrive
    <3>2. dosCwd[Dos!Drive] \in Directories BY <3>1 DEF DosRequest
    <3> DEFINE c == dosCwd[Dos!Drive]
    <3>3. Dir(c) BY <3>2, DirectoryIsDir
    <3>4. Home = c /\ Walked = Whole(c, given.text) /\ Dos!Meant = Dos!Walk(c, given.text)
      BY <2>2 DEF Home, Walked, Dos!Meant
    <3> HIDE DEF c
    <3>5. Dos!Walk(<<>>, Whole(c, given.text)) = Dos!Walk(c, given.text) BY <3>3, <1>1, WalkFrom
    <3>6. Dir(Dos!Walk(c, given.text)) BY <3>3, <1>1, WalkDir
    <3>7. Whole(c, given.text) \in Text
      <4>1. c \in NameList BY <3>3 DEF Dir
      <4> QED BY <4>1, <1>1, WholeLayout
    <3> QED BY <3>3, <3>4, <3>5, <3>6, <3>7
  <2> QED BY <2>1, <2>2
<1> QED BY <1>1, <1>2, <1>3, <1>4

(* What no step changes.                                                      *)
Request == <<given, output, current, dosCwd, system>>

(* What a request means depends on the request only.                          *)
LEMMA RequestKept ==
  ASSUME UNCHANGED Request
  PROVE  /\ Home' = Home /\ Walked' = Walked /\ OnADrive' = OnADrive /\ DosRequest' = DosRequest
         /\ Dos!Meant' = Dos!Meant /\ Dos!Drive' = Dos!Drive /\ Dos!HasParent' = Dos!HasParent
         /\ Dos!Short' = Dos!Short /\ output' = output /\ system' = system
<1>1. given' = given /\ output' = output /\ current' = current /\ dosCwd' = dosCwd /\ system' = system
  BY DEF Request
<1>2. Dos!Drive' = Dos!Drive /\ Dos!IsAbsolute' = Dos!IsAbsolute BY <1>1 DEF Dos!Drive, Dos!IsAbsolute
<1>3. Home' = Home /\ Walked' = Walked /\ OnADrive' = OnADrive BY <1>1, <1>2 DEF Home, Walked, OnADrive
<1>4. Dos!Meant' = Dos!Meant BY <1>1, <1>2 DEF Dos!Meant
<1>5. Dos!HasParent' = Dos!HasParent BY <1>1, <1>4 DEF Dos!HasParent
<1>6. Dos!Short' = Dos!Short BY <1>1 DEF Dos!Short
<1>7. DosRequest' = DosRequest BY <1>1 DEF DosRequest
<1> QED BY <1>1, <1>2, <1>3, <1>4, <1>5, <1>6, <1>7

(* The first state.                                                           *)
LEMMA DosInitInv == ASSUME system = "dos", Dos!Init PROVE DosInv
<1>1. DosRequest
  <2>1. given \in [drive : Drives \cup {NoDrive, NotADrive}, text : Texts] /\ output \in BOOLEAN
        /\ current \in Drives
    BY DEF Dos!Init
  <2>2. PICK dir \in Directories : dosCwd = [x \in Drives |-> IF x = current THEN dir ELSE <<>>]
    BY DEF Dos!Init
  <2>3. <<>> \in Directories BY DosPathAssumption DEF Dos!DosAssumption
  <2>4. \A x \in Drives : dosCwd[x] \in Directories /\ (x # current => dosCwd[x] = <<>>) BY <2>2, <2>3
  <2> QED BY <2>1, <2>4 DEF DosRequest
<1>2. folding = "start" /\ combined = <<>> /\ read = 1 /\ folded = <<>> BY DEF Dos!Init
<1>3. ACC_PATH \in Nat \ {0} BY DosPathAssumption DEF Dos!DosAssumption
<1>4. Len(combined) = 0 BY <1>2
<1>5. DosBuffers BY <1>2, <1>3, <1>4 DEF DosBuffers
<1>6. DosFolding /\ DosFolded BY <1>2 DEF DosFolding, DosFolded
<1>7. Dos!OutputNeedsItsParent BY <1>2 DEF Dos!OutputNeedsItsParent
<1> QED BY <1>1, <1>5, <1>6, <1>7 DEF DosInv

(* The buffers are large enough for what path_join is asked to write.        *)
LEMMA ShortFits ==
  ASSUME DosRequest, Dos!Short, Dos!Drive \in Drives
  PROVE  /\ Len(given.text) < ACC_PATH
         /\ Dos!IsAbsolute => Dos!Fits(Dos!Root(Dos!Drive), Tail(given.text))
         /\ Dos!Fits(Dos!Root(Dos!Drive), Dos!Spell(dosCwd[Dos!Drive]))
         /\ Dos!Fits(Dos!Base, given.text)
<1> DEFINE t == given.text  c == dosCwd[Dos!Drive]  d == Dos!Drive  s == Len(Dos!Spell(dosCwd[current]))
           sc == Len(Dos!Spell(c))  n == Len(t)
<1>1. t \in Text /\ d \in Char /\ n \in Nat /\ (Dos!IsAbsolute => t # <<>>) BY DosFacts, TextLength
<1>2. Dir(c) /\ Dir(dosCwd[current]) BY DirectoryIsDir DEF DosRequest
<1>3. s \in Nat /\ sc \in Nat
  <2>1. c \in NameList /\ dosCwd[current] \in NameList BY <1>2 DEF Dir
  <2>2. Dos!Spell(c) \in Text /\ Dos!Spell(dosCwd[current]) \in Text BY <1>1, <2>1, DosRoot
  <2> QED BY <2>2, TextLength
<1>4. sc <= s
  <2>1. CASE d = current BY <2>1, <1>3
  <2>2. CASE d # current
    <3>1. c = <<>> BY <2>2 DEF DosRequest
    <3>2. c \in NameList BY <1>2 DEF Dir
    <3>3. Len(Dos!Spell(c)) = IF c = <<>> THEN 0 ELSE Len(Spelled("\\", c)) - 1 BY <1>1, <3>2, DosRoot
    <3> QED BY <3>1, <3>3, <1>3
  <2> QED BY <2>1, <2>2
<1>5. s + n + 5 <= ACC_PATH /\ ACC_PATH \in Nat
  BY DosPathAssumption DEF Dos!Short, Dos!DosAssumption
<1>6. Len(Dos!Root(d)) = 3 BY <1>1, RootText
<1>7. Len(Dos!Base) = 3 + sc
  <2>1. LET b == Dos!Join(Dos!Root(d), Dos!Spell(c)) IN Len(b) = 3 + Len(Dos!Spell(c)) BY <1>1, <1>2, JoinBase
  <2> QED BY <2>1 DEF Dos!Base
<1>8. t # <<>> => Len(Tail(t)) = n - 1
  <2>1. t \in Seq(Char) BY <1>1 DEF Text
  <2> QED BY <2>1
<1>13. n \in Nat /\ s \in Nat /\ sc \in Nat /\ sc <= s /\ s + n + 5 <= ACC_PATH /\ ACC_PATH \in Nat
  BY <1>1, <1>3, <1>4, <1>5
<1>9. /\ n < ACC_PATH /\ 3 + sc + 2 <= ACC_PATH /\ (3 + sc) + n + 2 <= ACC_PATH
      /\ 3 + (n - 1) + 2 <= ACC_PATH
  <2> HIDE DEF n, s, sc
  <2> QED BY <1>13
<1>10. Dos!IsAbsolute => Dos!Fits(Dos!Root(d), Tail(t))
  BY <1>1, <1>6, <1>8, <1>9 DEF Dos!Fits
<1>11. Dos!Fits(Dos!Root(d), Dos!Spell(c)) BY <1>9, <1>6 DEF Dos!Fits
<1>12. Dos!Fits(Dos!Base, t) BY <1>9, <1>7 DEF Dos!Fits
<1> QED BY <1>9, <1>10, <1>11, <1>12

(* The path is joined to its base.                                            *)
LEMMA CombineStep ==
  ASSUME DosInv, system = "dos", system' = system, Dos!Combine
  PROVE  DosInv'
<1> DEFINE t == given.text  d == Dos!Drive
<1>1. DosRequest /\ folding = "start" /\ combined = <<>> /\ read = 1 /\ folded = <<>> /\ DosBuffers
  BY DEF DosInv, DosBuffers, Dos!Combine
<1>2. UNCHANGED Request
  BY DEF Dos!Combine, Dos!Refuse, Dos!request, Request
<1>3. /\ Walked' = Walked /\ OnADrive' = OnADrive /\ DosRequest' /\ Dos!Meant' = Dos!Meant
      /\ Dos!Drive' = d /\ Dos!HasParent' = Dos!HasParent /\ Dos!Short' = Dos!Short /\ system' = "dos"
      /\ output' = output
  BY <1>1, <1>2, RequestKept
<1>4. t \in Text /\ d \in Char /\ Len(t) \in Nat /\ (Dos!IsAbsolute => t # <<>> /\ Dos!IsSeparator(t[1]))
  BY <1>1, DosFacts, TextLength
<1>5. ACC_PATH \in Nat \ {0} BY DosPathAssumption DEF Dos!DosAssumption
<1>6. CASE Dos!Refuse
  <2>1. folding' = "refused" /\ combined' = combined /\ read' = read /\ folded' = folded
    BY <1>6 DEF Dos!Refuse
  <2>2. ~(Dos!Short /\ Dos!Drive \in Drives)
    <3>1. SUFFICES ASSUME Dos!Short, Dos!Drive \in Drives PROVE FALSE OBVIOUS
    <3>2. /\ Len(t) < ACC_PATH
          /\ Dos!IsAbsolute => Dos!Fits(Dos!Root(d), Tail(t))
          /\ Dos!Fits(Dos!Root(d), Dos!Spell(dosCwd[d]))
          /\ Dos!Fits(Dos!Base, t)
      BY <1>1, <3>1, ShortFits
    <3>3. folding' = "fold"
      <4>1. ~(Len(t) >= ACC_PATH) BY <3>2, <1>4, <1>5
      <4> QED BY <4>1, <3>1, <3>2 DEF Dos!Combine
    <3> QED BY <3>3, <2>1
  <2>3. DosBuffers'
    <3>1. Len(combined') = 0 BY <1>1, <2>1
    <3> QED BY <3>1, <2>1, <1>1, <1>5 DEF DosBuffers
  <2>4. DosFolding' /\ DosFolded' BY <2>1 DEF DosFolding, DosFolded
  <2>5. Dos!OutputNeedsItsParent' BY <2>1, <2>2, <1>3 DEF Dos!OutputNeedsItsParent
  <2> QED BY <2>3, <2>4, <2>5, <1>3 DEF DosInv
<1>7. CASE ~Dos!Refuse
  <2>1. folding' = "fold" /\ folded' = Dos!Root(d) /\ read' = 4 BY <1>7 DEF Dos!Combine
  <2>2. /\ OnADrive /\ Slashes(combined', Walked) /\ Len(combined') < ACC_PATH
        /\ Len(Walked) >= 1 /\ Dos!IsSeparator(Walked[1])
    <3>1. CASE Dos!IsAbsolute
      <4>1. combined' = Dos!Join(Dos!Root(d), Tail(t)) /\ Dos!Fits(Dos!Root(d), Tail(t))
        BY <1>7, <3>1 DEF Dos!Combine
      <4>2. t # <<>> /\ Dos!IsSeparator(t[1]) /\ Walked = t BY <1>4, <3>1 DEF Walked
      <4>3. Slashes(combined', t) BY <4>1, <4>2, <1>4, JoinAbsolute
      <4>4. Len(combined') = 2 + Len(t) BY <4>3 DEF Slashes
      <4>5. Len(Tail(t)) = Len(t) - 1 /\ Len(t) >= 1
        <5>1. t \in Seq(Char) BY <1>4 DEF Text
        <5> QED BY <5>1, <4>2
      <4>6. 3 + (Len(t) - 1) + 2 <= ACC_PATH
        <5>1. Len(Dos!Root(d)) = 3 BY <1>4, RootText
        <5> QED BY <4>1, <4>5, <5>1 DEF Dos!Fits
      <4>7. Len(combined') < ACC_PATH BY <4>4, <4>6, <1>4, <1>5
      <4> QED BY <4>2, <4>3, <4>5, <4>7, <3>1 DEF OnADrive
    <3>2. CASE ~Dos!IsAbsolute
      <4> DEFINE c == dosCwd[d]  b == Dos!Join(Dos!Root(d), Dos!Spell(c))
      <4>1. combined' = Dos!Join(Dos!Base, t) /\ Dos!Fits(Dos!Base, t) /\ d \in Drives
        BY <1>7, <3>2 DEF Dos!Combine
      <4>2. Dir(c) /\ Walked = Whole(c, t) BY <1>1, <4>1, <3>2, DirectoryIsDir DEF DosRequest, Walked
      <4>3. Dos!Base = b BY DEF Dos!Base
      <4>4. Slashes(Dos!Join(b, t), Whole(c, t)) /\ Len(Dos!Join(b, t)) <= Len(b) + 1 + Len(t)
        BY <1>4, <4>2, JoinRelative
      <4>5. Len(b) \in Nat
        <5>1. b \in Text BY <1>4, <4>2, JoinBase
        <5> QED BY <5>1, TextLength
      <4>6. Len(b) + Len(t) + 2 <= ACC_PATH BY <4>1, <4>3 DEF Dos!Fits
      <4> HIDE DEF b, c
      <4>7. Len(combined') \in Nat /\ Len(combined') < ACC_PATH
        <5>1. combined' \in Text BY <4>1, <4>3, <4>4 DEF Slashes
        <5>2. Len(combined') \in Nat BY <5>1, TextLength
        <5>3. Len(combined') <= Len(b) + 1 + Len(t) BY <4>1, <4>3, <4>4
        <5> DEFINE lb == Len(b)  lt == Len(t)  lc == Len(combined')
        <5>4. lc \in Nat /\ lb \in Nat /\ lt \in Nat /\ lc <= lb + 1 + lt /\ lb + lt + 2 <= ACC_PATH
              /\ ACC_PATH \in Nat
          BY <5>2, <5>3, <4>5, <4>6, <1>4, <1>5
        <5> HIDE DEF lb, lt, lc
        <5>5. lc \in Nat /\ lc < ACC_PATH BY <5>4
        <5> QED BY <5>5 DEF lc
      <4>8. c \in NameList BY <4>2 DEF Dir
      <4>9. Len(Walked) >= 1 /\ Dos!IsSeparator(Walked[1])
        <5> DEFINE w == Whole(c, t)  s == Spelled("\\", c)
        <5>1. /\ Len(s) \in Nat /\ Len(w) = Len(s) + 1 + Len(t)
              /\ \A k \in 1 .. Len(s) : w[k] = s[k]
              /\ w[Len(s) + 1] = "\\"
          BY <4>8, <1>4, WholeLayout
        <5>2. c # <<>> => s[1] = "\\" /\ Len(s) # 0 BY <4>8, Chars, SpelledStarts
        <5>3. c = <<>> => Len(s) = 0 BY SpelledEmpty
        <5> HIDE DEF w, s
        <5>4. w[1] = "\\"
          <6>1. CASE c = <<>> BY <6>1, <5>1, <5>3
          <6>2. CASE c # <<>>
            <7>1. 1 \in 1 .. Len(s) BY <6>2, <5>1, <5>2
            <7> QED BY <7>1, <6>2, <5>1, <5>2
          <6> QED BY <6>1, <6>2
        <5>5. Len(w) >= 1
          <6> DEFINE lw == Len(w)  ls == Len(s)  lt == Len(t)
          <6>1. ls \in Nat /\ lt \in Nat /\ lw = ls + 1 + lt BY <5>1, <1>4
          <6> HIDE DEF lw, ls, lt
          <6>2. lw >= 1 BY <6>1
          <6> QED BY <6>2 DEF lw
        <5>6. Dos!IsSeparator(w[1]) BY <5>4 DEF Dos!IsSeparator
        <5> QED BY <5>5, <5>6, <4>2 DEF w
      <4> QED BY <4>1, <4>2, <4>3, <4>4, <4>7, <4>9 DEF OnADrive
    <3> QED BY <3>1, <3>2
  <2>3. Walked \in Text /\ Dos!Walk(<<>>, Walked) = Dos!Meant /\ Dir(Dos!Meant) BY <1>1, <2>2, DosFacts
  <2>4. combined' \in Text /\ Len(combined') = 2 + Len(Walked) /\ Len(Walked) \in Nat
    BY <2>2, <2>3, TextLength DEF Slashes
  <2>5. Len(folded') = 3 /\ folded' = Guest(d, "\\", <<>>) BY <2>1, <1>4, RootText
  <2> DEFINE none == <<>>  r == Dos!Reading(none, Walked)
  <2>6. r[1].at = none /\ r[1].name = none
    <3>1. none = <<>> OBVIOUS
    <3> HIDE DEF none
    <3>2. r[0] = [at |-> none, name |-> <<>>] /\ \A i \in 1 .. Len(Walked) : r[i] = Step(r[i - 1], Walked[i])
      BY <2>3, ReadingEquation
    <3>3. 1 \in 1 .. Len(Walked) /\ 1 - 1 = 0 BY <2>2, <2>4
    <3>4. r[1] = Step(r[0], Walked[1]) BY <3>2, <3>3
    <3>5. Dos!Enter(none, <<>>) = none BY DEF Dos!Enter
    <3> DEFINE z == r[0]
    <3>6. z.at = none /\ z.name = <<>> BY <3>2
    <3>7. Step(z, Walked[1]) = [at |-> Dos!Enter(z.at, z.name), name |-> <<>>] BY <2>2 DEF Step
    <3> HIDE DEF r
    <3> QED BY <3>1, <3>4, <3>5, <3>6, <3>7
  <2>7. DosFolding'
    <3>1. read' - 3 = 1 BY <2>1
    <3>2. read' <= Len(combined') => 
            /\ r[read' - 3].name = <<>>
            /\ folded' = Guest(d, "\\", r[read' - 3].at)
            /\ Len(folded') > 3 => Len(folded') <= read' - 2
      <4>1. ~(Len(folded') > 3) BY <2>5
      <4>2. r[read' - 3].name = <<>> /\ r[read' - 3].at = <<>> BY <3>1, <2>6
      <4> QED BY <4>1, <4>2, <2>5
    <3>3. read' > Len(combined') => folded' = Guest(d, "\\", Dos!Meant)
      <4>1. SUFFICES ASSUME read' > Len(combined') PROVE folded' = Guest(d, "\\", Dos!Meant) OBVIOUS
      <4>2. Len(Walked) = 1
        <5> DEFINE lw == Len(Walked)  lc == Len(combined')
        <5>1. lw \in Nat /\ lw >= 1 /\ lc = 2 + lw /\ 4 > lc BY <4>1, <2>1, <2>2, <2>4
        <5> HIDE DEF lw, lc
        <5>2. lw = 1 BY <5>1
        <5> QED BY <5>2 DEF lw
      <4>3. Dos!Walk(none, Walked) = Dos!Enter(r[1].at, r[1].name) BY <4>2 DEF Dos!Walk
      <4>4. Dos!Enter(none, none) = none BY DEF Dos!Enter
      <4>5. Dos!Meant = none BY <4>3, <4>4, <2>6, <2>3
      <4> QED BY <4>5, <2>5
    <3>4. read' \in Nat /\ 4 <= read' /\ read' <= Len(combined') + 1 BY <2>1, <2>2, <2>4
    <3>5. Len(folded') <= read' - 1 BY <2>1, <2>5
    <3> HIDE DEF d
    <3> QED BY <1>3, <2>2, <3>2, <3>3, <3>4, <3>5 DEF DosFolding, r
  <2>8. DosBuffers'
    <3>1. Len(combined') \in Nat /\ 4 <= Len(combined') + 1 BY <2>2, <2>4
    <3>2. read' \in 1 .. (Len(combined') + 1) BY <2>1, <3>1
    <3>3. \E names : Dir(names) /\ folded' = Guest(Dos!Drive', "\\", names) BY <2>5, <1>3, DirEmpty
    <3>4. Len(folded') < ACC_PATH BY <2>2, <2>5, <3>1, <1>5
    <3> QED BY <2>1, <2>2, <3>1, <3>2, <3>3, <3>4 DEF DosBuffers
  <2>9. DosFolded' /\ Dos!OutputNeedsItsParent' BY <2>1 DEF DosFolded, Dos!OutputNeedsItsParent
  <2> QED BY <1>3, <2>7, <2>8, <2>9 DEF DosInv
<1> QED BY <1>6, <1>7

(* Different names are spelled differently.                                   *)
LEMMA SpelledInjective ==
  ASSUME NEW c \in Char, NEW a \in NameList, NEW b \in NameList, Free(c, a), Free(c, b),
         Spelled(c, a) = Spelled(c, b)
  PROVE  a = b
<1> DEFINE s == Spelled(c, a)  t == Spelled(c, b)
<1>1. Len(s) <= Len(t) /\ Len(t) <= Len(s) /\ Len(s) = Len(t)
  <2>1. Len(s) \in Nat BY SpelledText, TextLength
  <2> QED BY <2>1
<1>2. (\A k \in 1 .. Len(s) : s[k] = t[k]) /\ (\A k \in 1 .. Len(t) : t[k] = s[k]) OBVIOUS
<1>3. Len(a) <= Len(b) /\ \A i \in 1 .. Len(a) : a[i] = b[i] BY <1>1, <1>2, PrefixOfNames
<1>4. Len(b) <= Len(a) BY <1>1, <1>2, PrefixOfNames
<1>5. a \in Seq(Text) /\ b \in Seq(Text) /\ Len(a) = Len(b) BY <1>3, <1>4 DEF NameList
<1> QED BY <1>3, <1>5, SeqEqual

(* Different directories have different guest paths.                          *)
LEMMA GuestInjective ==
  ASSUME NEW d \in Char, NEW a, Dir(a), NEW b, Dir(b), Guest(d, "\\", a) = Guest(d, "\\", b)
  PROVE  a = b
<1>0. a \in NameList /\ b \in NameList /\ Free("\\", a) /\ Free("\\", b) /\ "\\" \in Char BY DirFree, Chars
<1>1. (a # <<>>) <=> (b # <<>>)
  <2>1. Len(Guest(d, "\\", a)) > 3 <=> a # <<>> BY <1>0, DirLength
  <2>2. Len(Guest(d, "\\", b)) > 3 <=> b # <<>> BY <1>0, DirLength
  <2> QED BY <2>1, <2>2
<1>2. CASE a = <<>> BY <1>1, <1>2
<1>3. CASE a # <<>>
  <2> DEFINE g == Guest(d, "\\", a)  h == Guest(d, "\\", b)  s == Spelled("\\", a)  t == Spelled("\\", b)
  <2>1. /\ Len(g) = 2 + Len(s) /\ \A k \in 1 .. Len(s) : g[2 + k] = s[k]
    BY <1>0, <1>3, GuestLayout
  <2>2. /\ Len(h) = 2 + Len(t) /\ \A k \in 1 .. Len(t) : h[2 + k] = t[k]
    BY <1>0, <1>1, <1>3, GuestLayout
  <2>3. s \in Text /\ t \in Text /\ Len(s) \in Nat /\ Len(t) \in Nat BY <1>0, SpelledText, TextLength
  <2>4. g = h OBVIOUS
  <2> HIDE DEF g, h, s, t
  <2>5. Len(s) = Len(t) BY <2>1, <2>2, <2>3, <2>4
  <2>6. \A k \in 1 .. Len(s) : s[k] = t[k] BY <2>1, <2>2, <2>4, <2>5
  <2>7. s = t BY <2>3, <2>5, <2>6, SameText
  <2> QED BY <2>7, <1>0, SpelledInjective DEF s, t
<1> QED BY <1>2, <1>3

(* path_is_directory finds exactly the directories of the drives that exist.  *)
LEMMA IsDirectoryExactly ==
  ASSUME NEW d \in Char, NEW names, Dir(names)
  PROVE  Dos!IsDirectory(Guest(d, "\\", names)) <=> d \in Drives /\ names \in Directories
<1> DEFINE g == Guest(d, "\\", names)
<1>0. names \in NameList BY DEF Dir
<1>1. g[1] = d BY <1>0, Chars, GuestLayout
<1>2. Len(g) > 3 <=> names # <<>> BY Chars, DirLength
<1>3. Len(g) \in Nat /\ Len(g) >= 3 BY <1>0, Chars, GuestLayout
<1>4. <<>> \in Directories BY DosPathAssumption DEF Dos!DosAssumption
<1>5. \A dir \in Directories : Dos!Root(d) \o Dos!Spell(dir) = g <=> dir = names
  <2> SUFFICES ASSUME NEW dir \in Directories PROVE Dos!Root(d) \o Dos!Spell(dir) = g <=> dir = names
    OBVIOUS
  <2>1. Dir(dir) BY DirectoryIsDir
  <2>2. Dos!Root(d) \o Dos!Spell(dir) = Guest(d, "\\", dir) BY <2>1, DosRoot DEF Dir
  <2>3. Guest(d, "\\", dir) = g => dir = names BY <2>1, GuestInjective
  <2> QED BY <2>2, <2>3
<1> HIDE DEF g
<1>6. Len(g) = 3 <=> names = <<>>
  <2> DEFINE n == Len(g)
  <2>1. n \in Nat /\ n >= 3 /\ (n > 3 <=> names # <<>>) BY <1>2, <1>3
  <2> HIDE DEF n
  <2>2. n = 3 <=> ~(n > 3) BY <2>1
  <2> QED BY <2>1, <2>2 DEF n
<1>7. Dos!IsDirectory(g) <=> d \in Drives /\ (names = <<>> \/ names \in Directories)
  BY <1>1, <1>5, <1>6 DEF Dos!IsDirectory
<1> QED BY <1>4, <1>7 DEF g

(* A component is folded.                                                     *)
LEMMA FoldComponentStep ==
  ASSUME DosInv, system = "dos", system' = system, Dos!FoldComponent
  PROVE  DosInv'
<1> DEFINE d == Dos!Drive  w == Walked
<1>1. DosRequest /\ folding = "fold" /\ read <= Len(combined) /\ DosFolding
  BY DEF DosInv, Dos!FoldComponent
<1>2. folding' = "fold" /\ combined' = combined /\ UNCHANGED Request
  BY <1>1 DEF Dos!FoldComponent, Dos!request, Request
<1>3. /\ Walked' = w /\ OnADrive' = OnADrive /\ DosRequest' /\ Dos!Meant' = Dos!Meant
      /\ Dos!Drive' = d /\ system' = "dos"
  BY <1>1, <1>2, RequestKept
<1>4. /\ OnADrive /\ Slashes(combined, w) /\ Len(combined) < ACC_PATH
      /\ Len(w) >= 1 /\ Dos!IsSeparator(w[1])
      /\ read \in Nat /\ 4 <= read
      /\ Dos!Reading(<<>>, w)[read - 3].name = <<>>
      /\ folded = Guest(d, "\\", Dos!Reading(<<>>, w)[read - 3].at)
      /\ Len(folded) > 3 => Len(folded) <= read - 2
      /\ Len(folded) <= read - 1
  BY <1>1 DEF DosFolding
<1>5. d \in Char /\ w \in Text /\ Dir(Dos!Meant) /\ Dos!Walk(<<>>, w) = Dos!Meant BY <1>1, <1>4, DosFacts
<1> DEFINE x == Dos!Component  new == Rewritten(folded, x)
           next == IF Dos!End < Len(combined) THEN Dos!End + 2 ELSE Dos!End + 1
<1>6. folded' = new /\ read' = next BY DEF Dos!FoldComponent, Rewritten
<1>7. /\ next \in Nat /\ 4 <= next /\ next <= Len(combined) + 1
      /\ next <= Len(combined) =>
           /\ Dos!Reading(<<>>, w)[next - 3].name = <<>>
           /\ new = Guest(d, "\\", Dos!Reading(<<>>, w)[next - 3].at)
           /\ Len(new) > 3 => Len(new) <= next - 2
      /\ next > Len(combined) => new = Guest(d, "\\", Dos!Walk(<<>>, w))
      /\ Len(new) <= next - 1
  <2> HIDE DEF d, w
  <2> QED BY <1>1, <1>4, <1>5, FoldStep
<1> HIDE DEF new, next, x, d, w
<1>8. DosFolding' BY <1>2, <1>3, <1>4, <1>5, <1>6, <1>7 DEF DosFolding
<1>9. Len(combined) \in Nat /\ Len(combined) = 2 + Len(w) /\ Len(w) \in Nat BY <1>4, <1>5, TextLength DEF Slashes
<1>10. \E names : Dir(names) /\ new = Guest(d, "\\", names)
  <2>1. CASE next > Len(combined) BY <2>1, <1>5, <1>7
  <2>2. CASE ~(next > Len(combined))
    <3> DEFINE none == <<>>  at == Dos!Reading(none, w)[next - 3].at
    <3>1. next - 3 \in 0 .. Len(w) BY <2>2, <1>7, <1>9
    <3>2. Dir(none) BY DirEmpty
    <3>3. next <= Len(combined) BY <2>2, <1>7, <1>9
    <3>4. new = Guest(d, "\\", at) BY <3>3, <1>7
    <3> HIDE DEF none
    <3>5. Dir(at) BY <3>1, <3>2, <1>5, ReadingDir
    <3> QED BY <3>4, <3>5
  <2> QED BY <2>1, <2>2
<1>11. Len(new) < ACC_PATH
  <2>1. Len(new) \in Nat
    <3>1. PICK names : Dir(names) /\ new = Guest(d, "\\", names) BY <1>10
    <3> QED BY <3>1, <1>5, Chars, GuestLayout DEF Dir
  <2> DEFINE n == Len(new)  lc == Len(combined)
  <2>2. n \in Nat /\ lc \in Nat /\ n <= next - 1 /\ next <= lc + 1 /\ next \in Nat /\ lc < ACC_PATH
        /\ ACC_PATH \in Nat
    BY <2>1, <1>4, <1>7, <1>9, DosPathAssumption DEF Dos!DosAssumption
  <2> HIDE DEF n, lc
  <2>3. n < ACC_PATH BY <2>2
  <2> QED BY <2>3 DEF n
<1>12. DosBuffers'
  <2>1. next \in 1 .. (Len(combined) + 1) BY <1>7, <1>9
  <2> QED BY <2>1, <1>2, <1>3, <1>4, <1>6, <1>9, <1>10, <1>11 DEF DosBuffers
<1>13. DosFolded' /\ Dos!OutputNeedsItsParent' BY <1>2 DEF DosFolded, Dos!OutputNeedsItsParent
<1> QED BY <1>3, <1>8, <1>12, <1>13 DEF DosInv

(* The last component has been folded.                                        *)
LEMMA EndFoldStep ==
  ASSUME DosInv, system = "dos", system' = system, Dos!EndFold
  PROVE  DosInv'
<1> DEFINE d == Dos!Drive
<1>1. DosRequest /\ folding = "fold" /\ read > Len(combined) /\ DosFolding /\ DosBuffers
  BY DEF DosInv, Dos!EndFold
<1>2. /\ folding' = IF output /\ Len(folded) > 3 THEN "parent" ELSE "accepted"
      /\ combined' = combined /\ read' = read /\ folded' = folded /\ UNCHANGED Request
  BY DEF Dos!EndFold, Dos!request, Request
<1>3. /\ OnADrive' = OnADrive /\ DosRequest' /\ Dos!Meant' = Dos!Meant
      /\ Dos!Drive' = d /\ system' = "dos" /\ output' = output
  BY <1>1, <1>2, RequestKept
<1>4. OnADrive BY <1>1 DEF DosFolding
<1>5. d \in Char /\ Dir(Dos!Meant) BY <1>1, <1>4, DosFacts
<1>6. folded = Guest(d, "\\", Dos!Meant) BY <1>1 DEF DosFolding
<1>7. Len(folded) > 3 <=> Dos!Meant # <<>> BY <1>5, <1>6, Chars, DirLength
<1> HIDE DEF d
<1>8. DosFolding' BY <1>2 DEF DosFolding
<1>9. DosFolded' BY <1>2, <1>3, <1>4, <1>6, <1>7 DEF DosFolded
<1>10. DosBuffers' BY <1>1, <1>2, <1>3 DEF DosBuffers, d
<1>11. Dos!OutputNeedsItsParent' BY <1>2, <1>3, <1>7 DEF Dos!OutputNeedsItsParent
<1> QED BY <1>3, <1>8, <1>9, <1>10, <1>11 DEF DosInv

(* The parent of an output is looked for.                                     *)
LEMMA CheckParentStep ==
  ASSUME DosInv, system = "dos", system' = system, Dos!CheckParent
  PROVE  DosInv'
<1> DEFINE d == Dos!Drive  m == Dos!Meant
<1>1. DosRequest /\ folding = "parent" /\ DosFolded /\ DosBuffers
  BY DEF DosInv, Dos!CheckParent
<1>2. /\ folding' = IF Dos!IsDirectory(Dos!Parent) THEN "accepted" ELSE "refused"
      /\ combined' = combined /\ read' = read /\ folded' = folded /\ UNCHANGED Request
  BY DEF Dos!CheckParent, Dos!Refuse, Dos!request, Request
<1>3. /\ OnADrive' = OnADrive /\ DosRequest' /\ Dos!Meant' = m /\ Dos!HasParent' = Dos!HasParent
      /\ Dos!Drive' = d /\ system' = "dos" /\ output' = output
  BY <1>1, <1>2, RequestKept
<1>4. OnADrive /\ output /\ folded = Guest(d, "\\", m) /\ m # <<>> BY <1>1 DEF DosFolded
<1>5. d \in Char /\ Dir(m) BY <1>1, <1>4, DosFacts
<1>6. Dos!Parent = Guest(d, "\\", Front(m))
  <2>1. m \in NameList /\ Free("\\", m) BY <1>5, DirFree
  <2> HIDE DEF d, m
  <2>2. Dos!WithoutLast(Guest(d, "\\", m)) = Guest(d, "\\", IF m = <<>> THEN m ELSE Front(m))
    BY <1>5, <2>1, GuestWithoutLast
  <2> QED BY <1>4, <2>2 DEF Dos!Parent
<1>7. Dir(Front(m))
  <2> HIDE DEF m
  <2>1. Clean(<<".", ".">>)
    <3> DEFINE dots == <<".", ".">>
    <3>1. \A a, b \in Char : <<a, b>> \in Seq(Char) OBVIOUS
    <3>2. dots \in Text BY <3>1, Chars DEF Text
    <3>3. Len(dots) = 2 /\ dots[1] = "." /\ dots[2] = "." OBVIOUS
    <3> HIDE DEF dots
    <3>4. \A k \in 1 .. 2 : k = 1 \/ k = 2 OBVIOUS
    <3>5. \A k \in 1 .. Len(dots) : dots[k] = "." BY <3>3, <3>4
    <3>6. Clean(dots) BY <3>2, <3>5 DEF Clean
    <3> QED BY <3>6 DEF dots
  <2>2. Dos!Enter(m, <<".", ".">>) = Front(m) BY <1>4, DosOperators DEF Dos!Enter
  <2> QED BY <2>1, <2>2, <1>5, EnterDir
<1>8. Dos!IsDirectory(Dos!Parent) <=> d \in Drives /\ Front(m) \in Directories
  BY <1>5, <1>6, <1>7, IsDirectoryExactly
<1>9. Dos!HasParent <=> Front(m) \in Directories BY <1>4, DosOperators DEF Dos!HasParent
<1> HIDE DEF d, m
<1>10. DosFolding' /\ DosFolded' BY <1>2, <1>3, <1>4 DEF DosFolding, DosFolded
<1>11. DosBuffers' BY <1>1, <1>2, <1>3 DEF DosBuffers, d
<1>12. Dos!OutputNeedsItsParent'
  BY <1>2, <1>3, <1>4, <1>8, <1>9 DEF Dos!OutputNeedsItsParent, d
<1> QED BY <1>3, <1>10, <1>11, <1>12 DEF DosInv

(* A step of the other half of path_guest.                                    *)
LEMMA DosKept ==
  ASSUME DosInv, UNCHANGED <<system, dos>>
  PROVE  DosInv'
<1>1. UNCHANGED Request /\ folding' = folding /\ combined' = combined /\ read' = read /\ folded' = folded
      /\ system' = system
  BY DEF dos, Request
<1>2. /\ Walked' = Walked /\ OnADrive' = OnADrive /\ DosRequest' = DosRequest /\ Dos!Meant' = Dos!Meant
      /\ Dos!Drive' = Dos!Drive /\ Dos!HasParent' = Dos!HasParent /\ Dos!Short' = Dos!Short
      /\ output' = output
  BY <1>1, RequestKept
<1>3. DosFolding' = DosFolding BY <1>1, <1>2 DEF DosFolding
<1>4. DosFolded' = DosFolded BY <1>1, <1>2 DEF DosFolded
<1>5. DosBuffers' = DosBuffers BY <1>1, <1>2 DEF DosBuffers
<1>6. Dos!OutputNeedsItsParent' = Dos!OutputNeedsItsParent BY <1>1, <1>2 DEF Dos!OutputNeedsItsParent
<1> QED BY <1>1, <1>2, <1>3, <1>4, <1>5, <1>6 DEF DosInv

-----------------------------------------------------------------------------
(* The inductive invariant has the properties.                                *)
LEMMA DosInvImplies == DosInv => CanonicalIsNormal
<1> SUFFICES ASSUME DosInv, system = "dos", phase = "canonical"
             PROVE  Dos!CanonicalIsNormal /\ Dos!OutputNeedsItsParent /\ Dos!TypeOK
  BY DEF CanonicalIsNormal
<1> DEFINE d == Dos!Drive
<1>1. DosRequest /\ DosFolded /\ DosBuffers /\ Dos!OutputNeedsItsParent BY DEF DosInv
<1>2. d \in Char BY <1>1, DosFacts
<1>3. Dos!CanonicalIsNormal
  <2>1. SUFFICES ASSUME folding = "accepted" PROVE folded = Dos!Root(d) \o Dos!Spell(Dos!Meant)
    BY DEF Dos!CanonicalIsNormal
  <2>2. OnADrive /\ folded = Guest(d, "\\", Dos!Meant) BY <1>1, <2>1 DEF DosFolded
  <2>3. Dir(Dos!Meant) BY <1>1, <2>2, DosFacts
  <2> HIDE DEF d
  <2> QED BY <1>2, <2>2, <2>3, DosRoot DEF Dir
<1>4. Dos!TypeOK
  <2>1. ASSUME folded # <<>>
        PROVE  SubSeq(folded, 1, 3) = Dos!Root(d) /\ (Len(folded) > 3 => Dos!Last(folded) # "\\")
    <3>1. PICK names : Dir(names) /\ folded = Guest(d, "\\", names) BY <1>1, <2>1 DEF DosBuffers
    <3> DEFINE r == Dos!Root(d)  s == Dos!Spell(names)
    <3>2. names \in NameList BY <3>1 DEF Dir
    <3>3. r \in Text /\ Len(r) = 3 /\ s \in Text /\ folded = r \o s
      <4> HIDE DEF d
      <4> QED BY <1>2, <3>1, <3>2, DosRoot, RootText
    <3>4. SubSeq(folded, 1, 3) = r
      <4> HIDE DEF r, s
      <4>1. SubSeq(r \o s, 1, Len(r)) = r BY <3>3, Kept
      <4> QED BY <4>1, <3>3
    <3>5. ASSUME Len(folded) > 3 PROVE Dos!Last(folded) # "\\"
      <4> DEFINE t == Spelled("\\", names)
      <4> HIDE DEF d
      <4>1. names # <<>> BY <3>1, <3>5, <1>2, Chars, DirLength
      <4>2. t[Len(t)] # "\\" BY <4>1, <3>1, Chars, SpelledLast
      <4>3. Len(t) \in 1 .. Len(t) /\ Len(t) \in Nat BY <4>1, <3>2, Chars, SpelledStarts
      <4>4. folded \in Text /\ Len(folded) = 2 + Len(t) /\ \A k \in 1 .. Len(t) : folded[2 + k] = t[k]
        <5>1. /\ Guest(d, "\\", names) \in Text
              /\ Len(Guest(d, "\\", names)) = IF names = <<>> THEN 3 ELSE 2 + Len(t)
              /\ \A k \in 1 .. Len(t) : Guest(d, "\\", names)[2 + k] = t[k]
          BY <3>2, <1>2, Chars, GuestLayout
        <5> HIDE DEF t
        <5>2. Len(Guest(d, "\\", names)) = 2 + Len(t) BY <5>1, <4>1
        <5> QED BY <5>1, <5>2, <3>1
      <4> HIDE DEF t
      <4>5. folded[Len(folded)] # "\\" BY <4>2, <4>3, <4>4
      <4> QED BY <4>4, <4>5, <2>1, LastOf
    <3> QED BY <3>4, <3>5
  <2>2. Len(folded) < ACC_PATH
    <3>1. Len(<<>>) = 0 OBVIOUS
    <3>2. Len(combined) \in Nat /\ Len(combined) < ACC_PATH /\ ACC_PATH \in Nat
      BY <1>1, DosPathAssumption DEF DosBuffers, Dos!DosAssumption
    <3> DEFINE n == Len(combined)
    <3>3. 0 < ACC_PATH
      <4>1. n \in Nat /\ n < ACC_PATH /\ ACC_PATH \in Nat BY <3>2
      <4> HIDE DEF n
      <4> QED BY <4>1
    <3> QED BY <1>1, <3>1, <3>3 DEF DosBuffers
  <2> HIDE DEF d
  <2>3. folding \in {"start", "fold", "parent", "accepted", "refused"}
        /\ read \in 1 .. (Len(combined) + 1) /\ Len(combined) < ACC_PATH
    BY <1>1 DEF DosBuffers
  <2> QED BY <2>1, <2>2, <2>3 DEF Dos!TypeOK, d
<1> QED BY <1>1, <1>3, <1>4

(* It holds at the start.                                                     *)
LEMMA DosInvInit == Init => DosInv
<1> SUFFICES ASSUME Init PROVE DosInv OBVIOUS
<1>1. CASE UnixInit BY <1>1 DEF UnixInit, DosInv
<1>2. CASE DosInit
  <2>1. system = "dos" /\ Dos!Init BY <1>2 DEF DosInit
  <2> QED BY <2>1, DosInitInv
<1> QED BY <1>1, <1>2 DEF Init

(* Every step keeps it.                                                       *)
LEMMA DosInvStep == DosInv /\ [Next]_vars => DosInv'
<1> SUFFICES ASSUME DosInv, [Next]_vars PROVE DosInv' OBVIOUS
<1>1. CASE FoldPath
  <2>1. system = "dos" /\ system' = system /\ Dos!Next BY <1>1 DEF FoldPath
  <2>2. CASE Dos!Combine BY <2>1, <2>2, CombineStep
  <2>3. CASE Dos!FoldComponent BY <2>1, <2>3, FoldComponentStep
  <2>4. CASE Dos!EndFold BY <2>1, <2>4, EndFoldStep
  <2>5. CASE Dos!CheckParent BY <2>1, <2>5, CheckParentStep
  <2> QED BY <2>1, <2>2, <2>3, <2>4, <2>5 DEF Dos!Next
<1>2. CASE UNCHANGED ctx BY <1>2, DosKept DEF ctx
<1>3. CASE Call BY <1>3, <1>2 DEF Call
<1>4. CASE ResolvePath BY <1>4, <1>2 DEF ResolvePath, Refuse
<1>5. CASE ChooseAnchor BY <1>5, <1>2 DEF ChooseAnchor, Refuse
<1>6. CASE ScanCanonical BY <1>6, <1>2 DEF ScanCanonical
<1>7. CASE ScanDrive BY <1>7, <1>2 DEF ScanDrive
<1>8. CASE ScanSeparator BY <1>8, <1>2 DEF ScanSeparator, Refuse
<1>9. CASE ScanDot BY <1>9, <1>2 DEF ScanDot, Refuse
<1>10. CASE ScanCharacter BY <1>10, <1>2 DEF ScanCharacter, Refuse
<1>11. CASE EndScan BY <1>11, <1>2 DEF EndScan, Refuse
<1>12. CASE UNCHANGED vars BY <1>12, <1>2 DEF vars
<1> QED BY <1>1, <1>3, <1>4, <1>5, <1>6, <1>7, <1>8, <1>9, <1>10, <1>11, <1>12 DEF Next

(* path.c:131-135: for every disk, current directory and path, path_canonical *)
(* on DOS names what the path means from the current directory of its drive,  *)
(* in its one normal form; an output is refused exactly when the directory it *)
(* would be created in is missing; what has been written never leaves the     *)
(* root of the drive and never outgrows its buffer on the way.                *)
THEOREM CanonicalPathIsNormal == Spec => []CanonicalIsNormal
<1>1. Init => DosInv BY DosInvInit
<1>2. DosInv /\ [Next]_vars => DosInv' BY DosInvStep
<1>3. DosInv => CanonicalIsNormal BY DosInvImplies
<1> QED BY <1>1, <1>2, <1>3, PTL DEF Spec

-----------------------------------------------------------------------------
(* A character a DOS name can have beside its dot.                            *)
Usual(c) == c \notin Unsafe \cup {".", "\\"}

(* A name with a dot at d is a DOS name.                                      *)
DotAt(x, d) ==
  /\ d \in 2 .. (Len(x) - 1) /\ x[d] = "." /\ d - 1 <= BASE /\ Len(x) - d <= EXT
  /\ \A j \in 1 .. Len(x) : j # d => Usual(x[j])
  /\ Fold(SubSeq(x, 1, d - 1)) \notin Devices

(* The bounds are numbers, and a guest path is shorter than a host path.      *)
LEMMA Numbers == BASE \in Nat \ {0} /\ EXT \in Nat /\ LIMIT \in Nat /\ ACC_PATH \in Nat /\ LIMIT < ACC_PATH
BY AccPathAssumption DEF AccPathAssumption

(* Plain, character by character.                                             *)
LEMMA PlainExactly ==
  ASSUME NEW t \in Text, NEW n \in Nat
  PROVE  Plain(t, n) <=> Len(t) >= 1 /\ Len(t) <= n /\ \A j \in 1 .. Len(t) : Usual(t[j])
<1>1. DOMAIN t = 1 .. Len(t) /\ Len(t) \in Nat BY TextLength DEF Text
<1>2. Len(t) \in 1 .. n <=> Len(t) >= 1 /\ Len(t) <= n BY <1>1
<1> QED BY <1>1, <1>2 DEF Plain, Usual

(* A name with a dot at d, character by character.                            *)
LEMMA DotAtExactly ==
  ASSUME NEW x \in Text, NEW d \in 2 .. (Len(x) - 1)
  PROVE  /\ x[d] = "."
         /\ Plain(SubSeq(x, 1, d - 1), BASE)
         /\ Plain(SubSeq(x, d + 1, Len(x)), EXT)
         /\ Fold(SubSeq(x, 1, d - 1)) \notin Devices
         <=> DotAt(x, d)
<1> DEFINE n == Len(x)  a == SubSeq(x, 1, d - 1)  b == SubSeq(x, d + 1, n)
<1>1. n \in Nat /\ d \in Nat /\ 2 <= d /\ d <= n - 1 BY TextLength
<1>2. /\ a \in Text /\ Len(a) = ((d - 1) - 1) + 1
      /\ \A i \in 1 .. ((d - 1) - 1) + 1 : a[i] = x[(1 + i) - 1]
  <2>1. 1 \in Nat /\ d - 1 \in Nat /\ 1 <= 1 /\ 1 - 1 <= d - 1 /\ d - 1 <= Len(x) BY <1>1
  <2> QED BY <2>1, Piece
<1>3. /\ b \in Text /\ Len(b) = (n - (d + 1)) + 1
      /\ \A i \in 1 .. (n - (d + 1)) + 1 : b[i] = x[((d + 1) + i) - 1]
  <2>1. d + 1 \in Nat /\ n \in Nat /\ 1 <= d + 1 /\ (d + 1) - 1 <= n /\ n <= Len(x) BY <1>1
  <2> QED BY <2>1, Piece
<1> HIDE DEF a, b
<1>4. Len(a) = d - 1 /\ \A i \in 1 .. d - 1 : a[i] = x[i]
  <2> HIDE DEF n
  <2>1. Len(a) = d - 1 /\ ((d - 1) - 1) + 1 = d - 1 BY <1>1, <1>2
  <2>2. \A i \in 1 .. d - 1 : (1 + i) - 1 = i BY <1>1
  <2> QED BY <2>1, <2>2, <1>2
<1>5. Len(b) = n - d /\ \A i \in 1 .. n - d : b[i] = x[d + i]
  <2> HIDE DEF n
  <2>1. Len(b) = n - d /\ (n - (d + 1)) + 1 = n - d BY <1>1, <1>3
  <2>2. \A i \in 1 .. n - d : ((d + 1) + i) - 1 = d + i BY <1>1
  <2> QED BY <2>1, <2>2, <1>3
<1>6. Plain(a, BASE) <=> d - 1 <= BASE /\ \A j \in 1 .. d - 1 : Usual(x[j])
  <2> HIDE DEF n
  <2>1. Plain(a, BASE) <=> Len(a) >= 1 /\ Len(a) <= BASE /\ \A j \in 1 .. Len(a) : Usual(a[j])
    BY <1>2, Numbers, PlainExactly
  <2>2. d - 1 >= 1 BY <1>1
  <2> QED BY <2>1, <2>2, <1>4
<1>7. Plain(b, EXT) <=> n - d <= EXT /\ \A i \in 1 .. n - d : Usual(x[d + i])
  <2> HIDE DEF n
  <2>1. Plain(b, EXT) <=> Len(b) >= 1 /\ Len(b) <= EXT /\ \A j \in 1 .. Len(b) : Usual(b[j])
    BY <1>3, Numbers, PlainExactly
  <2>2. n - d >= 1 BY <1>1
  <2> QED BY <2>1, <2>2, <1>5
<1>8. (\A j \in 1 .. d - 1 : Usual(x[j])) /\ (\A i \in 1 .. n - d : Usual(x[d + i]))
      <=> \A j \in 1 .. n : j # d => Usual(x[j])
  <2> HIDE DEF n
  <2>1. \A j \in 1 .. d - 1 : j \in 1 .. n /\ j # d BY <1>1
  <2>2. \A i \in 1 .. n - d : d + i \in 1 .. n /\ d + i # d BY <1>1
  <2>3. \A j \in 1 .. n : j # d => j \in 1 .. d - 1 \/ (j - d \in 1 .. n - d /\ d + (j - d) = j) BY <1>1
  <2> QED BY <2>1, <2>2, <2>3
<1> QED BY <1>6, <1>7, <1>8 DEF DotAt, a, b

(* DosName, character by character.                                           *)
LEMMA DosNameExactly ==
  ASSUME NEW x \in Text
  PROVE  DosName(x) <=> \/ /\ Len(x) >= 1 /\ Len(x) <= BASE
                           /\ \A j \in 1 .. Len(x) : Usual(x[j])
                           /\ Fold(x) \notin Devices
                        \/ \E d \in 2 .. (Len(x) - 1) : DotAt(x, d)
<1>1. Plain(x, BASE) <=> Len(x) >= 1 /\ Len(x) <= BASE /\ \A j \in 1 .. Len(x) : Usual(x[j])
  BY Numbers, PlainExactly
<1> QED BY <1>1, DotAtExactly DEF DosName

(* What the scan's counters say of the first k characters of a name.          *)
Counted(x, k, b, e, f) ==
  /\ k \in Nat /\ k <= Len(x) /\ b \in Nat /\ e \in Nat /\ b <= BASE /\ e <= EXT
  /\ \/ f = FALSE /\ b = k /\ e = 0 /\ \A j \in 1 .. k : Usual(x[j])
     \/ /\ f = TRUE /\ k = b + 1 + e /\ x[b + 1] = "."
        /\ \A j \in 1 .. k : j # b + 1 => Usual(x[j])

(* Nothing has been counted at the start of a name.                           *)
LEMMA CountedStart == ASSUME NEW x \in Text PROVE Counted(x, 0, 0, 0, FALSE)
<1>1. Len(x) \in Nat BY TextLength
<1> QED BY <1>1, Numbers DEF Counted

(* A character that is counted.                                               *)
LEMMA CountedCharacter ==
  ASSUME NEW x \in Text, NEW k, NEW b, NEW e, NEW f, Counted(x, k, b, e, f), k + 1 <= Len(x),
         Usual(x[k + 1]), f = FALSE => b + 1 <= BASE, f = TRUE => e + 1 <= EXT
  PROVE  Counted(x, k + 1, IF f THEN b ELSE b + 1, IF f THEN e + 1 ELSE e, f)
<1>1. /\ k \in Nat /\ b \in Nat /\ e \in Nat /\ b <= BASE /\ e <= EXT
      /\ Len(x) \in Nat
  BY TextLength DEF Counted
<1>2. \A j \in 1 .. k + 1 : j \in 1 .. k \/ j = k + 1 BY <1>1
<1>3. CASE f = FALSE
  <2>1. b = k /\ e = 0 /\ \A j \in 1 .. k : Usual(x[j]) BY <1>3 DEF Counted
  <2>2. \A j \in 1 .. k + 1 : Usual(x[j]) BY <2>1, <1>2
  <2> QED BY <2>1, <2>2, <1>1, <1>3, Numbers DEF Counted
<1>4. CASE f = TRUE
  <2>1. k = b + 1 + e /\ x[b + 1] = "." /\ \A j \in 1 .. k : j # b + 1 => Usual(x[j]) BY <1>4 DEF Counted
  <2>2. \A j \in 1 .. k + 1 : j # b + 1 => Usual(x[j]) BY <2>1, <1>2
  <2>3. k + 1 = b + 1 + (e + 1) BY <2>1, <1>1
  <2> QED BY <2>1, <2>2, <2>3, <1>1, <1>4, Numbers DEF Counted
<1> QED BY <1>3, <1>4 DEF Counted

(* The first dot.                                                             *)
LEMMA CountedDot ==
  ASSUME NEW x \in Text, NEW k, NEW b, NEW e, NEW f, Counted(x, k, b, e, f), f = FALSE,
         k + 1 <= Len(x), x[k + 1] = "."
  PROVE  Counted(x, k + 1, b, e, TRUE)
<1>1. /\ k \in Nat /\ b = k /\ e = 0 /\ b <= BASE /\ e <= EXT /\ Len(x) \in Nat
      /\ \A j \in 1 .. k : Usual(x[j])
  BY TextLength DEF Counted
<1>2. \A j \in 1 .. k + 1 : j # b + 1 => Usual(x[j]) BY <1>1
<1> QED BY <1>1, <1>2 DEF Counted

(* Neither the dot nor the backslash is counted.                              *)
LEMMA DotIsUnusual == ~Usual(".") /\ ~Usual("\\") BY DEF Usual

(* A name with a second dot is none that DOS has.                             *)
LEMMA SecondDot ==
  ASSUME NEW x \in Text, NEW k, NEW b, NEW e, NEW f, Counted(x, k, b, e, f), f = TRUE,
         k + 1 <= Len(x), x[k + 1] = "."
  PROVE  ~DosName(x)
<1>1. /\ k \in Nat /\ b \in Nat /\ e \in Nat /\ k = b + 1 + e /\ x[b + 1] = "." /\ Len(x) \in Nat
  BY TextLength DEF Counted
<1>2. k + 1 \in 1 .. Len(x) /\ b + 1 \in 1 .. Len(x) /\ b + 1 # k + 1 BY <1>1
<1>3. ~Usual(x[k + 1]) /\ ~Usual(x[b + 1]) BY <1>1, DotIsUnusual
<1>4. \A d \in 2 .. (Len(x) - 1) : ~DotAt(x, d)
  <2> SUFFICES ASSUME NEW d \in 2 .. (Len(x) - 1), DotAt(x, d) PROVE FALSE OBVIOUS
  <2>1. b + 1 = d /\ k + 1 = d BY <1>2, <1>3 DEF DotAt
  <2> QED BY <2>1, <1>2
<1> QED BY <1>2, <1>3, <1>4, DosNameExactly

(* A name the counters refuse is none that DOS has.                           *)
LEMMA BadCharacter ==
  ASSUME NEW x \in Text, NEW k, NEW b, NEW e, NEW f, Counted(x, k, b, e, f), k + 1 <= Len(x),
         x[k + 1] \notin {".", "\\"},
         \/ x[k + 1] \in Unsafe
         \/ f = FALSE /\ b + 1 > BASE
         \/ f = TRUE /\ e + 1 > EXT
  PROVE  ~DosName(x)
<1>1. /\ k \in Nat /\ b \in Nat /\ e \in Nat /\ Len(x) \in Nat
  BY TextLength DEF Counted
<1>2. k + 1 \in 1 .. Len(x) BY <1>1
<1>3. CASE x[k + 1] \in Unsafe
  <2>1. ~Usual(x[k + 1]) BY <1>3 DEF Usual
  <2>2. \A d \in 2 .. (Len(x) - 1) : ~DotAt(x, d)
    <3> SUFFICES ASSUME NEW d \in 2 .. (Len(x) - 1), DotAt(x, d) PROVE FALSE OBVIOUS
    <3>1. k + 1 = d BY <2>1, <1>2 DEF DotAt
    <3> QED BY <3>1 DEF DotAt
  <2> QED BY <2>1, <2>2, <1>2, DosNameExactly
<1>4. CASE f = FALSE /\ b + 1 > BASE
  <2>1. b = k /\ \A j \in 1 .. k : Usual(x[j]) BY <1>4 DEF Counted
  <2>2. \A j \in 1 .. k + 1 : x[j] # "."
    <3>1. \A j \in 1 .. k + 1 : j \in 1 .. k \/ j = k + 1 BY <1>1
    <3> QED BY <3>1, <2>1, DotIsUnusual
  <2>3. ~(Len(x) <= BASE) BY <1>1, <1>4, <2>1, Numbers
  <2>4. \A d \in 2 .. (Len(x) - 1) : ~DotAt(x, d)
    <3> SUFFICES ASSUME NEW d \in 2 .. (Len(x) - 1), DotAt(x, d) PROVE FALSE OBVIOUS
    <3>1. x[d] = "." /\ d - 1 <= BASE BY DEF DotAt
    <3>2. d \notin 1 .. k + 1 BY <3>1, <2>2
    <3>3. d - 1 > k BY <3>2, <1>1
    <3> QED BY <3>1, <3>3, <1>1, <1>4, <2>1, Numbers
  <2> QED BY <2>3, <2>4, DosNameExactly
<1>5. CASE f = TRUE /\ e + 1 > EXT
  <2>1. k = b + 1 + e /\ x[b + 1] = "." /\ b + 1 \in 1 .. Len(x) BY <1>1, <1>5 DEF Counted
  <2>2. ~Usual(x[b + 1]) BY <2>1, DotIsUnusual
  <2>3. \A d \in 2 .. (Len(x) - 1) : ~DotAt(x, d)
    <3> SUFFICES ASSUME NEW d \in 2 .. (Len(x) - 1), DotAt(x, d) PROVE FALSE OBVIOUS
    <3>1. b + 1 = d /\ Len(x) - d <= EXT BY <2>1, <2>2 DEF DotAt
    <3>2. Len(x) - d >= e + 1 BY <3>1, <2>1, <1>1
    <3> QED BY <3>1, <3>2, <1>1, <1>5, Numbers
  <2> QED BY <2>1, <2>2, <2>3, DosNameExactly
<1> QED BY <1>3, <1>4, <1>5

(* At the end of a name the counters tell whether DOS has it.                 *)
LEMMA CountedEnd ==
  ASSUME NEW x \in Text, x # <<>>, NEW b, NEW e, NEW f, Counted(x, Len(x), b, e, f)
  PROVE  DosName(x) <=> ~((f = TRUE /\ (b = 0 \/ e = 0)) \/ Fold(SubSeq(x, 1, b)) \in Devices)
<1> DEFINE n == Len(x)
<1>1. /\ n \in Nat /\ b \in Nat /\ e \in Nat /\ b <= BASE /\ e <= EXT BY TextLength DEF Counted
<1>2. n >= 1
  <2>1. n # 0 BY EmptySeq DEF Text
  <2> HIDE DEF n
  <2> QED BY <2>1, <1>1
<1>3. CASE f = FALSE
  <2>1. b = n /\ \A j \in 1 .. n : Usual(x[j]) BY <1>3 DEF Counted
  <2>2. SubSeq(x, 1, b) = x
    <3>1. \A s \in Seq(Char) : SubSeq(s, 1, Len(s)) = s OBVIOUS
    <3> QED BY <2>1, <3>1 DEF Text
  <2>3. \A d \in 2 .. (n - 1) : ~DotAt(x, d)
    <3> SUFFICES ASSUME NEW d \in 2 .. (n - 1), DotAt(x, d) PROVE FALSE OBVIOUS
    <3>1. x[d] = "." BY DEF DotAt
    <3>2. d \in 1 .. n BY <1>1
    <3> QED BY <3>1, <3>2, <2>1, DotIsUnusual
  <2>4. DosName(x) <=> Fold(x) \notin Devices
    <3>1. n <= BASE BY <1>1, <2>1
    <3> QED BY <3>1, <1>2, <2>1, <2>3, DosNameExactly
  <2> QED BY <2>2, <2>4, <1>3
<1>4. CASE f = TRUE
  <2>1. n = b + 1 + e /\ x[b + 1] = "." /\ b + 1 \in 1 .. n /\ \A j \in 1 .. n : j # b + 1 => Usual(x[j])
    BY <1>1, <1>4 DEF Counted
  <2>2. ~Usual(x[b + 1]) BY <2>1, DotIsUnusual
  <2>3. DosName(x) <=> \E d \in 2 .. (n - 1) : DotAt(x, d) BY <2>1, <2>2, DosNameExactly
  <2>4. \A d \in 2 .. (n - 1) : DotAt(x, d) => d = b + 1 BY <2>1, <2>2 DEF DotAt
  <2> HIDE DEF n
  <2>5. b + 1 \in 2 .. (n - 1) <=> ~(b = 0 \/ e = 0) BY <2>1, <1>1
  <2>6. (b + 1) - 1 = b /\ b <= BASE /\ n - (b + 1) <= EXT BY <2>1, <1>1
  <2>7. b + 1 \in 2 .. (n - 1) => (DotAt(x, b + 1) <=> Fold(SubSeq(x, 1, b)) \notin Devices)
    BY <2>1, <2>6 DEF DotAt, n
  <2>8. DosName(x) <=> b + 1 \in 2 .. (n - 1) /\ DotAt(x, b + 1) BY <2>3, <2>4
  <2> QED BY <2>5, <2>7, <2>8, <1>4
<1> QED BY <1>3, <1>4 DEF Counted

-----------------------------------------------------------------------------
(* The names of a file on the host.                                           *)
Place(names) ==
  /\ names \in NameList /\ Free("/", names)
  /\ \A i \in 1 .. Len(names) : names[i] # <<>>

(* The roots, current directories and locations are places.                   *)
LEMMA KnownPlace == ASSUME NEW names \in Roots \cup Cwds \cup Locations PROVE Place(names)
<1>1. names \in Seq(Names) /\ Names \subseteq Seq(STRING \ {"/"}) /\ <<>> \notin Names
  BY AccPathAssumption DEF AccPathAssumption
<1>2. Len(names) \in Nat /\ DOMAIN names = 1 .. Len(names) /\ \A i \in 1 .. Len(names) : names[i] \in Names
  BY <1>1
<1> DEFINE A == STRING \ {"/"}
<1>3. A \subseteq Char /\ "/" \notin A BY DEF Char
<1>4. Names \subseteq Seq(A) BY <1>1
<1> HIDE DEF A
<1>5. ASSUME NEW i \in 1 .. Len(names)
      PROVE  /\ names[i] \in Text /\ names[i] # <<>>
             /\ \A k \in DOMAIN names[i] : names[i][k] # "/"
  <2>1. names[i] \in Seq(A) /\ names[i] # <<>> BY <1>1, <1>2, <1>4
  <2>2. names[i] \in Text /\ \A k \in 1 .. Len(names[i]) : names[i][k] \in A BY <2>1, <1>3, TextIn
  <2>3. DOMAIN names[i] = 1 .. Len(names[i]) BY <2>1
  <2> QED BY <2>1, <2>2, <2>3, <1>3
<1>6. names \in NameList
  <2>1. names = [i \in 1 .. Len(names) |-> names[i]] BY <1>1
  <2>2. [i \in 1 .. Len(names) |-> names[i]] \in Seq(Text) BY <1>2, <1>5
  <2> QED BY <2>1, <2>2 DEF NameList
<1> QED BY <1>2, <1>5, <1>6 DEF Place, Free

(* The root is a place.                                                       *)
LEMMA PlaceEmpty == Place(<<>>)
<1>1. <<>> \in Seq(Text) /\ DOMAIN <<>> = {} /\ Len(<<>>) = 0 OBVIOUS
<1> QED BY <1>1 DEF Place, NameList, Free

(* Lengths of a place and of its spelling.                                    *)
LEMMA PlaceLength ==
  ASSUME NEW names, Place(names), NEW c \in Char
  PROVE  /\ Len(names) \in Nat /\ Len(Spelled(c, names)) \in Nat
         /\ names # <<>> => Len(Spelled(c, names)) >= 2
<1>1. names \in NameList BY DEF Place
<1>2. Len(names) \in Nat /\ Len(Spelled(c, names)) \in Nat BY <1>1, SizeEnds, SpelledText, TextLength
<1>3. ASSUME names # <<>> PROVE Len(Spelled(c, names)) >= 2
  <2>1. Len(names) # 0 BY <1>1, <1>3, EmptySeq DEF NameList
  <2> DEFINE n == Len(names)  x == names[1]  m == Len(x)  s == Len(Spelled(c, names))
  <2>2. 1 \in 1 .. n
    <3> HIDE DEF n
    <3> QED BY <2>1, <1>2 DEF n
  <2>3. x \in Text /\ x # <<>> BY <1>1, <2>2 DEF Place, NameList
  <2>4. m \in Nat /\ m # 0 BY <2>3, TextLength, EmptySeq DEF Text
  <2>5. Size(c, names, 1 - 1) \in Nat /\ Size(c, names, 1 - 1) + 1 + Len(x) <= s /\ s \in Nat
    BY <1>1, <2>2, Layout
  <2> DEFINE z == Size(c, names, 1 - 1)
  <2>6. z \in Nat /\ z + 1 + m <= s /\ s \in Nat BY <2>5
  <2> HIDE DEF m, s, z
  <2>7. s >= 2 BY <2>4, <2>6
  <2> QED BY <2>7 DEF s
<1> QED BY <1>2, <1>3

(* IsPrefix, element by element.                                              *)
LEMMA PrefixExactly ==
  ASSUME NEW S, NEW a \in Seq(S), NEW b \in Seq(S)
  PROVE  IsPrefix(a, b) <=> Len(a) <= Len(b) /\ \A i \in 1 .. Len(a) : a[i] = b[i]
<1>1. Len(a) \in Nat /\ Len(b) \in Nat OBVIOUS
<1>2. SubSeq(a, 1, Len(a)) = a OBVIOUS
<1>3. ASSUME Len(a) <= Len(b)
      PROVE  a = SubSeq(b, 1, Len(a)) <=> \A i \in 1 .. Len(a) : a[i] = b[i]
  <2> DEFINE u == SubSeq(b, 1, Len(a))
  <2>1. u \in Seq(S) /\ Len(u) = Len(a) /\ \A i \in 1 .. Len(a) : u[i] = b[i] BY <1>1, <1>3
  <2> HIDE DEF u
  <2>2. (\A i \in 1 .. Len(a) : a[i] = b[i]) => a = u BY <2>1, SeqEqual
  <2>3. a = u => \A i \in 1 .. Len(a) : a[i] = b[i] BY <2>1
  <2> QED BY <2>2, <2>3 DEF u
<1> QED BY <1>2, <1>3 DEF IsPrefix

(* What is left of the names after those of an anchor.                        *)
After(a, names) == SubSeq(names, Len(a) + 1, Len(names))

(* A place is an anchor and the names below it.                               *)
LEMMA AfterAnchor ==
  ASSUME NEW a, Place(a), NEW names, Place(names), IsPrefix(a, names)
  PROVE  /\ Place(After(a, names)) /\ a \o After(a, names) = names
         /\ Len(names) = Len(a) + Len(After(a, names))
<1> DEFINE r == After(a, names)  n == Len(names)  m == Len(a)
<1>1. a \in Seq(Text) /\ names \in Seq(Text) BY DEF Place, NameList
<1>2. n \in Nat /\ m \in Nat /\ m <= n /\ \A i \in 1 .. m : a[i] = names[i] BY <1>1, PrefixExactly
<1>3. r \in Seq(Text) /\ Len(r) = n - m /\ \A i \in 1 .. n - m : r[i] = names[m + i]
  <2>1. m + 1 \in Nat /\ n \in Nat /\ 1 <= m + 1 /\ n <= Len(names) BY <1>2
  <2>2. \A i \in 1 .. n - m : (m + 1) + i - 1 = m + i BY <1>2
  <2>3. IF m + 1 <= n THEN (n - (m + 1)) + 1 = n - m ELSE n - m = 0 BY <1>2
  <2> DEFINE lo == m + 1
  <2>4. lo \in Nat /\ n \in Nat /\ 1 <= lo /\ n <= Len(names) BY <2>1
  <2> HIDE DEF lo, m, n
  <2>5. SubSeq(names, lo, n) \in Seq(Text) BY <1>1, <2>4
  <2>6. Len(SubSeq(names, lo, n)) = IF lo <= n THEN n - lo + 1 ELSE 0 BY <1>1, <2>4
  <2>7. \A i \in 1 .. Len(SubSeq(names, lo, n)) : SubSeq(names, lo, n)[i] = names[lo + i - 1]
    BY <1>1, <2>4
  <2>8. Len(SubSeq(names, lo, n)) = n - m BY <2>3, <2>6, <1>2 DEF lo
  <2>9. SubSeq(names, lo, n) = After(a, names) BY DEF lo, m, n, After
  <2> QED BY <2>2, <2>5, <2>7, <2>8, <2>9 DEF lo
<1>4. Place(r)
  <2>1. \A i \in 1 .. Len(r) : m + i \in 1 .. n /\ r[i] = names[m + i] BY <1>2, <1>3
  <2>2. DOMAIN r = 1 .. Len(r) /\ DOMAIN names = 1 .. n BY <1>1, <1>3
  <2> HIDE DEF r, m, n
  <2>3. \A i \in 1 .. Len(r) : r[i] # <<>> BY <2>1 DEF Place, n
  <2>4. \A i \in DOMAIN r : \A k \in DOMAIN r[i] : r[i][k] # "/" BY <2>1, <2>2 DEF Place, Free
  <2> QED BY <1>3, <2>3, <2>4 DEF Place, NameList, Free
<1>5. a \o r = names
  <2>1. a \o r \in Seq(Text) /\ Len(a \o r) = m + (n - m) BY <1>1, <1>3
  <2>2. m + (n - m) = n BY <1>2
  <2>3. \A i \in 1 .. n : (a \o r)[i] = names[i]
    <3> SUFFICES ASSUME NEW i \in 1 .. n PROVE (a \o r)[i] = names[i] OBVIOUS
    <3>1. CASE i <= m
      <4>1. i \in 1 .. m BY <3>1, <1>2
      <4> HIDE DEF r
      <4>2. (a \o r)[i] = a[i] BY <4>1, <1>1, <1>3
      <4> QED BY <4>1, <4>2, <1>2
    <3>2. CASE ~(i <= m)
      <4>1. i - m \in 1 .. n - m /\ m + (i - m) = i /\ i \in 1 .. m + (n - m) BY <3>2, <1>2
      <4> HIDE DEF r
      <4>2. (a \o r)[i] = r[i - m] BY <4>1, <3>2, <1>1, <1>3
      <4> QED BY <4>1, <4>2, <1>3
    <3> QED BY <3>1, <3>2
  <2> HIDE DEF r
  <2> QED BY <1>1, <2>1, <2>2, <2>3, SeqEqual
<1> QED BY <1>2, <1>3, <1>4, <1>5

(* The canonical spelling of a place.                                         *)
LEMMA SpellText ==
  ASSUME NEW names, Place(names)
  PROVE  /\ Spell(names) \in Text /\ Len(Spell(names)) \in Nat
         /\ names = <<>> => Spell(names) = One("/") /\ Len(Spell(names)) = 1
         /\ names # <<>> => Spell(names) = Spelled("/", names) /\ Len(Spell(names)) >= 2
         /\ Spell(names)[1] = "/"
<1>1. names \in NameList BY DEF Place
<1>2. CASE names = <<>>
  <2>1. Spell(names) = One("/") BY <1>2 DEF Spell, One
  <2> QED BY <2>1, <1>2, Chars, OneText
<1>3. CASE names # <<>>
  <2>1. Spell(names) = Spelled("/", names) BY <1>3 DEF Spell, Spelled
  <2> QED BY <2>1, <1>1, <1>3, Chars, SpelledText, SpelledStarts, PlaceLength
<1> QED BY <1>2, <1>3

(* The spelling of a place is that of an anchor and of the names below it.    *)
LEMMA SpellTogether ==
  ASSUME NEW a, Place(a), a # <<>>, NEW r, Place(r)
  PROVE  Spelled("/", a \o r) = Spell(a) \o Spelled("/", r)
<1>1. a \in NameList /\ r \in NameList BY DEF Place
<1>2. Spelled("/", a \o r) = Spelled("/", a) \o Spelled("/", r) BY <1>1, Chars, SpelledConcat
<1>3. Spell(a) = Spelled("/", a) BY SpellText
<1> QED BY <1>2, <1>3

(* Joining nothing.                                                           *)
LEMMA ConcatNil == ASSUME NEW t \in Text PROVE t \o <<>> = t
OBVIOUS

(* within compares texts, and finds exactly the places below the root: no     *)
(* name is taken for another that it begins.                                  *)
LEMMA WithinExactly ==
  ASSUME NEW a, Place(a), NEW names, Place(names)
  PROVE  Within(Spell(names), Spell(a)) <=> IsPrefix(a, names)
<1> DEFINE t == Spell(names)  u == Spell(a)
<1>1. t \in Text /\ u \in Text /\ Len(t) \in Nat /\ Len(u) \in Nat /\ t[1] = "/" /\ u[1] = "/"
  BY SpellText
<1>2. a \in NameList /\ names \in NameList /\ Free("/", a) /\ Free("/", names) BY DEF Place
<1>3. IsPrefix(u, t) <=> Len(u) <= Len(t) /\ \A i \in 1 .. Len(u) : u[i] = t[i]
  BY <1>1, PrefixExactly DEF Text
<1>4. CASE a = <<>>
  <2>1. u = One("/") /\ Len(u) = 1 /\ u = <<"/">> BY <1>4, SpellText DEF One
  <2>2. Len(t) >= 1
    <3>1. Len(t) = 1 \/ Len(t) >= 2 BY SpellText
    <3> HIDE DEF t
    <3> QED BY <3>1, <1>1
  <2>3. IsPrefix(a, names)
    <3>1. Len(a) = 0 /\ Len(names) \in Nat BY <1>2, <1>4 DEF NameList
    <3>2. a \in Seq(Text) /\ names \in Seq(Text) BY <1>2 DEF NameList
    <3>3. IsPrefix(a, names) <=> Len(a) <= Len(names) /\ \A i \in 1 .. Len(a) : a[i] = names[i]
      BY <3>2, PrefixExactly
    <3> DEFINE n == Len(names)  m == Len(a)
    <3>4. m = 0 /\ n \in Nat BY <3>1
    <3> HIDE DEF n, m
    <3>5. m <= n /\ \A i \in 1 .. m : a[i] = names[i] BY <3>4
    <3> QED BY <3>3, <3>5 DEF n, m
  <2> HIDE DEF t, u
  <2>4. \A i \in 1 .. 1 : u[i] = t[i] BY <1>1
  <2>5. Within(t, u) BY <1>3, <2>1, <2>2, <2>4 DEF Within
  <2> QED BY <2>3, <2>5 DEF t, u
<1>5. CASE a # <<>>
  <2>1. u = Spelled("/", a) /\ Len(u) >= 2 BY <1>5, SpellText
  <2>2. u # <<"/">>
    <3> DEFINE one == <<"/">>
    <3>1. Len(one) = 1 OBVIOUS
    <3> HIDE DEF u, one
    <3>3. Len(u) >= 2 BY <2>1
    <3> DEFINE n == Len(u)
    <3>4. n \in Nat /\ n >= 2 BY <3>3, <1>1
    <3>5. u = one => n = 1 BY <3>1
    <3> HIDE DEF n
    <3>2. u # one BY <3>4, <3>5
    <3> QED BY <3>2 DEF one
  <2>3. ASSUME Within(t, u) PROVE IsPrefix(a, names)
    <3> HIDE DEF t, u
    <3>1. /\ Len(u) <= Len(t) /\ \A i \in 1 .. Len(u) : u[i] = t[i]
          /\ Len(t) = Len(u) \/ t[Len(u) + 1] = "/"
      BY <2>2, <2>3, <1>3 DEF Within
    <3>2. names # <<>>
      <4>1. ASSUME names = <<>> PROVE Len(t) = 1 BY <4>1, SpellText DEF t
      <4> QED BY <4>1, <3>1, <2>1, <1>1
    <3>3. t = Spelled("/", names) BY <3>2, SpellText DEF t
    <3>4. Len(a) <= Len(names) /\ \A i \in 1 .. Len(a) : a[i] = names[i]
      BY <3>1, <3>3, <2>1, <1>2, Chars, PrefixOfNames
    <3> QED BY <3>4, <1>2, PrefixExactly DEF NameList
  <2>4. ASSUME IsPrefix(a, names) PROVE Within(t, u)
    <3> DEFINE r == After(a, names)  v == Spelled("/", r)
    <3>1. Place(r) /\ a \o r = names /\ Len(names) = Len(a) + Len(r) BY <2>4, AfterAnchor
    <3>2. r \in NameList /\ v \in Text /\ Len(v) \in Nat BY <3>1, Chars, PlaceLength, SpelledText DEF Place
    <3>3. names # <<>>
      <4>1. Len(a) \in Nat /\ Len(a) # 0 BY <1>2, <1>5, EmptySeq DEF NameList
      <4>2. Len(r) \in Nat BY <3>1, Chars, PlaceLength
      <4>3. Len(names) # 0 BY <4>1, <4>2, <3>1
      <4>4. Len(<<>>) = 0 OBVIOUS
      <4> QED BY <4>3, <4>4
    <3>4. t = u \o v
      <4>1. t = Spelled("/", a \o r) BY <3>1, <3>3, SpellText
      <4> QED BY <4>1, <3>1, <1>5, SpellTogether
    <3>5. Len(t) = Len(u) + Len(v) /\ \A i \in 1 .. Len(u) : t[i] = u[i]
      <4> HIDE DEF t, u, v
      <4> QED BY <3>2, <3>4, <1>1, Joined
    <3>6. \A i \in 1 .. Len(v) : t[Len(u) + i] = v[i]
      <4> HIDE DEF t, u, v
      <4> QED BY <3>2, <3>4, <1>1, Joined
    <3>7. r # <<>> => v[1] = "/" /\ Len(v) >= 2 BY <3>1, <3>2, Chars, SpelledStarts, PlaceLength
    <3>8. r = <<>> => Len(v) = 0
      <4>1. Len(<<>>) = 0 OBVIOUS
      <4> QED BY <4>1, SpelledEmpty
    <3> HIDE DEF t, u, v, r
    <3>9. Len(t) = Len(u) \/ t[Len(u) + 1] = "/"
      <4>1. CASE r = <<>> BY <4>1, <3>5, <3>8, <1>1
      <4>2. CASE r # <<>>
        <5>1. 1 \in 1 .. Len(v) BY <4>2, <3>2, <3>7
        <5> QED BY <5>1, <4>2, <3>6, <3>7
      <4> QED BY <4>1, <4>2
    <3>10. Len(u) <= Len(t) BY <3>2, <3>5, <1>1
    <3> QED BY <3>5, <3>9, <3>10, <1>3 DEF Within
  <2> QED BY <2>3, <2>4
<1> QED BY <1>4, <1>5

(* The text of the names without the separator it begins with.               *)
SpelledBelow(c, r, t) ==
  /\ t \in Text /\ Len(t) = IF r = <<>> THEN 0 ELSE Len(Spelled(c, r)) - 1
  /\ \A k \in 1 .. Len(t) : t[k] = Spelled(c, r)[1 + k]

(* Characters and length of the end of a text.                                *)
LEMMA Rightmost ==
  ASSUME NEW t \in Text, NEW m \in Nat, m <= Len(t)
  PROVE  /\ SubSeq(t, m + 1, Len(t)) \in Text /\ Len(SubSeq(t, m + 1, Len(t))) = Len(t) - m
         /\ \A k \in 1 .. Len(t) - m : SubSeq(t, m + 1, Len(t))[k] = t[m + k]
<1> DEFINE n == Len(t)  lo == m + 1
<1>1. n \in Nat BY TextLength
<1>2. lo \in Nat /\ 1 <= lo /\ lo - 1 <= n /\ (n - lo) + 1 = n - m
  <2> HIDE DEF n
  <2> QED BY <1>1 DEF n
<1>3. \A k \in 1 .. n - m : (lo + k) - 1 = m + k
  <2> HIDE DEF n
  <2> QED BY <1>1
<1> HIDE DEF lo
<1>4. /\ SubSeq(t, lo, n) \in Text /\ Len(SubSeq(t, lo, n)) = (n - lo) + 1
      /\ \A k \in 1 .. (n - lo) + 1 : SubSeq(t, lo, n)[k] = t[(lo + k) - 1]
  <2>1. n <= Len(t) BY <1>1
  <2> QED BY <2>1, <1>1, <1>2, Piece
<1> QED BY <1>2, <1>3, <1>4 DEF lo

(* What within returns is the spelling of the names below, without the first  *)
(* separator.                                                                 *)
LEMMA BelowExactly ==
  ASSUME NEW a, Place(a), NEW names, Place(names), IsPrefix(a, names)
  PROVE  SpelledBelow("/", After(a, names), Below(Spell(names), Spell(a)))
<1> DEFINE t == Spell(names)  u == Spell(a)  r == After(a, names)  v == Spelled("/", r)
           b == Below(t, u)
<1>1. t \in Text /\ u \in Text /\ Len(t) \in Nat /\ Len(u) \in Nat BY SpellText
<1>2. Place(r) /\ a \o r = names /\ Len(names) = Len(a) + Len(r) BY AfterAnchor
<1>3. r \in NameList /\ v \in Text /\ Len(v) \in Nat BY <1>2, Chars, PlaceLength, SpelledText DEF Place
<1>4. CASE a = <<>>
  <2>1. u = <<"/">> /\ Len(u) = 1 BY <1>4, SpellText DEF One
  <2>2. r = names
    <3>1. \A s \in Seq(Text) : <<>> \o s = s OBVIOUS
    <3> QED BY <3>1, <1>2, <1>3, <1>4 DEF NameList
  <2>3. b = SubSeq(t, 1 + 1, Len(t)) BY <2>1 DEF Below
  <2>4. Len(t) >= 1
    <3>1. Len(t) = 1 \/ Len(t) >= 2 BY SpellText
    <3> DEFINE n == Len(t)
    <3>2. n \in Nat /\ (n = 1 \/ n >= 2) BY <3>1, <1>1
    <3> HIDE DEF n
    <3>3. n >= 1 BY <3>2
    <3> QED BY <3>3 DEF n
  <2>5. b \in Text /\ Len(b) = Len(t) - 1 /\ \A k \in 1 .. Len(t) - 1 : b[k] = t[1 + k]
    <3> DEFINE m == 1
    <3>1. m \in Nat /\ m <= Len(t) /\ b = SubSeq(t, m + 1, Len(t)) BY <2>3, <2>4
    <3> HIDE DEF t, b, m
    <3>2. b \in Text /\ Len(b) = Len(t) - m /\ \A k \in 1 .. Len(t) - m : b[k] = t[m + k]
      BY <3>1, <1>1, Rightmost
    <3> QED BY <3>2 DEF m
  <2>6. CASE r = <<>>
    <3>1. Len(t) = 1 BY <2>2, <2>6, SpellText
    <3> HIDE DEF t, b, v, r
    <3>2. b \in Text /\ Len(b) = 0 BY <3>1, <2>5
    <3>3. \A k \in 1 .. Len(b) : b[k] = v[1 + k] BY <3>2
    <3> QED BY <3>2, <3>3, <2>6 DEF SpelledBelow, t, b, v, r
  <2>7. CASE r # <<>>
    <3>1. t = v BY <2>2, <2>7, SpellText
    <3> HIDE DEF t, b, v, r
    <3>2. b \in Text /\ Len(b) = Len(v) - 1 /\ \A k \in 1 .. Len(b) : b[k] = v[1 + k]
      BY <3>1, <2>5
    <3> QED BY <3>2, <2>7 DEF SpelledBelow, t, b, v, r
  <2> QED BY <2>6, <2>7
<1>5. CASE a # <<>>
  <2>1. Len(u) >= 2 /\ u # <<"/">>
    <3>1. Len(u) >= 2 BY <1>5, SpellText
    <3> DEFINE one == <<"/">>
    <3>2. Len(one) = 1 OBVIOUS
    <3> HIDE DEF u, one
    <3>3. u # one BY <3>1, <3>2
    <3> QED BY <3>1, <3>3 DEF one
  <2>2. names # <<>>
    <3>1. Len(a) \in Nat /\ Len(a) # 0 BY <1>5, EmptySeq, Chars, PlaceLength DEF Place, NameList
    <3>2. Len(r) \in Nat BY <1>2, Chars, PlaceLength
    <3>3. Len(names) # 0 BY <3>1, <3>2, <1>2
    <3>4. Len(<<>>) = 0 OBVIOUS
    <3> QED BY <3>3, <3>4
  <2>3. t = u \o v
    <3>1. t = Spelled("/", a \o r) BY <1>2, <2>2, SpellText
    <3> QED BY <3>1, <1>2, <1>5, SpellTogether
  <2>4. b = SubSeq(t, Len(u) + 2, Len(t)) BY <2>1 DEF Below
  <2> HIDE DEF t, u, b
  <2>5. Len(t) = Len(u) + Len(v) /\ \A i \in 1 .. Len(v) : t[Len(u) + i] = v[i]
    <3> HIDE DEF v
    <3> QED BY <2>3, <1>1, <1>3, Joined
  <2>6. CASE r = <<>>
    <3>1. Len(v) = 0
      <4>1. Len(<<>>) = 0 OBVIOUS
      <4> QED BY <4>1, <2>6, SpelledEmpty
    <3> HIDE DEF v
    <3>2. Len(t) = Len(u) /\ Len(u) + 2 \in Nat /\ ~(Len(u) + 2 <= Len(t)) BY <3>1, <2>5, <1>1
    <3> DEFINE lo == Len(u) + 2  hi == Len(t)
    <3>3. b = <<>>
      <4>1. lo \in Nat /\ hi \in Nat /\ lo > hi /\ b = SubSeq(t, lo, hi) BY <3>2, <2>4, <1>1
      <4> HIDE DEF lo, hi
      <4>2. \A s \in Seq(Char) : SubSeq(s, lo, hi) = <<>> BY <4>1
      <4> QED BY <4>1, <4>2, <1>1 DEF Text
    <3>4. <<>> \in Text /\ Len(<<>>) = 0 BY DEF Text
    <3> HIDE DEF r
    <3> QED BY <3>3, <3>4, <2>6 DEF SpelledBelow, b, t, u, r
  <2>7. CASE r # <<>>
    <3>1. Len(v) >= 2 BY <1>2, <2>7, Chars, PlaceLength
    <3> HIDE DEF v, r
    <3> DEFINE m == Len(u) + 1
    <3>2. m \in Nat /\ m <= Len(t) /\ m + 1 = Len(u) + 2 /\ Len(t) - m = Len(v) - 1
      BY <3>1, <2>5, <1>1, <1>3
    <3>3. \A k \in 1 .. Len(v) - 1 : 1 + k \in 1 .. Len(v) /\ m + k = Len(u) + (1 + k)
      BY <3>1, <1>1, <1>3
    <3> HIDE DEF m
    <3>4. b \in Text /\ Len(b) = Len(t) - m /\ \A k \in 1 .. Len(t) - m : b[k] = t[m + k]
      <4>1. b = SubSeq(t, m + 1, Len(t)) BY <2>4, <3>2
      <4> QED BY <4>1, <3>2, <1>1, Rightmost
    <3>5. \A k \in 1 .. Len(b) : b[k] = v[1 + k] BY <3>2, <3>3, <3>4, <2>5
    <3>6. Len(b) = Len(v) - 1 BY <3>2, <3>4
    <3> QED BY <3>4, <3>5, <3>6, <2>7 DEF SpelledBelow, b, t, u, v, r
  <2> QED BY <2>6, <2>7
<1> QED BY <1>4, <1>5

(* Two spellings differ in the separators only.                               *)
LEMMA OtherSeparator ==
  ASSUME NEW c \in Char, NEW e \in Char, NEW r \in NameList
  PROVE  /\ Len(Spelled(c, r)) = Len(Spelled(e, r)) /\ Len(Spelled(c, r)) \in Nat
         /\ \A k \in 1 .. Len(Spelled(c, r)) :
              \/ Spelled(c, r)[k] = c /\ Spelled(e, r)[k] = e
              \/ /\ Spelled(c, r)[k] = Spelled(e, r)[k]
                 /\ \E n \in Nat : /\ n + 1 \in 1 .. Len(r)
                                   /\ \E j \in 1 .. Len(r[n + 1]) : Spelled(c, r)[k] = r[n + 1][j]
<1> DEFINE s == Spelled(c, r)  t == Spelled(e, r)
<1>1. Len(s) = Len(t) /\ Len(s) \in Nat
  <2>1. Len(r) \in 0 .. Len(r) BY SizeEnds
  <2>2. Size(c, r, Len(r)) = Size(e, r, Len(r)) BY <2>1, SizeOfAny
  <2>3. Size(c, r, Len(r)) = Len(s) /\ Size(e, r, Len(r)) = Len(t) BY SizeEnds
  <2>4. Len(s) \in Nat BY SpelledText, TextLength
  <2> QED BY <2>2, <2>3, <2>4
<1>2. ASSUME NEW k \in 1 .. Len(s)
      PROVE  \/ s[k] = c /\ t[k] = e
             \/ /\ s[k] = t[k]
                /\ \E n \in Nat : /\ n + 1 \in 1 .. Len(r)
                                  /\ \E j \in 1 .. Len(r[n + 1]) : s[k] = r[n + 1][j]
  <2>1. PICK n \in Nat : n + 1 \in 1 .. Len(r) /\ Size(c, r, n) < k /\ k <= Size(c, r, n + 1)
    BY Located
  <2> DEFINE z == Size(c, r, n)  x == r[n + 1]
  <2>2. /\ z \in Nat /\ Len(x) \in Nat /\ Size(c, r, n + 1) = z + 1 + Len(x)
        /\ s[z + 1] = c /\ \A j \in 1 .. Len(x) : s[z + 1 + j] = x[j]
    BY <2>1, SizeStep
  <2>3. z = Size(e, r, n)
    <3>1. n \in 0 .. Len(r) BY <2>1, SizeEnds
    <3> QED BY <3>1, SizeOfAny
  <2>4. t[z + 1] = e /\ \A j \in 1 .. Len(x) : t[z + 1 + j] = x[j]
    <3>1. /\ t[Size(e, r, n) + 1] = e /\ \A j \in 1 .. Len(x) : t[Size(e, r, n) + 1 + j] = x[j]
      BY <2>1, SizeStep
    <3> QED BY <3>1, <2>3
  <2> HIDE DEF s, t, z, x
  <2>5. CASE k = z + 1 BY <2>5, <2>2, <2>4
  <2>6. CASE k # z + 1
    <3> DEFINE j == k - (z + 1)
    <3>1. j \in 1 .. Len(x) /\ z + 1 + j = k BY <2>6, <2>1, <2>2, SMTT(30) DEF z
    <3>2. s[k] = x[j] /\ t[k] = x[j] BY <3>1, <2>2, <2>4
    <3> QED BY <3>1, <3>2, <2>1 DEF x
  <2> QED BY <2>5, <2>6
<1> QED BY <1>1, <1>2

-----------------------------------------------------------------------------
(* A place is a sequence of texts.                                            *)
LEMMA PlaceSeq == ASSUME NEW a, Place(a) PROVE a \in Seq(Text) /\ Len(a) \in Nat
<1>1. a \in Seq(Text) BY DEF Place, NameList
<1> QED BY <1>1

(* The deeper of two nested places has the longer spelling.                   *)
LEMMA LongerSpelling ==
  ASSUME NEW a, Place(a), NEW b, Place(b), IsPrefix(a, b)
  PROVE  /\ Len(Spell(a)) <= Len(Spell(b))
         /\ Len(a) < Len(b) => Len(Spell(a)) < Len(Spell(b))
<1> DEFINE t == Spell(a)  u == Spell(b)  r == After(a, b)  v == Spelled("/", r)
           lt == Len(t)  lu == Len(u)  lv == Len(v)  n == Len(a)  m == Len(b)  q == Len(r)
<1>1. t \in Text /\ u \in Text /\ lt \in Nat /\ lu \in Nat BY SpellText
<1>2. Place(r) /\ a \o r = b /\ m = n + q BY AfterAnchor
<1>3. n \in Nat /\ m \in Nat /\ q \in Nat /\ v \in Text /\ lv \in Nat
  BY <1>2, Chars, PlaceLength, SpelledText DEF Place
<1>4. (a = <<>> <=> n = 0) /\ (b = <<>> <=> m = 0) /\ (r = <<>> <=> q = 0)
  BY <1>2, PlaceSeq, EmptySeq
<1>5. CASE a = <<>>
  <2>1. lt = 1 BY <1>5, SpellText
  <2>2. b = <<>> => lu = 1 BY SpellText
  <2>3. b # <<>> => lu >= 2 BY SpellText
  <2> HIDE DEF lt, lu, n, m, q
  <2>4. lt <= lu /\ (n < m => lt < lu) BY <2>1, <2>2, <2>3, <1>1, <1>3, <1>4, <1>5
  <2> QED BY <2>4 DEF lt, lu, n, m
<1>6. CASE a # <<>>
  <2>1. b # <<>>
    <3> HIDE DEF n, m, q
    <3>1. n # 0 BY <1>4, <1>6
    <3>2. m # 0 BY <3>1, <1>2, <1>3
    <3> QED BY <3>2, <1>4
  <2>2. u = t \o v
    <3>1. u = Spelled("/", a \o r) BY <2>1, <1>2, SpellText
    <3> QED BY <3>1, <1>2, <1>6, SpellTogether
  <2>3. lu = lt + lv
    <3>1. t \in Text /\ v \in Text /\ u = t \o v BY <1>1, <1>3, <2>2
    <3> HIDE DEF t, u, v
    <3> QED BY <3>1, Joined
  <2>4. r # <<>> => lv >= 2 BY <1>2, Chars, PlaceLength
  <2> HIDE DEF lt, lu, lv, n, m, q
  <2>5. n < m => q # 0 BY <1>2, <1>3
  <2>6. lt <= lu /\ (n < m => lt < lu) BY <2>3, <2>4, <2>5, <1>1, <1>3, <1>4
  <2> QED BY <2>6 DEF lt, lu, n, m
<1> QED BY <1>5, <1>6

(* Two anchors of one place are nested.                                       *)
LEMMA PrefixesOfOne ==
  ASSUME NEW a, Place(a), NEW b, Place(b), NEW names, Place(names), IsPrefix(a, names), IsPrefix(b, names)
  PROVE  /\ Len(a) <= Len(b) => IsPrefix(a, b)
         /\ Len(a) = Len(b) => a = b
<1>1. a \in Seq(Text) /\ b \in Seq(Text) /\ names \in Seq(Text) /\ Len(a) \in Nat /\ Len(b) \in Nat
  BY PlaceSeq
<1>2. \A i \in 1 .. Len(a) : a[i] = names[i] BY <1>1, PrefixExactly
<1>3. \A i \in 1 .. Len(b) : b[i] = names[i] BY <1>1, PrefixExactly
<1>4. ASSUME Len(a) <= Len(b) PROVE \A i \in 1 .. Len(a) : a[i] = b[i]
  <2>1. \A i \in 1 .. Len(a) : i \in 1 .. Len(b) BY <1>1, <1>4
  <2> QED BY <2>1, <1>2, <1>3
<1>5. Len(a) <= Len(b) => IsPrefix(a, b) BY <1>1, <1>4, PrefixExactly
<1>6. Len(a) = Len(b) => a = b
  <2>1. Len(a) = Len(b) => Len(a) <= Len(b) BY <1>1
  <2> QED BY <2>1, <1>1, <1>4, SeqEqual
<1> QED BY <1>5, <1>6

(* The roots that the guest drives stand for are places.                      *)
Mapping ==
  /\ system \in {"unix", "dos"}
  /\ system = "unix" => Place(map.root) /\ Place(map.cwd)

(* The names lie in an anchor.                                                *)
Anchored(names) == \E a \in Anchors : IsPrefix(a, names)

(* The root is the anchor of the names.                                       *)
RootFirst(names) ==
  /\ IsPrefix(map.root, names)
  /\ Len(Spell(map.root)) >= Len(Spell(map.cwd)) \/ ~IsPrefix(map.cwd, names)

(* The anchor no other is deeper than is the deepest.                         *)
LEMMA DeepestOf ==
  ASSUME NEW names, NEW a \in Anchors, IsPrefix(a, names),
         \A b \in Anchors : IsPrefix(b, names) => b = a \/ (Len(b) <= Len(a) /\ ~(Len(a) <= Len(b))),
         Len(a) <= Len(a)
  PROVE  Deepest(names) = a
<1> DEFINE A == {b \in Anchors : IsPrefix(b, names)}
           Top(x) == \A b \in A : Len(b) <= Len(x)
<1>1. a \in A /\ Top(a) OBVIOUS
<1>2. \A x \in A : Top(x) => x = a
  <2> SUFFICES ASSUME NEW x \in A, Top(x) PROVE x = a OBVIOUS
  <2>1. Len(a) <= Len(x) BY <1>1
  <2> QED BY <2>1
<1> HIDE DEF A
<1>3. (CHOOSE x \in A : Top(x)) = a
  <2> DEFINE z == CHOOSE x \in A : Top(x)
  <2> HIDE DEF Top
  <2>1. z \in A /\ Top(z) BY <1>1
  <2> QED BY <2>1, <1>2
<1> QED BY <1>3 DEF Deepest, A

(* Which of the root and the current directory is the deepest anchor.         *)
LEMMA DeepestOnUnix ==
  ASSUME Mapping, system = "unix", NEW names, Place(names)
  PROVE  /\ Anchored(names) <=> IsPrefix(map.root, names) \/ IsPrefix(map.cwd, names)
         /\ Anchored(names) =>
              /\ Deepest(names) = IF RootFirst(names) THEN map.root ELSE map.cwd
              /\ Deepest(names) = map.root <=> RootFirst(names)
              /\ IsPrefix(Deepest(names), names) /\ Place(Deepest(names))
<1> DEFINE r == map.root  c == map.cwd  lr == Len(r)  lc == Len(c)
           sr == Len(Spell(r))  sc == Len(Spell(c))
<1>1. Place(r) /\ Place(c) BY DEF Mapping
<1>2. Anchors = {r, c} BY DEF Anchors
<1>3. Anchored(names) <=> IsPrefix(r, names) \/ IsPrefix(c, names) BY <1>2 DEF Anchored
<1>4. lr \in Nat /\ lc \in Nat /\ sr \in Nat /\ sc \in Nat BY <1>1, PlaceSeq, SpellText
<1>5. ASSUME IsPrefix(r, names), IsPrefix(c, names)
      PROVE  /\ lr <= lc => sr <= sc /\ (lr < lc => sr < sc)
             /\ lc <= lr => sc <= sr /\ (lc < lr => sc < sr)
             /\ lr = lc => r = c
  <2>1. /\ lr <= lc => IsPrefix(r, c)
        /\ lc <= lr => IsPrefix(c, r)
        /\ lr = lc => r = c
    BY <1>1, <1>5, PrefixesOfOne
  <2>2. IsPrefix(r, c) => sr <= sc /\ (lr < lc => sr < sc) BY <1>1, LongerSpelling
  <2>3. IsPrefix(c, r) => sc <= sr /\ (lc < lr => sc < sr) BY <1>1, LongerSpelling
  <2> QED BY <2>1, <2>2, <2>3
<1>6. lr <= lr /\ lc <= lc
  <2> HIDE DEF lr, lc
  <2> QED BY <1>4
<1>7. ASSUME RootFirst(names) PROVE Deepest(names) = r
  <2>1. IsPrefix(r, names) /\ (sr >= sc \/ ~IsPrefix(c, names)) BY <1>7 DEF RootFirst
  <2>2. IsPrefix(c, names) => c = r \/ (lc <= lr /\ ~(lr <= lc))
    <3> HIDE DEF r, c, lr, lc, sr, sc
    <3> QED BY <2>1, <1>4, <1>5
  <2> QED BY <2>1, <2>2, <1>2, <1>6, DeepestOf
<1>8. ASSUME Anchored(names), ~RootFirst(names) PROVE Deepest(names) = c /\ IsPrefix(c, names) /\ r # c
  <2>1. IsPrefix(c, names) BY <1>3, <1>8 DEF RootFirst
  <2>2. IsPrefix(r, names) => ~(sr >= sc) BY <1>8 DEF RootFirst
  <2>3. IsPrefix(r, names) => lr <= lc /\ ~(lc <= lr)
    <3> HIDE DEF r, c, lr, lc, sr, sc
    <3> QED BY <2>1, <2>2, <1>4, <1>5
  <2>4. Deepest(names) = c BY <2>1, <2>3, <1>2, <1>6, DeepestOf
  <2>5. r # c BY <2>1, <2>3, <1>6
  <2> QED BY <2>1, <2>4, <2>5
<1>9. RootFirst(names) => IsPrefix(r, names) BY DEF RootFirst
<1> QED BY <1>1, <1>3, <1>7, <1>8, <1>9

(* The root of the drive is the anchor.                                       *)
LEMMA DeepestOnDos ==
  ASSUME Mapping, system = "dos", NEW names, Place(names)
  PROVE  /\ Anchored(names) /\ Deepest(names) = <<>> /\ Rest(names) = names
<1>1. Anchors = {<<>>} BY DEF Anchors
<1>2. names \in Seq(Text) /\ Len(names) \in Nat BY PlaceSeq
<1> DEFINE none == <<>>
<1>3. none \in Seq(Text) /\ Len(none) = 0 OBVIOUS
<1>4. IsPrefix(none, names)
  <2> HIDE DEF none
  <2>4. none \in Seq(Text) /\ names \in Seq(Text) BY <1>2, <1>3
  <2>1. IsPrefix(none, names) <=> Len(none) <= Len(names) /\ \A i \in 1 .. Len(none) : none[i] = names[i]
    BY <2>4, PrefixExactly
  <2> DEFINE n == Len(names)  m == Len(none)
  <2>2. m = 0 /\ n \in Nat BY <1>2, <1>3
  <2> HIDE DEF n, m
  <2>3. m <= n /\ \A i \in 1 .. m : none[i] = names[i] BY <2>2
  <2> QED BY <2>1, <2>3 DEF n, m
<1>5. Deepest(names) = none
  <2>1. Len(none) <= Len(none) BY <1>3
  <2>2. none \in Anchors /\ \A b \in Anchors : b = none BY <1>1
  <2> HIDE DEF none
  <2> QED BY <2>1, <2>2, <1>4, DeepestOf
<1>6. Rest(names) = names
  <2>1. Rest(names) = SubSeq(names, 0 + 1, Len(names)) BY <1>3, <1>5 DEF Rest
  <2>2. \A s \in Seq(Text) : SubSeq(s, 0 + 1, Len(s)) = s OBVIOUS
  <2> QED BY <2>1, <2>2, <1>2
<1> QED BY <1>1, <1>4, <1>5, <1>6 DEF Anchored

(* The deepest anchor and the names below it.                                 *)
LEMMA AnchorFacts ==
  ASSUME Mapping, NEW names, Place(names), Anchored(names)
  PROVE  /\ Place(Deepest(names)) /\ IsPrefix(Deepest(names), names)
         /\ Rest(names) = After(Deepest(names), names)
         /\ Place(Rest(names)) /\ Deepest(names) \o Rest(names) = names
<1>1. Place(Deepest(names)) /\ IsPrefix(Deepest(names), names)
  <2>1. CASE system = "unix" BY <2>1, DeepestOnUnix
  <2>2. CASE system = "dos"
    <3>1. Deepest(names) = <<>> /\ Anchors = {<<>>} BY <2>2, DeepestOnDos DEF Anchors
    <3> QED BY <3>1, PlaceEmpty DEF Anchored
  <2> QED BY <2>1, <2>2 DEF Mapping
<1>2. Rest(names) = After(Deepest(names), names) BY DEF Rest, After
<1> QED BY <1>1, <1>2, AfterAnchor

-----------------------------------------------------------------------------
(* The hypothesis about the directories of missing files: path_join takes a   *)
(* backslash at the end of its first argument for a separator, on Unix too.   *)
ParentsEndPlainly ==
  \A n \in Locations :
    n # <<>> /\ Front(n) # <<>> =>
      Last(Last(Front(n))) # "\\"

(* The parent and the name of a place.                                        *)
LEMMA PlaceFront ==
  ASSUME NEW names, Place(names), names # <<>>
  PROVE  /\ Place(Front(names)) /\ names[Len(names)] \in Text /\ names[Len(names)] # <<>>
         /\ \A k \in 1 .. Len(names[Len(names)]) : names[Len(names)][k] # "/"
         /\ Append(Front(names), names[Len(names)]) = names
         /\ Last(names) = names[Len(names)]
<1> DEFINE f == Front(names)  n == Len(names)
<1>1. names \in NameList BY DEF Place
<1>2. /\ f \in NameList /\ names[n] \in Text /\ n \in Nat \ {0} /\ Len(f) = n - 1
      /\ \A i \in 1 .. n - 1 : f[i] = names[i]
      /\ Append(f, names[n]) = names
  BY <1>1, LastName
<1>3. DOMAIN f = 1 .. Len(f) /\ DOMAIN names = 1 .. n BY <1>1, <1>2 DEF NameList
<1>4. n \in 1 .. n /\ \A i \in 1 .. Len(f) : i \in 1 .. n /\ f[i] = names[i]
  <2> HIDE DEF f, n
  <2> QED BY <1>2
<1> HIDE DEF f, n
<1>5. Place(f)
  <2>1. \A i \in 1 .. Len(f) : f[i] # <<>> BY <1>4 DEF Place, n
  <2>2. \A i \in DOMAIN f : \A k \in DOMAIN f[i] : f[i][k] # "/" BY <1>3, <1>4 DEF Place, Free
  <2> QED BY <1>2, <2>1, <2>2 DEF Place, Free
<1>6. names[n] # <<>> BY <1>4 DEF Place, n
<1>7. \A k \in 1 .. Len(names[n]) : names[n][k] # "/"
  <2>1. DOMAIN names[n] = 1 .. Len(names[n]) BY <1>2 DEF Text
  <2> QED BY <2>1, <1>3, <1>4 DEF Place, Free
<1>8. Last(names) = names[n] BY DEF Last, n
<1> QED BY <1>2, <1>5, <1>6, <1>7, <1>8 DEF f, n

(* The last character of a canonical path is one of its last name.            *)
LEMMA SpellLast ==
  ASSUME NEW names, Place(names), names # <<>>
  PROVE  LET x == names[Len(names)]  t == Spell(names)
         IN t # <<>> /\ Last(t) = x[Len(x)] /\ x[Len(x)] # "/"
<1> DEFINE x == names[Len(names)]  f == Front(names)  s == Spelled("/", f)  t == Spell(names)
           y == <<"/">> \o x
<1>1. /\ Place(f) /\ x \in Text /\ x # <<>> /\ Append(f, x) = names
      /\ \A k \in 1 .. Len(x) : x[k] # "/"
  BY PlaceFront
<1>2. f \in NameList /\ s \in Text BY <1>1, Chars, SpelledText DEF Place
<1>3. t = s \o y
  <2>1. t = Spelled("/", names) BY SpellText
  <2>2. Spelled("/", Append(f, x)) = s \o y BY <1>1, <1>2, Chars, SpelledMore
  <2> QED BY <2>1, <2>2, <1>1
<1>4. y \in Text /\ Len(y) = 1 + Len(x) /\ \A i \in 1 .. Len(x) : y[1 + i] = x[i]
  BY <1>1, Chars, Separated
<1>5. Len(x) \in 1 .. Len(x) /\ Len(x) \in Nat \ {0} BY <1>1, LastOf
<1>6. t \in Text BY SpellText
<1> HIDE DEF x, f, s, t, y
<1>7. /\ Len(s) \in Nat /\ Len(t) = Len(s) + Len(y) /\ \A i \in 1 .. Len(y) : t[Len(s) + i] = y[i]
  BY <1>2, <1>3, <1>4, Joined
<1>8. 1 + Len(x) \in 1 .. Len(y) /\ Len(t) = Len(s) + (1 + Len(x)) /\ Len(t) # 0
  BY <1>4, <1>5, <1>7
<1>9. t[Len(t)] = x[Len(x)] BY <1>4, <1>5, <1>7, <1>8
<1>10. t # <<>>
  <2>1. Len(<<>>) = 0 OBVIOUS
  <2> QED BY <2>1, <1>8
<1>11. Last(t) = t[Len(t)] BY <1>6, <1>10, LastOf
<1> QED BY <1>1, <1>5, <1>9, <1>10, <1>11 DEF x, t

(* path_join of the parent and the name is the canonical path, and fits when  *)
(* its arguments do.                                                          *)
LEMMA MissingJoined ==
  ASSUME ParentsEndPlainly, NEW names \in Locations, names # <<>>
  PROVE  /\ Join(Spell(Front(names)), Last(names)) = Spell(names)
         /\ Len(Last(names)) \in Nat
         /\ Len(Spell(names)) <= Len(Spell(Front(names))) + 1 + Len(Last(names))
<1> DEFINE x == names[Len(names)]  f == Front(names)  u == Spell(f)  t == Spell(names)
           y == <<"/">> \o x
<1>1. Place(names) BY KnownPlace
<1>2. /\ Place(f) /\ x \in Text /\ x # <<>> /\ Append(f, x) = names /\ Last(names) = x
  BY <1>1, PlaceFront
<1>3. f \in NameList /\ u \in Text /\ Len(u) \in Nat /\ Len(x) \in Nat
  BY <1>2, SpellText, TextLength DEF Place
<1>4. y \in Text /\ Len(y) = 1 + Len(x) BY <1>2, Chars, Separated
<1>5. t = Spelled("/", f) \o y
  <2>1. t = Spelled("/", names) BY <1>1, SpellText
  <2>2. Spelled("/", Append(f, x)) = Spelled("/", f) \o y BY <1>2, <1>3, Chars, SpelledMore
  <2> QED BY <2>1, <2>2, <1>2
<1>6. CASE f = <<>>
  <2>1. u = One("/") /\ Len(u) = 1 BY <1>2, <1>6, SpellText
  <2>2. Last(u) = "/" /\ u # <<>>
    <3>1. u[1] = "/" BY <2>1, Chars, OneText
    <3>2. u # <<>>
      <4>1. Len(<<>>) = 0 OBVIOUS
      <4> HIDE DEF u
      <4> QED BY <4>1, <2>1
    <3> HIDE DEF u
    <3> QED BY <3>1, <3>2, <2>1, <1>3, LastOf
  <2>3. Join(u, x) = u \o x BY <2>2 DEF Join
  <2>4. t = y
    <3>1. Spelled("/", f) = <<>> BY <1>6, SpelledEmpty
    <3>2. \A w \in Seq(Char) : <<>> \o w = w OBVIOUS
    <3> HIDE DEF y, t
    <3> QED BY <3>1, <3>2, <1>4, <1>5 DEF Text
  <2>5. Join(u, x) = t BY <2>1, <2>3, <2>4 DEF One
  <2>6. Len(t) <= Len(u) + 1 + Len(x)
    <3> HIDE DEF t, u, y
    <3> QED BY <2>1, <2>4, <1>3, <1>4
  <2> QED BY <2>5, <2>6, <1>2, <1>3
<1>7. CASE f # <<>>
  <2>1. u # <<>> /\ Last(u) = f[Len(f)][Len(f[Len(f)])] /\ f[Len(f)][Len(f[Len(f)])] # "/"
    BY <1>2, <1>7, SpellLast
  <2>2. f[Len(f)][Len(f[Len(f)])] # "\\" BY <1>7 DEF ParentsEndPlainly, Last
  <2>3. ~(Last(u) \in {"/", "\\"}) BY <2>1, <2>2
  <2>4. Join(u, x) = (u \o <<"/">>) \o x
    <3> HIDE DEF u
    <3> QED BY <2>1, <2>3 DEF Join
  <2>5. (u \o <<"/">>) \o x = u \o y
    <3>1. One("/") \in Text BY Chars, OneText
    <3> HIDE DEF u
    <3>2. (u \o One("/")) \o x = u \o (One("/") \o x) BY <3>1, <1>2, <1>3, JoinedTwice
    <3> QED BY <3>2 DEF One
  <2>6. u = Spelled("/", f) BY <1>2, <1>7, SpellText
  <2>7. Join(u, x) = t BY <2>4, <2>5, <2>6, <1>5
  <2>8. Len(t) = Len(u) + Len(y)
    <3>1. t = u \o y BY <1>5, <2>6
    <3> HIDE DEF t, u, y
    <3> QED BY <3>1, <1>3, <1>4, Joined
  <2>9. Len(t) <= Len(u) + 1 + Len(x)
    <3> DEFINE lt == Len(t)  lu == Len(u)  ly == Len(y)  lx == Len(x)
    <3>1. lu \in Nat /\ lx \in Nat /\ lt = lu + ly /\ ly = 1 + lx BY <2>8, <1>3, <1>4
    <3> HIDE DEF lt, lu, ly, lx
    <3>2. lt <= lu + 1 + lx BY <3>1
    <3> QED BY <3>2 DEF lt, lu, lx
  <2> QED BY <2>7, <2>9, <1>2, <1>3
<1> QED BY <1>6, <1>7

-----------------------------------------------------------------------------
(* The guest path of the names.                                               *)
LetterFor(names) ==
  IF system = "unix" THEN (IF Deepest(names) = map.root THEN "D" ELSE "C") ELSE Dos!Drive
GuestName(names) == Guest(LetterFor(names), "\\", Rest(names))

(* The letter of a drive is an ordinary character.                            *)
LEMMA LetterChar ==
  ASSUME Mapping, DosInv, NEW names
  PROVE  LetterFor(names) \in Char /\ LetterFor(names) \notin {"/", "\\", "."}
         /\ LetterFor(names) \notin Unsafe
<1>1. CASE system = "unix"
  <2>1. LetterFor(names) \in {"C", "D"} BY <1>1 DEF LetterFor
  <2>2. {"C", "D"} \cap Unsafe = {} BY AccPathAssumption DEF AccPathAssumption
  <2> QED BY <2>1, <2>2, Chars
<1>2. CASE system = "dos"
  <2>1. LetterFor(names) = Dos!Drive BY <1>2 DEF LetterFor
  <2>2. DosRequest BY <1>2 DEF DosInv
  <2>3. Dos!Drive \in Drives \cup {NotADrive} BY <2>2 DEF DosRequest, Dos!Drive
  <2>4. Drives \cup {NotADrive} \subseteq STRING \ {"/", "\\", "."} BY DosPathAssumption DEF Dos!DosAssumption
  <2>5. (Drives \cup {NotADrive}) \cap Unsafe = {} BY AccPathAssumption DEF AccPathAssumption
  <2>6. Dos!Drive \in Char BY <2>2, DosFacts
  <2> QED BY <2>1, <2>3, <2>4, <2>5, <2>6
<1> QED BY <1>1, <1>2 DEF Mapping

(* The length of a guest path.                                                *)
LEMMA GuestLength ==
  ASSUME NEW d \in Char, NEW r, Place(r)
  PROVE  /\ Len(Guest(d, "\\", r)) = 3 + Len(Dos!Spell(r)) /\ Len(Dos!Spell(r)) \in Nat
         /\ Guest(d, "\\", r) = Dos!Root(d) \o Dos!Spell(r)
<1> DEFINE a == Dos!Root(d)  s == Dos!Spell(r)  g == Guest(d, "\\", r)
<1>1. r \in NameList BY DEF Place
<1>2. g = a \o s /\ s \in Text BY <1>1, DosRoot
<1>3. a \in Text /\ Len(a) = 3 BY RootText
<1>4. Len(s) \in Nat BY <1>2, TextLength
<1> HIDE DEF a, s, g
<1>5. Len(g) = 3 + Len(s)
  <2>1. Len(a \o s) = Len(a) + Len(s) BY <1>2, <1>3, Joined
  <2> QED BY <2>1, <1>2, <1>3
<1> QED BY <1>2, <1>4, <1>5 DEF a, s, g

(* Representable, with the guest path itself.                                 *)
LEMMA RepresentableExactly ==
  ASSUME Mapping, DosInv, NEW names, Place(names)
  PROVE  Representable(names) <=>
           /\ Anchored(names)
           /\ \A i \in 1 .. Len(Rest(names)) : DosName(Rest(names)[i])
           /\ Len(GuestName(names)) <= LIMIT
<1>1. ASSUME Anchored(names)
      PROVE  /\ DOMAIN Rest(names) = 1 .. Len(Rest(names))
             /\ Len(GuestName(names)) = 3 + Len(Dos!Spell(Rest(names)))
  <2>1. Place(Rest(names)) BY <1>1, AnchorFacts
  <2>2. Rest(names) \in Seq(Text) BY <2>1, PlaceSeq
  <2>3. Len(GuestName(names)) = 3 + Len(Dos!Spell(Rest(names)))
    <3>1. LetterFor(names) \in Char BY LetterChar
    <3> QED BY <2>1, <3>1, GuestLength DEF GuestName
  <2> QED BY <2>2, <2>3
<1> QED BY <1>1 DEF Representable, Anchored

(* The scanned text from p on, with either separator, and what it becomes.    *)
Becomes(t, g, n) ==
  /\ t \in Text /\ Len(t) = Len(g)
  /\ \A k \in 1 .. Len(t) : t[k] = g[k] \/ (k >= n /\ t[k] = "/" /\ g[k] = "\\")

(* The names below the anchor behind the drive become the guest path.         *)
LEMMA OnTheDrive ==
  ASSUME NEW d \in Char, NEW r, Place(r), NEW b, SpelledBelow("/", r, b)
  PROVE  /\ Becomes(<<d, ":", "\\">> \o b, Guest(d, "\\", r), 1)
         /\ Len(<<d, ":", "\\">> \o b) = 3 + Len(b) /\ Len(b) \in Nat
<1> DEFINE a == <<d, ":", "\\">>  o == a \o b  g == Guest(d, "\\", r)
           s == Spelled("/", r)  v == Spelled("\\", r)
<1>1. r \in NameList BY DEF Place
<1>2. b \in Text /\ Len(b) \in Nat BY TextLength DEF SpelledBelow
<1>3. a = Dos!Root(d) /\ a[1] = d /\ a[2] = ":" /\ a[3] = "\\" BY DEF Dos!Root
<1>4. a \in Text /\ Len(a) = 3 BY <1>3, RootText
<1> HIDE DEF a
<1>5. /\ o \in Text /\ Len(o) = 3 + Len(b)
      /\ \A i \in 1 .. 3 : o[i] = a[i]
      /\ \A i \in 1 .. Len(b) : o[3 + i] = b[i]
  <2>1. /\ a \o b \in Text /\ Len(a \o b) = Len(a) + Len(b)
        /\ \A i \in 1 .. Len(a) : (a \o b)[i] = a[i]
        /\ \A i \in 1 .. Len(b) : (a \o b)[Len(a) + i] = b[i]
    BY <1>2, <1>4, Joined
  <2> QED BY <2>1, <1>4
<1>6. /\ g \in Text /\ Len(g) \in Nat
      /\ Len(g) = IF r = <<>> THEN 3 ELSE 2 + Len(v)
      /\ g[1] = d /\ g[2] = ":" /\ g[3] = "\\"
      /\ \A k \in 1 .. Len(v) : g[2 + k] = v[k]
  BY <1>1, Chars, GuestLayout
<1>7. /\ Len(s) = Len(v) /\ Len(s) \in Nat
      /\ \A k \in 1 .. Len(s) : s[k] = v[k] \/ (s[k] = "/" /\ v[k] = "\\")
  BY <1>1, Chars, OtherSeparator
<1>8. r # <<>> => Len(s) >= 2 BY Chars, PlaceLength
<1>9. /\ Len(b) = IF r = <<>> THEN 0 ELSE Len(s) - 1
      /\ \A k \in 1 .. Len(b) : b[k] = s[1 + k]
  BY DEF SpelledBelow
<1> HIDE DEF o, g, s, v
<1>10. Len(o) = Len(g)
  <2> DEFINE lo == Len(o)  lg == Len(g)  ls == Len(s)  lv == Len(v)  lb == Len(b)
  <2>1. CASE r = <<>>
    <3>1. lb = 0 /\ lg = 3 /\ lo = 3 + lb BY <2>1, <1>5, <1>6, <1>9
    <3> HIDE DEF lo, lg, lb
    <3>2. lo = lg BY <3>1
    <3> QED BY <3>2 DEF lo, lg
  <2>2. CASE r # <<>>
    <3>1. lb = ls - 1 /\ lg = 2 + lv /\ lo = 3 + lb /\ ls = lv /\ ls \in Nat BY <2>2, <1>5, <1>6, <1>7, <1>9
    <3> HIDE DEF lo, lg, lb, ls, lv
    <3>2. lo = lg BY <3>1
    <3> QED BY <3>2 DEF lo, lg
  <2> QED BY <2>1, <2>2
<1>11. \A k \in 1 .. Len(o) : o[k] = g[k] \/ (k >= 1 /\ o[k] = "/" /\ g[k] = "\\")
  <2> SUFFICES ASSUME NEW k \in 1 .. Len(o)
               PROVE  o[k] = g[k] \/ (k >= 1 /\ o[k] = "/" /\ g[k] = "\\")
    OBVIOUS
  <2>1. CASE k <= 3
    <3>1. k = 1 \/ k = 2 \/ k = 3 BY <2>1, <1>2, <1>5
    <3>2. o[1] = a[1] /\ o[2] = a[2] /\ o[3] = a[3] BY <1>5
    <3> QED BY <3>1, <3>2, <1>3, <1>6
  <2>2. CASE ~(k <= 3)
    <3> DEFINE j == k - 3
    <3>1. j \in 1 .. Len(b) /\ k = 3 + j /\ k >= 1 BY <2>2, <1>2, <1>5
    <3>2. r # <<>>
      <4>1. Len(b) # 0 BY <3>1, <1>2
      <4> QED BY <4>1, <1>9
    <3>3. Len(b) = Len(s) - 1 BY <3>2, <1>9
    <3>4. 1 + j \in 1 .. Len(s) /\ k = 2 + (1 + j) BY <3>1, <3>3, <1>7
    <3> HIDE DEF j
    <3>5. o[k] = s[1 + j] BY <3>1, <1>5, <1>9
    <3>6. g[k] = v[1 + j] BY <3>4, <1>6, <1>7
    <3>7. s[1 + j] = v[1 + j] \/ (s[1 + j] = "/" /\ v[1 + j] = "\\") BY <3>4, <1>7
    <3> QED BY <3>1, <3>5, <3>6, <3>7
  <2> QED BY <2>1, <2>2
<1> QED BY <1>2, <1>5, <1>10, <1>11 DEF Becomes, o, g, a

(* A name with a character that is not counted and no dot.                    *)
LEMMA UnusualInName ==
  ASSUME NEW x \in Text, NEW j \in 1 .. Len(x), ~Usual(x[j]), x[j] # "."
  PROVE  ~DosName(x)
<1>1. \A d \in 2 .. (Len(x) - 1) : ~DotAt(x, d) BY DEF DotAt
<1> QED BY <1>1, DosNameExactly

(* A backslash below the anchor is in a name, which DOS then does not have.   *)
LEMMA Backslashes ==
  ASSUME NEW r, Place(r), NEW b, SpelledBelow("/", r, b)
  PROVE  /\ Contains(b, "\\") => \E i \in 1 .. Len(r) : ~DosName(r[i])
         /\ ~Contains(b, "\\") => Free("\\", r)
<1> DEFINE s == Spelled("/", r)
<1>1. r \in NameList /\ DOMAIN r = 1 .. Len(r) /\ Len(r) \in Nat BY PlaceSeq DEF Place, NameList
<1>2. /\ b \in Text /\ Len(b) \in Nat
      /\ Len(b) = IF r = <<>> THEN 0 ELSE Len(s) - 1
      /\ \A k \in 1 .. Len(b) : b[k] = s[1 + k]
  BY TextLength DEF SpelledBelow
<1>3. Len(s) \in Nat BY Chars, PlaceLength
<1>4. ASSUME Contains(b, "\\") PROVE \E i \in 1 .. Len(r) : ~DosName(r[i])
  <2>1. PICK k \in 1 .. Len(b) : b[k] = "\\" BY <1>4 DEF Contains
  <2>2. 1 + k \in 1 .. Len(s)
    <3>1. r # <<>>
      <4>1. Len(b) # 0 BY <2>1, <1>2
      <4> QED BY <4>1, <1>2
    <3> HIDE DEF s
    <3>2. Len(b) = Len(s) - 1 BY <3>1, <1>2
    <3> QED BY <3>2, <2>1, <1>3
  <2>3. s[1 + k] = "\\" BY <2>1, <1>2
  <2>4. \E n \in Nat : n + 1 \in 1 .. Len(r) /\ \E j \in 1 .. Len(r[n + 1]) : s[1 + k] = r[n + 1][j]
    <3>1. \/ s[1 + k] = "/"
          \/ \E n \in Nat : /\ n + 1 \in 1 .. Len(r)
                            /\ \E j \in 1 .. Len(r[n + 1]) : s[1 + k] = r[n + 1][j]
      <4> DEFINE v == Spelled("\\", r)
      <4>1. \A h \in 1 .. Len(s) :
              \/ s[h] = "/" /\ v[h] = "\\"
              \/ /\ s[h] = v[h]
                 /\ \E n \in Nat : /\ n + 1 \in 1 .. Len(r)
                                   /\ \E j \in 1 .. Len(r[n + 1]) : s[h] = r[n + 1][j]
        BY <1>1, Chars, OtherSeparator
      <4> DEFINE h == 1 + k
      <4>2. h \in 1 .. Len(s) BY <2>2
      <4> HIDE DEF s, v, h
      <4>3. \/ s[h] = "/"
            \/ \E n \in Nat : /\ n + 1 \in 1 .. Len(r)
                              /\ \E j \in 1 .. Len(r[n + 1]) : s[h] = r[n + 1][j]
        BY <4>1, <4>2
      <4> QED BY <4>3 DEF h
    <3> QED BY <3>1, <2>3
  <2>5. PICK n \in Nat : n + 1 \in 1 .. Len(r) /\ \E j \in 1 .. Len(r[n + 1]) : s[1 + k] = r[n + 1][j]
    BY <2>4
  <2>6. PICK j \in 1 .. Len(r[n + 1]) : s[1 + k] = r[n + 1][j] BY <2>5
  <2>7. r[n + 1] \in Text BY <2>5, <1>1 DEF NameList
  <2>8. r[n + 1][j] = "\\" BY <2>3, <2>6
  <2>9. ~DosName(r[n + 1]) BY <2>6, <2>7, <2>8, DotIsUnusual, UnusualInName
  <2> QED BY <2>5, <2>9
<1>5. ASSUME ~Contains(b, "\\") PROVE Free("\\", r)
  <2> SUFFICES ASSUME NEW i \in DOMAIN r, NEW k \in DOMAIN r[i], r[i][k] = "\\" PROVE FALSE BY DEF Free
  <2>1. i \in 1 .. Len(r) /\ r[i] \in Text BY <1>1 DEF NameList
  <2>2. k \in 1 .. Len(r[i]) BY <2>1 DEF Text
  <2> DEFINE z == Size("/", r, i - 1)
  <2>3. /\ z \in Nat /\ z + 1 + Len(r[i]) <= Len(s)
        /\ \A j \in 1 .. Len(r[i]) : s[z + 1 + j] = r[i][j]
    <3>1. /\ Size("/", r, i - 1) \in Nat
          /\ Size("/", r, i - 1) + 1 + Len(r[i]) <= Len(Spelled("/", r))
          /\ Spelled("/", r)[Size("/", r, i - 1) + 1] = "/"
          /\ \A j \in 1 .. Len(r[i]) : Spelled("/", r)[Size("/", r, i - 1) + 1 + j] = r[i][j]
      <4> DEFINE c == "/"
      <4>1. c \in Char /\ i \in 1 .. Len(r) /\ r \in NameList BY <2>1, <1>1, Chars
      <4> HIDE DEF c
      <4>2. /\ Size(c, r, i - 1) \in Nat
            /\ Size(c, r, i - 1) + 1 + Len(r[i]) <= Len(Spelled(c, r))
            /\ Spelled(c, r)[Size(c, r, i - 1) + 1] = c
            /\ \A j \in 1 .. Len(r[i]) : Spelled(c, r)[Size(c, r, i - 1) + 1 + j] = r[i][j]
        BY <4>1, Layout, ZenonT(30)
      <4> QED BY <4>2 DEF c
    <3> QED BY <3>1
  <2>4. Len(r[i]) \in Nat BY <2>1, TextLength
  <2>5. r # <<>>
    <3>1. Len(r) # 0 BY <2>1, <1>1
    <3>2. Len(<<>>) = 0 OBVIOUS
    <3> QED BY <3>1, <3>2
  <2>6. Len(b) = Len(s) - 1 BY <2>5, <1>2
  <2> HIDE DEF z, s
  <2>7. z + k \in 1 .. Len(b) /\ 1 + (z + k) = z + 1 + k BY <2>2, <2>3, <2>4, <2>6, <1>3
  <2>8. b[z + k] = "\\" BY <2>2, <2>3, <2>7, <1>2
  <2> QED BY <2>7, <2>8, <1>5 DEF Contains
<1> QED BY <1>4, <1>5

(* The name stands for the file.                                              *)
Named(names, guest) ==
  /\ Place(names) /\ Anchored(names) /\ Free("\\", Rest(names))
  /\ guest = GuestName(names)

(* The letter of a guest path tells the anchor.                               *)
LEMMA AnchorOfLetter ==
  ASSUME Mapping, system = "unix", NEW names, Place(names), Anchored(names)
  PROVE  /\ (Head(GuestName(names)) = "D") = (Deepest(names) = map.root)
         /\ (IF Head(GuestName(names)) = "D" THEN map.root ELSE map.cwd) = Deepest(names)
<1> DEFINE d == LetterFor(names)  g == GuestName(names)
<1>1. d = IF Deepest(names) = map.root THEN "D" ELSE "C" BY DEF LetterFor
<1>2. d \in Char /\ Rest(names) \in NameList BY <1>1, Chars, AnchorFacts DEF Place
<1>3. g \in Text /\ Len(g) \in Nat /\ Len(g) >= 3 /\ g[1] = d BY <1>2, Chars, GuestLayout DEF GuestName
<1>4. Head(g) = d
  <2>1. Head(g) = g[1] OBVIOUS
  <2> QED BY <2>1, <1>3
<1>5. d = "D" <=> Deepest(names) = map.root BY <1>1
<1>6. Deepest(names) = map.root \/ Deepest(names) = map.cwd BY DeepestOnUnix
<1> HIDE DEF d, g
<1>7. (Head(g) = "D") = (Deepest(names) = map.root) BY <1>4, <1>5
<1>8. (IF Head(g) = "D" THEN map.root ELSE map.cwd) = Deepest(names) BY <1>4, <1>5, <1>6
<1> QED BY <1>7, <1>8 DEF g

(* The part of a guest path after the root of its drive, with slashes.        *)
Slashed(t) == [i \in DOMAIN t |-> IF t[i] = "\\" THEN "/" ELSE t[i]]

(* The emulator turns the guest path back into the names.                     *)
LEMMA SlashedRest ==
  ASSUME NEW d \in Char, NEW r, Place(r), Free("\\", r)
  PROVE  LET g == Guest(d, "\\", r)
             t == SubSeq(g, 4, Len(g))
         IN /\ t = <<>> <=> r = <<>>
            /\ Slashed(t) \in Text
            /\ r # <<>> => <<"/">> \o Slashed(t) = Spelled("/", r)
<1> DEFINE g == Guest(d, "\\", r)  t == SubSeq(g, 4, Len(g))  s == Spelled("/", r)
           v == Spelled("\\", r)  u == Slashed(t)  w == <<"/">> \o u
<1>1. r \in NameList BY DEF Place
<1>2. /\ g \in Text /\ Len(g) \in Nat /\ Len(g) >= 3
      /\ Len(g) = IF r = <<>> THEN 3 ELSE 2 + Len(v)
      /\ \A k \in 1 .. Len(v) : g[2 + k] = v[k]
  BY <1>1, Chars, GuestLayout
<1>3. s \in Text /\ Len(s) = Len(v) /\ Len(s) \in Nat /\ Len(v) \in Nat
  BY <1>1, Chars, OtherSeparator, SpelledText
<1>4. ASSUME NEW k \in 1 .. Len(v)
      PROVE  s[k] = IF v[k] = "\\" THEN "/" ELSE v[k]
  <2>1. \/ v[k] = "\\" /\ s[k] = "/"
        \/ /\ v[k] = s[k]
           /\ \E n \in Nat : /\ n + 1 \in 1 .. Len(r)
                             /\ \E j \in 1 .. Len(r[n + 1]) : v[k] = r[n + 1][j]
    BY <1>1, Chars, OtherSeparator, ZenonT(30)
  <2>2. ASSUME NEW n \in Nat, n + 1 \in 1 .. Len(r), NEW j \in 1 .. Len(r[n + 1]), v[k] = r[n + 1][j]
        PROVE  v[k] # "\\"
    BY <2>2, <1>1, FreeOf
  <2> QED BY <2>1, <2>2
<1>5. /\ t \in Text /\ Len(t) = Len(g) - 3
      /\ \A k \in 1 .. Len(g) - 3 : t[k] = g[3 + k]
  <2> DEFINE m == 3
  <2>1. m \in Nat /\ m <= Len(g) /\ m + 1 = 4 BY <1>2
  <2> HIDE DEF g, m
  <2>2. /\ SubSeq(g, m + 1, Len(g)) \in Text /\ Len(SubSeq(g, m + 1, Len(g))) = Len(g) - m
        /\ \A k \in 1 .. Len(g) - m : SubSeq(g, m + 1, Len(g))[k] = g[m + k]
    BY <2>1, <1>2, Rightmost
  <2>3. SubSeq(g, m + 1, Len(g)) = t BY <2>1
  <2> HIDE DEF t
  <2>4. t \in Text /\ Len(t) = Len(g) - m /\ \A k \in 1 .. Len(g) - m : t[k] = g[m + k]
    BY <2>2, <2>3
  <2> QED BY <2>4 DEF m
<1> HIDE DEF g, t, s, v
<1>6. DOMAIN t = 1 .. Len(t) /\ Len(t) \in Nat BY <1>5, TextLength DEF Text
<1>7. u \in Text /\ Len(u) = Len(t) /\ \A k \in 1 .. Len(t) : u[k] = IF t[k] = "\\" THEN "/" ELSE t[k]
  <2>1. \A k \in 1 .. Len(t) : t[k] \in Char BY <1>5 DEF Text
  <2>2. \A k \in 1 .. Len(t) : u[k] = IF t[k] = "\\" THEN "/" ELSE t[k] BY <1>6 DEF Slashed
  <2>3. u = [k \in 1 .. Len(t) |-> IF t[k] = "\\" THEN "/" ELSE t[k]] BY <1>6 DEF Slashed
  <2> HIDE DEF u
  <2>4. u \in Seq(Char) /\ Len(u) = Len(t) BY <2>1, <2>3, <1>6, Chars
  <2> QED BY <2>2, <2>4 DEF Text
<1>8. (t = <<>>) <=> (Len(t) = 0) BY <1>5, EmptySeq DEF Text
<1>9. CASE r = <<>>
  <2>1. Len(g) = 3 BY <1>2, <1>9
  <2>2. Len(t) = 0 BY <2>1, <1>5
  <2> QED BY <2>2, <1>7, <1>8, <1>9 DEF g, t
<1>10. CASE r # <<>>
  <2>1. Len(v) >= 2 BY <1>10, Chars, PlaceLength DEF v
  <2>2. s[1] = "/" BY <1>1, <1>10, Chars, SpelledStarts DEF s
  <2> DEFINE lv == Len(v)  lt == Len(t)  lg == Len(g)
  <2>3. lt = lv - 1 /\ lt >= 1 /\ lt # 0 /\ lt \in Nat /\ lv \in Nat /\ lg - 3 = lt
    <3>1. lg = 2 + lv /\ lv \in Nat /\ lv >= 2 /\ lt = lg - 3 BY <2>1, <1>2, <1>3, <1>5, <1>10
    <3> HIDE DEF lv, lt, lg
    <3> QED BY <3>1
  <2>4. \A k \in 1 .. lt : u[k] = s[1 + k]
    <3> SUFFICES ASSUME NEW k \in 1 .. lt PROVE u[k] = s[1 + k] OBVIOUS
    <3> HIDE DEF u
    <3>1. 1 + k \in 1 .. lv /\ 3 + k = 2 + (1 + k) /\ k \in 1 .. lg - 3
      <4>1. k \in 1 .. lt OBVIOUS
      <4> HIDE DEF lv, lt, lg
      <4> QED BY <4>1, <2>3
    <3> DEFINE j == 1 + k
    <3>2. t[k] = g[2 + j] BY <3>1, <1>5
    <3>3. g[2 + j] = v[j] /\ s[j] = IF v[j] = "\\" THEN "/" ELSE v[j] BY <3>1, <1>2, <1>4
    <3>4. u[k] = IF t[k] = "\\" THEN "/" ELSE t[k] BY <1>7
    <3> HIDE DEF j
    <3>5. u[k] = s[j] BY <3>2, <3>3, <3>4
    <3> QED BY <3>5 DEF j
  <2> HIDE DEF u
  <2>5. /\ w \in Text /\ Len(w) = 1 + Len(u) /\ w[1] = "/"
        /\ \A i \in 1 .. Len(u) : w[1 + i] = u[i]
    BY <1>7, Chars, Separated
  <2> HIDE DEF w
  <2>6. Len(w) = lv BY <2>3, <2>5, <1>7
  <2>7. \A k \in 1 .. Len(w) : w[k] = s[k]
    <3> SUFFICES ASSUME NEW k \in 1 .. Len(w) PROVE w[k] = s[k] OBVIOUS
    <3>1. CASE k = 1 BY <3>1, <2>2, <2>5
    <3>2. CASE k # 1
      <4> DEFINE j == k - 1
      <4>1. j \in 1 .. lt /\ 1 + j = k
        <5>1. k \in 1 .. lv BY <2>6
        <5> HIDE DEF lv, lt
        <5> QED BY <5>1, <3>2, <2>3
      <4>2. w[1 + j] = u[j] /\ u[j] = s[1 + j] BY <4>1, <2>4, <2>5, <1>7
      <4> QED BY <4>1, <4>2
    <3> QED BY <3>1, <3>2
  <2>8. w = s
    <3>1. Len(w) = Len(s) BY <2>6, <1>3
    <3> QED BY <3>1, <2>5, <2>7, <1>3, SameText
  <2>9. t # <<>> BY <2>3, <1>8
  <2> QED BY <2>8, <2>9, <1>7, <1>10 DEF w, u, t, g, s
<1> QED BY <1>9, <1>10

(* The emulator opens the file that a guest path was made for.                *)
LEMMA NamedFile ==
  ASSUME Mapping, DosInv, system = "unix", NEW names, NEW guest, Named(names, guest)
  PROVE  HostOf(guest) = Spell(names)
<1> DEFINE a == Deepest(names)  r == Rest(names)  d == LetterFor(names)  g == Guest(d, "\\", r)
           t == SubSeq(g, 4, Len(g))  u == Slashed(t)
<1>1. /\ Place(names) /\ Place(a) /\ Place(r) /\ a \o r = names /\ Free("\\", r) /\ d \in Char
      /\ guest = g
  BY AnchorFacts, LetterChar DEF Named, GuestName
<1>2. (IF Head(g) = "D" THEN map.root ELSE map.cwd) = a BY <1>1, AnchorOfLetter DEF Named, GuestName
<1>3. HostOf(guest) = IF t = <<>> THEN Spell(a)
                      ELSE IF a = <<>> THEN <<"/">> \o u
                      ELSE Spell(a) \o <<"/">> \o u
  BY <1>1, <1>2 DEF HostOf, Slashed
<1>4. /\ t = <<>> <=> r = <<>> 
      /\ u \in Text
      /\ r # <<>> => <<"/">> \o u = Spelled("/", r)
  <2> HIDE DEF d, r
  <2> QED BY <1>1, SlashedRest
<1> HIDE DEF a, r, d, g, t, u
<1>5. CASE r = <<>>
  <2>1. names = a
    <3>1. \A s \in Seq(Text) : s \o <<>> = s OBVIOUS
    <3>2. a \in Seq(Text) BY <1>1, PlaceSeq
    <3> QED BY <3>1, <3>2, <1>1, <1>5
  <2> QED BY <2>1, <1>3, <1>4, <1>5
<1>6. CASE r # <<>>
  <2>1. t # <<>> /\ <<"/">> \o u = Spelled("/", r) BY <1>4, <1>6
  <2>2. names # <<>>
    <3>1. Len(r) # 0 /\ Len(r) \in Nat /\ Len(a) \in Nat BY <1>1, <1>6, PlaceSeq, EmptySeq
    <3>2. Len(a \o r) = Len(a) + Len(r)
      <4>1. a \in Seq(Text) /\ r \in Seq(Text) BY <1>1, PlaceSeq
      <4> QED BY <4>1
    <3>3. Len(names) # 0 BY <3>1, <3>2, <1>1
    <3>4. Len(<<>>) = 0 OBVIOUS
    <3> QED BY <3>3, <3>4
  <2>3. Spell(names) = Spelled("/", names) BY <2>2, <1>1, SpellText
  <2>4. CASE a = <<>>
    <3>1. names = r
      <4>1. \A s \in Seq(Text) : <<>> \o s = s OBVIOUS
      <4>2. r \in Seq(Text) BY <1>1, PlaceSeq
      <4> QED BY <4>1, <4>2, <1>1, <2>4
    <3> QED BY <3>1, <2>1, <2>3, <2>4, <1>3
  <2>5. CASE a # <<>>
    <3>1. HostOf(guest) = (Spell(a) \o <<"/">>) \o u BY <2>1, <2>5, <1>3
    <3>2. (Spell(a) \o One("/")) \o u = Spell(a) \o (One("/") \o u)
      <4>1. Spell(a) \in Text /\ One("/") \in Text /\ u \in Text BY <1>1, <1>4, Chars, SpellText, OneText
      <4> QED BY <4>1, JoinedTwice
    <3>3. Spelled("/", a \o r) = Spell(a) \o Spelled("/", r) BY <2>5, <1>1, SpellTogether
    <3> QED BY <3>1, <3>2, <3>3, <2>1, <2>3, <1>1 DEF One
  <2> QED BY <2>4, <2>5
<1> QED BY <1>5, <1>6

-----------------------------------------------------------------------------
(* The text at the scan's place: a character of a name, the separator after   *)
(* it, or the end.                                                            *)
LEMMA CharacterAt ==
  ASSUME NEW d \in Char, NEW r, Place(r), Free("\\", r), NEW t, NEW q,
         Becomes(t, Guest(d, "\\", r), q),
         NEW n \in Nat, n + 1 \in 1 .. Len(r), NEW k \in Nat, k <= Len(r[n + 1]),
         q = 4 + Size("\\", r, n) + k
  PROVE  /\ k < Len(r[n + 1]) =>
              q <= Len(t) /\ t[q] = r[n + 1][k + 1] /\ t[q] \notin {"/", "\\"}
         /\ k = Len(r[n + 1]) /\ n + 1 # Len(r) =>
              /\ q <= Len(t) /\ t[q] \in {"/", "\\"} /\ q + 1 = 4 + Size("\\", r, n + 1)
              /\ Guest(d, "\\", r)[q] = "\\"
         /\ k = Len(r[n + 1]) /\ n + 1 = Len(r) => q > Len(t)
         /\ q \in Nat /\ 4 <= q
<1> DEFINE c == "\\"  v == Spelled("\\", r)  g == Guest(d, "\\", r)  x == r[n + 1]
           z == Size(c, r, n)  y == Size(c, r, n + 1)  lx == Len(x)  lv == Len(v)  lg == Len(g)
           lt == Len(t)  lr == Len(r)
<1>1. r \in NameList /\ c \in Char BY Chars DEF Place
<1>2. r # <<>>
  <2>1. Len(<<>>) = 0 OBVIOUS
  <2> QED BY <2>1
<1>3. /\ lg \in Nat /\ lg = IF r = <<>> THEN 3 ELSE 2 + lv
      /\ \A i \in 1 .. lv : g[2 + i] = v[i]
  BY <1>1, GuestLayout
<1>4. lg = 2 + lv BY <1>2, <1>3
<1>5. /\ z \in Nat /\ lx \in Nat /\ y = z + 1 + lx /\ y <= lv /\ lv \in Nat
      /\ v[z + 1] = c /\ \A i \in 1 .. lx : v[z + 1 + i] = x[i]
  <2> HIDE DEF c
  <2>1. /\ Size(c, r, n) \in Nat /\ Len(r[n + 1]) \in Nat
        /\ Size(c, r, n + 1) = Size(c, r, n) + 1 + Len(r[n + 1])
        /\ Size(c, r, n + 1) <= Len(Spelled(c, r)) /\ Len(Spelled(c, r)) \in Nat
        /\ Spelled(c, r)[Size(c, r, n) + 1] = c
        /\ \A i \in 1 .. Len(r[n + 1]) : Spelled(c, r)[Size(c, r, n) + 1 + i] = r[n + 1][i]
    BY <1>1, SizeStep
  <2> QED BY <2>1 DEF c
<1>6. lr \in Nat /\ Size(c, r, lr) = lv BY <1>1, SizeEnds
<1>7. lt = lg /\ \A i \in 1 .. lt : t[i] = g[i] \/ (i >= q /\ t[i] = "/" /\ g[i] = "\\")
  BY DEF Becomes
<1>8. q = 4 + z + k OBVIOUS
<1>9. k <= lx OBVIOUS
<1>14. /\ z \in Nat /\ lx \in Nat /\ y = z + 1 + lx /\ y <= lv /\ lv \in Nat /\ lt = 2 + lv
       /\ k \in Nat /\ k <= lx /\ q = 4 + z + k
  BY <1>4, <1>5, <1>7
<1>10. ASSUME k < lx PROVE q <= lt /\ t[q] = x[k + 1] /\ t[q] \notin {"/", "\\"}
  <2> DEFINE i == k + 1  h == z + 1 + i
  <2> HIDE DEF c, v, g, x, z, y, lx, lv, lg, lt, lr
  <2>1. i \in 1 .. lx /\ h \in 1 .. lv /\ q = 2 + h /\ q \in 1 .. lt /\ q <= lt
    BY <1>14, <1>10
  <2>2. g[q] = x[i]
    <3> HIDE DEF h
    <3>1. g[q] = v[h] BY <2>1, <1>3
    <3>2. v[h] = x[i] BY <2>1, <1>5 DEF h
    <3> QED BY <3>1, <3>2
  <2>3. x[i] # "/" /\ x[i] # "\\"
    <3> HIDE DEF i
    <3>1. i \in 1 .. Len(r[n + 1]) BY <2>1 DEF lx, x
    <3>2. Free("/", r) BY DEF Place
    <3> QED BY <3>1, <3>2, <1>1, FreeOf DEF x
  <2>4. t[q] = x[i] BY <2>1, <2>2, <2>3, <1>7
  <2>5. q <= lt BY <2>1
  <2> QED BY <2>3, <2>4, <2>5
<1>11. ASSUME k = lx, n + 1 # lr PROVE q <= lt /\ t[q] \in {"/", "\\"} /\ q + 1 = 4 + y /\ g[q] = c
  <2>1. y < lv
    <3>1. lr \in 0 .. Len(r) /\ n + 1 \in 0 .. lr /\ n + 1 < lr BY <1>6, <1>11
    <3>2. \A j \in 0 .. Len(r) : \A m \in 0 .. j : m < j => Size(c, r, m) < Size(c, r, j)
      BY <1>1, SizeGrows
    <3> HIDE DEF lr
    <3>3. Size(c, r, n + 1) < Size(c, r, lr) BY <3>1, <3>2
    <3> QED BY <3>3, <1>6 DEF lr
  <2>2. v[y + 1] = c
    <3> DEFINE m == n + 1
    <3>1. m \in 0 .. Len(r) /\ Size(c, r, m) < Len(Spelled(c, r)) BY <2>1
    <3> HIDE DEF m, c
    <3>2. Spelled(c, r)[Size(c, r, m) + 1] = c BY <3>1, <1>1, NextSeparator
    <3> QED BY <3>2 DEF m, c
  <2> DEFINE h == y + 1
  <2>3. v[h] = c BY <2>2
  <2> HIDE DEF v, g, x, z, y, lx, lv, lg, lt, lr
  <2>4. h \in 1 .. lv /\ q = 2 + h /\ q \in 1 .. lt /\ q + 1 = 4 + y /\ q <= lt
    BY <2>1, <1>14, <1>11
  <2> HIDE DEF h
  <2>5. g[q] = c BY <2>3, <2>4, <1>3
  <2> QED BY <2>4, <2>5, <1>7
<1>12. ASSUME k = lx, n + 1 = lr PROVE q > lt
  <2>1. y = lv BY <1>6, <1>12
  <2> HIDE DEF v, g, x, z, y, lx, lv, lg, lt, lr, c
  <2>2. q = 3 + y BY <1>14, <1>12
  <2>3. y \in Nat /\ lt = 2 + y BY <2>1, <1>14
  <2> QED BY <2>2, <2>3
<1>13. q \in Nat /\ 4 <= q
  <2> HIDE DEF z
  <2> QED BY <1>5, <1>8
<1> HIDE DEF z, v
<1> QED BY <1>10, <1>11, <1>12, <1>13

(* Pieces with the same characters are the same.                              *)
LEMMA SamePiece ==
  ASSUME NEW t \in Text, NEW x \in Text, NEW s \in Nat, NEW e \in Nat, NEW b \in Nat,
         1 <= s, s - 1 <= e, e <= Len(t), (e - s) + 1 = b, b <= Len(x),
         \A i \in 1 .. b : t[(s + i) - 1] = x[i]
  PROVE  SubSeq(t, s, e) = SubSeq(x, 1, b)
<1> DEFINE tt == SubSeq(t, s, e)  xx == SubSeq(x, 1, b)
<1>1. /\ SubSeq(t, s, e) \in Text /\ Len(SubSeq(t, s, e)) = (e - s) + 1
      /\ \A i \in 1 .. (e - s) + 1 : SubSeq(t, s, e)[i] = t[(s + i) - 1]
  BY Piece
<1>2. /\ SubSeq(x, 1, b) \in Text /\ Len(SubSeq(x, 1, b)) = b
      /\ \A i \in 1 .. b : SubSeq(x, 1, b)[i] = x[i]
  <2>1. b \in 0 .. Len(x)
    <3>1. Len(x) \in Nat BY TextLength
    <3> QED BY <3>1
  <2> QED BY <2>1, Start
<1>3. tt \in Text /\ xx \in Text /\ Len(tt) = Len(xx) /\ \A i \in 1 .. Len(tt) : tt[i] = xx[i]
  BY <1>1, <1>2
<1> HIDE DEF tt, xx
<1>4. tt = xx BY <1>3, SameText
<1> QED BY <1>4 DEF tt, xx

(* After k characters of the name n + 1 the scan of t is at q; b of them are  *)
(* the text from s to e.                                                      *)
HasRead(d, r, t, q, n, k, x, s, e, b) ==
  /\ d \in Char /\ Place(r) /\ q \in Nat /\ Becomes(t, Guest(d, "\\", r), q)
  /\ n \in Nat /\ n + 1 \in 1 .. Len(r) /\ k \in Nat /\ k <= Len(r[n + 1])
  /\ q = 4 + Size("\\", r, n) + k
  /\ b \in Nat /\ b <= k /\ s \in Nat /\ s + k = q /\ e \in Nat /\ e + 1 = s + b /\ x = r[n + 1]

(* The first b characters of a text.                                          *)
Opening(x, b) == SubSeq(x, 1, b)

(* What has been read of a name is as it was written.                         *)
LEMMA NameRead ==
  ASSUME NEW d, NEW r, NEW t, NEW q, NEW n, NEW k, NEW x, NEW s, NEW e, NEW b,
         HasRead(d, r, t, q, n, k, x, s, e, b)
  PROVE  SubSeq(t, s, e) = Opening(x, b)
<1> SUFFICES
      ASSUME d \in Char, Place(r), q \in Nat, Becomes(t, Guest(d, "\\", r), q),
             n \in Nat, n + 1 \in 1 .. Len(r), k \in Nat, k <= Len(r[n + 1]),
             q = 4 + Size("\\", r, n) + k, b \in Nat, b <= k,
             s \in Nat, s + k = q, e \in Nat, e + 1 = s + b, x = r[n + 1]
      PROVE  SubSeq(t, s, e) = SubSeq(x, 1, b)
  BY DEF HasRead, Opening
<1> DEFINE c == "\\"  v == Spelled("\\", r)  g == Guest(d, "\\", r)
           z == Size(c, r, n)  lx == Len(x)  lv == Len(v)  lg == Len(g)
           lt == Len(t)
<1>1. r \in NameList /\ c \in Char BY Chars DEF Place
<1>2. r # <<>>
  <2>1. Len(<<>>) = 0 OBVIOUS
  <2> QED BY <2>1
<1>3. /\ lg \in Nat /\ lg = IF r = <<>> THEN 3 ELSE 2 + lv
      /\ \A i \in 1 .. lv : g[2 + i] = v[i]
  BY <1>1, GuestLayout
<1>4. lg = 2 + lv BY <1>2, <1>3
<1>5. /\ z \in Nat /\ lx \in Nat /\ z + 1 + lx <= lv /\ lv \in Nat
      /\ \A i \in 1 .. lx : v[z + 1 + i] = x[i]
  <2> HIDE DEF c
  <2>1. /\ Size(c, r, n) \in Nat /\ Len(r[n + 1]) \in Nat
        /\ Size(c, r, n + 1) = Size(c, r, n) + 1 + Len(r[n + 1])
        /\ Size(c, r, n + 1) <= Len(Spelled(c, r)) /\ Len(Spelled(c, r)) \in Nat
        /\ Spelled(c, r)[Size(c, r, n) + 1] = c
        /\ \A i \in 1 .. Len(r[n + 1]) : Spelled(c, r)[Size(c, r, n) + 1 + i] = r[n + 1][i]
    BY <1>1, SizeStep
  <2> QED BY <2>1 DEF c
<1>6. t \in Text /\ lt = lg /\ \A i \in 1 .. lt : t[i] = g[i] \/ i >= q BY DEF Becomes
<1>7. x \in Text BY <1>1 DEF NameList
<1>8. q = 4 + z + k /\ k <= lx /\ b <= k /\ s + k = q /\ e + 1 = s + b OBVIOUS
<1> HIDE DEF c, v, g, z, lx, lv, lg, lt
<1>15. /\ z \in Nat /\ lx \in Nat /\ z + 1 + lx <= lv /\ lv \in Nat /\ lt = 2 + lv
       /\ k \in Nat /\ k <= lx /\ b \in Nat /\ b <= k /\ s \in Nat /\ s + k = q /\ q = 4 + z + k
       /\ e \in Nat /\ e + 1 = s + b /\ x = r[n + 1]
  BY <1>4, <1>5, <1>6, <1>8
<1>9. /\ s \in Nat /\ e \in Nat /\ 1 <= s /\ s - 1 <= e /\ e <= lt /\ (e - s) + 1 = b
      /\ 1 - 1 <= b /\ b <= lx /\ (b - 1) + 1 = b
  <2>1. s = 4 + z BY <1>15
  <2>2. e = 3 + z + b BY <2>1, <1>15
  <2>3. e <= lt BY <2>2, <1>15
  <2>4. (e - s) + 1 = b BY <2>1, <2>2, <1>15
  <2>5. s - 1 <= e /\ 1 <= s BY <2>1, <2>2, <1>15
  <2> QED BY <2>3, <2>4, <2>5, <1>15
<1>12. \A i \in 1 .. b : t[(s + i) - 1] = x[i]
  <2> SUFFICES ASSUME NEW i \in 1 .. b PROVE t[(s + i) - 1] = x[i] OBVIOUS
  <2> DEFINE h == (s + i) - 1  j == z + 1 + i
  <2>1. h \in 1 .. lt /\ ~(h >= q) /\ h = 2 + j /\ j \in 1 .. lv /\ i \in 1 .. lx
    <3>1. s = 4 + z /\ i \in Nat /\ 1 <= i /\ i <= b BY <1>15
    <3>2. h = 3 + z + i /\ h \in Nat BY <3>1, <1>15
    <3>3. i <= k /\ i <= lx BY <3>1, <1>15
    <3>4. ~(h >= q)
      <4> HIDE DEF h
      <4> QED BY <3>1, <3>2, <3>3, <1>15
    <3>5. h \in 1 .. lt /\ h = 2 + j
      <4> HIDE DEF h
      <4> QED BY <3>1, <3>2, <3>3, <1>15
    <3>6. j \in 1 .. lv BY <3>1, <3>3, <1>15
    <3> HIDE DEF h, j
    <3> QED BY <3>1, <3>3, <3>4, <3>5, <3>6, <1>15
  <2>2. v[j] = x[i] BY <2>1, <1>5
  <2> HIDE DEF h, j
  <2>3. t[h] = g[h] BY <2>1, <1>6
  <2>4. g[h] = v[j] BY <2>1, <1>3
  <2>5. t[h] = x[i] BY <2>2, <2>3, <2>4
  <2> QED BY <2>5 DEF h
<1>13. 1 <= s /\ s - 1 <= e /\ e <= Len(t) /\ (e - s) + 1 = b /\ b <= Len(x) BY <1>9 DEF lt, lx
<1> QED BY <1>6, <1>7, <1>12, <1>13, SamePiece

-----------------------------------------------------------------------------
(* The scan is after k characters of the name n + 1 of r.                     *)
AtName(r, n, k) ==
  /\ n + 1 \in 1 .. Len(r)
  /\ p = 4 + Size("\\", r, n) + k
  /\ Counted(r[n + 1], k, base, ext, dot)
  /\ \A i \in 1 .. n : DosName(r[i])

(* Where the scan is in the names of r, and what its counters say.            *)
ScannedTo(r) ==
  \/ p = 1 /\ base = 0 /\ ext = 0 /\ dot = FALSE
  \/ p = 2 /\ base = 1 /\ ext = 0 /\ dot = FALSE
  \/ p = 3 /\ base = 0 /\ ext = 0 /\ dot = FALSE
  \/ r = <<>> /\ p = 4 /\ base = 0 /\ ext = 0 /\ dot = FALSE
  \/ \E n, k \in Nat : AtName(r, n, k)

(* The scan has turned the separators before p and refused nothing so far.    *)
Scanning ==
  /\ Resolves /\ Place(Meant) /\ Anchored(Meant) /\ Free("\\", Rest(Meant))
  /\ Len(out) < ACC_PATH /\ Becomes(out, GuestName(Meant), p)
  /\ ScannedTo(Rest(Meant))

(* The path that is asked for.                                                *)
Asked ==
  system = "unix" /\ phase # "idle" =>
    /\ host.names \in Locations
    /\ host.is \in {"exists", "missing", "dangling", "orphan"}
    /\ host.is = "missing" => host.names # <<>>

(* A path that has been mapped.                                               *)
Entry == [names : NameList, guest : Text]

(* The inductive invariant of path_guest.                                     *)
PathInv ==
  /\ Mapping /\ Asked
  /\ phase \in {"idle", "canonical", "anchor", "scan", "refused"}
  /\ Len(resolved) < ACC_PATH
  /\ phase = "anchor" => system = "unix" /\ Resolves /\ resolved = Spell(host.names)
  /\ phase = "scan" => Scanning
  /\ phase = "refused" => ~Resolves \/ ~Representable(Meant)
  /\ phase = "idle" /\ mapped # <<>> => Resolves /\ Representable(Meant)
  /\ mapped \in Seq(Entry)
  /\ \A i \in DOMAIN mapped : Named(mapped[i].names, mapped[i].guest)

(* A directory is a place.                                                    *)
LEMMA DirPlace == ASSUME NEW names, Dir(names) PROVE Place(names)
<1>1. names \in NameList /\ Free("/", names) BY DirFree
<1> QED BY <1>1 DEF Place, Dir

(* What a scan does not change.                                               *)
Fixed == <<map, system, given, output, current, dosCwd>>

(* What depends only on what a call is made with.                             *)
LEMMA FixedKept ==
  ASSUME UNCHANGED Fixed
  PROVE  /\ Mapping' = Mapping
         /\ \A names : /\ Anchored(names)' = Anchored(names) /\ Deepest(names)' = Deepest(names)
                       /\ Rest(names)' = Rest(names) /\ GuestName(names)' = GuestName(names)
                       /\ Representable(names)' = Representable(names)
         /\ \A names, guest : Named(names, guest)' = Named(names, guest)
         /\ host' = host => Meant' = Meant
         /\ host' = host /\ folding' = folding => Resolves' = Resolves
<1>1. /\ map' = map /\ system' = system /\ given' = given /\ output' = output /\ current' = current
      /\ dosCwd' = dosCwd
  BY DEF Fixed
<1>2. Mapping' = Mapping BY <1>1 DEF Mapping
<1>3. Anchors' = Anchors BY <1>1 DEF Anchors
<1>4. Dos!Drive' = Dos!Drive /\ Dos!Meant' = Dos!Meant
  <2>1. UNCHANGED Request BY <1>1 DEF Request
  <2> QED BY <2>1, RequestKept
<1>5. ASSUME NEW names
      PROVE  /\ Anchored(names)' = Anchored(names) /\ Deepest(names)' = Deepest(names)
             /\ Rest(names)' = Rest(names) /\ GuestName(names)' = GuestName(names)
             /\ Representable(names)' = Representable(names)
  <2>1. Anchored(names)' = Anchored(names) BY <1>3 DEF Anchored
  <2>2. Deepest(names)' = Deepest(names) BY <1>3 DEF Deepest
  <2>3. Rest(names)' = Rest(names) BY <2>2 DEF Rest
  <2>4. LetterFor(names)' = LetterFor(names) BY <1>1, <1>4, <2>2 DEF LetterFor
  <2>5. GuestName(names)' = GuestName(names) BY <2>3, <2>4 DEF GuestName
  <2>6. Representable(names)' = Representable(names) BY <1>3, <2>3 DEF Representable
  <2> QED BY <2>1, <2>2, <2>3, <2>5, <2>6
<1>6. \A names, guest : Named(names, guest)' = Named(names, guest) BY <1>5 DEF Named
<1>7. host' = host => Meant' = Meant BY <1>1, <1>4 DEF Meant
<1>8. host' = host => TooLong' = TooLong BY DEF TooLong
<1>9. host' = host /\ folding' = folding => Resolves' = Resolves BY <1>1, <1>8 DEF Resolves
<1> QED BY <1>2, <1>5, <1>6, <1>7, <1>9

(* What a step leaves that maps no path.                                      *)
LEMMA MappedKept ==
  ASSUME PathInv, UNCHANGED Fixed, mapped' = mapped
  PROVE  /\ Mapping' /\ mapped' \in Seq(Entry)
         /\ \A i \in DOMAIN mapped' : Named(mapped[i].names, mapped[i].guest)'
<1>1. Mapping' = Mapping /\ \A names, guest : Named(names, guest)' = Named(names, guest) BY FixedKept
<1>2. Mapping /\ mapped \in Seq(Entry) /\ \A i \in DOMAIN mapped : Named(mapped[i].names, mapped[i].guest)
  BY DEF PathInv
<1> QED BY <1>1, <1>2

(* A refusal of a path that does not resolve or that DOS cannot have.         *)
LEMMA RefuseStep ==
  ASSUME PathInv, Refuse, Resolves => ~Representable(Meant), system = "unix" => phase # "idle"
  PROVE  PathInv'
<1>1. phase' = "refused" /\ UNCHANGED Fixed /\ host' = host /\ resolved' = resolved /\ mapped' = mapped
      /\ folding' = folding /\ system' = system
  BY DEF Refuse, ctx, dos, Fixed
<1>2. Meant' = Meant /\ Resolves' = Resolves /\ \A names : Representable(names)' = Representable(names)
  BY <1>1, FixedKept
<1>3. ~Resolves' \/ ~Representable(Meant)' BY <1>2
<1>4. Asked' BY <1>1 DEF Asked, PathInv
<1>5. Len(resolved') < ACC_PATH BY <1>1 DEF PathInv
<1> QED BY <1>1, <1>3, <1>4, <1>5, MappedKept DEF PathInv

(* A new path.                                                                *)
LEMMA CallStep == ASSUME PathInv, Call PROVE PathInv'
<1>1. phase' = "canonical" /\ UNCHANGED Fixed /\ resolved' = resolved /\ mapped' = mapped
      /\ system' = system
  BY DEF Call, ctx, dos, Fixed
<1>2. PICK n \in Together :
        host' \in [is : {"exists", "dangling", "orphan"} \cup (IF n = <<>> THEN {} ELSE {"missing"}),
                   names : {n}]
  BY DEF Call
<1>3. n \in Locations
  <2>1. UNION Families \subseteq Locations BY AccPathAssumption DEF AccPathAssumption
  <2> QED BY <1>2, <2>1 DEF Together
<1>4. host'.names = n /\ host'.is \in {"exists", "missing", "dangling", "orphan"}
      /\ (host'.is = "missing" => n # <<>>)
  BY <1>2
<1>5. Asked' BY <1>3, <1>4 DEF Asked
<1>6. Len(resolved') < ACC_PATH BY <1>1 DEF PathInv
<1> QED BY <1>1, <1>5, <1>6, MappedKept DEF PathInv

(* realpath, and the parent of what is missing.                               *)
LEMMA ResolveStep == ASSUME ParentsEndPlainly, PathInv, ResolvePath PROVE PathInv'
<1>1. phase = "canonical" /\ system = "unix" BY DEF ResolvePath
<1>2. /\ host.names \in Locations
      /\ host.is \in {"exists", "missing", "dangling", "orphan"}
      /\ host.is = "missing" => host.names # <<>>
  BY <1>1 DEF PathInv, Asked
<1>3. CASE Unresolvable \/ TooLong
  <2>1. ~Resolves BY <1>1, <1>3 DEF Resolves, Unresolvable
  <2>2. Refuse BY <1>3 DEF ResolvePath
  <2> QED BY <2>1, <2>2, <1>1, RefuseStep
<1>4. CASE ~(Unresolvable \/ TooLong)
  <2>1. /\ resolved' = Canonical /\ phase' = "anchor" /\ UNCHANGED Fixed /\ host' = host
        /\ mapped' = mapped /\ folding' = folding /\ system' = system
    BY <1>4 DEF ResolvePath, ctx, dos, Fixed
  <2>2. Resolves BY <1>1, <1>2, <1>4 DEF Resolves, Unresolvable
  <2>3. Resolves' BY <2>1, <2>2, FixedKept
  <2>4. Canonical = Spell(host.names) /\ Len(Spell(host.names)) < ACC_PATH
    <3>1. CASE host.is = "missing"
      <4> DEFINE n == host.names  ls == Len(Spell(n))  lf == Len(Spell(Front(n)))  lx == Len(Last(n))
      <4>1. n \in Locations /\ n # <<>> BY <1>2, <3>1
      <4>2. Join(Spell(Front(n)), Last(n)) = Spell(n) /\ lx \in Nat /\ ls <= lf + 1 + lx
        <5> HIDE DEF n
        <5> QED BY <4>1, MissingJoined
      <4>3. ~(lf + lx + 2 > ACC_PATH) BY <3>1, <1>4 DEF TooLong
      <4>4. lf \in Nat /\ ls \in Nat /\ ACC_PATH \in Nat
        <5>1. Place(n) /\ Place(Front(n)) BY <4>1, KnownPlace, PlaceFront
        <5> QED BY <5>1, SpellText, Numbers
      <4>5. Canonical = Spell(n) BY <3>1, <4>2 DEF Canonical
      <4> HIDE DEF ls, lf, lx
      <4>6. ls < ACC_PATH BY <4>2, <4>3, <4>4
      <4> QED BY <4>5, <4>6 DEF ls
    <3>2. CASE host.is # "missing"
      <4> DEFINE ls == Len(Spell(host.names))
      <4>1. Place(host.names) BY <1>2, KnownPlace
      <4>2. ~(ls >= ACC_PATH) BY <3>2, <1>4 DEF TooLong
      <4>3. ls \in Nat /\ ACC_PATH \in Nat BY <4>1, SpellText, Numbers
      <4>4. Canonical = Spell(host.names) BY <3>2 DEF Canonical
      <4> HIDE DEF ls
      <4>5. ls < ACC_PATH BY <4>2, <4>3
      <4> QED BY <4>4, <4>5 DEF ls
    <3> QED BY <3>1, <3>2
  <2>5. Asked' BY <2>1, <1>2 DEF Asked
  <2>6. resolved' = Spell(host.names)' /\ Len(resolved') < ACC_PATH
    <3>1. Spell(host.names)' = Spell(host.names) BY <2>1
    <3> QED BY <3>1, <2>1, <2>4
  <2> QED BY <2>1, <2>3, <2>5, <2>6, <1>1, MappedKept DEF PathInv
<1> QED BY <1>3, <1>4

-----------------------------------------------------------------------------
(* The code's choice of an anchor is the deepest one.                         *)
LEMMA AnchorChosen ==
  ASSUME Mapping, system = "unix", NEW names, Place(names), resolved = Spell(names)
  PROVE  /\ InRoot <=> RootFirst(names)
         /\ (~InRoot /\ ~InCwd) <=> ~Anchored(names)
         /\ Anchored(names) =>
              /\ Drive = <<LetterFor(names), ":", "\\">>
              /\ SpelledBelow("/", Rest(names), Relative)
<1>1. Place(map.root) /\ Place(map.cwd) BY DEF Mapping
<1>2. /\ Within(resolved, Spell(map.root)) <=> IsPrefix(map.root, names)
      /\ Within(resolved, Spell(map.cwd)) <=> IsPrefix(map.cwd, names)
  BY <1>1, WithinExactly
<1>3. InRoot <=> RootFirst(names) BY <1>2 DEF InRoot, RootFirst
<1>4. InCwd <=> IsPrefix(map.cwd, names) /\ ~RootFirst(names) BY <1>2, <1>3 DEF InCwd
<1>5. Anchored(names) <=> IsPrefix(map.root, names) \/ IsPrefix(map.cwd, names) BY DeepestOnUnix
<1>6. (~InRoot /\ ~InCwd) <=> ~Anchored(names) BY <1>3, <1>4, <1>5 DEF RootFirst
<1>7. ASSUME Anchored(names)
      PROVE  Drive = <<LetterFor(names), ":", "\\">> /\ SpelledBelow("/", Rest(names), Relative)
  <2>1. /\ Deepest(names) = IF RootFirst(names) THEN map.root ELSE map.cwd
        /\ Deepest(names) = map.root <=> RootFirst(names)
    BY <1>7, DeepestOnUnix
  <2>2. Drive = <<LetterFor(names), ":", "\\">> BY <1>3, <2>1 DEF Drive, LetterFor
  <2>3. Relative = Below(resolved, Spell(Deepest(names))) BY <1>3, <2>1 DEF Relative
  <2>4. /\ Place(Deepest(names)) /\ IsPrefix(Deepest(names), names)
        /\ Rest(names) = After(Deepest(names), names)
    BY <1>7, AnchorFacts
  <2>5. SpelledBelow("/", After(Deepest(names), names), Below(Spell(names), Spell(Deepest(names))))
    BY <2>4, BelowExactly
  <2> QED BY <2>2, <2>3, <2>4, <2>5
<1> QED BY <1>3, <1>6, <1>7

(* The drive is chosen, or the path refused.                                  *)
LEMMA ChooseStep == ASSUME PathInv, DosInv, ChooseAnchor PROVE PathInv'
<1> DEFINE n == host.names  r == Rest(n)  b == Relative
<1>1. phase = "anchor" /\ system = "unix" /\ Resolves /\ resolved = Spell(n) /\ Mapping
      /\ n \in Locations /\ Meant = n
  BY DEF ChooseAnchor, PathInv, Asked, Meant
<1>2. Place(n) BY <1>1, KnownPlace
<1>3. /\ (~InRoot /\ ~InCwd) <=> ~Anchored(n)
      /\ Anchored(n) => Drive = <<LetterFor(n), ":", "\\">> /\ SpelledBelow("/", r, b)
  BY <1>1, <1>2, AnchorChosen
<1>4. /\ Representable(n) <=>
           /\ Anchored(n)
           /\ \A i \in 1 .. Len(r) : DosName(r[i])
           /\ Len(GuestName(n)) <= LIMIT
  BY <1>1, <1>2, RepresentableExactly
<1>5. ASSUME Anchored(n)
      PROVE  /\ Becomes(Drive \o b, GuestName(n), 1)
             /\ Len(Drive \o b) = 3 + Len(b) /\ Len(b) \in Nat
             /\ Contains(b, "\\") => \E i \in 1 .. Len(r) : ~DosName(r[i])
             /\ ~Contains(b, "\\") => Free("\\", r)
  <2>1. Place(r) BY <1>1, <1>2, <1>5, AnchorFacts
  <2>2. LetterFor(n) \in Char BY <1>1, LetterChar
  <2>3. SpelledBelow("/", r, b) /\ Drive = <<LetterFor(n), ":", "\\">> BY <1>3, <1>5
  <2> HIDE DEF b, r
  <2>4. /\ Becomes(<<LetterFor(n), ":", "\\">> \o b, Guest(LetterFor(n), "\\", r), 1)
        /\ Len(<<LetterFor(n), ":", "\\">> \o b) = 3 + Len(b) /\ Len(b) \in Nat
    BY <2>1, <2>2, <2>3, OnTheDrive
  <2>5. /\ Contains(b, "\\") => \E i \in 1 .. Len(r) : ~DosName(r[i])
        /\ ~Contains(b, "\\") => Free("\\", r)
    BY <2>1, <2>3, Backslashes
  <2> QED BY <2>3, <2>4, <2>5 DEF GuestName, r
<1> HIDE DEF n, r, b
<1>6. CASE (~InRoot /\ ~InCwd) \/ Len(b) + 4 > ACC_PATH \/ Contains(b, "\\")
  <2>1. Refuse BY <1>6 DEF ChooseAnchor, b
  <2>2. ~Representable(n)
    <3>1. CASE ~InRoot /\ ~InCwd BY <3>1, <1>3, <1>4
    <3>2. CASE Anchored(n) /\ Len(b) + 4 > ACC_PATH
      <4> DEFINE lb == Len(b)  lg == Len(GuestName(n))
      <4>1. lg = 3 + lb /\ lb \in Nat /\ lb + 4 > ACC_PATH BY <3>2, <1>5 DEF Becomes
      <4>2. LIMIT \in Nat /\ ACC_PATH \in Nat /\ LIMIT < ACC_PATH BY Numbers
      <4> HIDE DEF lb, lg
      <4>3. ~(lg <= LIMIT) BY <4>1, <4>2
      <4> QED BY <4>3, <1>4 DEF lg
    <3>3. CASE Anchored(n) /\ Contains(b, "\\") BY <3>3, <1>4, <1>5
    <3> QED BY <3>1, <3>2, <3>3, <1>3, <1>6
  <2> QED BY <2>1, <2>2, <1>1, RefuseStep DEF n
<1>7. CASE ~((~InRoot /\ ~InCwd) \/ Len(b) + 4 > ACC_PATH \/ Contains(b, "\\"))
  <2>1. /\ out' = Drive \o b /\ p' = 1 /\ base' = 0 /\ ext' = 0 /\ dot' = FALSE /\ phase' = "scan"
        /\ UNCHANGED Fixed /\ host' = host /\ resolved' = resolved /\ mapped' = mapped
        /\ folding' = folding /\ system' = system
    BY <1>7 DEF ChooseAnchor, ctx, dos, Fixed, b
  <2>2. Anchored(n) BY <1>3, <1>7
  <2>3. /\ Meant' = n /\ Resolves' /\ Rest(n)' = r /\ GuestName(n)' = GuestName(n) /\ Anchored(n)'
        /\ Mapping'
    BY <2>1, <2>2, <1>1, FixedKept DEF r, n
  <2>4. Len(out') < ACC_PATH
    <3> DEFINE lb == Len(b)  lo == Len(out')
    <3>1. lo = 3 + lb /\ lb \in Nat /\ ~(lb + 4 > ACC_PATH) /\ ACC_PATH \in Nat
      BY <2>1, <2>2, <1>5, <1>7, Numbers
    <3> HIDE DEF lb, lo
    <3>2. lo < ACC_PATH BY <3>1
    <3> QED BY <3>2 DEF lo
  <2>5. Becomes(out', GuestName(n), p') BY <2>1, <2>2, <1>5
  <2>6. Free("\\", r) BY <2>2, <1>5, <1>7
  <2>7. Scanning'
    <3>1. ScannedTo(r)' BY <2>1 DEF ScannedTo
    <3>2. ScannedTo(Rest(Meant))' BY <2>1 DEF ScannedTo
    <3>3. /\ Rest(Meant)' = r /\ GuestName(Meant)' = GuestName(n) /\ Anchored(Meant)'
      BY <2>3, <2>1, <1>1, <2>2, FixedKept DEF r
    <3> QED BY <2>3, <2>4, <2>5, <2>6, <3>2, <3>3, <1>2 DEF Scanning
  <2>8. Asked' /\ Len(resolved') < ACC_PATH BY <2>1, <1>1 DEF PathInv, Asked
  <2> QED BY <2>1, <2>7, <2>8, MappedKept DEF PathInv
<1> QED BY <1>6, <1>7

(* On DOS the canonical path is scanned.                                      *)
LEMMA ScanCanonicalStep == ASSUME PathInv, DosInv, ScanCanonical PROVE PathInv'
<1>1. /\ phase = "canonical" /\ system = "dos" /\ folding = "accepted"
      /\ out' = folded /\ p' = 1 /\ base' = 0 /\ ext' = 0 /\ dot' = FALSE /\ phase' = "scan"
      /\ UNCHANGED Fixed /\ host' = host /\ resolved' = resolved /\ mapped' = mapped
      /\ folding' = folding /\ system' = system
  BY DEF ScanCanonical, ctx, dos, Fixed
<1>2. DosRequest /\ DosFolded /\ DosBuffers BY <1>1 DEF DosInv
<1>3. OnADrive /\ folded = Guest(Dos!Drive, "\\", Dos!Meant) BY <1>1, <1>2 DEF DosFolded
<1>4. Dir(Dos!Meant) /\ Dos!Drive \in Char BY <1>2, <1>3, DosFacts
<1>5. Meant = Dos!Meant /\ Place(Meant) /\ Free("\\", Meant)
  <2>1. Meant = Dos!Meant BY <1>1 DEF Meant
  <2> QED BY <2>1, <1>4, DirPlace, DirFree
<1>6. Mapping BY DEF PathInv
<1>7. Anchored(Meant) /\ Rest(Meant) = Meant BY <1>1, <1>5, <1>6, DeepestOnDos
<1>8. GuestName(Meant) = folded BY <1>1, <1>3, <1>5, <1>7 DEF GuestName, LetterFor
<1>9. folded \in Text BY <1>3, <1>4, Chars, GuestLayout DEF Dir
<1>10. Len(folded) < ACC_PATH
  <2>1. folded # <<>>
    <3>1. Len(folded) >= 3 BY <1>3, <1>4, Chars, GuestLayout DEF Dir
    <3> DEFINE none == <<>>
    <3>2. Len(none) = 0 OBVIOUS
    <3> HIDE DEF none
    <3>3. folded # none
      <4>1. folded = none => Len(folded) = 0 BY <3>2
      <4>2. ~(0 >= 3) OBVIOUS
      <4> QED BY <4>1, <4>2, <3>1
    <3> QED BY <3>3 DEF none
  <2> QED BY <2>1, <1>2 DEF DosBuffers
<1>11. Becomes(folded, folded, 1) BY <1>9 DEF Becomes
<1>12. Resolves BY <1>1 DEF Resolves
<1>13. /\ Meant' = Meant /\ Resolves' /\ Rest(Meant)' = Meant /\ GuestName(Meant)' = folded
       /\ Anchored(Meant)'
  BY <1>1, <1>7, <1>8, <1>12, FixedKept
<1>14. ScannedTo(Rest(Meant))' BY <1>1 DEF ScannedTo
<1>15. Scanning' BY <1>1, <1>5, <1>10, <1>11, <1>13, <1>14 DEF Scanning
<1>16. Asked' /\ Len(resolved') < ACC_PATH BY <1>1 DEF PathInv, Asked
<1> QED BY <1>1, <1>15, <1>16, MappedKept DEF PathInv

(* On DOS the path is made canonical.                                         *)
LEMMA FoldPathStep == ASSUME PathInv, FoldPath PROVE PathInv'
<1>1. /\ phase = "canonical" /\ phase' = "canonical" /\ system = "dos" /\ system' = system
      /\ map' = map /\ resolved' = resolved /\ mapped' = mapped /\ Dos!Next
  BY DEF FoldPath
<1>2. UNCHANGED Dos!request
  BY <1>1 DEF Dos!Next, Dos!Combine, Dos!FoldComponent, Dos!EndFold, Dos!CheckParent, Dos!Refuse
<1>3. UNCHANGED Fixed BY <1>1, <1>2 DEF Fixed, Dos!request
<1>4. Asked' /\ Len(resolved') < ACC_PATH BY <1>1 DEF PathInv, Asked
<1> QED BY <1>1, <1>3, <1>4, MappedKept DEF PathInv

-----------------------------------------------------------------------------
(* Where the scan is.                                                         *)
LEMMA ScanFacts ==
  ASSUME PathInv, DosInv, phase = "scan"
  PROVE  /\ Mapping /\ Scanning /\ Place(Rest(Meant)) /\ Free("\\", Rest(Meant))
         /\ LetterFor(Meant) \in Char /\ LetterFor(Meant) \notin {"/", "\\", "."}
         /\ LetterFor(Meant) \notin Unsafe
         /\ GuestName(Meant) = Guest(LetterFor(Meant), "\\", Rest(Meant))
         /\ out \in Text /\ Len(out) \in Nat /\ Len(out) = Len(GuestName(Meant))
<1>1. Mapping /\ Scanning BY DEF PathInv
<1>2. Place(Rest(Meant)) /\ Free("\\", Rest(Meant)) BY <1>1, AnchorFacts DEF Scanning
<1>3. /\ LetterFor(Meant) \in Char /\ LetterFor(Meant) \notin {"/", "\\", "."}
      /\ LetterFor(Meant) \notin Unsafe
  BY <1>1, LetterChar
<1>4. GuestName(Meant) = Guest(LetterFor(Meant), "\\", Rest(Meant)) BY DEF GuestName
<1>5. out \in Text /\ Len(out) = Len(GuestName(Meant)) BY <1>1 DEF Scanning, Becomes
<1> QED BY <1>1, <1>2, <1>3, <1>4, <1>5, TextLength

(* The scan is in the drive, or at the end of the root of the drive.          *)
LEMMA AtDrive ==
  ASSUME PathInv, DosInv, phase = "scan"
  PROVE  /\ p \in {1, 2, 3} => p <= Len(out)
         /\ p = 1 => out[p] = LetterFor(Meant)
         /\ p = 2 => out[p] = ":"
         /\ p = 3 => out[p] \in {"/", "\\"} /\ GuestName(Meant)[p] = "\\"
         /\ Rest(Meant) = <<>> /\ p = 4 => p > Len(out)
<1> DEFINE g == GuestName(Meant)  lo == Len(out)  d == LetterFor(Meant)  r == Rest(Meant)
<1>1. d \in Char /\ r \in NameList /\ g = Guest(d, "\\", r) /\ d # "\\" /\ lo \in Nat /\ lo = Len(g)
  BY ScanFacts DEF Place
<1> DEFINE c == "\\"
<1> HIDE DEF d, r, g, c
<1>2. /\ Len(g) >= 3 /\ g[1] = d /\ g[2] = ":" /\ g[3] = "\\"
      /\ r = <<>> => Len(g) = 3
  <2>1. c \in Char /\ g = Guest(d, c, r) /\ c = "\\" BY <1>1, Chars DEF c
  <2>2. /\ Len(Guest(d, c, r)) >= 3
        /\ Len(Guest(d, c, r)) = IF r = <<>> THEN 3 ELSE 2 + Len(Spelled(c, r))
        /\ Guest(d, c, r)[1] = d /\ Guest(d, c, r)[2] = ":" /\ Guest(d, c, r)[3] = c
    BY <2>1, <1>1, GuestLayout
  <2> QED BY <2>1, <2>2
<1>3. \A k \in 1 .. lo : out[k] = g[k] \/ (out[k] = "/" /\ g[k] = "\\")
  BY ScanFacts DEF Scanning, Becomes, g
<1>4. 1 \in 1 .. lo /\ 2 \in 1 .. lo /\ 3 \in 1 .. lo /\ 1 <= lo /\ 2 <= lo /\ 3 <= lo
  BY <1>1, <1>2
<1>5. out[1] = d /\ out[2] = ":" /\ out[3] \in {"/", "\\"} BY <1>1, <1>2, <1>3, <1>4
<1>6. r = <<>> => lo = 3 BY <1>1, <1>2
<1> HIDE DEF lo
<1>7. r = <<>> => 4 > lo BY <1>6
<1> QED BY <1>2, <1>4, <1>5, <1>7 DEF lo, d, r, g

(* The counters add up to the characters of the name that were read.          *)
LEMMA StartOfName ==
  ASSUME NEW x, NEW k, Counted(x, k, base, ext, dot)
  PROVE  /\ k \in Nat /\ k <= Len(x) /\ base \in Nat /\ base <= k
         /\ k = base + ext + (IF dot THEN 1 ELSE 0)
<1>1. /\ k \in Nat /\ k <= Len(x) /\ base \in Nat /\ ext \in Nat
      /\ \/ dot = FALSE /\ base = k /\ ext = 0
         \/ dot = TRUE /\ k = base + 1 + ext
  BY DEF Counted
<1>2. CASE dot = FALSE /\ base = k /\ ext = 0 BY <1>1, <1>2
<1>3. CASE dot = TRUE /\ k = base + 1 + ext BY <1>1, <1>3
<1> QED BY <1>1, <1>2, <1>3

(* The scan is in a name, after it, or at its end.                            *)
LEMMA InTheName ==
  ASSUME PathInv, DosInv, phase = "scan", NEW r, r = Rest(Meant),
         NEW n \in Nat, NEW k \in Nat, AtName(r, n, k)
  PROVE  LET x == r[n + 1] IN
         /\ x \in Text /\ x # <<>> /\ n + 1 \in 1 .. Len(r) /\ Counted(x, k, base, ext, dot)
         /\ k < Len(x) => p <= Len(out) /\ out[p] = x[k + 1] /\ out[p] \notin {"/", "\\"}
         /\ k = Len(x) /\ n + 1 # Len(r) =>
              /\ p <= Len(out) /\ out[p] \in {"/", "\\"} /\ GuestName(Meant)[p] = "\\"
              /\ p + 1 = 4 + Size("\\", r, n + 1)
         /\ k = Len(x) /\ n + 1 = Len(r) => p > Len(out)
         /\ k < Len(x) \/ k = Len(x)
         /\ k = Len(x) => (Alias <=> ~DosName(x))
         /\ p \in Nat /\ 4 <= p
<1> DEFINE x == r[n + 1]  d == LetterFor(Meant)  g == Guest(d, "\\", r)  z == Size("\\", r, n)
<1>1. /\ d \in Char /\ Place(r) /\ Free("\\", r) /\ g = GuestName(Meant) /\ Becomes(out, g, p)
  BY ScanFacts DEF Scanning
<1>2. /\ n + 1 \in 1 .. Len(r) /\ p = 4 + z + k /\ Counted(x, k, base, ext, dot)
  BY DEF AtName
<1>3. k <= Len(x) /\ base \in Nat /\ base <= k /\ k = base + ext + (IF dot THEN 1 ELSE 0)
  BY <1>2, StartOfName
<1>4. x \in Text /\ x # <<>> BY <1>1, <1>2 DEF Place, NameList
<1>5. Len(x) \in Nat BY <1>4, TextLength
<1> HIDE DEF d
<1>6. /\ k < Len(x) =>
              p <= Len(out) /\ out[p] = x[k + 1] /\ out[p] \notin {"/", "\\"}
      /\ k = Len(x) /\ n + 1 # Len(r) =>
              /\ p <= Len(out) /\ out[p] \in {"/", "\\"} /\ p + 1 = 4 + Size("\\", r, n + 1)
              /\ g[p] = "\\"
      /\ k = Len(x) /\ n + 1 = Len(r) => p > Len(out)
      /\ p \in Nat /\ 4 <= p
  BY <1>1, <1>2, <1>3, CharacterAt
<1>7. ASSUME k = Len(x) PROVE Alias <=> ~DosName(x)
  <2> DEFINE s == p - base - ext - (IF dot THEN 1 ELSE 0)
  <2>1. z \in Nat
    <3>1. n \in 0 .. Len(r) /\ r \in NameList
      <4>1. Len(r) \in Nat BY <1>1, PlaceSeq
      <4> QED BY <4>1, <1>1, <1>2 DEF Place
    <3> QED BY <3>1, Chars, SizeIsNat
  <2>2. s \in Nat /\ s = p - k
    <3> HIDE DEF z
    <3>1. ext \in Nat /\ k \in Nat BY <1>2 DEF Counted
    <3>2. CASE dot BY <3>1, <3>2, <2>1, <1>2, <1>3
    <3>3. CASE ~dot BY <3>1, <3>3, <2>1, <1>2, <1>3
    <3> QED BY <3>2, <3>3
  <2>3. BaseName = Fold(SubSeq(out, s, s + base - 1)) BY DEF BaseName
  <2> HIDE DEF s
  <2>4. SubSeq(out, s, s + base - 1) = SubSeq(x, 1, base)
    <3>1. /\ d \in Char /\ Place(r) /\ Becomes(out, Guest(d, "\\", r), p)
          /\ n + 1 \in 1 .. Len(r) /\ k <= Len(r[n + 1]) /\ p = 4 + Size("\\", r, n) + k
          /\ p \in Nat /\ base \in Nat /\ base <= k /\ s \in Nat /\ s = p - k
      BY <2>2, <1>1, <1>2, <1>3, <1>6
    <3> DEFINE e == s + base - 1
    <3>2. e + 1 = s + base /\ s + k = p /\ e \in Nat
      <4>1. base \in Nat /\ s \in Nat /\ s = 4 + z /\ k \in Nat
        <5> HIDE DEF z
        <5> QED BY <2>1, <3>1 DEF z
      <4> HIDE DEF z
      <4> QED BY <4>1, <2>1, <3>1
    <3>3. x \in Text /\ x = r[n + 1] BY <1>4
    <3> HIDE DEF z, g, e, x
    <3>4. HasRead(d, r, out, p, n, k, x, s, e, base) BY <3>1, <3>2, <3>3 DEF HasRead
    <3>5. SubSeq(out, s, e) = Opening(x, base) BY <3>4, NameRead
    <3> QED BY <3>5 DEF e, Opening
  <2>5. Counted(x, Len(x), base, ext, dot) BY <1>2, <1>7
  <2> HIDE DEF x
  <2>6. DosName(x) <=> ~((dot = TRUE /\ (base = 0 \/ ext = 0)) \/ Fold(SubSeq(x, 1, base)) \in Devices)
    BY <2>5, <1>4, CountedEnd
  <2>7. dot \in BOOLEAN BY <2>5 DEF Counted
  <2>8. BaseName = Fold(SubSeq(x, 1, base)) BY <2>3, <2>4
  <2> QED BY <2>6, <2>7, <2>8 DEF Alias
<1>8. k < Len(x) \/ k = Len(x)
  <2> HIDE DEF x
  <2> QED BY <1>3, <1>5
<1> HIDE DEF x
<1> QED BY <1>1, <1>2, <1>4, <1>6, <1>7, <1>8 DEF x

(* The places the scan can be at.                                             *)
LEMMA ScanCases ==
  ASSUME PathInv, phase = "scan", NEW r, r = Rest(Meant)
  PROVE  \/ p = 1 /\ base = 0 /\ ext = 0 /\ dot = FALSE
         \/ p = 2 /\ base = 1 /\ ext = 0 /\ dot = FALSE
         \/ p = 3 /\ base = 0 /\ ext = 0 /\ dot = FALSE
         \/ r = <<>> /\ p = 4 /\ base = 0 /\ ext = 0 /\ dot = FALSE
         \/ \E n, k \in Nat : AtName(r, n, k)
BY DEF PathInv, Scanning, ScannedTo

(* Beside the drive no base name has been counted.                            *)
LEMMA NoAlias ==
  ASSUME out \in Text, p \in {3, 4}, p <= Len(out) + 1, base = 0, ext = 0, dot = FALSE
  PROVE  ~Alias
<1> DEFINE t == SubSeq(out, p, p - 1)
<1>1. t \in Text /\ Len(t) = 0
  <2>1. Len(out) \in Nat BY TextLength
  <2>2. p \in Nat /\ p - 1 \in Nat /\ 1 <= p /\ p - 1 <= p - 1 /\ p - 1 <= Len(out) /\ ((p - 1) - p) + 1 = 0
    BY <2>1
  <2> DEFINE a == p  e == p - 1
  <2>3. a \in Nat /\ e \in Nat /\ 1 <= a /\ a - 1 <= e /\ e <= Len(out) /\ (e - a) + 1 = 0 BY <2>2
  <2> HIDE DEF a, e
  <2>4. SubSeq(out, a, e) \in Text /\ Len(SubSeq(out, a, e)) = (e - a) + 1 BY <2>3, Piece
  <2> QED BY <2>3, <2>4 DEF a, e
<1>2. t = <<>> BY <1>1, EmptySeq DEF Text
<1>3. Fold(<<>>) = <<>> BY DEF Fold
<1>4. BaseName = Fold(t)
  <2>1. p - base - ext - (IF dot THEN 1 ELSE 0) = p /\ p + base - 1 = p - 1 OBVIOUS
  <2> QED BY <2>1 DEF BaseName
<1>5. <<>> \notin Devices BY AccPathAssumption DEF AccPathAssumption
<1> QED BY <1>2, <1>3, <1>4, <1>5 DEF Alias

-----------------------------------------------------------------------------
(* What is left of the scanned text after one more character.                 *)
LEMMA BecomesMore ==
  ASSUME NEW t, NEW g, NEW q \in Nat, Becomes(t, g, q), q \in 1 .. Len(t)
  PROVE  /\ t[q] # "/" => Becomes(t, g, q + 1)
         /\ g[q] = "\\" => Becomes([t EXCEPT ![q] = "\\"], g, q + 1)
<1>1. /\ t \in Text /\ Len(t) = Len(g)
      /\ \A k \in 1 .. Len(t) : t[k] = g[k] \/ (k >= q /\ t[k] = "/" /\ g[k] = "\\")
  BY DEF Becomes
<1>2. Len(t) \in Nat BY <1>1, TextLength
<1>3. ASSUME t[q] # "/" PROVE Becomes(t, g, q + 1)
  <2>1. \A k \in 1 .. Len(t) : t[k] = g[k] \/ (k >= q + 1 /\ t[k] = "/" /\ g[k] = "\\")
    BY <1>1, <1>2, <1>3
  <2> QED BY <2>1, <1>1 DEF Becomes
<1>4. ASSUME g[q] = "\\" PROVE Becomes([t EXCEPT ![q] = "\\"], g, q + 1)
  <2> DEFINE u == [t EXCEPT ![q] = "\\"]
  <2>1. u \in Text /\ Len(u) = Len(t)
    <3>1. t \in Seq(Char) /\ "\\" \in Char BY <1>1, Chars DEF Text
    <3>2. [t EXCEPT ![q] = "\\"] \in Seq(Char) /\ Len([t EXCEPT ![q] = "\\"]) = Len(t)
      BY <3>1
    <3> QED BY <3>2 DEF Text
  <2>2. \A k \in 1 .. Len(t) : u[k] = IF k = q THEN "\\" ELSE t[k]
    <3>1. DOMAIN t = 1 .. Len(t) BY <1>1 DEF Text
    <3> QED BY <3>1
  <2> HIDE DEF u
  <2>3. \A k \in 1 .. Len(u) : u[k] = g[k] \/ (k >= q + 1 /\ u[k] = "/" /\ g[k] = "\\")
    <3> SUFFICES ASSUME NEW k \in 1 .. Len(u)
                 PROVE  u[k] = g[k] \/ (k >= q + 1 /\ u[k] = "/" /\ g[k] = "\\")
      OBVIOUS
    <3>1. CASE k = q BY <3>1, <2>1, <2>2, <1>4
    <3>2. CASE k # q
      <4>1. u[k] = t[k] /\ (k >= q => k >= q + 1) BY <3>2, <2>1, <2>2, <1>2
      <4>2. t[k] = g[k] \/ (k >= q /\ t[k] = "/" /\ g[k] = "\\") BY <2>1, <1>1
      <4> QED BY <4>1, <4>2
    <3> QED BY <3>1, <3>2
  <2>4. Len(u) = Len(g) BY <2>1, <1>1
  <2> QED BY <2>1, <2>3, <2>4 DEF Becomes, u
<1> QED BY <1>3, <1>4

(* The scan goes on.                                                          *)
LEMMA ScanGoesOn ==
  ASSUME PathInv, phase = "scan", UNCHANGED <<phase, ctx, host, resolved, mapped>>,
         NEW r, r = Rest(Meant), ScannedTo(r)', Becomes(out', GuestName(Meant), p')
  PROVE  PathInv'
<1>1. /\ phase' = "scan" /\ UNCHANGED Fixed /\ host' = host /\ resolved' = resolved /\ mapped' = mapped
      /\ folding' = folding /\ system' = system
  BY DEF ctx, dos, Fixed
<1>2. Scanning /\ Asked /\ Len(resolved) < ACC_PATH BY DEF PathInv
<1>3. /\ Meant' = Meant /\ Resolves' /\ Rest(Meant)' = r /\ GuestName(Meant)' = GuestName(Meant)
      /\ Anchored(Meant)' /\ Place(Meant)'
  BY <1>1, <1>2, FixedKept DEF Scanning
<1>4. Len(out') < ACC_PATH
  <2>1. Len(out') = Len(GuestName(Meant)) BY DEF Becomes
  <2>2. Len(out) = Len(GuestName(Meant)) /\ Len(out) < ACC_PATH BY <1>2 DEF Scanning, Becomes
  <2> QED BY <2>1, <2>2
<1>5. ScannedTo(Rest(Meant))'
  <2>1. ScannedTo(r)' /\ Rest(Meant)' = r BY <1>3
  <2> QED BY <2>1 DEF ScannedTo, AtName
<1>6. Free("\\", Rest(Meant))' BY <1>2, <1>3 DEF Scanning
<1>7. Becomes(out, GuestName(Meant), p)' BY <1>3
<1>8. Scanning' BY <1>3, <1>4, <1>5, <1>6, <1>7 DEF Scanning
<1>9. Asked' /\ Len(resolved') < ACC_PATH BY <1>1, <1>2 DEF Asked
<1> QED BY <1>1, <1>8, <1>9, MappedKept DEF PathInv

(* A refusal while the name n + 1 is scanned.                                 *)
LEMMA BadName ==
  ASSUME PathInv, DosInv, phase = "scan", NEW r, r = Rest(Meant),
         NEW i \in 1 .. Len(r), ~DosName(r[i])
  PROVE  ~Representable(Meant)
<1>1. Mapping /\ Place(Meant) BY DEF PathInv, Scanning
<1> QED BY <1>1, RepresentableExactly

(* The colon of the drive.                                                    *)
LEMMA ScanDriveStep == ASSUME PathInv, DosInv, ScanDrive PROVE PathInv'
<1>1. /\ phase = "scan" /\ p = 2 /\ p <= Len(out) /\ out[p] = ":" /\ base' = 0 /\ p' = p + 1
      /\ UNCHANGED <<phase, ctx, host, resolved, out, ext, dot, mapped>>
  BY DEF ScanDrive
<1>2. PICK r : r = Rest(Meant) OBVIOUS
<1>3. out \in Text /\ Len(out) \in Nat /\ Becomes(out, GuestName(Meant), p)
  BY <1>1, ScanFacts DEF Scanning
<1>4. Becomes(out', GuestName(Meant), p')
  <2>1. p \in Nat /\ p \in 1 .. Len(out) /\ out[p] # "/" BY <1>1, <1>3
  <2>2. Becomes(out, GuestName(Meant), p + 1) BY <2>1, <1>3, BecomesMore
  <2> QED BY <2>2, <1>1
<1>5. ext = 0 /\ dot = FALSE
  <2>1. ASSUME NEW n \in Nat, NEW k \in Nat, AtName(r, n, k) PROVE FALSE
    <3>1. 4 <= p BY <2>1, <1>1, <1>2, InTheName
    <3> QED BY <3>1, <1>1
  <2>2. \/ p = 1 \/ (p = 2 /\ base = 1 /\ ext = 0 /\ dot = FALSE) \/ p = 3 \/ p = 4
        \/ \E n, k \in Nat : AtName(r, n, k)
    BY <1>1, <1>2, ScanCases
  <2> QED BY <2>1, <2>2, <1>1
<1>6. ScannedTo(r)'
  <2>1. p' = 3 /\ base' = 0 /\ ext' = 0 /\ dot' = FALSE BY <1>1, <1>5
  <2> QED BY <2>1 DEF ScannedTo
<1> QED BY <1>1, <1>2, <1>4, <1>6, ScanGoesOn

(* A separator: the name before it is accepted or refused.                    *)
LEMMA ScanSeparatorStep == ASSUME PathInv, DosInv, ScanSeparator PROVE PathInv'
<1>1. phase = "scan" /\ p <= Len(out) /\ out[p] \in {"/", "\\"} BY DEF ScanSeparator
<1>2. PICK r : r = Rest(Meant) OBVIOUS
<1>3. /\ out \in Text /\ Len(out) \in Nat /\ Becomes(out, GuestName(Meant), p)
      /\ LetterFor(Meant) \notin {"/", "\\", "."} /\ Place(r)
  BY <1>1, <1>2, ScanFacts DEF Scanning
<1>4. ASSUME ~Alias, p \in Nat, 1 <= p, GuestName(Meant)[p] = "\\"
      PROVE  /\ UNCHANGED <<phase, ctx, host, resolved, mapped>>
             /\ base' = 0 /\ ext' = 0 /\ dot' = FALSE /\ p' = p + 1
             /\ Becomes(out', GuestName(Meant), p')
  <2>1. /\ UNCHANGED <<phase, ctx, host, resolved, mapped>> /\ out' = [out EXCEPT ![p] = "\\"]
        /\ base' = 0 /\ ext' = 0 /\ dot' = FALSE /\ p' = p + 1
    BY <1>4 DEF ScanSeparator
  <2>2. p \in 1 .. Len(out) BY <1>1, <1>3, <1>4
  <2>3. Becomes([out EXCEPT ![p] = "\\"], GuestName(Meant), p + 1) BY <2>2, <1>3, <1>4, BecomesMore
  <2> QED BY <2>1, <2>3
<1>5. p # 1 /\ p # 2 BY <1>1, <1>3, AtDrive
<1>6. CASE p = 3 /\ base = 0 /\ ext = 0 /\ dot = FALSE
  <2>1. ~Alias
    <3>1. p <= Len(out) + 1 BY <1>1, <1>3, <1>6
    <3> QED BY <3>1, <1>3, <1>6, NoAlias
  <2>2. GuestName(Meant)[p] = "\\" BY <1>1, <1>6, AtDrive
  <2>3. /\ UNCHANGED <<phase, ctx, host, resolved, mapped>>
        /\ base' = 0 /\ ext' = 0 /\ dot' = FALSE /\ p' = 4
        /\ Becomes(out', GuestName(Meant), p')
    <3>1. p \in Nat /\ 1 <= p /\ p + 1 = 4 BY <1>6
    <3> QED BY <3>1, <2>1, <2>2, <1>4
  <2>4. ScannedTo(r)'
    <3>1. CASE r = <<>> BY <3>1, <2>3 DEF ScannedTo
    <3>2. CASE r # <<>>
      <4>1. 0 + 1 \in 1 .. Len(r) /\ r \in NameList
        <5>1. Len(r) \in Nat /\ Len(r) # 0 BY <1>3, <3>2, PlaceSeq, EmptySeq
        <5> QED BY <5>1, <1>3 DEF Place
      <4>2. Size("\\", r, 0) = 0 BY <4>1, Chars, SizeEnds
      <4>3. Counted(r[0 + 1], 0, 0, 0, FALSE)
        <5>1. r[0 + 1] \in Text BY <4>1 DEF NameList
        <5> QED BY <5>1, CountedStart
      <4>4. AtName(r, 0, 0)'
        <5>1. p' = 4 + Size("\\", r, 0) + 0 BY <2>3, <4>2
        <5> DEFINE m == 0
        <5>2. \A i \in 1 .. m : DosName(r[i]) OBVIOUS
        <5>3. /\ m + 1 \in 1 .. Len(r) /\ p' = 4 + Size("\\", r, m) + m
              /\ Counted(r[m + 1], m, base', ext', dot')
          BY <5>1, <4>1, <4>3, <2>3
        <5> HIDE DEF m
        <5>4. AtName(r, m, m)' BY <5>2, <5>3 DEF AtName
        <5> QED BY <5>4 DEF m
      <4>5. 0 \in Nat OBVIOUS
      <4> QED BY <4>4, <4>5 DEF ScannedTo
    <3> QED BY <3>1, <3>2
  <2> QED BY <2>3, <2>4, <1>1, <1>2, ScanGoesOn
<1>7. CASE r = <<>> /\ p = 4
  <2>1. p > Len(out) BY <1>1, <1>2, <1>7, AtDrive
  <2> QED BY <2>1, <1>1, <1>3, <1>7
<1>8. ASSUME NEW n \in Nat, NEW k \in Nat, AtName(r, n, k) PROVE PathInv'
  <2> DEFINE x == r[n + 1]
  <2>1. /\ x \in Text /\ x # <<>> /\ n + 1 \in 1 .. Len(r) /\ Counted(x, k, base, ext, dot)
        /\ k < Len(x) => p <= Len(out) /\ out[p] = x[k + 1] /\ out[p] \notin {"/", "\\"}
        /\ k = Len(x) /\ n + 1 # Len(r) =>
             /\ p <= Len(out) /\ out[p] \in {"/", "\\"} /\ GuestName(Meant)[p] = "\\"
             /\ p + 1 = 4 + Size("\\", r, n + 1)
        /\ k = Len(x) /\ n + 1 = Len(r) => p > Len(out)
        /\ k < Len(x) \/ k = Len(x)
        /\ k = Len(x) => (Alias <=> ~DosName(x))
        /\ p \in Nat /\ 4 <= p
    BY <1>1, <1>2, <1>8, InTheName
  <2>2. k = Len(x) /\ n + 1 # Len(r)
    <3>1. k = Len(x) BY <2>1, <1>1
    <3>2. ~(p > Len(out)) BY <1>1, <1>3, <2>1
    <3> QED BY <3>1, <3>2, <2>1
  <2>3. CASE Alias
    <3>1. Refuse BY <2>3 DEF ScanSeparator
    <3>2. ~DosName(r[n + 1]) BY <2>1, <2>2, <2>3
    <3>3. ~Representable(Meant) BY <3>2, <2>1, <1>1, <1>2, BadName
    <3> QED BY <3>1, <3>3, <1>1, RefuseStep
  <2>4. CASE ~Alias
    <3>1. /\ UNCHANGED <<phase, ctx, host, resolved, mapped>>
          /\ base' = 0 /\ ext' = 0 /\ dot' = FALSE /\ p' = p + 1
          /\ Becomes(out', GuestName(Meant), p')
      <4>1. 1 <= p BY <2>1
      <4> QED BY <4>1, <2>1, <2>2, <2>4, <1>4
    <3> DEFINE m == n + 1
    <3>2. m \in Nat /\ m + 1 \in 1 .. Len(r) /\ r[m + 1] \in Text
      <4>1. Len(r) \in Nat /\ r \in NameList BY <1>3, PlaceSeq DEF Place
      <4>2. m \in Nat /\ m + 1 \in 1 .. Len(r) BY <4>1, <2>1, <2>2
      <4> HIDE DEF m
      <4> QED BY <4>1, <4>2 DEF NameList
    <3>3. p' = 4 + Size("\\", r, m) + 0
      <4> DEFINE z == Size("\\", r, m)
      <4>1. z \in Nat
        <5>1. m \in 0 .. Len(r) /\ r \in NameList
          <6>1. Len(r) \in Nat BY <1>3, PlaceSeq
          <6> QED BY <6>1, <3>2, <1>3 DEF Place
        <5> HIDE DEF m
        <5> QED BY <5>1, Chars, SizeIsNat
      <4>2. p' = 4 + z BY <3>1, <2>1, <2>2
      <4> HIDE DEF z
      <4>3. p' = 4 + z + 0 BY <4>1, <4>2
      <4> QED BY <4>3 DEF z
    <3>4. \A i \in 1 .. m : DosName(r[i])
      <4>1. \A i \in 1 .. n : DosName(r[i]) BY <1>8 DEF AtName
      <4>2. DosName(r[m]) BY <2>1, <2>2, <2>4
      <4>3. \A i \in 1 .. m : i \in 1 .. n \/ i = m OBVIOUS
      <4> HIDE DEF m
      <4> QED BY <4>1, <4>2, <4>3
    <3> HIDE DEF m
    <3>5. Counted(r[m + 1], 0, 0, 0, FALSE) BY <3>2, CountedStart
    <3>6. AtName(r, m, 0)' BY <3>1, <3>2, <3>3, <3>4, <3>5 DEF AtName
    <3>7. ScannedTo(r)'
      <4>1. 0 \in Nat OBVIOUS
      <4> QED BY <4>1, <3>2, <3>6 DEF ScannedTo
    <3> QED BY <3>1, <3>7, <1>1, <1>2, ScanGoesOn
  <2> QED BY <2>3, <2>4
<1> QED BY <1>1, <1>2, <1>5, <1>6, <1>7, <1>8, ScanCases

(* A dot.                                                                     *)
LEMMA ScanDotStep == ASSUME PathInv, DosInv, ScanDot PROVE PathInv'
<1>1. phase = "scan" /\ p <= Len(out) /\ out[p] = "." BY DEF ScanDot
<1>2. PICK r : r = Rest(Meant) OBVIOUS
<1>3. /\ out \in Text /\ Len(out) \in Nat /\ Becomes(out, GuestName(Meant), p)
      /\ LetterFor(Meant) \notin {"/", "\\", "."} /\ Place(r)
  BY <1>1, <1>2, ScanFacts DEF Scanning
<1>4. ~(p \in {1, 2, 3}) /\ ~(r = <<>> /\ p = 4)
  <2>1. /\ p = 1 => out[p] = LetterFor(Meant)
        /\ p = 2 => out[p] = ":"
        /\ p = 3 => out[p] \in {"/", "\\"}
        /\ r = <<>> /\ p = 4 => p > Len(out)
    BY <1>1, <1>2, AtDrive
  <2>2. p # 1 /\ p # 2 /\ p # 3 BY <2>1, <1>1, <1>3
  <2>3. ASSUME r = <<>>, p = 4 PROVE FALSE
    <3>1. p > Len(out) BY <2>1, <2>3
    <3> QED BY <3>1, <1>1, <1>3, <2>3
  <2> QED BY <2>2, <2>3
<1>5. PICK n \in Nat, k \in Nat : AtName(r, n, k) BY <1>1, <1>2, <1>4, ScanCases
<1> DEFINE x == r[n + 1]
<1>6. /\ x \in Text /\ n + 1 \in 1 .. Len(r) /\ Counted(x, k, base, ext, dot)
      /\ k < Len(x) => out[p] = x[k + 1]
      /\ k = Len(x) /\ n + 1 # Len(r) => out[p] \in {"/", "\\"}
      /\ k = Len(x) /\ n + 1 = Len(r) => p > Len(out)
      /\ k < Len(x) \/ k = Len(x)
      /\ p \in Nat /\ 4 <= p
  BY <1>1, <1>2, <1>5, InTheName
<1>7. k < Len(x) /\ x[k + 1] = "."
  <2>1. ~(p > Len(out)) BY <1>1, <1>3, <1>6
  <2>2. k # Len(x) BY <2>1, <1>1, <1>6
  <2> QED BY <2>2, <1>1, <1>6
<1>8. k + 1 <= Len(x)
  <2>1. Len(x) \in Nat BY <1>6, TextLength
  <2> HIDE DEF x
  <2> QED BY <2>1, <1>7
<1>9. CASE dot = TRUE
  <2>1. Refuse BY <1>9 DEF ScanDot
  <2>2. ~DosName(x)
    <3> HIDE DEF x
    <3> QED BY <1>6, <1>7, <1>8, <1>9, SecondDot
  <2>3. ~Representable(Meant) BY <2>2, <1>1, <1>2, <1>6, BadName
  <2> QED BY <2>1, <2>3, <1>1, RefuseStep
<1>10. CASE dot = FALSE
  <2>1. /\ dot' = TRUE /\ p' = p + 1
        /\ UNCHANGED <<phase, ctx, host, resolved, out, base, ext, mapped>>
    BY <1>10 DEF ScanDot
  <2>2. Becomes(out', GuestName(Meant), p')
    <3>1. p \in Nat /\ p \in 1 .. Len(out) /\ out[p] # "/" BY <1>1, <1>3, <1>6
    <3>2. Becomes(out, GuestName(Meant), p + 1) BY <3>1, <1>3, BecomesMore
    <3> QED BY <3>2, <2>1
  <2>3. Counted(x, k + 1, base, ext, TRUE)
    <3> HIDE DEF x
    <3> QED BY <1>6, <1>7, <1>8, <1>10, CountedDot
  <2>4. AtName(r, n, k + 1)'
    <3>1. p = 4 + Size("\\", r, n) + k /\ \A i \in 1 .. n : DosName(r[i]) BY <1>5 DEF AtName
    <3>2. p' = 4 + Size("\\", r, n) + (k + 1)
      <4> DEFINE z == Size("\\", r, n)
      <4>1. z \in Nat
        <5>1. n \in 0 .. Len(r) /\ r \in NameList
          <6>1. Len(r) \in Nat BY <1>3, PlaceSeq
          <6> QED BY <6>1, <1>3, <1>6 DEF Place
        <5> QED BY <5>1, Chars, SizeIsNat
      <4>2. p = 4 + z + k /\ p' = p + 1 BY <3>1, <2>1
      <4> HIDE DEF z
      <4>3. p' = 4 + z + (k + 1) BY <4>1, <4>2
      <4> QED BY <4>3 DEF z
    <3> QED BY <3>1, <3>2, <2>1, <2>3, <1>6 DEF AtName
  <2>5. ScannedTo(r)'
    <3>1. k + 1 \in Nat OBVIOUS
    <3> QED BY <3>1, <2>4 DEF ScannedTo
  <2> QED BY <2>1, <2>2, <2>5, <1>1, <1>2, ScanGoesOn
<1>11. dot \in BOOLEAN BY <1>6 DEF Counted
<1> QED BY <1>9, <1>10, <1>11

(* Any other character.                                                       *)
LEMMA ScanCharacterStep == ASSUME PathInv, DosInv, ScanCharacter PROVE PathInv'
<1>1. /\ phase = "scan" /\ p <= Len(out) /\ Ordinary(out[p]) /\ ~(out[p] = ":" /\ p = 2)
  BY DEF ScanCharacter
<1>2. PICK r : r = Rest(Meant) OBVIOUS
<1>3. /\ out \in Text /\ Len(out) \in Nat /\ Becomes(out, GuestName(Meant), p)
      /\ LetterFor(Meant) \notin {"/", "\\", "."} /\ LetterFor(Meant) \notin Unsafe /\ Place(r)
  BY <1>1, <1>2, ScanFacts DEF Scanning
<1> DEFINE bad == \/ out[p] \in Unsafe
                  \/ ~dot /\ base + 1 > BASE
                  \/ dot /\ ext + 1 > EXT
<1>4. bad => Refuse BY DEF ScanCharacter
<1>5. ~bad => /\ base' = IF dot THEN base ELSE base + 1
              /\ ext' = IF dot THEN ext + 1 ELSE ext
              /\ p' = p + 1
              /\ UNCHANGED <<phase, ctx, host, resolved, out, dot, mapped>>
  BY DEF ScanCharacter
<1>6. ASSUME p \in Nat, 1 <= p, ~bad
      PROVE  /\ UNCHANGED <<phase, ctx, host, resolved, mapped>>
             /\ Becomes(out', GuestName(Meant), p')
  <2> HIDE DEF bad
  <2>1. p \in Nat /\ p \in 1 .. Len(out) /\ out[p] # "/" BY <1>1, <1>3, <1>6 DEF Ordinary
  <2>2. Becomes(out, GuestName(Meant), p + 1) BY <2>1, <1>3, BecomesMore
  <2> QED BY <2>2, <1>5, <1>6
<1>7. /\ p = 1 => out[p] = LetterFor(Meant)
      /\ p = 2 => out[p] = ":"
      /\ p = 3 => out[p] \in {"/", "\\"}
      /\ r = <<>> /\ p = 4 => p > Len(out)
  BY <1>1, <1>2, AtDrive
<1>8. p # 2 /\ p # 3 BY <1>1, <1>7 DEF Ordinary
<1>9. ASSUME r = <<>>, p = 4 PROVE FALSE
  <2>1. p > Len(out) BY <1>7, <1>9
  <2> QED BY <2>1, <1>1, <1>3, <1>9
<1>10. CASE p = 1 /\ base = 0 /\ ext = 0 /\ dot = FALSE
  <2>1. ~bad
    <3>1. out[p] \notin Unsafe BY <1>3, <1>7, <1>10
    <3>2. ~(base + 1 > BASE) BY <1>10, Numbers
    <3> QED BY <3>1, <3>2, <1>10
  <2>2. p' = 2 /\ base' = 1 /\ ext' = 0 /\ dot' = FALSE
    <3> HIDE DEF bad
    <3>1. base' = base + 1 /\ ext' = ext /\ p' = p + 1 /\ dot' = dot BY <2>1, <1>5, <1>10
    <3> QED BY <3>1, <1>10
  <2>3. ScannedTo(r)' BY <2>2 DEF ScannedTo
  <2>4. p \in Nat /\ 1 <= p BY <1>10
  <2> QED BY <2>1, <2>3, <2>4, <1>1, <1>2, <1>6, ScanGoesOn
<1>11. ASSUME NEW n \in Nat, NEW k \in Nat, AtName(r, n, k) PROVE PathInv'
  <2> DEFINE x == r[n + 1]
  <2>1. /\ x \in Text /\ n + 1 \in 1 .. Len(r) /\ Counted(x, k, base, ext, dot)
        /\ k < Len(x) => out[p] = x[k + 1]
        /\ k = Len(x) /\ n + 1 # Len(r) => out[p] \in {"/", "\\"}
        /\ k = Len(x) /\ n + 1 = Len(r) => p > Len(out)
        /\ k < Len(x) \/ k = Len(x)
        /\ p \in Nat /\ 4 <= p
    BY <1>1, <1>2, <1>11, InTheName
  <2>2. k < Len(x) /\ x[k + 1] = out[p]
    <3>1. ~(p > Len(out)) BY <1>1, <1>3, <2>1
    <3>2. k # Len(x) BY <3>1, <1>1, <2>1 DEF Ordinary
    <3> QED BY <3>2, <2>1
  <2>3. k + 1 <= Len(x)
    <3>1. Len(x) \in Nat BY <2>1, TextLength
    <3> HIDE DEF x
    <3> QED BY <3>1, <2>2
  <2>4. x[k + 1] \notin {".", "\\"} BY <2>2, <1>1 DEF Ordinary
  <2>5. dot \in BOOLEAN BY <2>1 DEF Counted
  <2>6. CASE bad
    <3>1. Refuse BY <2>6, <1>4
    <3>2. \/ x[k + 1] \in Unsafe
          \/ dot = FALSE /\ base + 1 > BASE
          \/ dot = TRUE /\ ext + 1 > EXT
      <4> HIDE DEF x
      <4> QED BY <2>2, <2>5, <2>6
    <3>3. ~DosName(x)
      <4> HIDE DEF x
      <4> QED BY <3>2, <2>1, <2>3, <2>4, BadCharacter
    <3>4. ~Representable(Meant) BY <3>3, <1>1, <1>2, <2>1, BadName
    <3> QED BY <3>1, <3>4, <1>1, RefuseStep
  <2>7. CASE ~bad
    <3>1. Usual(x[k + 1])
      <4> HIDE DEF x
      <4>1. x[k + 1] \notin Unsafe BY <2>2, <2>7
      <4> QED BY <4>1, <2>4 DEF Usual
    <3>2. (dot = FALSE => base + 1 <= BASE) /\ (dot = TRUE => ext + 1 <= EXT)
      <4>1. base \in Nat /\ ext \in Nat BY <2>1 DEF Counted
      <4> QED BY <4>1, <2>7, Numbers
    <3> HIDE DEF bad
    <3>3. /\ UNCHANGED <<phase, ctx, host, resolved, mapped>>
          /\ Becomes(out', GuestName(Meant), p')
      <4>1. 1 <= p BY <2>1
      <4> QED BY <4>1, <2>1, <2>7, <1>6
    <3>4. /\ base' = IF dot THEN base ELSE base + 1
          /\ ext' = IF dot THEN ext + 1 ELSE ext
          /\ dot' = dot /\ p' = p + 1
      BY <2>7, <1>5
    <3>5. Counted(x, k + 1, IF dot THEN base ELSE base + 1, IF dot THEN ext + 1 ELSE ext, dot)
      <4> HIDE DEF x
      <4> QED BY <3>1, <3>2, <2>1, <2>3, CountedCharacter
    <3>6. Counted(x, k + 1, base', ext', dot') BY <3>4, <3>5
    <3>7. AtName(r, n, k + 1)'
      <4>1. p = 4 + Size("\\", r, n) + k /\ \A i \in 1 .. n : DosName(r[i]) BY <1>11 DEF AtName
      <4>2. p' = 4 + Size("\\", r, n) + (k + 1)
        <5> DEFINE z == Size("\\", r, n)
        <5>1. z \in Nat
          <6>1. n \in 0 .. Len(r) /\ r \in NameList
            <7>1. Len(r) \in Nat BY <1>3, PlaceSeq
            <7> QED BY <7>1, <1>3, <2>1 DEF Place
          <6> QED BY <6>1, Chars, SizeIsNat
        <5>2. p = 4 + z + k /\ p' = p + 1 BY <4>1, <3>4
        <5> HIDE DEF z
        <5>3. p' = 4 + z + (k + 1) BY <5>1, <5>2
        <5> QED BY <5>3 DEF z
      <4> QED BY <4>1, <4>2, <3>6, <2>1 DEF AtName
    <3>8. ScannedTo(r)'
      <4>1. k + 1 \in Nat OBVIOUS
      <4> QED BY <4>1, <3>7 DEF ScannedTo
    <3> QED BY <3>3, <3>8, <1>1, <1>2, ScanGoesOn
  <2> HIDE DEF bad
  <2> QED BY <2>6, <2>7
<1> HIDE DEF bad
<1> QED BY <1>1, <1>2, <1>8, <1>9, <1>10, <1>11, ScanCases

(* The end: the last name and the length are checked.                         *)
LEMMA EndScanStep == ASSUME PathInv, DosInv, EndScan PROVE PathInv'
<1>1. phase = "scan" /\ p > Len(out) BY DEF EndScan
<1>2. PICK r : r = Rest(Meant) OBVIOUS
<1>3. /\ out \in Text /\ Len(out) \in Nat /\ Becomes(out, GuestName(Meant), p) /\ Place(r)
      /\ Mapping /\ Place(Meant) /\ Anchored(Meant) /\ Free("\\", r) /\ Resolves
      /\ Len(out) = Len(GuestName(Meant))
      /\ Len(out) < ACC_PATH
  BY <1>1, <1>2, ScanFacts DEF Scanning
<1>4. /\ p \in {1, 2, 3} => p <= Len(out) BY <1>1, AtDrive
<1>5. p # 1 /\ p # 2 /\ p # 3
  <2>1. p \in {1, 2, 3} => FALSE BY <1>1, <1>3, <1>4
  <2> QED BY <2>1
<1>6. /\ Representable(Meant) <=>
           /\ \A i \in 1 .. Len(r) : DosName(r[i])
           /\ Len(out) <= LIMIT
  <2>1. Representable(Meant) <=>
           /\ Anchored(Meant)
           /\ \A i \in 1 .. Len(Rest(Meant)) : DosName(Rest(Meant)[i])
           /\ Len(GuestName(Meant)) <= LIMIT
    BY <1>3, RepresentableExactly
  <2> QED BY <2>1, <1>2, <1>3
<1>7. Alias <=> \E i \in 1 .. Len(r) : ~DosName(r[i])
  <2>1. CASE r = <<>> /\ p = 4 /\ base = 0 /\ ext = 0 /\ dot = FALSE
    <3>1. Len(r) = 0
      <4>1. Len(<<>>) = 0 OBVIOUS
      <4> QED BY <4>1, <2>1
    <3>2. p <= Len(out) + 1
      <4>1. Len(GuestName(Meant)) >= 3
        <5>1. LetterFor(Meant) \in Char /\ r \in NameList BY <1>1, <1>3, ScanFacts DEF Place
        <5>2. GuestName(Meant) = Guest(LetterFor(Meant), "\\", r) BY <1>2 DEF GuestName
        <5> QED BY <5>1, <5>2, Chars, GuestLayout
      <4> QED BY <4>1, <1>3, <2>1
    <3>3. ~Alias BY <3>2, <2>1, <1>3, NoAlias
    <3>4. 1 .. Len(r) = {} BY <3>1
    <3> QED BY <3>3, <3>4
  <2>2. ASSUME NEW n \in Nat, NEW k \in Nat, AtName(r, n, k)
        PROVE  Alias <=> \E i \in 1 .. Len(r) : ~DosName(r[i])
    <3> DEFINE x == r[n + 1]
    <3>1. /\ x \in Text /\ n + 1 \in 1 .. Len(r)
          /\ k < Len(x) => p <= Len(out)
          /\ k = Len(x) /\ n + 1 # Len(r) => p <= Len(out)
          /\ k < Len(x) \/ k = Len(x)
          /\ k = Len(x) => (Alias <=> ~DosName(x))
          /\ p \in Nat
      BY <1>1, <1>2, <2>2, InTheName
    <3>2. ~(p <= Len(out)) BY <3>1, <1>1, <1>3
    <3>3. k = Len(x) /\ n + 1 = Len(r) BY <3>1, <3>2
    <3>4. \A i \in 1 .. n : DosName(r[i]) BY <2>2 DEF AtName
    <3>5. Alias <=> ~DosName(r[n + 1]) BY <3>1, <3>3
    <3>6. \A i \in 1 .. Len(r) : i \in 1 .. n \/ i = n + 1 BY <3>3
    <3> QED BY <3>1, <3>4, <3>5, <3>6
  <2> QED BY <2>1, <2>2, <1>1, <1>2, <1>5, ScanCases
<1>8. CASE Len(out) > LIMIT \/ Alias
  <2>1. Refuse BY <1>8 DEF EndScan
  <2>2. ~Representable(Meant)
    <3>1. ~(Len(out) <= LIMIT) \/ Alias BY <1>3, <1>8, Numbers
    <3> QED BY <3>1, <1>6, <1>7
  <2> QED BY <2>1, <2>2, <1>1, RefuseStep
<1>9. CASE ~(Len(out) > LIMIT \/ Alias)
  <2>1. /\ mapped' = Append(mapped, [names |-> Meant, guest |-> out]) /\ phase' = "idle"
        /\ UNCHANGED Fixed /\ host' = host /\ resolved' = resolved
        /\ folding' = folding /\ system' = system
    BY <1>9 DEF EndScan, ctx, dos, Fixed
  <2>2. Representable(Meant)
    <3>1. Len(out) <= LIMIT /\ ~Alias BY <1>3, <1>9, Numbers
    <3> QED BY <3>1, <1>6, <1>7
  <2>3. out = GuestName(Meant)
    <3>1. GuestName(Meant) \in Text
      <4>1. LetterFor(Meant) \in Char /\ r \in NameList BY <1>1, <1>3, ScanFacts DEF Place
      <4>2. GuestName(Meant) = Guest(LetterFor(Meant), "\\", r) BY <1>2 DEF GuestName
      <4> QED BY <4>1, <4>2, Chars, GuestLayout
    <3>2. \A k \in 1 .. Len(out) : out[k] = GuestName(Meant)[k]
      <4>1. p \in Nat
        <5>1. ASSUME NEW n \in Nat, NEW k \in Nat, AtName(r, n, k) PROVE p \in Nat
          BY <5>1, <1>1, <1>2, InTheName
        <5>2. \/ p = 1 \/ p = 2 \/ p = 3 \/ p = 4
              \/ \E n, k \in Nat : AtName(r, n, k)
          BY <1>1, <1>2, ScanCases
        <5> QED BY <5>1, <5>2
      <4>2. \A k \in 1 .. Len(out) : ~(k >= p) BY <4>1, <1>1, <1>3
      <4> QED BY <4>2, <1>3 DEF Becomes
    <3> QED BY <3>1, <3>2, <1>3, SameText
  <2>4. Named(Meant, out) BY <2>3, <1>2, <1>3 DEF Named
  <2> DEFINE entry == [names |-> Meant, guest |-> out]
  <2>5. entry \in Entry BY <1>3 DEF Entry, Place
  <2>6. mapped \in Seq(Entry) /\ \A i \in DOMAIN mapped : Named(mapped[i].names, mapped[i].guest)
    BY DEF PathInv
  <2>7. mapped' \in Seq(Entry) BY <2>1, <2>5, <2>6
  <2>8. \A i \in DOMAIN mapped' : Named(mapped'[i].names, mapped'[i].guest)
    <3>1. entry.names = Meant /\ entry.guest = out OBVIOUS
    <3> HIDE DEF entry
    <3>2. mapped' = Append(mapped, entry) BY <2>1 DEF entry
    <3>3. \A i \in DOMAIN mapped' : (i \in DOMAIN mapped /\ mapped'[i] = mapped[i]) \/ mapped'[i] = entry
      BY <3>2, <2>5, <2>6
    <3> QED BY <3>1, <3>3, <2>4, <2>6
  <2>9. /\ Mapping' /\ \A names, guest : Named(names, guest)' = Named(names, guest)
        /\ Meant' = Meant /\ Resolves' /\ Representable(Meant)'
    BY <2>1, <2>2, <1>3, FixedKept
  <2>10. \A i \in DOMAIN mapped' : Named(mapped[i].names, mapped[i].guest)'
    BY <2>8, <2>9
  <2>11. Asked' BY <2>1 DEF Asked
  <2>12. Len(resolved') < ACC_PATH BY <2>1 DEF PathInv
  <2> QED BY <2>1, <2>7, <2>9, <2>10, <2>11, <2>12 DEF PathInv
<1> QED BY <1>8, <1>9

-----------------------------------------------------------------------------
(* The invariant holds at the start.                                          *)
LEMMA PathInvInit == Init => PathInv
<1> SUFFICES ASSUME Init PROVE PathInv OBVIOUS
<1>1. /\ resolved = <<>> /\ mapped = <<>> /\ (UnixInit \/ DosInit)
      /\ UnixInit => system = "unix" /\ phase = "idle" /\ map \in [root : Roots, cwd : Cwds]
      /\ DosInit => system = "dos" /\ phase = "canonical"
  BY DEF Init, UnixInit, DosInit
<1>2. Mapping
  <2>1. CASE UnixInit
    <3>1. system = "unix" /\ map.root \in Roots /\ map.cwd \in Cwds BY <2>1, <1>1
    <3> QED BY <3>1, KnownPlace DEF Mapping
  <2>2. CASE DosInit BY <2>2, <1>1 DEF Mapping
  <2> QED BY <2>1, <2>2, <1>1
<1>3. phase \in {"idle", "canonical"} /\ (system = "unix" => phase = "idle") BY <1>1
<1>4. Asked BY <1>3 DEF Asked
<1>5. Len(resolved) < ACC_PATH
  <2>1. Len(<<>>) = 0 OBVIOUS
  <2>2. 0 < ACC_PATH BY Numbers
  <2> DEFINE none == <<>>
  <2>3. Len(none) = 0 /\ resolved = none BY <2>1, <1>1
  <2> HIDE DEF none
  <2> QED BY <2>2, <2>3
<1>6. mapped \in Seq(Entry) /\ DOMAIN mapped = {}
  <2>1. <<>> \in Seq(Entry) /\ DOMAIN <<>> = {} OBVIOUS
  <2> DEFINE none == <<>>
  <2>2. none \in Seq(Entry) /\ DOMAIN none = {} /\ mapped = none BY <2>1, <1>1
  <2> HIDE DEF none
  <2> QED BY <2>2
<1> QED BY <1>1, <1>2, <1>3, <1>4, <1>5, <1>6 DEF PathInv

(* A stuttering step.                                                         *)
LEMMA PathInvKept == ASSUME PathInv, UNCHANGED vars PROVE PathInv'
<1>1. /\ UNCHANGED <<phase, ctx, host, resolved, mapped>> /\ out' = out /\ UNCHANGED scan
      /\ UNCHANGED Fixed /\ host' = host /\ resolved' = resolved /\ mapped' = mapped
      /\ folding' = folding /\ system' = system /\ phase' = phase
  BY DEF vars, ctx, dos, Fixed
<1>2. CASE phase = "scan"
  <2>1. PICK r : r = Rest(Meant) OBVIOUS
  <2>2. ScannedTo(r) /\ Becomes(out, GuestName(Meant), p) BY <1>2, <2>1 DEF PathInv, Scanning
  <2>3. p' = p /\ base' = base /\ ext' = ext /\ dot' = dot BY <1>1 DEF scan
  <2>4. ScannedTo(r)' BY <2>2, <2>3 DEF ScannedTo, AtName
  <2>5. Becomes(out', GuestName(Meant), p') BY <2>2, <2>3, <1>1
  <2> QED BY <1>1, <1>2, <2>1, <2>4, <2>5, ScanGoesOn
<1>3. CASE phase # "scan"
  <2>1. /\ Meant' = Meant /\ Resolves' = Resolves
        /\ \A names : Representable(names)' = Representable(names)
    BY <1>1, FixedKept
  <2>2. Representable(Meant)' = Representable(Meant) BY <2>1
  <2>3. Asked' BY <1>1 DEF Asked, PathInv
  <2>4. Spell(host.names)' = Spell(host.names) BY <1>1
  <2> QED BY <1>1, <1>3, <2>1, <2>2, <2>3, <2>4, MappedKept DEF PathInv
<1> QED BY <1>2, <1>3

(* Every step keeps the invariant.                                            *)
LEMMA PathInvStep ==
  ASSUME ParentsEndPlainly PROVE PathInv /\ DosInv /\ [Next]_vars => PathInv'
<1> SUFFICES ASSUME PathInv, DosInv, [Next]_vars PROVE PathInv' OBVIOUS
<1>1. CASE Call BY <1>1, CallStep
<1>2. CASE ResolvePath BY <1>2, ResolveStep
<1>3. CASE ChooseAnchor BY <1>3, ChooseStep
<1>4. CASE FoldPath BY <1>4, FoldPathStep
<1>5. CASE ScanCanonical BY <1>5, ScanCanonicalStep
<1>6. CASE ScanDrive BY <1>6, ScanDriveStep
<1>7. CASE ScanSeparator BY <1>7, ScanSeparatorStep
<1>8. CASE ScanDot BY <1>8, ScanDotStep
<1>9. CASE ScanCharacter BY <1>9, ScanCharacterStep
<1>10. CASE EndScan BY <1>10, EndScanStep
<1>11. CASE UNCHANGED vars BY <1>11, PathInvKept
<1> QED BY <1>1, <1>2, <1>3, <1>4, <1>5, <1>6, <1>7, <1>8, <1>9, <1>10, <1>11 DEF Next

(* The counters stay within their bounds.                                     *)
LEMMA ScannedWithin == ASSUME PathInv, DosInv, phase = "scan" PROVE base <= BASE /\ ext <= EXT
<1>1. PICK r : r = Rest(Meant) OBVIOUS
<1>2. 0 <= BASE /\ 1 <= BASE /\ 0 <= EXT BY Numbers
<1>3. ASSUME NEW n \in Nat, NEW k \in Nat, AtName(r, n, k) PROVE base <= BASE /\ ext <= EXT
  BY <1>3 DEF AtName, Counted
<1> QED BY <1>1, <1>2, <1>3, ScanCases

(* The invariant decides what is accepted.                                    *)
LEMMA PathInvAccepted == PathInv /\ DosInv => AcceptedExactly
<1> SUFFICES ASSUME PathInv, DosInv PROVE AcceptedExactly OBVIOUS
<1>1. phase = "scan" => Len(out) < ACC_PATH /\ base <= BASE /\ ext <= EXT
  BY ScannedWithin DEF PathInv, Scanning
<1> QED BY <1>1 DEF PathInv, AcceptedExactly

(* The invariant tells what a guest name stands for.                          *)
LEMMA PathInvNames == PathInv /\ DosInv => DenotesSameFile
<1> SUFFICES ASSUME PathInv, DosInv, NEW k \in DOMAIN mapped
             PROVE  IF system = "unix"
                    THEN /\ HostOf(mapped[k].guest) = Spell(mapped[k].names)
                         /\ (Head(mapped[k].guest) = "D") = (Deepest(mapped[k].names) = map.root)
                    ELSE mapped[k].guest = Dos!Root(Dos!Drive) \o Dos!Spell(mapped[k].names)
  BY DEF DenotesSameFile
<1> DEFINE guest == mapped[k].guest  names == mapped[k].names
<1>1. Named(names, guest) /\ Mapping BY DEF PathInv
<1>2. Place(names) /\ Anchored(names) /\ guest = GuestName(names) BY <1>1 DEF Named
<1> HIDE DEF guest, names
<1>3. CASE system = "unix"
  <2>1. HostOf(guest) = Spell(names) BY <1>1, <1>3, NamedFile
  <2>2. (Head(guest) = "D") = (Deepest(names) = map.root) BY <1>1, <1>2, <1>3, AnchorOfLetter
  <2> QED BY <2>1, <2>2, <1>3 DEF guest, names
<1>4. CASE system # "unix"
  <2>1. system = "dos" BY <1>1, <1>4 DEF Mapping
  <2>2. Rest(names) = names BY <2>1, <1>1, <1>2, DeepestOnDos
  <2>3. LetterFor(names) = Dos!Drive BY <1>4 DEF LetterFor
  <2>4. Dos!Drive \in Char BY <2>3, <1>1, LetterChar
  <2>5. guest = Guest(Dos!Drive, "\\", names) BY <2>2, <2>3, <1>2 DEF GuestName
  <2>6. guest = Dos!Root(Dos!Drive) \o Dos!Spell(names)
    <3>1. names \in NameList BY <1>2 DEF Place
    <3>2. Dos!Root(Dos!Drive) \o Dos!Spell(names) = Guest(Dos!Drive, "\\", names)
      BY <2>4, <3>1, DosRoot
    <3> QED BY <2>5, <3>2
  <2> QED BY <2>6, <1>4 DEF guest, names
<1> QED BY <1>3, <1>4

-----------------------------------------------------------------------------
(* path.c:4-7: for every alphabet, every tree of files and every path, a path *)
(* is accepted exactly when it resolves, lies in an anchor, and every name    *)
(* below it is one DOS has exactly, and no text outgrows its buffer: the      *)
(* counters of the scan decide this wherever in the path a name stands.  The  *)
(* hypothesis is about path_join: the parent of a missing output, and with it *)
(* the path of the parent, does not end with a backslash, which path.c:74     *)
(* takes for a separator on Unix too.                                         *)
THEOREM PathsAreAcceptedExactly ==
  ParentsEndPlainly => (Spec => []AcceptedExactly)
<1> SUFFICES ASSUME ParentsEndPlainly PROVE Spec => []AcceptedExactly OBVIOUS
<1>1. Init => DosInv /\ PathInv BY DosInvInit, PathInvInit
<1>2. DosInv /\ PathInv /\ [Next]_vars => (DosInv /\ PathInv)'
  BY DosInvStep, PathInvStep
<1>3. DosInv /\ PathInv => AcceptedExactly BY PathInvAccepted
<1> QED BY <1>1, <1>2, <1>3, PTL DEF Spec

(* The file the emulator opens for a guest name is the file the user meant,   *)
(* whatever the root, the current directory and the names are, and the deeper *)
(* of two nested anchors names it (path.c:271-272); on DOS the guest name is  *)
(* the path from the root of its drive.                                       *)
THEOREM GuestNamesTheFile ==
  ParentsEndPlainly => (Spec => []DenotesSameFile)
<1> SUFFICES ASSUME ParentsEndPlainly PROVE Spec => []DenotesSameFile OBVIOUS
<1>1. Init => DosInv /\ PathInv BY DosInvInit, PathInvInit
<1>2. DosInv /\ PathInv /\ [Next]_vars => (DosInv /\ PathInv)'
  BY DosInvStep, PathInvStep
<1>3. DosInv /\ PathInv => DenotesSameFile BY PathInvNames
<1> QED BY <1>1, <1>2, <1>3, PTL DEF Spec
=============================================================================
