---------------------------- MODULE ObjFixProofs ----------------------------
(***************************************************************************)
(* What drpli_objfix makes of a module of any size, with any lengths, any    *)
(* number of segments and any threads: SEGDEF records cover their data,      *)
(* fixups mean what they meant, and a second run changes nothing.            *)
(***************************************************************************)
EXTENDS ObjFix, FiniteSetTheorems, SequenceTheorems, TLAPS

Types == {"SEGDEF", "LEDATA", "FIXUPP", "MODEND"}
Words == 0 .. (WORD - 1)

(* What may follow the bits of a fixup or a thread.                          *)
Tokens == {"thread", "frame", "target", "disp"} \X (Nat \X Nat)
ThreadTokens == {"thread"} \X (Nat \X Nat)

ThreadType ==
  {s \in [kind : {"thread"}, frame : BOOLEAN, num : Threads, method : FrameMethods,
          datum : ThreadTokens \cup {NoDatum}] :
     /\ s.method <= 2 => s.datum \in ThreadTokens
     /\ ~ s.method <= 2 => s.datum = NoDatum
     /\ s.frame \/ s.method <= 2}

(* A fixup with every field its bits announce.                               *)
FixupType ==
  {s \in [kind : {"fixup"}, locat : Nat \X Nat, f : BOOLEAN, fm : Nat, t : BOOLEAN,
          p : BOOLEAN, tm : Nat, data : Seq(Tokens)] :
     /\ IF s.f THEN s.fm \in Threads ELSE s.fm \in FrameMethods
     /\ IF s.t THEN s.tm \in Threads ELSE s.tm \in {0, 1, 2, 4, 5, 6} /\ ~ s.p
     /\ Complete(s)}

SubType == ThreadType \cup FixupType

RecType ==
  {r \in [type : Types, seg : Nat, off : Words, len : Words, subs : Seq(SubType)] :
     r.type # "FIXUPP" => r.subs = <<>>}

EntryType ==
  {e \in [defined : BOOLEAN, method : FrameMethods \cup {0}, datum : ThreadTokens \cup {NoDatum}] :
     e.defined => /\ e.method \in FrameMethods
                  /\ IF e.method <= 2 THEN e.datum \in ThreadTokens ELSE e.datum = NoDatum}

TypeInv ==
  /\ input \in Seq(RecType) /\ records \in Seq(RecType) /\ out \in Seq(RecType)
  /\ destination \in [is : {"old", "whole", "cut"}, recs : Seq(RecType)]
  /\ sizes \in [Segments -> -1 .. (2 * WORD)]
  /\ segdefs \in Nat /\ pos \in Nat \ {0} /\ sub \in Nat \ {0}
  /\ frames \in [Threads -> EntryType] /\ targets \in [Threads -> EntryType]
  /\ \A t \in Threads : targets[t].defined => targets[t].method <= 2
  /\ fixups \in Seq(FixupType)
  /\ origin \in Seq(Nat) /\ Len(origin) = Len(out)

(* Every fixup finds the threads it names.                                   *)
ThreadsFound(m) ==
  \A i \in DOMAIN m : \A j \in DOMAIN m[i].subs : WellFormed(m, i, j, m[i].subs[j])

-----------------------------------------------------------------------------
(* The first two passes.                                                     *)
IsData(m, k, s) == m[k].type = "LEDATA" /\ m[k].seg = s
End(m, k) == m[k].off + m[k].len

(* e is the greatest end of the data of segment s before record p.           *)
Extends(m, s, p, e) ==
  /\ \A k \in 1 .. (p - 1) : IsData(m, k, s) => End(m, k) <= e
  /\ e = -1 \/ \E k \in 1 .. (p - 1) : IsData(m, k, s) /\ e = End(m, k)

SegdefsTo(m, p) == {k \in 1 .. p : m[k].type = "SEGDEF"}

(* The SEGDEF records before record p have been given their lengths.         *)
Covered(p) ==
  \A i \in 1 .. (p - 1) : input[i].type = "SEGDEF" =>
    records[i].len = Patched(input[i], Cardinality(SegdefsTo(input, i)))

(* Only the length of a SEGDEF record is ever changed in place.              *)
SameButLength ==
  /\ Len(records) = Len(input)
  /\ \A k \in 1 .. Len(input) :
       /\ records[k] = [input[k] EXCEPT !.len = records[k].len]
       /\ input[k].type # "SEGDEF" => records[k] = input[k]

Fresh ==
  /\ sub = 1 /\ fixups = <<>> /\ out = <<>> /\ origin = <<>>
  /\ \A t \in Threads : frames[t] = Undefined /\ targets[t] = Undefined

StartInv ==
  /\ phase \in {"compile", "sizes", "segdefs", "fixups", "write", "done", "refused"}
  /\ phase = "compile" => /\ pos = 1 /\ segdefs = 0 /\ \A s \in Segments : sizes[s] = -1
                          /\ records = <<>>
  /\ phase \in {"compile", "sizes", "segdefs"} => Fresh

BoundInv == pos <= Len(records) + 1 /\ segdefs <= Len(records) /\ Len(out) <= Len(records)

SameInv == phase \notin {"compile", "refused"} => SameButLength

SizeInv ==
  /\ phase = "sizes" => /\ records = input /\ segdefs = 0
                        /\ \A s \in Segments : Extends(input, s, pos, sizes[s])
  /\ phase \in {"segdefs", "fixups", "write"} =>
       \A s \in Segments : Extends(input, s, Len(input) + 1, sizes[s])

PatchInv ==
  /\ phase = "segdefs" =>
       /\ segdefs = Cardinality(SegdefsTo(input, pos - 1)) /\ Covered(pos)
       /\ \A k \in pos .. Len(input) : records[k] = input[k]
  /\ phase \in {"fixups", "write"} => Covered(Len(input) + 1)

PassInv == StartInv /\ BoundInv /\ SameInv /\ SizeInv /\ PatchInv

(* The third pass: what the thread tables say is what OMF says there.        *)
Stands(m, i, j, e, d, t) ==
  IF e.defined
  THEN \E q \in Before(m, i, j) :
         LastDefinition(m, i, j, d, t, q) /\ e = Entry(m[q[1]].subs[q[2]])
  ELSE ~IsDefined(m, i, j, d, t)

TableInv ==
  phase = "fixups" /\ pos <= Len(input) =>
    \A t \in Threads : /\ Stands(input, pos, sub, frames[t], TRUE, t)
                       /\ Stands(input, pos, sub, targets[t], FALSE, t)

(* What is made of record i of module m, in list w of its records.           *)
Copied(m, w, r, i) ==
  /\ r = [w[i] EXCEPT !.subs = r.subs]
  /\ r.type # "FIXUPP" => r = w[i]
  /\ r.type = "FIXUPP" =>
       /\ r.subs # <<>>
       /\ Len(r.subs) = Cardinality(FixupsTo(m, i, Len(m[i].subs)))
       /\ \A l \in 1 .. Len(r.subs) : Renders(m, r.subs[l], i, l) /\ r.subs[l] \in FixupType

(* The first n records are in the output in their order, or define threads.  *)
Traced(m, o, n) ==
  /\ Len(o) <= n
  /\ \A k, l \in 1 .. Len(o) : k < l => o[k] < o[l]
  /\ \A k \in 1 .. Len(o) : o[k] \in 1 .. n
  /\ \A i \in 1 .. n : (\E k \in 1 .. Len(o) : o[k] = i) \/ OnlyThreads(m[i])

Expanded ==
  /\ sub <= Len(Subs) + 1
  /\ Len(fixups) = Cardinality(FixupsTo(input, pos, sub - 1))
  /\ \A l \in 1 .. Len(fixups) : Renders(input, fixups[l], pos, l)

Pending == IF InFixupp THEN Expanded ELSE sub = 1 /\ fixups = <<>>

(* How many records have been dealt with.                                    *)
Done == IF phase = "write" THEN Len(input) ELSE pos - 1

OutInv ==
  phase \in {"fixups", "write"} =>
    /\ Traced(input, origin, Done)
    /\ \A k \in 1 .. Len(out) : Copied(input, records, out[k], origin[k])
    /\ Pending

ThreadInv == ThreadsFound(input) /\ TableInv /\ OutInv

-----------------------------------------------------------------------------
(* What is written has nothing left to change: fixups are explicit, and the  *)
(* length of a SEGDEF record is what its own data give it.                   *)
IsExplicit(s) == s \in FixupType /\ ~s.f /\ ~s.t

Settled(m) ==
  /\ \A k \in 1 .. Len(m) : m[k].type = "FIXUPP" =>
       m[k].subs # <<>> /\ \A l \in 1 .. Len(m[k].subs) : IsExplicit(m[k].subs[l])
  /\ \A k \in 1 .. Len(m) : m[k].type = "SEGDEF" =>
       \A e \in -1 .. (2 * WORD) :
         Cardinality(SegdefsTo(m, k)) \in Segments
         /\ Extends(m, Cardinality(SegdefsTo(m, k)), Len(m) + 1, e)
           => (IF e > m[k].len THEN e ELSE m[k].len) % WORD = m[k].len

CountInv ==
  phase \in {"fixups", "write"} =>
    /\ \A k \in 1 .. Len(out) :
         Cardinality(SegdefsTo(out, k)) = Cardinality(SegdefsTo(input, origin[k]))
    /\ Cardinality(SegdefsTo(out, Len(out))) = Cardinality(SegdefsTo(input, Done))

(* A second run finds the module as the first left it and leaves it so.      *)
Rerun ==
  /\ input = first /\ records = input
  /\ phase \in {"fixups", "write"} =>
       /\ Len(out) = Done
       /\ \A k \in 1 .. Done : out[k] = input[k]
       /\ InFixupp => /\ Len(fixups) = sub - 1
                      /\ \A l \in 1 .. (sub - 1) : fixups[l] = Subs[l]

AgainInv ==
  /\ destination.is = "whole" => Settled(destination.recs)
  /\ phase = "compile" => first = <<>>
  /\ first # <<>> => Settled(first)
  /\ first # <<>> /\ phase \in {"sizes", "segdefs", "fixups", "write"} => Rerun

IInv == TypeInv /\ PassInv /\ ThreadInv /\ CountInv /\ AgainInv

-----------------------------------------------------------------------------
(* Lengths and tokens.                                                       *)
LEMMA Widths ==
  /\ WORD \in Nat \ {0} /\ Lengths \subseteq Words /\ 0 \in Words
  /\ Words \subseteq Nat /\ Segments \subseteq Nat
BY ObjFixAssumption DEF Words, Segments

(* The numbers of methods and threads.                                       *)
LEMMA MethodsAndThreads ==
  /\ FrameMethods \subseteq {0, 1, 2, 4, 5} /\ FrameMethods \subseteq Nat
  /\ TargetMethods \subseteq {0, 1, 2, 4, 5, 6}
  /\ Threads \subseteq 0 .. 3 /\ Threads \subseteq Nat
BY ObjFixAssumption

(* What a record has after its bits is never mistaken for nothing.           *)
LEMMA NoDatumIsNoToken ==
  /\ NoDatum \notin Tokens /\ NoDatum \notin ThreadTokens
  /\ ThreadTokens \subseteq Tokens
BY DEF NoDatum, Tokens, ThreadTokens

(* The fields of a record, and what may be changed in it.                    *)
LEMMA RecFields ==
  ASSUME NEW r \in RecType
  PROVE  /\ r.type \in Types /\ r.seg \in Nat /\ r.off \in Words /\ r.len \in Words
         /\ r.subs \in Seq(SubType)
         /\ r.type # "FIXUPP" => r.subs = <<>>
BY DEF RecType

(* A record with another length, as patch_segdefs leaves it.                 *)
LEMMA NewLength ==
  ASSUME NEW r \in RecType, NEW n \in Words
  PROVE  /\ [r EXCEPT !.len = n] \in RecType
         /\ [r EXCEPT !.len = n].len = n /\ [r EXCEPT !.len = n].type = r.type
BY DEF RecType

(* A FIXUPP record with other subrecords.                                    *)
LEMMA NewSubrecords ==
  ASSUME NEW r \in RecType, r.type = "FIXUPP", NEW x \in Seq(SubType)
  PROVE  /\ [r EXCEPT !.subs = x] \in RecType
         /\ [r EXCEPT !.subs = x].subs = x /\ [r EXCEPT !.subs = x].type = r.type
BY DEF RecType

(* The records the compiler emits.                                           *)
LEMMA NewRec ==
  /\ \A r \in PlainRecords : r \in RecType /\ r.subs = <<>>
  /\ Rec("MODEND", 0, 0, 0) \in RecType /\ Rec("MODEND", 0, 0, 0).subs = <<>>
<1>1. <<>> \in Seq(SubType) BY EmptySeq
<1>2. {"SEGDEF", "LEDATA", "FIXUPP", "MODEND"} \subseteq Types /\ 0 \in Nat BY DEF Types
<1>3. ASSUME NEW t \in Types, NEW s \in Nat, NEW o \in Words, NEW l \in Words
      PROVE  Rec(t, s, o, l) \in RecType /\ Rec(t, s, o, l).subs = <<>>
  BY <1>1 DEF RecType, Rec
<1>4. \A r \in PlainRecords :
        \/ \E l \in Lengths : r = Rec("SEGDEF", 0, 0, l)
        \/ \E s \in Segments, o \in Lengths, l \in Lengths : r = Rec("LEDATA", s, o, l)
        \/ r = Rec("FIXUPP", 0, 0, 0)
  BY DEF PlainRecords
<1> QED BY <1>2, <1>3, <1>4, Widths

(* The threads the compiler emits; it gives a target thread a method that a  *)
(* target can have.                                                          *)
LEMMA NewThread ==
  ASSUME NEW n \in Nat \X Nat, NEW s \in ThreadSubs(n), s.frame \/ s.method <= 2
  PROVE  s \in ThreadType
<1>1. PICK d \in BOOLEAN, t \in Threads, m \in FrameMethods :
        s = [kind |-> "thread", frame |-> d, num |-> t, method |-> m,
             datum |-> IF m <= 2 THEN <<"thread", n>> ELSE NoDatum]
  BY DEF ThreadSubs
<1>2. <<"thread", n>> \in ThreadTokens BY DEF ThreadTokens
<1>3. CASE m <= 2
  <2>1. s = [kind |-> "thread", frame |-> d, num |-> t, method |-> m, datum |-> <<"thread", n>>]
    BY <1>1, <1>3
  <2> QED BY <1>2, <1>3, <2>1 DEF ThreadType
<1>4. CASE ~ m <= 2
  <2>1. s = [kind |-> "thread", frame |-> d, num |-> t, method |-> m, datum |-> NoDatum]
    BY <1>1, <1>4
  <2> QED BY <1>1, <1>4, <2>1 DEF ThreadType
<1> QED BY <1>3, <1>4

(* A few tokens, one after the other.                                        *)
Chain(a, b, c) == a \o b \o c
IsChain(d, a, b, c) ==
  /\ d \in Seq(Tokens) /\ Len(d) = Len(a) + Len(b) + Len(c)
  /\ \A i \in 1 .. Len(a) : d[i] = a[i]
  /\ \A i \in 1 .. Len(b) : d[Len(a) + i] = b[i]
  /\ \A i \in 1 .. Len(c) : d[Len(a) + Len(b) + i] = c[i]

(* The frame's datum, the target's and the displacement, in that order.      *)
LEMMA ThreeParts ==
  ASSUME NEW a \in Seq(Tokens), NEW b \in Seq(Tokens), NEW c \in Seq(Tokens)
  PROVE  IsChain(Chain(a, b, c), a, b, c)
<1>1. /\ Len(a) \in Nat /\ Len(b) \in Nat /\ Len(c) \in Nat BY LenProperties
<1>2. /\ a \o b \in Seq(Tokens) /\ Len(a \o b) = Len(a) + Len(b)
      /\ \A i \in 1 .. Len(a) + Len(b) :
           (a \o b)[i] = IF i <= Len(a) THEN a[i] ELSE b[i - Len(a)]
  BY ConcatProperties
<1> DEFINE ab == a \o b
<1> HIDE DEF ab
<1>3. /\ ab \o c \in Seq(Tokens) /\ Len(ab \o c) = Len(ab) + Len(c)
      /\ \A i \in 1 .. Len(ab) + Len(c) :
           (ab \o c)[i] = IF i <= Len(ab) THEN ab[i] ELSE c[i - Len(ab)]
  BY <1>2, ConcatProperties DEF ab
<1>4. Len(ab) = Len(a) + Len(b) BY <1>2 DEF ab
<1>5. \A i \in 1 .. Len(a) : (ab \o c)[i] = a[i]
  <2> TAKE i \in 1 .. Len(a)
  <2>1. i \in 1 .. Len(a) + Len(b) /\ i \in 1 .. Len(ab) + Len(c) /\ i <= Len(ab) /\ i <= Len(a)
    BY <1>1, <1>4
  <2>2. (ab \o c)[i] = ab[i] BY <1>3, <2>1
  <2>3. ab[i] = a[i] BY <1>2, <2>1 DEF ab
  <2> QED BY <2>2, <2>3
<1>6. \A i \in 1 .. Len(b) : (ab \o c)[Len(a) + i] = b[i]
  <2> TAKE i \in 1 .. Len(b)
  <2> DEFINE j == Len(a) + i
  <2>1. j \in 1 .. Len(a) + Len(b) /\ j \in 1 .. Len(ab) + Len(c) /\ j <= Len(ab) /\ ~(j <= Len(a))
        /\ j - Len(a) = i
    BY <1>1, <1>4
  <2> HIDE DEF j
  <2>2. (ab \o c)[j] = ab[j] BY <1>3, <2>1
  <2>3. ab[j] = b[i] BY <1>2, <2>1 DEF ab
  <2> QED BY <2>2, <2>3 DEF j
<1>7. \A i \in 1 .. Len(c) : (ab \o c)[Len(a) + Len(b) + i] = c[i]
  <2> TAKE i \in 1 .. Len(c)
  <2> DEFINE j == Len(a) + Len(b) + i
  <2>1. j \in 1 .. Len(ab) + Len(c) /\ ~(j <= Len(ab)) /\ j - Len(ab) = i
    BY <1>1, <1>4
  <2> HIDE DEF j
  <2>2. (ab \o c)[j] = c[i] BY <1>3, <2>1
  <2> QED BY <2>2 DEF j
<1> QED BY <1>3, <1>4, <1>5, <1>6, <1>7 DEF ab, Chain, IsChain

(* One token, or none.                                                       *)
LEMMA OneToken ==
  ASSUME NEW x \in Tokens
  PROVE  /\ <<x>> \in Seq(Tokens) /\ Len(<<x>>) = 1 /\ <<x>>[1] = x
         /\ <<>> \in Seq(Tokens) /\ Len(<<>>) = 0
OBVIOUS

(* A fixup put together from the parts its bits announce.                    *)
LEMMA FixupFromParts ==
  ASSUME NEW n \in Nat \X Nat, NEW f \in BOOLEAN, NEW fm \in Nat, NEW t \in BOOLEAN,
         NEW p \in BOOLEAN, NEW tm \in Nat,
         IF f THEN fm \in Threads ELSE fm \in FrameMethods,
         IF t THEN tm \in Threads ELSE tm \in {0, 1, 2, 4, 5, 6} /\ ~p,
         NEW a \in Seq(Tokens), NEW b \in Seq(Tokens), NEW c \in Seq(Tokens),
         Len(a) = IF ~f /\ fm <= 2 THEN 1 ELSE 0,
         Len(b) = IF ~t THEN 1 ELSE 0,
         Len(c) = IF (t /\ ~p) \/ (~t /\ tm <= 3) THEN 1 ELSE 0
  PROVE  Fixup(n, f, fm, t, p, tm, a \o b \o c) \in FixupType
<1> DEFINE d == Chain(a, b, c)
           s == Fixup(n, f, fm, t, p, tm, d)
<1>1. d \in Seq(Tokens) /\ Len(d) = Len(a) + Len(b) + Len(c) 
  <2>1. IsChain(d, a, b, c) BY ThreeParts
  <2> QED BY <2>1 DEF IsChain
<1> HIDE DEF d
<1>2. /\ s \in [kind : {"fixup"}, locat : Nat \X Nat, f : BOOLEAN, fm : Nat, t : BOOLEAN,
                p : BOOLEAN, tm : Nat, data : Seq(Tokens)]
      /\ s.f = f /\ s.fm = fm /\ s.t = t /\ s.p = p /\ s.tm = tm /\ s.data = d
  BY <1>1 DEF Fixup
<1> HIDE DEF s
<1>3. Complete(s) BY <1>1, <1>2 DEF Complete, FrameData
<1>4. s \in FixupType BY <1>2, <1>3 DEF FixupType
<1> QED BY <1>4 DEF s, d, Chain

(* The fixups the compiler emits.                                            *)
LEMMA NewFixup ==
  ASSUME NEW n \in Nat \X Nat, NEW s \in FixupSubs(n)
  PROVE  s \in FixupType
<1> DEFINE fd(f, m)   == IF ~f /\ m <= 2 THEN << <<"frame", n>> >> ELSE <<>>
           td(t)      == IF ~t THEN << <<"target", n>> >> ELSE <<>>
           dd(t, p, m) == IF (t /\ ~p) \/ (~t /\ m <= 3) THEN << <<"disp", n>> >> ELSE <<>>
<1>1. PICK f \in BOOLEAN, fm \in Threads \cup FrameMethods, t \in BOOLEAN, p \in BOOLEAN,
           tm \in Threads \cup TargetMethods :
        s = Fixup(n, f, fm, t, p, tm, fd(f, fm) \o td(t) \o dd(t, p, tm))
  BY DEF FixupSubs
<1>2. /\ s.fm \in IF s.f THEN Threads ELSE FrameMethods
      /\ s.tm \in IF s.t THEN Threads ELSE TargetMethods
      /\ s.t \/ ~s.p
  BY DEF FixupSubs
<1>3. /\ fm \in Nat /\ tm \in Nat
      /\ IF f THEN fm \in Threads ELSE fm \in FrameMethods
      /\ IF t THEN tm \in Threads ELSE tm \in {0, 1, 2, 4, 5, 6} /\ ~p
  <2> DEFINE d == fd(f, fm) \o td(t) \o dd(t, p, tm)
  <2> HIDE DEF d, fd, td, dd
  <2>1. s = Fixup(n, f, fm, t, p, tm, d) BY <1>1 DEF d
  <2>2. s.f = f /\ s.fm = fm /\ s.t = t /\ s.p = p /\ s.tm = tm BY <2>1 DEF Fixup
  <2> QED BY <1>2, <2>2, MethodsAndThreads
<1>4. <<"frame", n>> \in Tokens /\ <<"target", n>> \in Tokens /\ <<"disp", n>> \in Tokens
  BY DEF Tokens
<1>5. fd(f, fm) \in Seq(Tokens) /\ Len(fd(f, fm)) = IF ~f /\ fm <= 2 THEN 1 ELSE 0
  BY <1>4, OneToken
<1>6. td(t) \in Seq(Tokens) /\ Len(td(t)) = IF ~t THEN 1 ELSE 0 BY <1>4, OneToken
<1>7. /\ dd(t, p, tm) \in Seq(Tokens)
      /\ Len(dd(t, p, tm)) = IF (t /\ ~p) \/ (~t /\ tm <= 3) THEN 1 ELSE 0
  BY <1>4, OneToken
<1> HIDE DEF fd, td, dd
<1> QED BY <1>1, <1>3, <1>5, <1>6, <1>7, FixupFromParts

(* The fields of a fixup, and the tokens that follow its bits.               *)
LEMMA FixupFields ==
  ASSUME NEW s \in FixupType
  PROVE  /\ s = Fixup(s.locat, s.f, s.fm, s.t, s.p, s.tm, s.data)
         /\ s.kind = "fixup" /\ s.locat \in Nat \X Nat
         /\ s.f \in BOOLEAN /\ s.t \in BOOLEAN /\ s.p \in BOOLEAN
         /\ s.fm \in Nat /\ s.tm \in Nat
         /\ IF s.f THEN s.fm \in Threads ELSE s.fm \in FrameMethods
         /\ IF s.t THEN s.tm \in Threads ELSE s.tm \in {0, 1, 2, 4, 5, 6} /\ ~ s.p
         /\ s.data \in Seq(Tokens) /\ Complete(s)
BY DEF FixupType, Fixup

(* Each field the bits of a fixup announce is where it is looked for.        *)
LEMMA FixupData ==
  ASSUME NEW s \in FixupType
  PROVE  /\ FrameData(s) \in {0, 1}
         /\ FrameData(s) = 1 => s.data[1] \in Tokens
         /\ ~s.t => s.data[FrameData(s) + 1] \in Tokens
         /\ ~s.t /\ s.tm <= 3 => s.data[FrameData(s) + 2] \in Tokens
         /\ s.t /\ ~s.p => s.data[FrameData(s) + 1] \in Tokens
         /\ Len(s.data) \in Nat /\ Len(s.data) <= 3
         /\ Len(s.data) = FrameData(s) + (IF ~s.t THEN 1 ELSE 0)
                          + (IF (s.t /\ ~s.p) \/ (~s.t /\ s.tm <= 3) THEN 1 ELSE 0)
<1>1. /\ s.f \in BOOLEAN /\ s.t \in BOOLEAN /\ s.p \in BOOLEAN /\ s.fm \in Nat /\ s.tm \in Nat
      /\ s.data \in Seq(Tokens) /\ Complete(s)
  BY FixupFields
<1>2. Len(s.data) \in Nat /\ \A i \in 1 .. Len(s.data) : s.data[i] \in Tokens
  BY <1>1, LenProperties, ElementOfSeq
<1>3. FrameData(s) \in {0, 1} BY DEF FrameData
<1>4. Len(s.data) = FrameData(s) + (IF ~s.t THEN 1 ELSE 0)
                    + (IF (s.t /\ ~s.p) \/ (~s.t /\ s.tm <= 3) THEN 1 ELSE 0)
  BY <1>1 DEF Complete
<1> QED BY <1>1, <1>2, <1>3, <1>4

(* A sequence of one token, or of none.                                      *)
LEMMA ShortSequence ==
  ASSUME NEW c \in Seq(Tokens), Len(c) \in {0, 1}
  PROVE  IF Len(c) = 1 THEN c = <<c[1]>> /\ c[1] \in Tokens ELSE c = <<>>
OBVIOUS

(* What a fixup is told of its frame, and of its target.                     *)
IsFrame(f) ==
  /\ f = [method |-> f.method, datum |-> f.datum] /\ f.method \in FrameMethods
  /\ IF f.method <= 2 THEN f.datum \in Tokens ELSE f.datum = NoDatum

IsTarget(t) ==
  /\ t = [method |-> t.method, datum |-> t.datum, disp |-> t.disp]
  /\ t.method \in {0, 1, 2, 4, 5, 6} /\ t.datum \in Tokens /\ t.disp \in Seq(Tokens)
  /\ Len(t.disp) = IF t.method <= 3 THEN 1 ELSE 0

(* The target as OMF has it, without the bit that says there is no           *)
(* displacement.                                                             *)
Denoted(t) == [thread |-> [method |-> t.method % 4, datum |-> t.datum], disp |-> t.disp]

(* The explicit fixup is whole, and says of frame and target what was found. *)
LEMMA ExplicitFixup ==
  ASSUME NEW s \in FixupType, IsFrame(Frame(s)), IsTarget(Target(s))
  PROVE  /\ Explicit(s) \in FixupType /\ IsExplicit(Explicit(s))
         /\ Explicit(s).locat = s.locat
         /\ Explicit(s).fm = Frame(s).method /\ Explicit(s).tm = Target(s).method
         /\ OwnFrame(Explicit(s)) = Frame(s)
         /\ OwnTarget(Explicit(s)) = Denoted(Target(s))
<1> DEFINE f == Frame(s)
           t == Target(s)
           a == Datum(f.method, 2, f.datum)
           b == Datum(t.method, 6, t.datum)
           c == t.disp
           d == Chain(a, b, c)
<1>1. Explicit(s) = Fixup(s.locat, FALSE, f.method, FALSE, FALSE, t.method % 8, d)
  BY DEF Explicit, Chain
<1>2. IsFrame(f) /\ IsTarget(t) OBVIOUS
<1> HIDE DEF f, t, a, b, d
<1>3. f.method \in Nat /\ (~ f.method <= 2 => f.method \notin {0, 1, 2}) BY <1>2, MethodsAndThreads DEF IsFrame
<1>4. t.method \in Nat /\ t.method % 8 = t.method /\ t.method <= 6 BY <1>2 DEF IsTarget
<1>5. /\ a \in Seq(Tokens) /\ Len(a) = IF f.method <= 2 THEN 1 ELSE 0
      /\ f.method <= 2 => a[1] = f.datum
  <2>1. CASE f.method <= 2
    <3>1. f.datum \in Tokens /\ f.datum # NoDatum BY <1>2, <2>1, NoDatumIsNoToken DEF IsFrame
    <3>2. a = <<f.datum>> BY <2>1, <3>1 DEF a, Datum
    <3> QED BY <2>1, <3>1, <3>2, OneToken
  <2>2. CASE ~ f.method <= 2
    <3>1. a = <<>> BY <2>2 DEF a, Datum
    <3> QED BY <2>2, <3>1, EmptySeq
  <2> QED BY <2>1, <2>2
<1>6. b \in Seq(Tokens) /\ Len(b) = 1 /\ b[1] = t.datum
  <2>1. t.datum \in Tokens /\ t.datum # NoDatum BY <1>2, NoDatumIsNoToken DEF IsTarget
  <2>2. b = <<t.datum>> BY <1>4, <2>1 DEF b, Datum
  <2> QED BY <2>1, <2>2, OneToken
<1>7. /\ c \in Seq(Tokens) /\ Len(c) = IF t.method <= 3 THEN 1 ELSE 0
      /\ IF t.method <= 3 THEN c = <<c[1]>> ELSE c = <<>>
  BY <1>2, ShortSequence DEF IsTarget
<1> HIDE DEF c
<1>8. /\ \A i \in 1 .. Len(a) : d[i] = a[i]
      /\ \A i \in 1 .. Len(b) : d[Len(a) + i] = b[i]
      /\ \A i \in 1 .. Len(c) : d[Len(a) + Len(b) + i] = c[i]
  <2>1. IsChain(d, a, b, c) BY <1>5, <1>6, <1>7, ThreeParts DEF d
  <2> QED BY <2>1 DEF IsChain
<1> DEFINE e == Fixup(s.locat, FALSE, f.method, FALSE, FALSE, t.method, d)
<1>9. e \in FixupType
  <2>1. s.locat \in Nat \X Nat BY FixupFields
  <2>2. IF FALSE THEN f.method \in Threads ELSE f.method \in FrameMethods BY <1>2 DEF IsFrame
  <2>3. IF FALSE THEN t.method \in Threads ELSE t.method \in {0, 1, 2, 4, 5, 6} /\ ~FALSE
    BY <1>2 DEF IsTarget
  <2>4. Len(a) = IF ~FALSE /\ f.method <= 2 THEN 1 ELSE 0 BY <1>5
  <2>5. Len(b) = IF ~FALSE THEN 1 ELSE 0 BY <1>6
  <2>6. Len(c) = IF (FALSE /\ ~FALSE) \/ (~FALSE /\ t.method <= 3) THEN 1 ELSE 0 BY <1>7
  <2>7. FALSE \in BOOLEAN OBVIOUS
  <2> HIDE DEF e
  <2>8. Fixup(s.locat, FALSE, f.method, FALSE, FALSE, t.method, a \o b \o c) \in FixupType
    BY <1>3, <1>4, <1>5, <1>6, <1>7, <2>1, <2>2, <2>3, <2>4, <2>5, <2>6, <2>7, FixupFromParts
  <2> QED BY <2>8 DEF e, d, Chain
<1>10. /\ e.f = FALSE /\ e.t = FALSE /\ e.locat = s.locat /\ e.fm = f.method /\ e.tm = t.method
       /\ e.data = d
  BY DEF Fixup
<1>11. Explicit(s) = e BY <1>1, <1>4
<1> HIDE DEF e
<1>12. FrameData(e) = Len(a) BY <1>3, <1>5, <1>10 DEF FrameData
<1>13. OwnFrame(e) = f
  <2>1. f.method <= 2 => d[1] = f.datum BY <1>5, <1>8
  <2>2. OwnFrame(e) = [method |-> f.method, datum |-> f.datum]
    BY <1>2, <1>3, <1>10, <2>1 DEF OwnFrame, IsFrame
  <2> QED BY <1>2, <2>2 DEF IsFrame
<1>14. OwnTarget(e) = Denoted(t)
  <2>1. d[Len(a) + 1] = t.datum BY <1>6, <1>8
  <2>2. t.method <= 3 => d[Len(a) + 2] = c[1]
    <3>1. Len(a) \in Nat BY <1>5
    <3>2. Len(a) + Len(b) + 1 = Len(a) + 2 BY <1>6, <3>1
    <3> QED BY <1>7, <1>8, <3>2
  <2>3. (IF t.method <= 3 THEN <<d[Len(a) + 2]>> ELSE <<>>) = c BY <1>7, <2>2
  <2>4. OwnTarget(e) = [thread |-> [method |-> t.method % 4, datum |-> d[Len(a) + 1]],
                        disp |-> IF t.method <= 3 THEN <<d[Len(a) + 2]>> ELSE <<>>]
    BY <1>10, <1>12 DEF OwnTarget
  <2> QED BY <2>1, <2>3, <2>4 DEF Denoted, c
<1>15. IsExplicit(e) BY <1>9, <1>10 DEF IsExplicit
<1> QED BY <1>9, <1>10, <1>11, <1>13, <1>14, <1>15 DEF f, t

(* An explicit fixup needs no thread.                                        *)
LEMMA OwnParts ==
  ASSUME NEW s, IsExplicit(s)
  PROVE  /\ IsFrame(Frame(s)) /\ Frame(s) = OwnFrame(s) /\ Frame(s).method = s.fm
         /\ IsTarget(Target(s)) /\ Denoted(Target(s)) = OwnTarget(s) /\ Target(s).method = s.tm
<1>1. s \in FixupType /\ ~s.f /\ ~s.t BY DEF IsExplicit
<1>2. /\ s.fm \in FrameMethods /\ s.fm \in Nat /\ s.tm \in {0, 1, 2, 4, 5, 6}
      /\ FrameData(s) = (IF s.fm <= 2 THEN 1 ELSE 0)
      /\ FrameData(s) = 1 => s.data[1] \in Tokens
      /\ s.data[FrameData(s) + 1] \in Tokens
      /\ s.tm <= 3 => s.data[FrameData(s) + 2] \in Tokens
  BY <1>1, FixupFields, FixupData DEF FrameData
<1>3. Frame(s) = [method |-> s.fm, datum |-> IF s.fm <= 2 THEN s.data[1] ELSE NoDatum]
  BY <1>1 DEF Frame
<1>4. IsFrame(Frame(s)) BY <1>2, <1>3 DEF IsFrame
<1>5. FrameRead(s) = FrameData(s) BY DEF FrameRead, FrameData
<1>6. Target(s) = [method |-> s.tm, datum |-> s.data[FrameData(s) + 1],
                   disp |-> IF s.tm <= 3 THEN <<s.data[FrameData(s) + 2]>> ELSE <<>>]
  BY <1>1, <1>5 DEF Target
<1> DEFINE c == IF s.tm <= 3 THEN <<s.data[FrameData(s) + 2]>> ELSE <<>>
<1>7. c \in Seq(Tokens) /\ Len(c) = IF s.tm <= 3 THEN 1 ELSE 0 BY <1>2, OneToken, EmptySeq
<1> HIDE DEF c
<1>8. /\ Target(s).method = s.tm /\ Target(s).datum = s.data[FrameData(s) + 1]
      /\ Target(s).disp = c
      /\ Target(s) = [method |-> s.tm, datum |-> s.data[FrameData(s) + 1], disp |-> c]
  BY <1>6 DEF c
<1>9. IsTarget(Target(s)) BY <1>2, <1>7, <1>8 DEF IsTarget
<1>10. OwnTarget(s) = [thread |-> [method |-> s.tm % 4, datum |-> s.data[FrameData(s) + 1]],
                       disp |-> c]
  BY DEF OwnTarget, c
<1> QED BY <1>3, <1>4, <1>8, <1>9, <1>10 DEF OwnFrame, Denoted

(* Nothing is left to do of an explicit fixup.                               *)
LEMMA ExplicitStays ==
  ASSUME NEW s, IsExplicit(s)
  PROVE  Explicit(s) = s
<1> DEFINE e == Explicit(s)
<1>1. s \in FixupType /\ ~s.f /\ ~s.t BY DEF IsExplicit
<1>2. /\ e \in FixupType /\ IsExplicit(e) /\ e.locat = s.locat /\ e.fm = s.fm /\ e.tm = s.tm
      /\ OwnFrame(e) = OwnFrame(s) /\ OwnTarget(e) = OwnTarget(s)
  BY <1>1, OwnParts, ExplicitFixup
<1> HIDE DEF e
<1>3. ~e.f /\ ~e.t /\ ~e.p /\ ~s.p
  BY <1>1, <1>2, FixupFields DEF IsExplicit
<1>4. /\ e.data \in Seq(Tokens) /\ s.data \in Seq(Tokens) /\ Len(e.data) = Len(s.data)
      /\ FrameData(e) = FrameData(s) /\ FrameData(s) = (IF s.fm <= 2 THEN 1 ELSE 0)
      /\ Len(s.data) = FrameData(s) + 1 + (IF s.tm <= 3 THEN 1 ELSE 0)
  BY <1>1, <1>2, <1>3, FixupFields, FixupData DEF FrameData
<1>5. s.fm <= 2 => e.data[1] = s.data[1]
  <2>1. OwnFrame(e).datum = OwnFrame(s).datum BY <1>2
  <2> QED BY <1>2, <2>1 DEF OwnFrame
<1>6. e.data[FrameData(s) + 1] = s.data[FrameData(s) + 1]
  <2>1. OwnTarget(e).thread.datum = OwnTarget(s).thread.datum BY <1>2
  <2> QED BY <1>4, <2>1 DEF OwnTarget
<1>7. s.tm <= 3 => e.data[FrameData(s) + 2] = s.data[FrameData(s) + 2]
  <2>1. OwnTarget(e).disp = OwnTarget(s).disp BY <1>2
  <2>2. s.tm <= 3 => <<e.data[FrameData(s) + 2]>> = <<s.data[FrameData(s) + 2]>>
    BY <1>2, <1>4, <2>1 DEF OwnTarget
  <2> QED BY <2>2
<1>8. s.fm \in Nat /\ s.tm \in Nat BY <1>1, FixupFields
<1>9. \A i \in 1 .. Len(e.data) : e.data[i] = s.data[i] BY <1>4, <1>5, <1>6, <1>7, <1>8
<1>10. e.data = s.data BY <1>4, <1>9, SeqEqual
<1>11. /\ e = Fixup(e.locat, FALSE, e.fm, FALSE, FALSE, e.tm, e.data)
       /\ s = Fixup(s.locat, FALSE, s.fm, FALSE, FALSE, s.tm, s.data)
  <2>1. e.f = FALSE /\ e.t = FALSE /\ e.p = FALSE /\ s.f = FALSE /\ s.t = FALSE /\ s.p = FALSE
    BY <1>1, <1>2, <1>3, FixupFields
  <2> QED BY <1>1, <1>2, <2>1, FixupFields
<1> QED BY <1>2, <1>10, <1>11 DEF e

-----------------------------------------------------------------------------
(* The two kinds of subrecord.                                               *)
LEMMA SubKinds ==
  ASSUME NEW s \in SubType
  PROVE  /\ s.kind \in {"thread", "fixup"}
         /\ s.kind = "fixup" => s \in FixupType
         /\ s.kind = "thread" => s \in ThreadType
BY DEF SubType, ThreadType, FixupType

(* The fields of a thread.                                                   *)
LEMMA ThreadFields ==
  ASSUME NEW s \in ThreadType
  PROVE  /\ s.kind = "thread" /\ s.frame \in BOOLEAN /\ s.num \in Threads
         /\ s.method \in FrameMethods
         /\ IF s.method <= 2 THEN s.datum \in ThreadTokens ELSE s.datum = NoDatum
         /\ s.frame \/ s.method <= 2
BY DEF ThreadType

(* What is known of the elements of a sequence.                              *)
LEMMA ElementOf ==
  ASSUME NEW S, NEW m \in Seq(S)
  PROVE  /\ Len(m) \in Nat /\ DOMAIN m = 1 .. Len(m)
         /\ \A i \in 1 .. Len(m) : m[i] \in S
BY LenProperties, ElementOfSeq

(* The subrecord that the third pass has come to.                            *)
LEMMA Current ==
  ASSUME TypeInv, PassInv, ThreadInv, InFixupp
  PROVE  /\ phase = "fixups" /\ pos \in 1 .. Len(input) /\ pos <= Len(input)
         /\ Len(records) = Len(input) /\ Len(input) \in Nat
         /\ records[pos] = input[pos] /\ records[pos] \in RecType
         /\ input[pos].type = "FIXUPP"
         /\ Subs = input[pos].subs /\ Subs \in Seq(SubType)
         /\ Len(Subs) \in Nat /\ DOMAIN Subs = 1 .. Len(Subs)
         /\ sub \in Nat \ {0} /\ sub <= Len(Subs) + 1
<1>1. phase = "fixups" /\ pos <= Len(records) /\ records[pos].type = "FIXUPP"
  BY DEF InFixupp, More
<1>2. SameButLength BY <1>1 DEF PassInv, SameInv
<1>3. /\ pos \in Nat \ {0} /\ sub \in Nat \ {0} /\ Len(records) \in Nat
      /\ \A k \in 1 .. Len(records) : records[k] \in RecType
  BY ElementOf DEF TypeInv
<1>4. pos \in 1 .. Len(input) /\ Len(records) = Len(input) BY <1>1, <1>2, <1>3 DEF SameButLength
<1>5. records[pos].type = input[pos].type
  <2>1. records[pos] = [input[pos] EXCEPT !.len = records[pos].len] BY <1>2, <1>4 DEF SameButLength
  <2>2. input[pos] \in RecType BY <1>4, ElementOf DEF TypeInv
  <2> QED BY <2>1, <2>2 DEF RecType
<1>6. records[pos] = input[pos] BY <1>1, <1>2, <1>4, <1>5 DEF SameButLength
<1>7. Subs \in Seq(SubType) /\ records[pos] \in RecType BY <1>3, <1>4, RecFields DEF Subs
<1>8. Len(Subs) \in Nat /\ DOMAIN Subs = 1 .. Len(Subs) BY <1>7, ElementOf
<1>9. sub <= Len(Subs) + 1 BY <1>1 DEF ThreadInv, OutInv, Pending, Expanded
<1> QED BY <1>1, <1>3, <1>4, <1>5, <1>6, <1>7, <1>8, <1>9 DEF Subs

(* It is well formed at its place.                                           *)
LEMMA CurrentSub ==
  ASSUME TypeInv, PassInv, ThreadInv, InFixupp, sub <= Len(Subs)
  PROVE  /\ sub \in 1 .. Len(Subs) /\ Subs[sub] \in SubType /\ sub \in DOMAIN input[pos].subs
         /\ Subs[sub] = input[pos].subs[sub]
         /\ WellFormed(input, pos, sub, Subs[sub])
<1>1. /\ pos \in 1 .. Len(input) /\ Subs = input[pos].subs /\ Subs \in Seq(SubType)
      /\ Len(Subs) \in Nat /\ DOMAIN Subs = 1 .. Len(Subs) /\ sub \in Nat \ {0}
  BY Current
<1>2. sub \in 1 .. Len(Subs) BY <1>1
<1>3. Subs[sub] \in SubType BY <1>1, <1>2, ElementOf
<1>4. pos \in DOMAIN input BY <1>1, ElementOf DEF TypeInv
<1> QED BY <1>1, <1>2, <1>3, <1>4 DEF ThreadInv, ThreadsFound

(* A compiler's fixup finds its threads in the tables.                       *)
LEMMA ThreadsDefined ==
  ASSUME TypeInv, PassInv, ThreadInv, InFixupp, sub <= Len(Subs), Subs[sub].kind = "fixup"
  PROVE  /\ Subs[sub] \in FixupType
         /\ Subs[sub].f => frames[Subs[sub].fm].defined
         /\ Subs[sub].t => targets[Subs[sub].tm].defined
<1> DEFINE s == Subs[sub]
<1>1. s \in SubType /\ WellFormed(input, pos, sub, s) BY CurrentSub
<1>2. s \in FixupType BY <1>1, SubKinds
<1>3. \A t \in Threads : /\ Stands(input, pos, sub, frames[t], TRUE, t)
                         /\ Stands(input, pos, sub, targets[t], FALSE, t)
  BY Current DEF ThreadInv, TableInv
<1> HIDE DEF s
<1>4. /\ s.f => IsDefined(input, pos, sub, TRUE, s.fm) /\ s.fm \in Threads
      /\ s.t => IsDefined(input, pos, sub, FALSE, s.tm) /\ s.tm \in Threads
  BY <1>1, <1>2, FixupFields DEF WellFormed
<1> QED BY <1>2, <1>3, <1>4 DEF Stands, s

(* What the program finds out about a fixup has the parts it should have.    *)
LEMMA FrameFound ==
  ASSUME TypeInv, NEW s \in FixupType, s.f => frames[s.fm].defined
  PROVE  IsFrame(Frame(s))
<1>1. s.f \in BOOLEAN /\ IF s.f THEN s.fm \in Threads ELSE s.fm \in FrameMethods BY FixupFields
<1>2. CASE s.f
  <2> DEFINE e == frames[s.fm]
  <2>1. e \in EntryType /\ e.defined BY <1>1, <1>2 DEF TypeInv
  <2>2. Frame(s) = [method |-> e.method, datum |-> e.datum] BY <1>2, <2>1 DEF Frame
  <2> HIDE DEF e
  <2>3. e.method \in FrameMethods /\ IF e.method <= 2 THEN e.datum \in ThreadTokens ELSE e.datum = NoDatum
    BY <2>1 DEF EntryType
  <2> QED BY <2>2, <2>3, NoDatumIsNoToken DEF IsFrame
<1>3. CASE ~s.f
  <2>1. s.fm \in FrameMethods BY <1>1, <1>3
  <2>2. Frame(s) = [method |-> s.fm, datum |-> IF s.fm <= 2 THEN s.data[1] ELSE NoDatum]
    BY <1>3 DEF Frame
  <2>3. s.fm <= 2 => s.data[1] \in Tokens BY <1>3, FixupData DEF FrameData
  <2> QED BY <2>1, <2>2, <2>3 DEF IsFrame
<1> QED BY <1>1, <1>2, <1>3

(* The same of the target.                                                   *)
LEMMA TargetFound ==
  ASSUME TypeInv, NEW s \in FixupType, s.t => targets[s.tm].defined
  PROVE  /\ IsTarget(Target(s))
         /\ s.t => Target(s).method % 4 = targets[s.tm].method
<1>1. /\ s.t \in BOOLEAN /\ s.p \in BOOLEAN
      /\ IF s.t THEN s.tm \in Threads ELSE s.tm \in {0, 1, 2, 4, 5, 6} /\ ~ s.p
  BY FixupFields
<1>2. FrameRead(s) = FrameData(s) BY DEF FrameRead, FrameData
<1> DEFINE k == FrameData(s)
           x == s.data[k + 1]
           y == s.data[k + 2]
<1>3. /\ ~s.t => x \in Tokens
      /\ ~s.t /\ s.tm <= 3 => y \in Tokens
      /\ s.t /\ ~s.p => x \in Tokens
  BY FixupData
<1>4. CASE s.t
  <2> DEFINE e == targets[s.tm]
  <2>1. e \in EntryType /\ e.defined /\ e.method <= 2 BY <1>1, <1>4 DEF TypeInv
  <2>2. Target(s) = IF s.p THEN [method |-> e.method + 4, datum |-> e.datum, disp |-> <<>>]
                    ELSE [method |-> e.method, datum |-> e.datum, disp |-> <<x>>]
    BY <1>2, <1>4, <2>1 DEF Target
  <2> HIDE DEF e, x, k
  <2>3. e.method \in FrameMethods /\ e.datum \in ThreadTokens
    BY <2>1 DEF EntryType
  <2>4. e.method \in {0, 1, 2} /\ e.datum \in Tokens
    <3>1. e.method \in {0, 1, 2, 4, 5} BY <2>3, MethodsAndThreads
    <3>2. e.method \in {0, 1, 2} BY <2>1, <3>1
    <3> QED BY <2>3, <3>2, NoDatumIsNoToken
  <2>5. CASE s.p
    <3>1. Target(s) = [method |-> e.method + 4, datum |-> e.datum, disp |-> <<>>] BY <2>2, <2>5
    <3>2. /\ e.method + 4 \in {4, 5, 6} /\ ~ e.method + 4 <= 3 /\ (e.method + 4) % 4 = e.method
      BY <2>4
    <3>3. <<>> \in Seq(Tokens) /\ Len(<<>>) = 0 BY EmptySeq
    <3>4. /\ Target(s).method = e.method + 4 /\ Target(s).datum = e.datum /\ Target(s).disp = <<>>
      BY <3>1
    <3> QED BY <2>4, <3>1, <3>2, <3>3, <3>4 DEF IsTarget, e
  <2>6. CASE ~s.p
    <3>1. Target(s) = [method |-> e.method, datum |-> e.datum, disp |-> <<x>>] BY <2>2, <2>6
    <3>2. e.method <= 3 /\ e.method % 4 = e.method BY <2>4
    <3>3. <<x>> \in Seq(Tokens) /\ Len(<<x>>) = 1 BY <1>3, <1>4, <2>6, OneToken
    <3>4. /\ Target(s).method = e.method /\ Target(s).datum = e.datum /\ Target(s).disp = <<x>>
      BY <3>1
    <3> QED BY <2>4, <3>1, <3>2, <3>3, <3>4 DEF IsTarget, e
  <2> QED BY <1>1, <2>5, <2>6
<1>5. CASE ~s.t
  <2>1. Target(s) = [method |-> s.tm, datum |-> x, disp |-> IF s.tm <= 3 THEN <<y>> ELSE <<>>]
    BY <1>2, <1>5 DEF Target
  <2> DEFINE c == IF s.tm <= 3 THEN <<y>> ELSE <<>>
  <2> HIDE DEF x, y, k
  <2>2. c \in Seq(Tokens) /\ Len(c) = IF s.tm <= 3 THEN 1 ELSE 0 BY <1>3, <1>5, OneToken, EmptySeq
  <2>3. x \in Tokens /\ s.tm \in {0, 1, 2, 4, 5, 6} BY <1>1, <1>3, <1>5
  <2> HIDE DEF c
  <2>4. /\ Target(s) = [method |-> s.tm, datum |-> x, disp |-> c]
        /\ Target(s).method = s.tm /\ Target(s).datum = x /\ Target(s).disp = c
    BY <2>1 DEF c
  <2> QED BY <1>5, <2>2, <2>3, <2>4 DEF IsTarget
<1> QED BY <1>1, <1>4, <1>5

(* What is written for the fixup.                                            *)
LEMMA MadeExplicit ==
  ASSUME TypeInv, PassInv, ThreadInv, InFixupp, sub <= Len(Subs), Subs[sub].kind = "fixup"
  PROVE  /\ Subs[sub] \in FixupType
         /\ IsFrame(Frame(Subs[sub])) /\ IsTarget(Target(Subs[sub]))
         /\ Explicit(Subs[sub]) \in FixupType
BY ThreadsDefined, FrameFound, TargetFound, ExplicitFixup

-----------------------------------------------------------------------------
(* Every step leaves lists of records, tables of threads and sizes.          *)
LEMMA AppendRecord ==
  ASSUME NEW m \in Seq(RecType), NEW r \in RecType
  PROVE  /\ Append(m, r) \in Seq(RecType) /\ Len(Append(m, r)) = Len(m) + 1
         /\ Append(m, r)[Len(m) + 1] = r
         /\ \A k \in 1 .. Len(m) : Append(m, r)[k] = m[k]
BY AppendProperties

(* One record of a list is replaced.                                         *)
LEMMA UpdateRecord ==
  ASSUME NEW m \in Seq(RecType), NEW i \in 1 .. Len(m), NEW r \in RecType
  PROVE  /\ [m EXCEPT ![i] = r] \in Seq(RecType)
         /\ Len([m EXCEPT ![i] = r]) = Len(m)
         /\ \A k \in 1 .. Len(m) : [m EXCEPT ![i] = r][k] = IF k = i THEN r ELSE m[k]
BY ExceptSeq

(* The subrecord the compiler adds to the last record.                       *)
LEMMA AddedSub ==
  ASSUME TypeInv, AddSub
  PROVE  /\ Len(input) \in 1 .. Len(input) /\ Len(input) \in Nat
         /\ input[Len(input)] \in RecType /\ input[Len(input)].type = "FIXUPP"
         /\ LET r == input[Len(input)] IN
              \E s \in SubType :
                /\ WellFormed(input, Len(input), Len(r.subs) + 1, s)
                /\ [r EXCEPT !.subs = Append(r.subs, s)] \in RecType
                /\ input' = [input EXCEPT ![Len(input)] = [r EXCEPT !.subs = Append(r.subs, s)]]
<1> DEFINE i == Len(input)
           r == input[i]
           j == Len(r.subs) + 1
<1>1. input \in Seq(RecType) /\ input # <<>> /\ r.type = "FIXUPP" BY DEF TypeInv, AddSub
<1>2. i \in Nat /\ i \in 1 .. i BY <1>1, EmptySeq, ElementOf
<1>3. r \in RecType BY <1>1, <1>2, ElementOf
<1>4. r.subs \in Seq(SubType) /\ j \in Nat BY <1>3, RecFields, ElementOf
<1>5. PICK s \in ThreadSubs(<<i, j>>) \cup FixupSubs(<<i, j>>) :
        /\ WellFormed(input, i, j, s)
        /\ input' = [input EXCEPT ![i].subs = Append(@, s)]
  BY DEF AddSub
<1>6. <<i, j>> \in Nat \X Nat BY <1>2, <1>4
<1> HIDE DEF i, j
<1>7. s \in SubType
  <2>1. CASE s \in FixupSubs(<<i, j>>) BY <1>6, <2>1, NewFixup DEF SubType
  <2>2. CASE s \in ThreadSubs(<<i, j>>)
    <3>1. s.kind = "thread" BY <2>2 DEF ThreadSubs
    <3>2. s.frame \/ s.method <= 2 BY <1>5, <3>1 DEF WellFormed
    <3> QED BY <1>6, <2>2, <3>2, NewThread DEF SubType
  <2> QED BY <1>5, <2>1, <2>2
<1>8. Append(r.subs, s) \in Seq(SubType) BY <1>4, <1>7, AppendProperties
<1>9. [r EXCEPT !.subs = Append(r.subs, s)] \in RecType BY <1>1, <1>3, <1>8, NewSubrecords
<1>10. input' = [input EXCEPT ![i] = [r EXCEPT !.subs = Append(r.subs, s)]] BY <1>5
<1> QED BY <1>1, <1>2, <1>3, <1>5, <1>7, <1>9, <1>10 DEF i, j

(* A size is the sum of two words at most, or -1.                            *)
LEMMA NewSize ==
  ASSUME TypeInv, NEW r \in RecType, NEW s \in Segments
  PROVE  Extent(s, r) \in -1 .. (2 * WORD)
<1>1. r.off \in 0 .. (WORD - 1) /\ r.len \in 0 .. (WORD - 1) /\ WORD \in Nat
  BY RecFields, Widths DEF Words
<1>2. PICK x \in Nat, y \in Nat : x = r.off /\ y = r.len /\ x < WORD /\ y < WORD BY <1>1
<1>3. x + y \in -1 .. (2 * WORD) BY <1>1, <1>2
<1>4. sizes[s] \in -1 .. (2 * WORD) BY DEF TypeInv
<1>5. Extent(s, r) = x + y \/ Extent(s, r) = sizes[s] BY <1>2 DEF Extent
<1> QED BY <1>3, <1>4, <1>5

(* A length that is patched is a word.                                       *)
LEMMA PatchedIsWord ==
  ASSUME TypeInv, NEW r \in RecType, NEW n
  PROVE  Patched(r, n) \in Words
<1>1. WORD \in Nat \ {0} BY Widths
<1>2. r.len \in Int
  <2>1. r.len \in Words /\ Words \subseteq Nat BY RecFields, Widths
  <2>2. r.len \in Nat BY <2>1
  <2> QED BY <2>2
<1>3. n \in Segments => sizes[n] \in Int BY <1>1 DEF TypeInv
<1>4. (IF n \in Segments /\ sizes[n] > r.len THEN sizes[n] ELSE r.len) \in Int BY <1>2, <1>3
<1> QED BY <1>1, <1>4 DEF Patched, Words

(* The thread tables at the start.                                           *)
LEMMA EmptyTable ==
  /\ Undefined \in EntryType /\ ~Undefined.defined
  /\ [t \in Threads |-> Undefined] \in [Threads -> EntryType]
<1>1. Undefined \in EntryType /\ ~Undefined.defined BY DEF Undefined, EntryType
<1> QED BY <1>1

(* The entry a thread makes.                                                 *)
LEMMA NewEntry ==
  ASSUME NEW s \in ThreadType
  PROVE  /\ Entry(s) \in EntryType /\ Entry(s).defined
         /\ Entry(s).method = s.method /\ Entry(s).datum = s.datum
BY ThreadFields DEF Entry, EntryType

(* Every step keeps the types.                                               *)
LEMMA TypeStep ==
  ASSUME TypeInv, PassInv, ThreadInv, [Next]_vars
  PROVE  TypeInv'
<1>1. /\ input \in Seq(RecType) /\ records \in Seq(RecType) /\ out \in Seq(RecType)
      /\ destination \in [is : {"old", "whole", "cut"}, recs : Seq(RecType)]
      /\ sizes \in [Segments -> -1 .. (2 * WORD)]
      /\ segdefs \in Nat /\ pos \in Nat \ {0} /\ sub \in Nat \ {0}
      /\ frames \in [Threads -> EntryType] /\ targets \in [Threads -> EntryType]
      /\ \A t \in Threads : targets[t].defined => targets[t].method <= 2
      /\ fixups \in Seq(FixupType)
      /\ origin \in Seq(Nat) /\ Len(origin) = Len(out)
      /\ destination.recs \in Seq(RecType)
      /\ <<>> \in Seq(RecType) /\ <<>> \in Seq(FixupType) /\ <<>> \in Seq(Nat)
  BY EmptySeq DEF TypeInv
<1>2. CASE AddRecord
  <2>1. PICK r \in PlainRecords : input' = Append(input, r) BY <1>2 DEF AddRecord
  <2>2. input' \in Seq(RecType) BY <1>1, <2>1, NewRec, AppendRecord
  <2> QED BY <1>1, <1>2, <2>2 DEF AddRecord, passes, TypeInv
<1>3. CASE AddSub
  <2>1. PICK r \in RecType : input' = [input EXCEPT ![Len(input)] = r] /\ Len(input) \in 1 .. Len(input)
    BY <1>3, AddedSub
  <2>2. input' \in Seq(RecType) BY <1>1, <2>1, UpdateRecord
  <2> QED BY <1>1, <1>3, <2>2 DEF AddSub, passes, TypeInv
<1>4. CASE Parse
  <2>1. Append(input, Rec("MODEND", 0, 0, 0)) \in Seq(RecType) BY <1>1, NewRec, AppendRecord
  <2>2. input' \in Seq(RecType) /\ records' \in Seq(RecType) BY <1>1, <1>4, <2>1 DEF Parse
  <2> QED BY <1>1, <1>4, <2>2 DEF Parse, passes, TypeInv
<1>5. ASSUME NEW p, More(p) PROVE pos \in 1 .. Len(records) /\ records[pos] \in RecType
  <2>1. pos \in 1 .. Len(records) BY <1>1, <1>5, ElementOf DEF More
  <2> QED BY <1>1, <2>1, ElementOf
<1>6. CASE ComputeSize
  <2>1. records[pos] \in RecType BY <1>5, <1>6 DEF ComputeSize
  <2>2. sizes' = [s \in Segments |-> Extent(s, records[pos])] BY <1>6 DEF ComputeSize
  <2>3. sizes' \in [Segments -> -1 .. (2 * WORD)] BY <2>1, <2>2, NewSize
  <2> QED BY <1>1, <1>6, <2>3 DEF ComputeSize, TypeInv
<1>7. ASSUME NEW from, NEW to, StartPass(from, to) PROVE TypeInv'
  BY <1>1, <1>7 DEF StartPass, TypeInv
<1>8. CASE PatchSegdef
  <2>1. pos \in 1 .. Len(records) /\ records[pos] \in RecType BY <1>5, <1>8 DEF PatchSegdef
  <2>2. records' \in Seq(RecType) /\ segdefs' \in Nat
    <3>1. CASE records[pos].type = "SEGDEF"
      <4> DEFINE n == Patched(records[pos], segdefs + 1)
                 r == [records[pos] EXCEPT !.len = n]
      <4>1. records' = [records EXCEPT ![pos] = r] /\ segdefs' = segdefs + 1
        BY <1>8, <3>1 DEF PatchSegdef
      <4>2. n \in Words BY <2>1, PatchedIsWord
      <4> HIDE DEF n
      <4>3. r \in RecType BY <2>1, <4>2, NewLength
      <4> HIDE DEF r
      <4> QED BY <1>1, <2>1, <4>1, <4>3, UpdateRecord
    <3>2. CASE records[pos].type # "SEGDEF" BY <1>1, <1>8, <3>2 DEF PatchSegdef
    <3> QED BY <3>1, <3>2
  <2> QED BY <1>1, <1>8, <2>2 DEF PatchSegdef, TypeInv
<1>9. CASE ExpandFixup
  <2>1. Explicit(Subs[sub]) \in FixupType BY <1>9, MadeExplicit DEF ExpandFixup
  <2>2. fixups' = Append(fixups, Explicit(Subs[sub])) BY <1>9 DEF ExpandFixup
  <2>3. fixups' \in Seq(FixupType) BY <1>1, <2>1, <2>2, AppendProperties
  <2>4. sub' \in Nat \ {0} BY <1>1, <1>9 DEF ExpandFixup
  <2> QED BY <1>1, <1>9, <2>3, <2>4 DEF ExpandFixup, TypeInv
<1>10. CASE ReadThread
  <2> DEFINE s == Subs[sub]
  <2>1. s \in ThreadType /\ DefineThread(s)
    BY <1>10, CurrentSub, SubKinds DEF ReadThread
  <2> HIDE DEF s
  <2>2. /\ Entry(s) \in EntryType /\ s.num \in Threads /\ Entry(s).method = s.method
        /\ s.frame \/ s.method <= 2
    BY <2>1, NewEntry, ThreadFields
  <2>3. \/ s.frame /\ frames' = [frames EXCEPT ![s.num] = Entry(s)] /\ targets' = targets
        \/ s.method <= 2 /\ targets' = [targets EXCEPT ![s.num] = Entry(s)] /\ frames' = frames
    BY <2>1, <2>2 DEF DefineThread
  <2>4. /\ frames' \in [Threads -> EntryType] /\ targets' \in [Threads -> EntryType]
        /\ \A t \in Threads : targets'[t].defined => targets'[t].method <= 2
    <3>1. CASE frames' = [frames EXCEPT ![s.num] = Entry(s)] /\ targets' = targets
      BY <1>1, <2>2, <3>1
    <3>2. CASE s.method <= 2 /\ targets' = [targets EXCEPT ![s.num] = Entry(s)] /\ frames' = frames
      <4>1. targets' \in [Threads -> EntryType] BY <1>1, <2>2, <3>2
      <4>2. \A t \in Threads : targets'[t] = IF t = s.num THEN Entry(s) ELSE targets[t]
        BY <1>1, <2>2, <3>2
      <4> QED BY <1>1, <2>2, <3>2, <4>1, <4>2
    <3> QED BY <2>3, <3>1, <3>2
  <2>5. sub' \in Nat \ {0} BY <1>1, <1>10 DEF ReadThread
  <2> QED BY <1>1, <1>10, <2>4, <2>5 DEF ReadThread, TypeInv
<1>11. ASSUME NEW r \in RecType, out' = Append(out, r), origin' = Append(origin, pos)
       PROVE  out' \in Seq(RecType) /\ origin' \in Seq(Nat) /\ Len(origin') = Len(out')
  <2>1. pos \in Nat BY <1>1
  <2>2. out' \in Seq(RecType) /\ Len(out') = Len(out) + 1 BY <1>1, <1>11, AppendRecord
  <2>3. origin' \in Seq(Nat) /\ Len(origin') = Len(origin) + 1 BY <1>1, <1>11, <2>1, AppendProperties
  <2> QED BY <1>1, <2>2, <2>3
<1>12. CASE EndFixupp
  <2>1. records[pos] \in RecType /\ records[pos].type = "FIXUPP"
    BY <1>5, <1>12 DEF EndFixupp, InFixupp
  <2> DEFINE r == [records[pos] EXCEPT !.subs = fixups]
  <2>2. r \in RecType
    <3>1. fixups \in Seq(SubType) BY <1>1, SeqMonotonic DEF SubType
    <3> QED BY <2>1, <3>1, NewSubrecords
  <2>3. \/ out' = out /\ origin' = origin
        \/ out' = Append(out, r) /\ origin' = Append(origin, pos)
    BY <1>12 DEF EndFixupp
  <2> HIDE DEF r
  <2>4. out' \in Seq(RecType) /\ origin' \in Seq(Nat) /\ Len(origin') = Len(out')
    BY <1>1, <1>11, <2>2, <2>3
  <2>5. pos' \in Nat \ {0} BY <1>1, <1>12 DEF EndFixupp
  <2>6. sub' = 1 /\ fixups' = <<>> BY <1>12 DEF EndFixupp
  <2> QED BY <1>1, <1>12, <2>4, <2>5, <2>6 DEF EndFixupp, TypeInv
<1>13. CASE CopyRecord
  <2>1. records[pos] \in RecType BY <1>5, <1>13 DEF CopyRecord
  <2>2. out' = Append(out, records[pos]) /\ origin' = Append(origin, pos) BY <1>13 DEF CopyRecord
  <2>3. out' \in Seq(RecType) /\ origin' \in Seq(Nat) /\ Len(origin') = Len(out')
    BY <1>11, <2>1, <2>2
  <2>4. pos' \in Nat \ {0} BY <1>1, <1>13 DEF CopyRecord
  <2> QED BY <1>1, <1>13, <2>3, <2>4 DEF CopyRecord, TypeInv
<1>14. CASE WriteObject
  <2>1. \/ destination' = destination
        \/ destination' = [is |-> "whole", recs |-> out]
        \/ destination' = [is |-> "cut", recs |-> <<>>]
    BY <1>14 DEF WriteObject
  <2> DEFINE S == Seq(RecType)
  <2>2. out \in S /\ <<>> \in S /\ destination \in [is : {"old", "whole", "cut"}, recs : S]
    BY <1>1
  <2> HIDE DEF S
  <2>3. destination' \in [is : {"old", "whole", "cut"}, recs : S]
    <3>1. CASE destination' = destination BY <2>2, <3>1
    <3>2. CASE destination' = [is |-> "whole", recs |-> out] BY <2>2, <3>2
    <3>3. CASE destination' = [is |-> "cut", recs |-> <<>>]
      <4>1. PICK x \in S : x = <<>> BY <2>2
      <4>2. destination' = [is |-> "cut", recs |-> x] BY <3>3, <4>1
      <4> QED BY <4>1, <4>2
    <3> QED BY <2>1, <3>1, <3>2, <3>3
  <2> QED BY <1>1, <1>14, <2>3 DEF WriteObject, passes, TypeInv, S
<1>15. CASE RunAgain
  <2>1. sizes' \in [Segments -> -1 .. (2 * WORD)]
    <3>1. -1 \in -1 .. (2 * WORD) BY Widths
    <3> QED BY <1>15, <3>1 DEF RunAgain
  <2>2. /\ frames' \in [Threads -> EntryType] /\ targets' \in [Threads -> EntryType]
        /\ \A t \in Threads : ~targets'[t].defined
    BY <1>15, EmptyTable DEF RunAgain
  <2>3. /\ input' \in Seq(RecType) /\ records' \in Seq(RecType) /\ destination' = destination
        /\ pos' = 1 /\ sub' = 1 /\ segdefs' = 0
        /\ fixups' = <<>> /\ out' = <<>> /\ origin' = <<>>
    BY <1>1, <1>15 DEF RunAgain
  <2> QED BY <1>1, <2>1, <2>2, <2>3 DEF TypeInv
<1>16. CASE UNCHANGED vars BY <1>1, <1>16 DEF vars, passes, TypeInv
<1> QED
  BY <1>2, <1>3, <1>4, <1>6, <1>7, <1>8, <1>9, <1>10, <1>12, <1>13, <1>14, <1>15, <1>16 DEF Next

-----------------------------------------------------------------------------
(* What the invariant says of the lists, and of the record a pass has come to. *)
LEMMA Lists ==
  ASSUME TypeInv
  PROVE  /\ Len(input) \in Nat /\ DOMAIN input = 1 .. Len(input)
         /\ \A k \in 1 .. Len(input) : input[k] \in RecType
         /\ Len(records) \in Nat /\ DOMAIN records = 1 .. Len(records)
         /\ \A k \in 1 .. Len(records) : records[k] \in RecType
         /\ Len(out) \in Nat /\ DOMAIN out = 1 .. Len(out)
         /\ \A k \in 1 .. Len(out) : out[k] \in RecType
         /\ Len(origin) = Len(out) /\ DOMAIN origin = 1 .. Len(origin)
         /\ Len(fixups) \in Nat /\ DOMAIN fixups = 1 .. Len(fixups)
         /\ pos \in Nat \ {0} /\ sub \in Nat \ {0} /\ segdefs \in Nat
<1>1. /\ input \in Seq(RecType) /\ records \in Seq(RecType) /\ out \in Seq(RecType)
      /\ fixups \in Seq(FixupType)
      /\ origin \in Seq(Nat) /\ Len(origin) = Len(out)
      /\ pos \in Nat \ {0} /\ sub \in Nat \ {0} /\ segdefs \in Nat
  BY DEF TypeInv
<1> QED BY <1>1, ElementOf

(* The record a pass has come to is in the list.                             *)
LEMMA Processed ==
  ASSUME TypeInv, NEW p, More(p)
  PROVE  phase = p /\ pos \in 1 .. Len(records) /\ records[pos] \in RecType
<1>1. pos \in 1 .. Len(records) BY Lists DEF More
<1> QED BY <1>1, Lists DEF More

(* The ends of data are no less than the sizes start with.                   *)
LEMMA EndIsNat ==
  ASSUME NEW m \in Seq(RecType), NEW k \in 1 .. Len(m)
  PROVE  End(m, k) \in Nat
<1>1. m[k] \in RecType BY ElementOf
<1>2. m[k].off \in Nat /\ m[k].len \in Nat BY <1>1, RecFields, Widths
<1> QED BY <1>2 DEF End

(* One more record read: the size is still the greatest end.                 *)
LEMMA OneMoreRecord ==
  ASSUME NEW m \in Seq(RecType), NEW p \in 1 .. Len(m), NEW s \in Segments,
         sizes[s] \in Int, sizes[s] >= -1, Extends(m, s, p, sizes[s])
  PROVE  Extends(m, s, p + 1, Extent(s, m[p]))
<1> DEFINE size == Extent(s, m[p])
<1>1. Len(m) \in Nat /\ p \in Nat /\ p >= 1 /\ 1 .. (p + 1 - 1) = (1 .. (p - 1)) \cup {p}
  BY ElementOf
<1>2. PICK n \in Int : n = sizes[s] /\ n >= -1 OBVIOUS
<1>3. /\ \A k \in 1 .. (p - 1) : IsData(m, k, s) => End(m, k) <= n
      /\ n = -1 \/ \E k \in 1 .. (p - 1) : IsData(m, k, s) /\ n = End(m, k)
  BY <1>2 DEF Extends
<1>4. \A k \in 1 .. p : End(m, k) \in Nat
  <2>1. \A k \in 1 .. p : k \in 1 .. Len(m) BY <1>1
  <2> QED BY <2>1, EndIsNat
<1>5. size = IF IsData(m, p, s) /\ (n < 0 \/ End(m, p) > n) THEN End(m, p) ELSE n
  BY <1>2 DEF Extent, IsData, End
<1> HIDE DEF size
<1>6. End(m, p) \in Nat BY <1>1, <1>4
<1>7. CASE IsData(m, p, s) /\ (n < 0 \/ End(m, p) > n)
  <2>1. size = End(m, p) BY <1>5, <1>7
  <2>2. ASSUME NEW k \in 1 .. (p - 1), IsData(m, k, s) PROVE End(m, k) <= size
    <3>1. End(m, k) <= n /\ End(m, k) \in Nat BY <1>1, <1>3, <1>4, <2>2
    <3> QED BY <1>2, <1>6, <1>7, <2>1, <3>1
  <2>3. End(m, p) <= size BY <1>6, <2>1
  <2> QED BY <1>1, <1>7, <2>1, <2>2, <2>3 DEF Extends, size
<1>8. CASE ~(IsData(m, p, s) /\ (n < 0 \/ End(m, p) > n))
  <2>1. size = n BY <1>5, <1>8
  <2>2. IsData(m, p, s) => End(m, p) <= n BY <1>2, <1>6, <1>8
  <2> QED BY <1>1, <1>3, <2>1, <2>2 DEF Extends, size
<1> QED BY <1>7, <1>8

(* How many SEGDEF records there are, and one more.                          *)
LEMMA SegdefCount ==
  ASSUME NEW m, NEW p \in Nat \ {0}
  PROVE  /\ Cardinality(SegdefsTo(m, p - 1)) \in Nat /\ Cardinality(SegdefsTo(m, p - 1)) <= p - 1
         /\ Cardinality(SegdefsTo(m, p)) =
              Cardinality(SegdefsTo(m, p - 1)) + IF m[p].type = "SEGDEF" THEN 1 ELSE 0
         /\ Cardinality(SegdefsTo(m, 0)) = 0
<1>1. p - 1 \in Nat /\ IsFiniteSet(1 .. (p - 1)) /\ Cardinality(1 .. (p - 1)) = p - 1
  <2>1. p - 1 \in Int /\ 1 \in Int /\ p - 1 \in Nat OBVIOUS
  <2>2. IsFiniteSet(1 .. (p - 1)) /\ Cardinality(1 .. (p - 1)) = IF 1 > p - 1 THEN 0 ELSE (p - 1) - 1 + 1
    BY <2>1, FS_Interval
  <2> QED BY <2>1, <2>2
<1>2. SegdefsTo(m, p - 1) \in SUBSET (1 .. (p - 1)) BY DEF SegdefsTo
<1>3. /\ IsFiniteSet(SegdefsTo(m, p - 1))
      /\ Cardinality(SegdefsTo(m, p - 1)) <= Cardinality(1 .. (p - 1))
  BY <1>1, <1>2, FS_Subset
<1>4. Cardinality(SegdefsTo(m, p - 1)) \in Nat BY <1>3, FS_CardinalityType
<1>5. p \notin SegdefsTo(m, p - 1) BY DEF SegdefsTo
<1>6. Cardinality(SegdefsTo(m, 0)) = 0
  <2>1. SegdefsTo(m, 0) = {} BY DEF SegdefsTo
  <2> QED BY <2>1, FS_EmptySet
<1>7. CASE m[p].type = "SEGDEF"
  <2>1. SegdefsTo(m, p) = SegdefsTo(m, p - 1) \cup {p} BY <1>7 DEF SegdefsTo
  <2> QED BY <1>1, <1>3, <1>4, <1>5, <1>6, <1>7, <2>1, FS_AddElement
<1>8. CASE m[p].type # "SEGDEF"
  <2>1. \A k : k \in SegdefsTo(m, p) <=> k \in SegdefsTo(m, p - 1) BY <1>8 DEF SegdefsTo
  <2>2. SegdefsTo(m, p) = SegdefsTo(m, p - 1) BY <2>1
  <2> QED BY <1>1, <1>3, <1>4, <1>6, <1>8, <2>2
<1> QED BY <1>7, <1>8

(* Nothing is expanded or written before the third pass.                     *)
LEMMA StartStep ==
  ASSUME TypeInv, StartInv, [Next]_vars
  PROVE  StartInv'
<1>1. CASE AddRecord \/ AddSub BY <1>1 DEF AddRecord, AddSub, passes, StartInv, Fresh
<1>2. CASE Parse BY <1>2 DEF Parse, passes, StartInv, Fresh
<1>3. CASE ComputeSize BY <1>3 DEF ComputeSize, More, StartInv, Fresh
<1>4. CASE \/ StartPass("sizes", "segdefs") \/ StartPass("segdefs", "fixups")
           \/ StartPass("fixups", "write")
  BY <1>4 DEF StartPass, StartInv, Fresh
<1>5. CASE PatchSegdef BY <1>5 DEF PatchSegdef, More, StartInv, Fresh
<1>6. CASE ExpandFixup \/ ReadThread \/ EndFixupp
  BY <1>6 DEF ExpandFixup, ReadThread, EndFixupp, InFixupp, More, StartInv
<1>7. CASE CopyRecord BY <1>7 DEF CopyRecord, More, StartInv
<1>8. CASE WriteObject BY <1>8 DEF WriteObject, StartInv
<1>9. CASE RunAgain BY <1>9 DEF RunAgain, StartInv, Fresh
<1>10. CASE UNCHANGED vars BY <1>10 DEF vars, passes, StartInv, Fresh
<1> QED BY <1>1, <1>2, <1>3, <1>4, <1>5, <1>6, <1>7, <1>8, <1>9, <1>10 DEF Next

(* A record of the list is patched.                                          *)
LEMMA PatchedRecord ==
  ASSUME TypeInv, PatchSegdef
  PROVE  /\ pos \in 1 .. Len(records) /\ Len(records') = Len(records) /\ phase = "segdefs"
         /\ \A k \in 1 .. Len(records) : k # pos => records'[k] = records[k]
         /\ records[pos].type # "SEGDEF" => records'[pos] = records[pos] /\ segdefs' = segdefs
         /\ records[pos].type = "SEGDEF" =>
              /\ segdefs' = segdefs + 1
              /\ records'[pos] = [records[pos] EXCEPT !.len = records'[pos].len]
              /\ records'[pos].len = Patched(records[pos], segdefs + 1)
<1>1. pos \in 1 .. Len(records) /\ records[pos] \in RecType /\ phase = "segdefs"
  BY Processed DEF PatchSegdef
<1>2. CASE records[pos].type # "SEGDEF" BY <1>1, <1>2 DEF PatchSegdef
<1>3. CASE records[pos].type = "SEGDEF"
  <2> DEFINE n == Patched(records[pos], segdefs + 1)
             r == [records[pos] EXCEPT !.len = n]
  <2>1. records' = [records EXCEPT ![pos] = r] /\ segdefs' = segdefs + 1
    BY <1>3 DEF PatchSegdef
  <2>2. n \in Words BY <1>1, PatchedIsWord
  <2> HIDE DEF n
  <2>3. r \in RecType /\ r.len = n BY <1>1, <2>2, NewLength
  <2>4. r = [records[pos] EXCEPT !.len = r.len] BY <2>3
  <2> HIDE DEF r
  <2>5. /\ Len(records') = Len(records)
        /\ \A k \in 1 .. Len(records) : records'[k] = IF k = pos THEN r ELSE records[k]
    BY <1>1, <2>1, <2>3, UpdateRecord DEF TypeInv
  <2> QED BY <1>1, <1>3, <2>1, <2>3, <2>4, <2>5 DEF n
<1> QED BY <1>2, <1>3

(* No pass goes beyond the list, and no more is written than was read.       *)
LEMMA BoundStep ==
  ASSUME TypeInv, PassInv, ThreadInv, [Next]_vars, TypeInv'
  PROVE  BoundInv'
<1>1. /\ Len(records) \in Nat /\ Len(records)' \in Nat /\ Len(out) \in Nat
      /\ pos \in Nat /\ segdefs \in Nat
      /\ pos <= Len(records) + 1 /\ segdefs <= Len(records) /\ Len(out) <= Len(records)
  BY Lists DEF PassInv, BoundInv, TypeInv
<1>2. CASE UNCHANGED <<pos, segdefs, out, records>> BY <1>1, <1>2 DEF BoundInv
<1>3. CASE AddRecord \/ AddSub BY <1>2, <1>3 DEF AddRecord, AddSub, passes
<1>4. CASE Parse
  <2>1. pos = 1 /\ segdefs = 0 /\ out = <<>> BY <1>4 DEF Parse, PassInv, StartInv, Fresh
  <2>2. UNCHANGED <<pos, segdefs, out>> BY <1>4 DEF Parse, passes
  <2>3. Len(out') = 0 BY <2>1, <2>2, EmptySeq
  <2> QED BY <1>1, <2>1, <2>2, <2>3 DEF BoundInv
<1>5. CASE ComputeSize BY <1>1, <1>5 DEF ComputeSize, More, BoundInv
<1>6. ASSUME NEW from, NEW to, StartPass(from, to) PROVE BoundInv'
  BY <1>1, <1>6 DEF StartPass, BoundInv
<1>7. CASE PatchSegdef
  <2>1. /\ pos \in 1 .. Len(records) /\ Len(records') = Len(records) /\ phase = "segdefs"
        /\ segdefs' \in {segdefs, segdefs + 1}
    BY <1>7, PatchedRecord
  <2>2. segdefs = Cardinality(SegdefsTo(input, pos - 1)) BY <2>1 DEF PassInv, PatchInv
  <2>3. segdefs <= pos - 1
    <3>1. pos \in Nat \ {0} BY <1>1, <2>1
    <3> QED BY <2>2, <3>1, SegdefCount
  <2>4. pos' = pos + 1 /\ out' = out BY <1>7 DEF PatchSegdef
  <2>5. pos' <= Len(records') + 1 BY <1>1, <2>1, <2>4
  <2>6. segdefs' <= Len(records') BY <1>1, <2>1, <2>3
  <2>7. Len(out') <= Len(records') BY <1>1, <2>1, <2>4
  <2> QED BY <2>5, <2>6, <2>7 DEF BoundInv
<1>8. CASE ExpandFixup BY <1>2, <1>8 DEF ExpandFixup
<1>9. CASE ReadThread BY <1>2, <1>9 DEF ReadThread
<1>10. CASE EndFixupp \/ CopyRecord
  <2>1. More("fixups") /\ pos' = pos + 1 /\ UNCHANGED <<segdefs, records>>
    BY <1>10 DEF EndFixupp, CopyRecord, InFixupp
  <2>2. phase = "fixups" /\ pos <= Len(records) BY <2>1 DEF More
  <2>3. Len(out) <= pos - 1 BY <1>1, <2>2, Lists DEF ThreadInv, OutInv, Traced, Done
  <2>4. Len(out') <= Len(out) + 1
    <3>1. out' = out \/ \E r : out' = Append(out, r) BY <1>10 DEF EndFixupp, CopyRecord
    <3>2. Len(out') = Len(origin') /\ Len(out) = Len(origin) /\ origin \in Seq(Nat) BY DEF TypeInv
    <3>3. origin' = origin \/ origin' = Append(origin, pos) BY <1>10 DEF EndFixupp, CopyRecord
    <3>4. Len(origin') = Len(origin) \/ Len(origin') = Len(origin) + 1
      BY <1>1, <3>2, <3>3, AppendProperties
    <3> QED BY <1>1, <3>2, <3>4
  <2>5. Len(out') \in Nat BY Lists DEF TypeInv
  <2>6. Len(out') <= Len(records) BY <1>1, <2>2, <2>3, <2>4, <2>5
  <2> QED BY <1>1, <2>1, <2>2, <2>6 DEF BoundInv
<1>11. CASE WriteObject BY <1>2, <1>11 DEF WriteObject, passes
<1>12. CASE RunAgain
  <2>1. pos' = 1 /\ segdefs' = 0 /\ out' = <<>> BY <1>12 DEF RunAgain
  <2>2. Len(out') = 0 BY <2>1, EmptySeq
  <2> QED BY <1>1, <2>1, <2>2 DEF BoundInv
<1>13. CASE UNCHANGED vars BY <1>2, <1>13 DEF vars, passes
<1> QED
  BY <1>3, <1>4, <1>5, <1>6, <1>7, <1>8, <1>9, <1>10, <1>11, <1>12, <1>13 DEF Next

(* A record with its own length is itself.                                   *)
LEMMA SameRecord ==
  ASSUME NEW r \in RecType
  PROVE  r = [r EXCEPT !.len = r.len]
BY DEF RecType

(* Patching changes nothing but a length.                                    *)
LEMMA SameStep ==
  ASSUME TypeInv, PassInv, [Next]_vars, TypeInv'
  PROVE  SameInv'
<1>1. /\ Len(records) \in Nat /\ Len(input) \in Nat
      /\ \A k \in 1 .. Len(input) : input[k] \in RecType
      /\ \A k \in 1 .. Len(records) : records[k] \in RecType
      /\ SameInv
  BY Lists DEF PassInv
<1>2. ASSUME phase \notin {"compile", "refused"}, UNCHANGED <<input, records>> PROVE SameInv'
  BY <1>1, <1>2 DEF SameInv, SameButLength
<1>3. ASSUME phase' \in {"compile", "refused"} PROVE SameInv' BY <1>3 DEF SameInv
<1>4. ASSUME records' = input' PROVE SameInv'
  <2>1. \A k \in 1 .. Len(input') : input'[k] \in RecType BY Lists DEF TypeInv
  <2>2. \A k \in 1 .. Len(input') : input'[k] = [input'[k] EXCEPT !.len = input'[k].len]
    <3>1. ASSUME NEW k \in 1 .. Len(input') PROVE input'[k] = [input'[k] EXCEPT !.len = input'[k].len]
      <4> DEFINE r == input'[k]
      <4>1. r \in RecType BY <2>1
      <4> HIDE DEF r
      <4>2. r = [r EXCEPT !.len = r.len] BY <4>1, SameRecord
      <4> QED BY <4>2 DEF r
    <3> QED BY <3>1
  <2>3. SameButLength' BY <1>4, <2>2 DEF SameButLength
  <2> QED BY <2>3 DEF SameInv
<1>5. CASE AddRecord \/ AddSub BY <1>3, <1>5 DEF AddRecord, AddSub
<1>6. CASE Parse BY <1>3, <1>4, <1>6 DEF Parse
<1>7. CASE ComputeSize BY <1>2, <1>7 DEF ComputeSize, More
<1>8. CASE \/ StartPass("sizes", "segdefs") \/ StartPass("segdefs", "fixups")
           \/ StartPass("fixups", "write")
  BY <1>2, <1>8 DEF StartPass
<1>9. CASE PatchSegdef
  <2>1. /\ pos \in 1 .. Len(records) /\ Len(records') = Len(records) /\ phase = "segdefs"
        /\ \A k \in 1 .. Len(records) : k # pos => records'[k] = records[k]
        /\ records[pos].type # "SEGDEF" => records'[pos] = records[pos]
        /\ records[pos].type = "SEGDEF" =>
             records'[pos] = [records[pos] EXCEPT !.len = records'[pos].len]
    BY <1>9, PatchedRecord
  <2>2. input' = input BY <1>9 DEF PatchSegdef
  <2>3. SameButLength BY <1>1, <2>1 DEF SameInv
  <2>4. ASSUME NEW k \in 1 .. Len(input)
        PROVE  /\ records'[k] = [input[k] EXCEPT !.len = records'[k].len]
               /\ input[k].type # "SEGDEF" => records'[k] = input[k]
    <3>1. /\ records[k] = [input[k] EXCEPT !.len = records[k].len]
          /\ input[k].type # "SEGDEF" => records[k] = input[k]
          /\ k \in 1 .. Len(records)
      BY <2>3 DEF SameButLength
    <3>2. CASE k # pos \/ records[pos].type # "SEGDEF" BY <2>1, <3>1, <3>2
    <3>3. CASE k = pos /\ records[pos].type = "SEGDEF"
      <4> DEFINE n == records'[k].len
                 l == records[k].len
      <4>1. records'[k] = [records[k] EXCEPT !.len = n] BY <2>1, <3>3
      <4>2. records[k] = [input[k] EXCEPT !.len = l] BY <3>1
      <4>3. records[k].type = "SEGDEF" BY <3>3
      <4> HIDE DEF n, l
      <4>4. input[k] \in RecType BY <1>1
      <4>5. input[k].type = "SEGDEF"
        BY <4>2, <4>3, <4>4 DEF RecType
      <4>6. records'[k] = [[input[k] EXCEPT !.len = l] EXCEPT !.len = n] BY <4>1, <4>2
      <4>7. [[input[k] EXCEPT !.len = l] EXCEPT !.len = n] = [input[k] EXCEPT !.len = n]
        BY <4>4 DEF RecType
      <4> QED BY <4>5, <4>6, <4>7 DEF n
    <3> QED BY <3>2, <3>3
  <2>5. SameButLength' BY <2>1, <2>2, <2>3, <2>4 DEF SameButLength
  <2> QED BY <2>5 DEF SameInv
<1>10. CASE ExpandFixup BY <1>2, <1>10 DEF ExpandFixup, InFixupp, More
<1>11. CASE ReadThread BY <1>2, <1>11 DEF ReadThread, InFixupp, More
<1>12. CASE EndFixupp BY <1>2, <1>12 DEF EndFixupp, InFixupp, More
<1>13. CASE CopyRecord BY <1>2, <1>13 DEF CopyRecord, More
<1>14. CASE WriteObject BY <1>2, <1>14 DEF WriteObject
<1>15. CASE RunAgain BY <1>4, <1>15 DEF RunAgain
<1>16. CASE UNCHANGED vars BY <1>1, <1>16 DEF vars, SameInv, SameButLength
<1> QED
  BY <1>5, <1>6, <1>7, <1>8, <1>9, <1>10, <1>11, <1>12, <1>13, <1>14, <1>15, <1>16 DEF Next

(* The sizes before any record has been read.                                *)
LEMMA NothingSeen ==
  ASSUME NEW m, NEW s
  PROVE  Extends(m, s, 1, -1)
BY DEF Extends

(* The sizes are the greatest ends of the data read so far.                  *)
LEMMA SizeStep ==
  ASSUME TypeInv, PassInv, [Next]_vars
  PROVE  SizeInv'
<1>1. /\ Len(records) \in Nat /\ Len(input) \in Nat /\ pos \in Nat \ {0}
      /\ SizeInv /\ StartInv
      /\ sizes \in [Segments -> -1 .. (2 * WORD)] /\ WORD \in Nat
  BY Lists, Widths DEF PassInv, TypeInv
<1>2. ASSUME phase' \notin {"sizes", "segdefs", "fixups", "write"} PROVE SizeInv'
  BY <1>2 DEF SizeInv
<1>3. ASSUME phase \in {"segdefs", "fixups", "write"}, phase' # "sizes",
             UNCHANGED <<input, sizes>>
      PROVE  SizeInv'
  BY <1>1, <1>3 DEF SizeInv
<1>4. ASSUME phase' = "sizes", records' = input', pos' = 1, segdefs' = 0,
             \A s \in Segments : sizes'[s] = -1
      PROVE  SizeInv'
  BY <1>4, NothingSeen DEF SizeInv
<1>5. CASE AddRecord \/ AddSub BY <1>2, <1>5 DEF AddRecord, AddSub
<1>6. CASE Parse
  <2>1. pos = 1 /\ segdefs = 0 /\ \A s \in Segments : sizes[s] = -1
    BY <1>1, <1>6 DEF Parse, StartInv
  <2>2. CASE phase' = "sizes" BY <1>4, <1>6, <2>1, <2>2 DEF Parse, passes
  <2>3. CASE phase' = "refused" BY <1>2, <2>3
  <2> QED BY <1>6, <2>2, <2>3 DEF Parse
<1>7. CASE ComputeSize
  <2>1. pos \in 1 .. Len(records) /\ phase = "sizes" BY <1>7, Processed DEF ComputeSize
  <2>2. /\ records = input /\ segdefs = 0
        /\ \A s \in Segments : Extends(input, s, pos, sizes[s])
    BY <1>1, <2>1 DEF SizeInv
  <2>3. /\ phase' = "sizes" /\ pos' = pos + 1 /\ UNCHANGED <<records, input, segdefs>>
        /\ \A s \in Segments : sizes'[s] = Extent(s, input[pos])
    BY <1>7, <2>1, <2>2 DEF ComputeSize
  <2>4. ASSUME NEW s \in Segments PROVE Extends(input, s, pos + 1, sizes'[s])
    <3>1. sizes[s] \in Int /\ sizes[s] >= -1 BY <1>1
    <3> QED BY <2>1, <2>2, <2>3, <3>1, OneMoreRecord DEF TypeInv
  <2> QED BY <2>2, <2>3, <2>4 DEF SizeInv
<1>8. CASE StartPass("sizes", "segdefs")
  <2>1. /\ phase = "sizes" /\ phase' = "segdefs" /\ pos > Len(records)
        /\ UNCHANGED <<sizes, input>>
    BY <1>8 DEF StartPass
  <2>2. records = input /\ \A s \in Segments : Extends(input, s, pos, sizes[s])
    BY <1>1, <2>1 DEF SizeInv
  <2>3. pos = Len(input) + 1 BY <1>1, <2>1, <2>2 DEF PassInv, BoundInv
  <2> QED BY <2>1, <2>2, <2>3 DEF SizeInv
<1>9. CASE PatchSegdef BY <1>3, <1>9 DEF PatchSegdef, More
<1>10. CASE StartPass("segdefs", "fixups") \/ StartPass("fixups", "write")
  BY <1>3, <1>10 DEF StartPass
<1>11. CASE ExpandFixup BY <1>3, <1>11 DEF ExpandFixup, InFixupp, More
<1>12. CASE ReadThread BY <1>3, <1>12 DEF ReadThread, InFixupp, More
<1>13. CASE EndFixupp BY <1>3, <1>13 DEF EndFixupp, InFixupp, More
<1>14. CASE CopyRecord BY <1>3, <1>14 DEF CopyRecord, More
<1>15. CASE WriteObject BY <1>2, <1>15 DEF WriteObject
<1>16. CASE RunAgain BY <1>4, <1>16 DEF RunAgain
<1>17. CASE UNCHANGED vars BY <1>1, <1>17 DEF vars, passes, SizeInv
<1> QED
  BY <1>5, <1>6, <1>7, <1>8, <1>9, <1>10, <1>11, <1>12, <1>13, <1>14, <1>15, <1>16, <1>17 DEF Next

(* The SEGDEF records passed have their lengths.                             *)
LEMMA PatchStep ==
  ASSUME TypeInv, PassInv, [Next]_vars
  PROVE  PatchInv'
<1>1. /\ Len(records) \in Nat /\ Len(input) \in Nat /\ pos \in Nat \ {0}
      /\ PatchInv
  BY Lists DEF PassInv
<1>2. ASSUME phase' \notin {"segdefs", "fixups", "write"} PROVE PatchInv'
  BY <1>2 DEF PatchInv
<1>3. ASSUME phase \in {"fixups", "write"}, phase' # "segdefs",
             UNCHANGED <<input, records, sizes>>
      PROVE  PatchInv'
  BY <1>1, <1>3 DEF PatchInv, Covered, Patched
<1>4. CASE AddRecord \/ AddSub BY <1>2, <1>4 DEF AddRecord, AddSub
<1>5. CASE Parse \/ RunAgain BY <1>2, <1>5 DEF Parse, RunAgain
<1>6. CASE ComputeSize BY <1>2, <1>6 DEF ComputeSize, More
<1>7. CASE StartPass("sizes", "segdefs")
  <2>1. /\ phase = "sizes" /\ phase' = "segdefs" /\ pos' = 1
        /\ UNCHANGED <<segdefs, records, input>>
    BY <1>7 DEF StartPass
  <2>2. records = input /\ segdefs = 0 BY <2>1 DEF PassInv, SizeInv
  <2>3. Cardinality(SegdefsTo(input', pos' - 1)) = 0 BY <2>1, SegdefCount
  <2>4. Covered(pos)' BY <2>1 DEF Covered
  <2> QED BY <2>1, <2>2, <2>3, <2>4 DEF PatchInv
<1>8. CASE PatchSegdef
  <2>1. /\ pos \in 1 .. Len(records) /\ Len(records') = Len(records) /\ phase = "segdefs"
        /\ \A k \in 1 .. Len(records) : k # pos => records'[k] = records[k]
        /\ records[pos].type # "SEGDEF" => records'[pos] = records[pos] /\ segdefs' = segdefs
        /\ records[pos].type = "SEGDEF" =>
             /\ segdefs' = segdefs + 1
             /\ records'[pos].len = Patched(records[pos], segdefs + 1)
    BY <1>8, PatchedRecord
  <2>2. /\ phase' = "segdefs" /\ pos' = pos + 1 /\ UNCHANGED <<sizes, input>>
    BY <1>8, <2>1 DEF PatchSegdef
  <2>3. /\ Len(records) = Len(input) /\ segdefs = Cardinality(SegdefsTo(input, pos - 1))
        /\ Covered(pos) /\ \A k \in pos .. Len(input) : records[k] = input[k]
    BY <1>1, <2>1 DEF PassInv, PatchInv, SameInv, SameButLength
  <2>4. records[pos] = input[pos] BY <1>1, <2>1, <2>3
  <2>5. \A r, n : Patched(r, n)' = Patched(r, n) BY <2>2 DEF Patched
  <2>6. /\ segdefs' = Cardinality(SegdefsTo(input, pos))
        /\ input[pos].type = "SEGDEF" => Cardinality(SegdefsTo(input, pos)) = segdefs + 1
    BY <1>1, <2>1, <2>3, <2>4, SegdefCount
  <2>7. ASSUME NEW i \in 1 .. pos, input[i].type = "SEGDEF"
        PROVE  records'[i].len = Patched(input[i], Cardinality(SegdefsTo(input, i)))
    <3>1. CASE i = pos BY <2>1, <2>4, <2>6, <2>7, <3>1
    <3>2. CASE i # pos
      <4>1. i \in 1 .. (pos - 1) /\ i \in 1 .. Len(records) BY <1>1, <2>1, <3>2
      <4>2. records'[i] = records[i] BY <2>1, <3>2, <4>1
      <4> QED BY <2>3, <2>7, <4>1, <4>2 DEF Covered
    <3> QED BY <3>1, <3>2
  <2>8. pos' - 1 = pos BY <1>1, <2>2
  <2>9. Covered(pos)' BY <2>2, <2>5, <2>7, <2>8 DEF Covered
  <2>10. \A k \in pos' .. Len(input') : records'[k] = input'[k]
    <3>1. ASSUME NEW k \in pos' .. Len(input') PROVE records'[k] = input'[k]
      <4>1. k \in pos .. Len(input) /\ k # pos /\ k \in 1 .. Len(records)
        BY <1>1, <2>1, <2>2, <2>3, <3>1
      <4> QED BY <2>1, <2>2, <2>3, <4>1
    <3> QED BY <3>1
  <2> QED BY <2>2, <2>6, <2>8, <2>9, <2>10 DEF PatchInv
<1>9. CASE StartPass("segdefs", "fixups")
  <2>1. /\ phase = "segdefs" /\ phase' = "fixups" /\ pos > Len(records)
        /\ UNCHANGED <<sizes, segdefs, records, input>>
    BY <1>9 DEF StartPass
  <2>2. Covered(pos) /\ Len(records) = Len(input) /\ pos <= Len(records) + 1
    BY <1>1, <2>1 DEF PassInv, PatchInv, SameInv, SameButLength, BoundInv
  <2>3. pos = Len(input) + 1 BY <1>1, <2>1, <2>2
  <2>4. Covered(Len(input) + 1)' BY <2>1, <2>2, <2>3 DEF Covered, Patched
  <2> QED BY <2>1, <2>4 DEF PatchInv
<1>10. CASE StartPass("fixups", "write") BY <1>3, <1>10 DEF StartPass
<1>11. CASE ExpandFixup BY <1>3, <1>11 DEF ExpandFixup, InFixupp, More
<1>12. CASE ReadThread BY <1>3, <1>12 DEF ReadThread, InFixupp, More
<1>13. CASE EndFixupp BY <1>3, <1>13 DEF EndFixupp, InFixupp, More
<1>14. CASE CopyRecord BY <1>3, <1>14 DEF CopyRecord, More
<1>15. CASE WriteObject BY <1>2, <1>15 DEF WriteObject
<1>16. CASE UNCHANGED vars BY <1>1, <1>16 DEF vars, passes, PatchInv, Covered, Patched
<1> QED
  BY <1>4, <1>5, <1>6, <1>7, <1>8, <1>9, <1>10, <1>11, <1>12, <1>13, <1>14, <1>15, <1>16 DEF Next

(* Every step keeps what the first two passes have found out and done.       *)
LEMMA PassStep ==
  ASSUME TypeInv, PassInv, ThreadInv, [Next]_vars
  PROVE  PassInv'
<1>1. TypeInv' BY TypeStep
<1>2. StartInv BY DEF PassInv
<1> QED BY <1>1, <1>2, StartStep, BoundStep, SameStep, SizeStep, PatchStep DEF PassInv

-----------------------------------------------------------------------------
(* Subrecords that come before a place.                                      *)
LEMMA Places ==
  ASSUME NEW m \in Seq(RecType), NEW i, NEW j
  PROVE  \A q : q \in Before(m, i, j) <=>
           /\ q = <<q[1], q[2]>> /\ q[1] \in 1 .. Len(m) /\ q[2] \in 1 .. Len(m[q[1]].subs)
           /\ q[1] < i \/ (q[1] = i /\ q[2] < j)
<1>1. DOMAIN m = 1 .. Len(m) BY ElementOf
<1>2. \A k \in 1 .. Len(m) : DOMAIN m[k].subs = 1 .. Len(m[k].subs)
  <2>1. ASSUME NEW k \in 1 .. Len(m) PROVE m[k].subs \in Seq(SubType) BY ElementOf, RecFields
  <2> QED BY <2>1, ElementOf
<1>3. \A q : q \in SubsOf(m) <=>
        q = <<q[1], q[2]>> /\ q[1] \in 1 .. Len(m) /\ q[2] \in 1 .. Len(m[q[1]].subs)
  BY <1>1, <1>2 DEF SubsOf
<1> QED BY <1>3 DEF Before

(* One more subrecord, and the first of the next record.                     *)
LEMMA OneMoreSub ==
  ASSUME NEW m \in Seq(RecType), NEW i \in 1 .. Len(m), NEW j \in 1 .. Len(m[i].subs)
  PROVE  /\ Before(m, i, j + 1) = Before(m, i, j) \cup {<<i, j>>}
         /\ \A q \in Before(m, i, j) : /\ q[1] \in Nat /\ q[2] \in Nat
                                       /\ q[1] < i \/ (q[1] = i /\ q[2] < j)
<1>1. Len(m) \in Nat /\ i \in Nat BY ElementOf
<1>2. m[i].subs \in Seq(SubType) BY ElementOf, RecFields
<1>3. Len(m[i].subs) \in Nat /\ j \in Nat BY <1>2, ElementOf
<1>4. \A q : q \in Before(m, i, j + 1) <=> q \in Before(m, i, j) \/ q = <<i, j>>
  <2>1. ASSUME NEW q, q \in Before(m, i, j + 1) PROVE q \in Before(m, i, j) \/ q = <<i, j>>
    <3>1. /\ q = <<q[1], q[2]>> /\ q[1] \in 1 .. Len(m) /\ q[2] \in 1 .. Len(m[q[1]].subs)
          /\ q[1] < i \/ (q[1] = i /\ q[2] < j + 1)
      BY <2>1, Places
    <3>2. CASE q[1] < i BY <3>1, <3>2, Places
    <3>3. CASE q[1] = i
      <4>1. q[2] \in 1 .. Len(m[i].subs) /\ (q[2] < j + 1 \/ q[1] < i) BY <3>1, <3>3
      <4>2. q[2] < j \/ q[2] = j BY <1>1, <1>3, <3>3, <4>1
      <4> QED BY <3>1, <3>3, <4>2, Places
    <3> QED BY <3>1, <3>2, <3>3
  <2>2. ASSUME NEW q, q \in Before(m, i, j) PROVE q \in Before(m, i, j + 1)
    <3>1. /\ q = <<q[1], q[2]>> /\ q[1] \in 1 .. Len(m) /\ q[2] \in 1 .. Len(m[q[1]].subs)
          /\ q[1] < i \/ (q[1] = i /\ q[2] < j)
      BY <2>2, Places
    <3>2. q[1] < i \/ (q[1] = i /\ q[2] < j + 1)
      <4>1. CASE q[1] < i BY <4>1
      <4>2. CASE q[1] = i /\ q[2] < j
        <5>1. q[2] \in 1 .. Len(m[i].subs) BY <3>1, <4>2
        <5> QED BY <1>3, <4>2, <5>1
      <4> QED BY <3>1, <4>1, <4>2
    <3> QED BY <3>1, <3>2, Places
  <2>3. <<i, j>> \in Before(m, i, j + 1)
    <3> DEFINE q == <<i, j>>
    <3>1. q = <<q[1], q[2]>> /\ q[1] = i /\ q[2] = j OBVIOUS
    <3>2. j < j + 1 BY <1>3
    <3> QED BY <3>1, <3>2, Places
  <2> QED BY <2>1, <2>2, <2>3
<1>5. Before(m, i, j + 1) = Before(m, i, j) \cup {<<i, j>>} BY <1>4
<1>6. ASSUME NEW q \in Before(m, i, j)
      PROVE  q[1] \in Nat /\ q[2] \in Nat /\ (q[1] < i \/ (q[1] = i /\ q[2] < j))
  <2>1. /\ q[1] \in 1 .. Len(m) /\ q[2] \in 1 .. Len(m[q[1]].subs)
        /\ q[1] < i \/ (q[1] = i /\ q[2] < j)
    BY Places
  <2> QED BY <1>1, <2>1
<1> QED BY <1>5, <1>6

(* The next record starts where this one ends.                               *)
LEMMA NextRecord ==
  ASSUME NEW m \in Seq(RecType), NEW i \in 1 .. Len(m)
  PROVE  Before(m, i + 1, 1) = Before(m, i, Len(m[i].subs) + 1)
<1>1. Len(m) \in Nat /\ i \in Nat BY ElementOf
<1>2. m[i].subs \in Seq(SubType) BY ElementOf, RecFields
<1>3. Len(m[i].subs) \in Nat BY <1>2, ElementOf
<1>4. ASSUME NEW q PROVE q \in Before(m, i + 1, 1) <=> q \in Before(m, i, Len(m[i].subs) + 1)
  <2> DEFINE In == q = <<q[1], q[2]>> /\ q[1] \in 1 .. Len(m) /\ q[2] \in 1 .. Len(m[q[1]].subs)
  <2>1. q \in Before(m, i + 1, 1) <=> In /\ (q[1] < i + 1 \/ (q[1] = i + 1 /\ q[2] < 1))
    BY Places
  <2>2. q \in Before(m, i, Len(m[i].subs) + 1) <=>
          In /\ (q[1] < i \/ (q[1] = i /\ q[2] < Len(m[i].subs) + 1))
    BY Places
  <2>3. In => ((q[1] < i + 1 \/ (q[1] = i + 1 /\ q[2] < 1))
               <=> (q[1] < i \/ (q[1] = i /\ q[2] < Len(m[i].subs) + 1)))
    <3>1. CASE q[1] = i BY <1>1, <1>3, <3>1
    <3>2. CASE q[1] # i BY <1>1, <3>2
    <3> QED BY <3>1, <3>2
  <2> QED BY <2>1, <2>2, <2>3
<1> QED BY <1>4

(* No subrecord comes before the first.                                      *)
LEMMA NothingBefore ==
  ASSUME NEW m \in Seq(RecType)
  PROVE  Before(m, 1, 1) = {}
<1>1. ASSUME NEW q \in Before(m, 1, 1) PROVE FALSE
  <2>1. /\ q[1] \in 1 .. Len(m) /\ q[2] \in 1 .. Len(m[q[1]].subs)
        /\ q[1] < 1 \/ (q[1] = 1 /\ q[2] < 1)
    BY Places
  <2> QED BY <2>1
<1> QED BY <1>1

-----------------------------------------------------------------------------
(* What a table says after one more subrecord.                               *)
LEMMA StandsStill ==
  ASSUME NEW m \in Seq(RecType), NEW i \in 1 .. Len(m), NEW j \in 1 .. Len(m[i].subs),
         NEW e, NEW d, NEW t, Stands(m, i, j, e, d, t), ~Defines(m, <<i, j>>, d, t)
  PROVE  Stands(m, i, j + 1, e, d, t)
<1>1. Before(m, i, j + 1) = Before(m, i, j) \cup {<<i, j>>} BY OneMoreSub
<1>2. \A q : q \in Before(m, i, j + 1) /\ Defines(m, q, d, t)
            <=> q \in Before(m, i, j) /\ Defines(m, q, d, t)
  BY <1>1
<1>3. \A q : LastDefinition(m, i, j + 1, d, t, q) <=> LastDefinition(m, i, j, d, t, q)
  BY <1>2 DEF LastDefinition
<1> QED BY <1>1, <1>2, <1>3 DEF Stands, IsDefined

(* A subrecord that defines the thread is its last definition.               *)
LEMMA StandsNew ==
  ASSUME NEW m \in Seq(RecType), NEW i \in 1 .. Len(m), NEW j \in 1 .. Len(m[i].subs),
         NEW d, NEW t, Defines(m, <<i, j>>, d, t)
  PROVE  Stands(m, i, j + 1, Entry(m[i].subs[j]), d, t)
<1> DEFINE q == <<i, j>>
<1>1. /\ Before(m, i, j + 1) = Before(m, i, j) \cup {q}
      /\ \A r \in Before(m, i, j) : /\ r[1] \in Nat /\ r[2] \in Nat
                                    /\ r[1] < i \/ (r[1] = i /\ r[2] < j)
  BY OneMoreSub
<1>2. q[1] = i /\ q[2] = j OBVIOUS
<1>3. m[i].subs \in Seq(SubType) BY ElementOf, RecFields
<1>4. i \in Nat /\ j \in Nat BY <1>3, ElementOf
<1>5. Defines(m, q, d, t) OBVIOUS
<1> HIDE DEF q
<1>6. ASSUME NEW r \in Before(m, i, j + 1) PROVE r[1] < q[1] \/ (r[1] = q[1] /\ r[2] <= q[2])
  <2>1. CASE r = q BY <1>2, <1>4, <2>1
  <2>2. CASE r \in Before(m, i, j)
    <3>1. r[1] \in Nat /\ r[2] \in Nat /\ (r[1] < i \/ (r[1] = i /\ r[2] < j)) BY <1>1, <2>2
    <3>2. r[1] < i \/ (r[1] = i /\ r[2] <= j) BY <1>4, <3>1
    <3> QED BY <1>2, <3>2
  <2> QED BY <1>1, <2>1, <2>2
<1>7. LastDefinition(m, i, j + 1, d, t, q) BY <1>1, <1>5, <1>6 DEF LastDefinition
<1>8. Entry(m[i].subs[j]).defined BY DEF Entry
<1> QED BY <1>1, <1>2, <1>7, <1>8 DEF Stands

(* Nothing is forgotten from one record to the next.                         *)
LEMMA StandsNext ==
  ASSUME NEW m \in Seq(RecType), NEW i \in 1 .. Len(m), NEW e, NEW d, NEW t,
         Stands(m, i, Len(m[i].subs) + 1, e, d, t)
  PROVE  Stands(m, i + 1, 1, e, d, t)
BY NextRecord DEF Stands, LastDefinition, IsDefined

(* A defined entry is the thread that OMF means.                             *)
LEMMA ThreadIs ==
  ASSUME NEW m \in Seq(RecType), NEW i, NEW j, NEW e, NEW d, NEW t,
         Stands(m, i, j, e, d, t), e.defined
  PROVE  Thread(m, i, j, d, t) = [method |-> e.method, datum |-> e.datum]
<1>1. PICK q \in Before(m, i, j) :
        LastDefinition(m, i, j, d, t, q) /\ e = Entry(m[q[1]].subs[q[2]])
  BY DEF Stands
<1>2. \A r \in Before(m, i, j) : r = <<r[1], r[2]>> /\ r[1] \in Int /\ r[2] \in Int
  BY Places
<1>3. ASSUME NEW r \in Before(m, i, j), LastDefinition(m, i, j, d, t, r)
      PROVE  r = q
  <2>1. /\ r[1] < q[1] \/ (r[1] = q[1] /\ r[2] <= q[2])
        /\ q[1] < r[1] \/ (q[1] = r[1] /\ q[2] <= r[2])
    BY <1>1, <1>3 DEF LastDefinition
  <2>2. r[1] = q[1] /\ r[2] = q[2] BY <1>2, <2>1
  <2> QED BY <1>2, <2>2
<1>4. (CHOOSE r \in Before(m, i, j) : LastDefinition(m, i, j, d, t, r)) = q BY <1>1, <1>3
<1>5. Thread(m, i, j, d, t) = [method |-> m[q[1]].subs[q[2]].method,
                               datum |-> m[q[1]].subs[q[2]].datum]
  BY <1>4 DEF Thread
<1>6. e.method = m[q[1]].subs[q[2]].method /\ e.datum = m[q[1]].subs[q[2]].datum
  BY <1>1 DEF Entry
<1> QED BY <1>5, <1>6

-----------------------------------------------------------------------------
(* Every thread a fixup names has been defined: the compiler sees to it.     *)
LEMMA DefinedLater ==
  ASSUME NEW m \in Seq(RecType), NEW n \in Seq(RecType), NEW i, NEW j, NEW d, NEW t,
         Len(m) <= Len(n),
         \A k \in 1 .. Len(m) : /\ Len(m[k].subs) <= Len(n[k].subs)
                                /\ \A h \in 1 .. Len(m[k].subs) : n[k].subs[h] = m[k].subs[h],
         IsDefined(m, i, j, d, t)
  PROVE  IsDefined(n, i, j, d, t)
<1>1. PICK q \in Before(m, i, j) : Defines(m, q, d, t) BY DEF IsDefined
<1>2. /\ q = <<q[1], q[2]>> /\ q[1] \in 1 .. Len(m) /\ q[2] \in 1 .. Len(m[q[1]].subs)
      /\ q[1] < i \/ (q[1] = i /\ q[2] < j)
  BY Places
<1>3. Len(m) \in Nat /\ Len(n) \in Nat BY ElementOf
<1>4. q[1] \in 1 .. Len(n) BY <1>2, <1>3
<1>5. Len(m[q[1]].subs) \in Nat /\ Len(n[q[1]].subs) \in Nat
  <2>1. m[q[1]].subs \in Seq(SubType) /\ n[q[1]].subs \in Seq(SubType)
    BY <1>2, <1>4, ElementOf, RecFields
  <2> QED BY <2>1, ElementOf
<1>6. q[2] \in 1 .. Len(n[q[1]].subs) /\ n[q[1]].subs[q[2]] = m[q[1]].subs[q[2]]
  BY <1>2, <1>5
<1>7. q \in Before(n, i, j) BY <1>2, <1>4, <1>6, Places
<1>8. Defines(n, q, d, t) BY <1>1, <1>6 DEF Defines
<1> QED BY <1>7, <1>8 DEF IsDefined

(* A record without subrecords names no thread.                              *)
LEMMA FoundAppend ==
  ASSUME NEW m \in Seq(RecType), ThreadsFound(m), NEW r \in RecType, r.subs = <<>>
  PROVE  ThreadsFound(Append(m, r))
<1> DEFINE n == Append(m, r)
<1>1. n \in Seq(RecType) /\ Len(n) = Len(m) + 1 /\ n[Len(m) + 1] = r
      /\ (\A k \in 1 .. Len(m) : n[k] = m[k])
  BY AppendRecord
<1> HIDE DEF n
<1>2. Len(m) \in Nat /\ DOMAIN m = 1 .. Len(m) /\ DOMAIN n = 1 .. Len(n) BY <1>1, ElementOf
<1>3. \A k \in 1 .. Len(m) : Len(m[k].subs) \in Nat
  <2>1. ASSUME NEW k \in 1 .. Len(m) PROVE m[k].subs \in Seq(SubType) BY ElementOf, RecFields
  <2> QED BY <2>1, ElementOf
<1>4. ASSUME NEW i, NEW j, NEW d, NEW t, IsDefined(m, i, j, d, t) PROVE IsDefined(n, i, j, d, t)
  <2>1. Len(m) <= Len(n) BY <1>1, <1>2
  <2>2. \A k \in 1 .. Len(m) : /\ Len(m[k].subs) <= Len(n[k].subs)
                               /\ \A h \in 1 .. Len(m[k].subs) : n[k].subs[h] = m[k].subs[h]
    BY <1>1, <1>3
  <2> QED BY <1>1, <1>4, <2>1, <2>2, DefinedLater
<1>5. ASSUME NEW i \in DOMAIN n, NEW j \in DOMAIN n[i].subs PROVE WellFormed(n, i, j, n[i].subs[j])
  <2>1. i # Len(m) + 1
    <3>1. DOMAIN r.subs = {} BY EmptySeq
    <3> QED BY <1>1, <1>5, <3>1
  <2>2. i \in DOMAIN m /\ n[i] = m[i] BY <1>1, <1>2, <2>1
  <2>3. WellFormed(m, i, j, m[i].subs[j]) BY <1>5, <2>2 DEF ThreadsFound
  <2> QED BY <1>4, <2>2, <2>3 DEF WellFormed
<1> QED BY <1>5 DEF ThreadsFound, n

(* The compiler adds only a fixup whose threads are defined.                 *)
LEMMA FoundAddSub ==
  ASSUME TypeInv, ThreadsFound(input), AddSub, TypeInv'
  PROVE  ThreadsFound(input')
<1> DEFINE m == input
           n == input'
           l == Len(input)
           r == input[Len(input)]
           j0 == Len(r.subs) + 1
<1>1. /\ l \in 1 .. l /\ l \in Nat /\ r \in RecType /\ r.type = "FIXUPP"
      /\ m \in Seq(RecType) /\ n \in Seq(RecType)
  BY AddedSub DEF TypeInv
<1>2. PICK s \in SubType :
        /\ WellFormed(m, l, j0, s)
        /\ [r EXCEPT !.subs = Append(r.subs, s)] \in RecType
        /\ n = [m EXCEPT ![l] = [r EXCEPT !.subs = Append(r.subs, s)]]
  BY AddedSub
<1> DEFINE x == [r EXCEPT !.subs = Append(r.subs, s)]
<1>3. r.subs \in Seq(SubType) /\ Len(r.subs) \in Nat BY <1>1, RecFields, ElementOf
<1>4. /\ x.subs = Append(r.subs, s) /\ x \in RecType
  BY <1>1, <1>2, <1>3, AppendProperties DEF RecType
<1>5. /\ Len(x.subs) = j0 /\ x.subs[j0] = s /\ x.subs \in Seq(SubType)
      /\ \A h \in 1 .. Len(r.subs) : x.subs[h] = r.subs[h]
  BY <1>2, <1>3, <1>4, AppendProperties
<1>6. DOMAIN x.subs = 1 .. j0 BY <1>5, ElementOf
<1>7. n = [m EXCEPT ![l] = x] BY <1>2
<1> HIDE DEF x, n, m, r
<1>8. Len(n) = l /\ \A k \in 1 .. l : n[k] = IF k = l THEN x ELSE m[k]
  BY <1>1, <1>4, <1>7, UpdateRecord DEF m
<1>9. r = m[l] BY DEF r, m
<1>10. \A k \in 1 .. l : Len(m[k].subs) \in Nat
  <2>1. ASSUME NEW k \in 1 .. l PROVE m[k].subs \in Seq(SubType)
    BY <1>1, ElementOf, RecFields DEF m
  <2> QED BY <2>1, ElementOf
<1>11. ASSUME NEW i, NEW j, NEW d, NEW t, IsDefined(m, i, j, d, t) PROVE IsDefined(n, i, j, d, t)
  <2>1. Len(m) <= Len(n) BY <1>1, <1>8 DEF m
  <2>2. ASSUME NEW k \in 1 .. Len(m)
        PROVE  /\ Len(m[k].subs) <= Len(n[k].subs)
               /\ \A h \in 1 .. Len(m[k].subs) : n[k].subs[h] = m[k].subs[h]
    <3>1. k \in 1 .. l BY DEF m
    <3>2. CASE k = l BY <1>3, <1>5, <1>8, <1>9, <3>1, <3>2
    <3>3. CASE k # l BY <1>8, <1>10, <3>1, <3>3
    <3> QED BY <3>2, <3>3
  <2> QED BY <1>1, <1>11, <2>1, <2>2, DefinedLater
<1>12. ASSUME NEW i \in DOMAIN n, NEW j \in DOMAIN n[i].subs
       PROVE  WellFormed(n, i, j, n[i].subs[j])
  <2>1. DOMAIN n = 1 .. l /\ DOMAIN m = 1 .. l BY <1>1, <1>8, ElementOf DEF m
  <2>2. CASE i = l /\ j = j0
    <3>1. n[i].subs[j] = s BY <1>1, <1>5, <1>8, <2>2
    <3> QED BY <1>2, <1>11, <2>2, <3>1 DEF WellFormed, m
  <2>3. CASE ~(i = l /\ j = j0)
    <3>1. j \in DOMAIN m[i].subs /\ n[i].subs[j] = m[i].subs[j]
      <4>1. CASE i = l
        <5>1. j \in 1 .. Len(r.subs)
          <6>1. n[i] = x BY <1>1, <1>8, <4>1
          <6>2. j \in 1 .. j0 /\ j # j0 BY <1>6, <1>12, <2>3, <4>1, <6>1
          <6> QED BY <1>3, <6>2
        <5>2. DOMAIN r.subs = 1 .. Len(r.subs) BY <1>3, ElementOf
        <5> QED BY <1>1, <1>5, <1>8, <1>9, <4>1, <5>1, <5>2
      <4>2. CASE i # l BY <1>8, <1>12, <2>1, <4>2
      <4> QED BY <4>1, <4>2
    <3>2. WellFormed(m, i, j, m[i].subs[j]) BY <2>1, <3>1 DEF ThreadsFound, m
    <3> QED BY <1>11, <3>1, <3>2 DEF WellFormed
  <2> QED BY <2>2, <2>3
<1> QED BY <1>12 DEF ThreadsFound, n

(* A module in which every fixup is explicit names no thread.                *)
LEMMA FoundSettled ==
  ASSUME NEW m \in Seq(RecType), Settled(m)
  PROVE  ThreadsFound(m)
<1>1. ASSUME NEW i \in DOMAIN m, NEW j \in DOMAIN m[i].subs PROVE WellFormed(m, i, j, m[i].subs[j])
  <2>1. i \in 1 .. Len(m) /\ m[i] \in RecType BY ElementOf
  <2>2. m[i].subs \in Seq(SubType) BY <2>1, RecFields
  <2>3. j \in 1 .. Len(m[i].subs) BY <2>2, ElementOf
  <2>4. m[i].type = "FIXUPP"
    <3>1. m[i].subs # <<>> BY <2>3, EmptySeq
    <3> QED BY <2>1, <3>1, RecFields
  <2>5. IsExplicit(m[i].subs[j]) BY <2>1, <2>3, <2>4 DEF Settled
  <2>6. m[i].subs[j].kind = "fixup" BY <2>5 DEF IsExplicit, FixupType
  <2> QED BY <2>5, <2>6 DEF WellFormed, IsExplicit
<1> QED BY <1>1 DEF ThreadsFound

(* Every step keeps it that fixups find their threads.                       *)
LEMMA FoundStep ==
  ASSUME TypeInv, ThreadsFound(input), AgainInv, [Next]_vars, TypeInv'
  PROVE  ThreadsFound(input')
<1>1. input \in Seq(RecType) /\ destination.recs \in Seq(RecType) BY DEF TypeInv
<1>2. CASE UNCHANGED input BY <1>2
<1>3. CASE AddRecord
  <2>1. PICK r \in PlainRecords : input' = Append(input, r) BY <1>3 DEF AddRecord
  <2> QED BY <1>1, <2>1, NewRec, FoundAppend
<1>4. CASE AddSub BY <1>4, FoundAddSub
<1>5. CASE Parse
  <2>1. \/ input' = Append(input, Rec("MODEND", 0, 0, 0)) \/ input' = input
    BY <1>5 DEF Parse
  <2>2. ThreadsFound(Append(input, Rec("MODEND", 0, 0, 0))) BY <1>1, NewRec, FoundAppend
  <2> QED BY <2>1, <2>2
<1>6. CASE RunAgain
  <2>1. input' = destination.recs /\ destination.is = "whole" BY <1>6 DEF RunAgain
  <2> QED BY <1>1, <2>1, FoundSettled DEF AgainInv
<1>7. CASE ~(AddRecord \/ AddSub \/ Parse \/ RunAgain)
  <2>1. UNCHANGED input
    BY <1>7 DEF Next, vars, ComputeSize, StartPass, PatchSegdef, ExpandFixup, ReadThread,
       EndFixupp, CopyRecord, WriteObject
  <2> QED BY <1>2, <2>1
<1> QED BY <1>3, <1>4, <1>5, <1>6, <1>7

-----------------------------------------------------------------------------
(* The tables keep up with the subrecords that are read.                     *)
LEMMA TableStep ==
  ASSUME TypeInv, PassInv, ThreadInv, [Next]_vars
  PROVE  TableInv'
<1>1. input \in Seq(RecType) /\ Len(input) \in Nat /\ pos \in Nat \ {0}
  BY Lists DEF TypeInv
<1>2. ASSUME phase' # "fixups" PROVE TableInv' BY <1>2 DEF TableInv
<1>3. CASE AddRecord \/ AddSub BY <1>2, <1>3 DEF AddRecord, AddSub
<1>4. CASE Parse \/ WriteObject \/ RunAgain BY <1>2, <1>4 DEF Parse, WriteObject, RunAgain
<1>5. CASE ComputeSize \/ PatchSegdef BY <1>2, <1>5 DEF ComputeSize, PatchSegdef, More
<1>6. CASE StartPass("sizes", "segdefs") \/ StartPass("fixups", "write")
  BY <1>2, <1>6 DEF StartPass
<1>7. CASE StartPass("segdefs", "fixups")
  <2>1. phase = "segdefs" /\ pos' = 1 /\ UNCHANGED <<input, sub, frames, targets>>
    BY <1>7 DEF StartPass
  <2>2. sub = 1 /\ \A t \in Threads : frames[t] = Undefined /\ targets[t] = Undefined
    BY <2>1 DEF PassInv, StartInv, Fresh
  <2>3. \A d, t : ~IsDefined(input, 1, 1, d, t) BY <1>1, NothingBefore DEF IsDefined
  <2>4. \A d, t : Stands(input, 1, 1, Undefined, d, t) BY <2>3, EmptyTable DEF Stands
  <2> QED BY <2>1, <2>2, <2>4 DEF TableInv
<1>8. ASSUME InFixupp, sub <= Len(Subs)
      PROVE  /\ pos \in 1 .. Len(input) /\ sub \in 1 .. Len(input[pos].subs)
             /\ Subs[sub] = input[pos].subs[sub] /\ Subs[sub] \in SubType
             /\ \A t \in Threads : /\ Stands(input, pos, sub, frames[t], TRUE, t)
                                   /\ Stands(input, pos, sub, targets[t], FALSE, t)
  BY <1>8, Current, CurrentSub DEF ThreadInv, TableInv
<1>9. CASE ExpandFixup
  <2>1. InFixupp /\ sub <= Len(Subs) /\ Subs[sub].kind = "fixup" BY <1>9 DEF ExpandFixup
  <2>2. UNCHANGED <<input, pos, frames, targets>> /\ sub' = sub + 1 BY <1>9 DEF ExpandFixup
  <2>3. \A d, t : ~Defines(input, <<pos, sub>>, d, t) BY <1>8, <2>1 DEF Defines
  <2>4. \A t \in Threads : /\ Stands(input, pos, sub + 1, frames[t], TRUE, t)
                           /\ Stands(input, pos, sub + 1, targets[t], FALSE, t)
    BY <1>1, <1>8, <2>1, <2>3, StandsStill
  <2> QED BY <2>2, <2>4 DEF TableInv
<1>10. CASE ReadThread
  <2> DEFINE s == Subs[sub]
  <2>1. InFixupp /\ sub <= Len(Subs) /\ s.kind = "thread" /\ DefineThread(s)
    BY <1>10 DEF ReadThread
  <2>2. UNCHANGED <<input, pos>> /\ sub' = sub + 1 BY <1>10 DEF ReadThread
  <2>3. s \in ThreadType /\ s = input[pos].subs[sub] BY <1>8, <2>1, SubKinds
  <2>4. frames \in [Threads -> EntryType] /\ targets \in [Threads -> EntryType] BY DEF TypeInv
  <2> HIDE DEF s
  <2>5. s.frame \in BOOLEAN /\ s.num \in Threads BY <2>3, ThreadFields
  <2>6. \A d, t : Defines(input, <<pos, sub>>, d, t) <=> s.frame = d /\ s.num = t
    BY <2>1, <2>3 DEF Defines
  <2>7. \A t \in Threads :
          /\ frames'[t] = IF s.frame /\ t = s.num THEN Entry(s) ELSE frames[t]
          /\ targets'[t] = IF ~s.frame /\ t = s.num THEN Entry(s) ELSE targets[t]
    BY <2>1, <2>4, <2>5 DEF DefineThread
  <2>8. ASSUME NEW t \in Threads
        PROVE  /\ Stands(input, pos, sub + 1, frames'[t], TRUE, t)
               /\ Stands(input, pos, sub + 1, targets'[t], FALSE, t)
    <3>1. /\ Stands(input, pos, sub, frames[t], TRUE, t)
          /\ Stands(input, pos, sub, targets[t], FALSE, t)
      BY <1>8, <2>1
    <3>2. \A d : Defines(input, <<pos, sub>>, d, t) => Stands(input, pos, sub + 1, Entry(s), d, t)
      BY <1>1, <1>8, <2>1, <2>3, StandsNew
    <3>3. /\ ~Defines(input, <<pos, sub>>, TRUE, t) => Stands(input, pos, sub + 1, frames[t], TRUE, t)
          /\ ~Defines(input, <<pos, sub>>, FALSE, t) => Stands(input, pos, sub + 1, targets[t], FALSE, t)
      BY <1>1, <1>8, <2>1, <3>1, StandsStill
    <3>4. CASE s.frame /\ t = s.num
      <4>1. Defines(input, <<pos, sub>>, TRUE, t) /\ ~Defines(input, <<pos, sub>>, FALSE, t)
        BY <2>5, <2>6, <3>4
      <4>2. frames'[t] = Entry(s) /\ targets'[t] = targets[t] BY <2>7, <3>4
      <4> QED BY <3>2, <3>3, <4>1, <4>2
    <3>5. CASE ~s.frame /\ t = s.num
      <4>1. ~Defines(input, <<pos, sub>>, TRUE, t) /\ Defines(input, <<pos, sub>>, FALSE, t)
        BY <2>5, <2>6, <3>5
      <4>2. frames'[t] = frames[t] /\ targets'[t] = Entry(s) BY <2>7, <3>5
      <4> QED BY <3>2, <3>3, <4>1, <4>2
    <3>6. CASE t # s.num
      <4>1. ~Defines(input, <<pos, sub>>, TRUE, t) /\ ~Defines(input, <<pos, sub>>, FALSE, t)
        BY <2>6, <3>6
      <4>2. frames'[t] = frames[t] /\ targets'[t] = targets[t] BY <2>7, <3>6
      <4> QED BY <3>3, <4>1, <4>2
    <3> QED BY <2>5, <3>4, <3>5, <3>6
  <2> QED BY <2>2, <2>8 DEF TableInv
<1>11. CASE EndFixupp \/ CopyRecord
  <2>1. /\ More("fixups") /\ pos' = pos + 1 /\ UNCHANGED <<input, frames, targets>>
        /\ phase = "fixups"
    BY <1>11 DEF EndFixupp, CopyRecord, InFixupp, More
  <2>2. SameButLength /\ pos \in 1 .. Len(records)
    BY <2>1, Processed DEF PassInv, SameInv
  <2>3. pos \in 1 .. Len(input) /\ pos <= Len(input) BY <1>1, <2>2 DEF SameButLength
  <2>4. sub = Len(input[pos].subs) + 1 /\ sub' = 1
    <3>1. CASE EndFixupp
      <4>1. InFixupp /\ sub > Len(Subs) /\ sub' = 1 BY <3>1 DEF EndFixupp
      <4> QED BY <4>1, Current
    <3>2. CASE CopyRecord
      <4>1. records[pos].type # "FIXUPP" /\ sub' = sub BY <3>2 DEF CopyRecord
      <4>2. sub = 1 BY <2>1, <4>1 DEF ThreadInv, OutInv, Pending, InFixupp
      <4>3. input[pos] \in RecType /\ input[pos].type # "FIXUPP"
        <5>1. input[pos] \in RecType BY <2>3, Lists
        <5>2. records[pos] = [input[pos] EXCEPT !.len = records[pos].len]
          BY <2>2, <2>3 DEF SameButLength
        <5>3. records[pos].type = input[pos].type BY <5>1, <5>2 DEF RecType
        <5> QED BY <4>1, <5>1, <5>3
      <4>4. Len(input[pos].subs) = 0 BY <4>3, RecFields, EmptySeq
      <4> QED BY <4>1, <4>2, <4>4
    <3> QED BY <1>11, <3>1, <3>2
  <2>5. \A t \in Threads : /\ Stands(input, pos, sub, frames[t], TRUE, t)
                           /\ Stands(input, pos, sub, targets[t], FALSE, t)
    BY <2>1, <2>3 DEF ThreadInv, TableInv
  <2>6. \A t \in Threads : /\ Stands(input, pos + 1, 1, frames[t], TRUE, t)
                           /\ Stands(input, pos + 1, 1, targets[t], FALSE, t)
    BY <1>1, <2>3, <2>4, <2>5, StandsNext
  <2> QED BY <2>1, <2>4, <2>6 DEF TableInv
<1>12. CASE UNCHANGED vars BY <1>12 DEF vars, passes, ThreadInv, TableInv
<1> QED BY <1>3, <1>4, <1>5, <1>6, <1>7, <1>9, <1>10, <1>11, <1>12 DEF Next

-----------------------------------------------------------------------------
(* How many fixups there are, and one more.                                  *)
LEMMA FixupCount ==
  ASSUME NEW m, NEW i, NEW j \in Nat \ {0}
  PROVE  /\ Cardinality(FixupsTo(m, i, j - 1)) \in Nat
         /\ Cardinality(FixupsTo(m, i, j)) =
              Cardinality(FixupsTo(m, i, j - 1)) + IF m[i].subs[j].kind = "fixup" THEN 1 ELSE 0
<1>1. IsFiniteSet(1 .. (j - 1)) BY FS_Interval
<1>2. FixupsTo(m, i, j - 1) \in SUBSET (1 .. (j - 1)) BY DEF FixupsTo
<1>3. IsFiniteSet(FixupsTo(m, i, j - 1)) BY <1>1, <1>2, FS_Subset
<1>4. Cardinality(FixupsTo(m, i, j - 1)) \in Nat BY <1>3, FS_CardinalityType
<1>5. j \notin FixupsTo(m, i, j - 1) BY DEF FixupsTo
<1>7. CASE m[i].subs[j].kind = "fixup"
  <2>1. FixupsTo(m, i, j) = FixupsTo(m, i, j - 1) \cup {j} BY <1>7 DEF FixupsTo
  <2> QED BY <1>3, <1>4, <1>5, <1>7, <2>1, FS_AddElement
<1>8. CASE m[i].subs[j].kind # "fixup"
  <2>1. \A k : k \in FixupsTo(m, i, j) <=> k \in FixupsTo(m, i, j - 1) BY <1>8 DEF FixupsTo
  <2>2. FixupsTo(m, i, j) = FixupsTo(m, i, j - 1) BY <2>1
  <2> QED BY <1>4, <1>8, <2>2
<1> QED BY <1>7, <1>8

(* There is no fixup before the first subrecord.                             *)
LEMMA NoFixupsYet ==
  ASSUME NEW m, NEW i
  PROVE  Cardinality(FixupsTo(m, i, 0)) = 0
<1>1. FixupsTo(m, i, 0) = {} BY DEF FixupsTo
<1> QED BY <1>1, FS_EmptySet

(* No fixup at all: the record only defines threads.                         *)
LEMMA NoFixups ==
  ASSUME NEW m \in Seq(RecType), NEW i \in 1 .. Len(m), m[i].type = "FIXUPP",
         Cardinality(FixupsTo(m, i, Len(m[i].subs))) = 0
  PROVE  OnlyThreads(m[i])
<1>1. m[i].subs \in Seq(SubType) BY ElementOf, RecFields
<1> DEFINE n == Len(m[i].subs)
           F == FixupsTo(m, i, n)
<1>2. n \in Nat /\ DOMAIN m[i].subs = 1 .. n /\ \A j \in 1 .. n : m[i].subs[j] \in SubType
  BY <1>1, ElementOf
<1>3. IsFiniteSet(1 .. n)
  <2> HIDE DEF n
  <2>1. 1 \in Int /\ n \in Int BY <1>2
  <2> QED BY <2>1, FS_Interval
<1>4. F \in SUBSET (1 .. n) BY DEF FixupsTo
<1>5. IsFiniteSet(F) BY <1>3, <1>4, FS_Subset
<1>6. F = {} BY <1>5, FS_EmptySet
<1>7. \A j \in 1 .. n : m[i].subs[j].kind # "fixup" BY <1>6 DEF FixupsTo
<1> QED BY <1>2, <1>7, SubKinds DEF OnlyThreads

(* The explicit fixup means what the fixup it is made of means.              *)
LEMMA ExplicitRenders ==
  ASSUME TypeInv, PassInv, ThreadInv, InFixupp, sub <= Len(Subs), Subs[sub].kind = "fixup",
         NEW l, l = Cardinality(FixupsTo(input, pos, sub))
  PROVE  Renders(input, Explicit(Subs[sub]), pos, l)
<1> DEFINE s == Subs[sub]
           e == Explicit(s)
<1>1. s \in FixupType /\ IsFrame(Frame(s)) /\ IsTarget(Target(s)) BY MadeExplicit
<1>2. /\ e \in FixupType /\ IsExplicit(e) /\ e.locat = s.locat
      /\ OwnFrame(e) = Frame(s) /\ OwnTarget(e) = Denoted(Target(s))
  BY <1>1, ExplicitFixup
<1>3. s.f => frames[s.fm].defined BY ThreadsDefined
<1>4. s.t => targets[s.tm].defined BY ThreadsDefined
<1>5. sub \in DOMAIN input[pos].subs /\ s = input[pos].subs[sub] /\ pos <= Len(input)
      /\ phase = "fixups" /\ s.kind = "fixup"
  BY Current, CurrentSub
<1> HIDE DEF e, s
<1>6. /\ s.f => s.fm \in Threads
      /\ s.t => s.tm \in Threads
      /\ s.f \in BOOLEAN /\ s.t \in BOOLEAN /\ s.p \in BOOLEAN
  BY <1>1, FixupFields
<1>7. \A t \in Threads : /\ Stands(input, pos, sub, frames[t], TRUE, t)
                         /\ Stands(input, pos, sub, targets[t], FALSE, t)
  BY <1>5 DEF ThreadInv, TableInv
<1>8. input \in Seq(RecType) BY DEF TypeInv
<1>9. FrameOf(input, pos, sub) = Frame(s)
  <2>1. CASE s.f
    <3> DEFINE x == frames[s.fm]
    <3>1. x.defined /\ Stands(input, pos, sub, x, TRUE, s.fm) BY <1>3, <1>6, <1>7, <2>1
    <3>2. Frame(s) = [method |-> x.method, datum |-> x.datum] BY <2>1, <3>1 DEF Frame
    <3>3. FrameOf(input, pos, sub) = Thread(input, pos, sub, TRUE, s.fm)
      BY <1>5, <2>1 DEF FrameOf
    <3> HIDE DEF x
    <3>4. \A d, t : Stands(input, pos, sub, x, d, t) =>
            Thread(input, pos, sub, d, t) = [method |-> x.method, datum |-> x.datum]
      BY <1>8, <3>1, ThreadIs
    <3>5. Thread(input, pos, sub, TRUE, s.fm) = [method |-> x.method, datum |-> x.datum]
      BY <3>1, <3>4
    <3> QED BY <3>2, <3>3, <3>5
  <2>2. CASE ~s.f BY <1>5, <2>2 DEF FrameOf, OwnFrame, Frame
  <2> QED BY <2>1, <2>2
<1>10. TargetOf(input, pos, sub) = Denoted(Target(s))
  <2>1. FrameRead(s) = FrameData(s) BY DEF FrameRead, FrameData
  <2>2. CASE s.t
    <3> DEFINE x == targets[s.tm]
               c == IF s.p THEN <<>> ELSE <<s.data[FrameData(s) + 1]>>
    <3>1. x.defined /\ Stands(input, pos, sub, x, FALSE, s.tm) BY <1>4, <1>6, <1>7, <2>2
    <3>2. TargetOf(input, pos, sub) = [thread |-> Thread(input, pos, sub, FALSE, s.tm), disp |-> c]
      BY <1>5, <2>2 DEF TargetOf
    <3>3. Target(s).method % 4 = x.method BY <1>1, <1>4, <2>2, TargetFound
    <3>4. Target(s).datum = x.datum /\ Target(s).disp = c BY <2>1, <2>2, <3>1 DEF Target
    <3> HIDE DEF x, c
    <3>5. \A d, t : Stands(input, pos, sub, x, d, t) =>
            Thread(input, pos, sub, d, t) = [method |-> x.method, datum |-> x.datum]
      BY <1>8, <3>1, ThreadIs
    <3>6. Thread(input, pos, sub, FALSE, s.tm) = [method |-> x.method, datum |-> x.datum]
      BY <3>1, <3>5
    <3> QED BY <3>2, <3>3, <3>4, <3>6 DEF Denoted
  <2>3. CASE ~s.t
    <3> DEFINE k == FrameData(s)
               c == IF s.tm <= 3 THEN <<s.data[k + 2]>> ELSE <<>>
    <3>1. Target(s).method = s.tm /\ Target(s).datum = s.data[k + 1] /\ Target(s).disp = c
      BY <2>1, <2>3 DEF Target
    <3>2. TargetOf(input, pos, sub) = OwnTarget(s) BY <1>5, <2>3 DEF TargetOf
    <3>3. OwnTarget(s) = [thread |-> [method |-> s.tm % 4, datum |-> s.data[k + 1]], disp |-> c]
      BY DEF OwnTarget
    <3> HIDE DEF k, c
    <3> QED BY <3>1, <3>2, <3>3 DEF Denoted
  <2> QED BY <2>2, <2>3
<1>11. e.kind = "fixup" /\ ~e.f /\ ~e.t /\ Complete(e) BY <1>2 DEF FixupType, IsExplicit
<1>12. IsFixup(input, pos, sub, l) BY <1>5 DEF IsFixup
<1>13. input[pos].subs[sub].locat = e.locat BY <1>2, <1>5
<1>14. Renders(input, e, pos, l)
  <2>1. FrameOf(input, pos, sub) = OwnFrame(e) /\ TargetOf(input, pos, sub) = OwnTarget(e)
    BY <1>2, <1>9, <1>10
  <2> QED BY <1>5, <1>11, <1>12, <1>13, <2>1 DEF Renders
<1> QED BY <1>14 DEF e, s

-----------------------------------------------------------------------------
(* One more record dealt with.                                               *)
LEMMA TracedMore ==
  ASSUME NEW m, NEW o \in Seq(Nat), NEW n \in Nat, Traced(m, o, n)
  PROVE  /\ Traced(m, Append(o, n + 1), n + 1)
         /\ OnlyThreads(m[n + 1]) => Traced(m, o, n + 1)
<1> DEFINE q == Append(o, n + 1)
<1>1. /\ Len(o) \in Nat /\ Len(q) = Len(o) + 1 /\ q[Len(o) + 1] = n + 1
      /\ \A k \in 1 .. Len(o) : q[k] = o[k]
  BY ElementOf, AppendProperties
<1>2. /\ Len(o) <= n
      /\ \A k, l \in 1 .. Len(o) : k < l => o[k] < o[l]
      /\ \A k \in 1 .. Len(o) : o[k] \in 1 .. n
      /\ \A i \in 1 .. n : (\E k \in 1 .. Len(o) : o[k] = i) \/ OnlyThreads(m[i])
  BY DEF Traced
<1> HIDE DEF q
<1>3. 1 .. (n + 1) = (1 .. n) \cup {n + 1} /\ 1 .. Len(q) = (1 .. Len(o)) \cup {Len(o) + 1}
  BY <1>1
<1>4. \A k, l \in 1 .. Len(q) : k < l => q[k] < q[l]
  <2>1. ASSUME NEW k \in 1 .. Len(q), NEW l \in 1 .. Len(q), k < l PROVE q[k] < q[l]
    <3>1. k \in 1 .. Len(o) BY <1>1, <2>1
    <3>2. q[k] = o[k] /\ o[k] \in 1 .. n BY <1>1, <1>2, <3>1
    <3>3. CASE l = Len(o) + 1 BY <1>1, <3>2, <3>3
    <3>4. CASE l \in 1 .. Len(o) BY <1>1, <1>2, <2>1, <3>1, <3>4
    <3> QED BY <1>3, <3>3, <3>4
  <2> QED BY <2>1
<1>5. \A k \in 1 .. Len(q) : q[k] \in 1 .. (n + 1) BY <1>1, <1>2, <1>3
<1>6. ASSUME NEW i \in 1 .. (n + 1)
      PROVE  (\E k \in 1 .. Len(q) : q[k] = i) \/ OnlyThreads(m[i])
  <2>1. CASE i = n + 1
    <3>1. Len(o) + 1 \in 1 .. Len(q) BY <1>1
    <3> QED BY <1>1, <2>1, <3>1
  <2>2. CASE i \in 1 .. n
    <3>1. \A k \in 1 .. Len(o) : k \in 1 .. Len(q) /\ q[k] = o[k] BY <1>1, <1>3
    <3> QED BY <1>2, <2>2, <3>1
  <2> QED BY <1>3, <2>1, <2>2
<1>7. Len(q) <= n + 1 BY <1>1, <1>2
<1>8. Traced(m, q, n + 1) BY <1>4, <1>5, <1>6, <1>7 DEF Traced
<1>9. OnlyThreads(m[n + 1]) => Traced(m, o, n + 1)
  <2>1. Len(o) <= n + 1 /\ \A k \in 1 .. Len(o) : o[k] \in 1 .. (n + 1) BY <1>1, <1>2, <1>3
  <2> QED BY <1>2, <1>3, <2>1 DEF Traced
<1> QED BY <1>8, <1>9 DEF q

(* Nothing of a record has been expanded when the pass comes to it.          *)
LEMMA NothingPending ==
  ASSUME TypeInv', sub' = 1, fixups' = <<>>
  PROVE  Pending'
<1>1. ASSUME InFixupp' PROVE Expanded'
  <2>1. /\ records' \in Seq(RecType) /\ pos' \in Nat \ {0} /\ pos' <= Len(records')
        /\ Subs' = records'[pos'].subs
    BY <1>1 DEF TypeInv, InFixupp, More, Subs
  <2>2. records'[pos'] \in RecType BY <2>1, ElementOf
  <2>3. Len(Subs') \in Nat
    <3>1. records'[pos'].subs \in Seq(SubType) BY <2>2, RecFields
    <3> QED BY <2>1, <3>1, ElementOf
  <2>4. sub' - 1 = 0 /\ sub' <= Len(Subs') + 1 OBVIOUS
  <2>5. Cardinality(FixupsTo(input', pos', 0)) = 0 BY NoFixupsYet
  <2>6. Len(fixups') = 0 BY EmptySeq
  <2> QED BY <2>4, <2>5, <2>6 DEF Expanded
<1> QED BY <1>1 DEF Pending

(* A record that is written is the next.                                     *)
LEMMA CopiedMore ==
  ASSUME TypeInv,
         \A k \in 1 .. Len(out) : Copied(input, records, out[k], origin[k]),
         NEW r \in RecType, Copied(input, records, r, pos),
         out' = Append(out, r), origin' = Append(origin, pos)
  PROVE  \A k \in 1 .. Len(out') : Copied(input, records, out'[k], origin'[k])
<1>1. /\ Len(out) \in Nat /\ Len(out') = Len(out) + 1 /\ out'[Len(out) + 1] = r
      /\ \A k \in 1 .. Len(out) : out'[k] = out[k]
  BY AppendRecord, Lists DEF TypeInv
<1>2. /\ origin'[Len(out) + 1] = pos
      /\ \A k \in 1 .. Len(out) : origin'[k] = origin[k]
  <2>1. origin \in Seq(Nat) /\ Len(origin) = Len(out) /\ pos \in Nat BY DEF TypeInv
  <2> QED BY <2>1, AppendProperties
<1>3. 1 .. Len(out') = (1 .. Len(out)) \cup {Len(out) + 1} BY <1>1
<1>4. ASSUME NEW k \in 1 .. Len(out') PROVE Copied(input, records, out'[k], origin'[k])
  <2>1. CASE k = Len(out) + 1 BY <1>1, <1>2, <2>1
  <2>2. CASE k \in 1 .. Len(out) BY <1>1, <1>2, <2>2
  <2> QED BY <1>3, <2>1, <2>2
<1> QED BY <1>4

(* The record the third pass has come to.                                    *)
LEMMA CurrentRecord ==
  ASSUME TypeInv, PassInv, More("fixups")
  PROVE  /\ phase = "fixups" /\ pos \in 1 .. Len(input) /\ pos <= Len(records)
         /\ records[pos] \in RecType /\ input[pos] \in RecType
         /\ records[pos].type = input[pos].type /\ records[pos].subs = input[pos].subs
         /\ pos' = pos + 1 => pos' - 1 = pos
<1>1. phase = "fixups" /\ pos \in 1 .. Len(records) /\ records[pos] \in RecType BY Processed
<1>2. SameButLength BY <1>1 DEF PassInv, SameInv
<1>3. pos \in 1 .. Len(input) /\ Len(input) \in Nat BY <1>1, <1>2, Lists DEF SameButLength
<1>4. input[pos] \in RecType BY <1>3, Lists
<1>5. records[pos] = [input[pos] EXCEPT !.len = records[pos].len] BY <1>2, <1>3 DEF SameButLength
<1>6. records[pos].type = input[pos].type /\ records[pos].subs = input[pos].subs
  BY <1>4, <1>5 DEF RecType
<1> QED BY <1>1, <1>3, <1>4, <1>6

(* Every step keeps it that what has been made stands for what was read.     *)
LEMMA OutStep ==
  ASSUME TypeInv, PassInv, ThreadInv, [Next]_vars, TypeInv'
  PROVE  OutInv'
<1>1. /\ Len(input) \in Nat /\ Len(records) \in Nat /\ Len(out) \in Nat /\ Len(fixups) \in Nat
      /\ pos \in Nat \ {0} /\ sub \in Nat \ {0} /\ origin \in Seq(Nat) /\ OutInv
  BY Lists DEF TypeInv, ThreadInv
<1>2. ASSUME phase' \notin {"fixups", "write"} PROVE OutInv' BY <1>2 DEF OutInv
<1>3. CASE AddRecord \/ AddSub BY <1>2, <1>3 DEF AddRecord, AddSub
<1>4. CASE Parse \/ WriteObject \/ RunAgain BY <1>2, <1>4 DEF Parse, WriteObject, RunAgain
<1>5. CASE ComputeSize \/ PatchSegdef BY <1>2, <1>5 DEF ComputeSize, PatchSegdef, More
<1>6. CASE StartPass("sizes", "segdefs") BY <1>2, <1>6 DEF StartPass
<1>7. CASE StartPass("segdefs", "fixups")
  <2>1. /\ phase = "segdefs" /\ phase' = "fixups" /\ pos' = 1
        /\ UNCHANGED <<input, sub, fixups, out, origin>>
    BY <1>7 DEF StartPass
  <2>2. sub = 1 /\ fixups = <<>> /\ out = <<>> /\ origin = <<>>
    BY <2>1 DEF PassInv, StartInv, Fresh
  <2>3. Pending' BY <2>1, <2>2, NothingPending
  <2>4. Done' = 0 BY <2>1 DEF Done
  <2>5. Len(out') = 0 /\ Len(origin') = 0 BY <2>1, <2>2, EmptySeq
  <2>6. Traced(input', origin', 0) BY <2>5 DEF Traced
  <2> QED BY <2>3, <2>4, <2>5, <2>6 DEF OutInv
<1>8. ASSUME InFixupp
      PROVE  /\ Traced(input, origin, pos - 1) /\ Expanded
             /\ \A k \in 1 .. Len(out) : Copied(input, records, out[k], origin[k])
  BY <1>1, <1>8, Current DEF OutInv, Pending, Done
<1>9. CASE ExpandFixup \/ ReadThread
  <2>1. /\ InFixupp /\ sub <= Len(Subs) /\ sub' = sub + 1 /\ InFixupp' /\ phase' = "fixups"
        /\ UNCHANGED <<pos, out, origin, records, input, phase>>
    BY <1>9 DEF ExpandFixup, ReadThread, InFixupp, More
  <2>2. Done' = pos - 1 BY <2>1 DEF Done
  <2>3. sub' - 1 = sub /\ sub' <= Len(Subs') + 1
    <3>1. Len(Subs) \in Nat /\ Subs' = Subs BY <2>1, Current DEF Subs
    <3> QED BY <1>1, <2>1, <3>1
  <2>4. /\ Cardinality(FixupsTo(input, pos, sub - 1)) = Len(fixups)
        /\ Cardinality(FixupsTo(input, pos, sub)) =
             Len(fixups) + IF input[pos].subs[sub].kind = "fixup" THEN 1 ELSE 0
        /\ \A l \in 1 .. Len(fixups) : Renders(input, fixups[l], pos, l)
    BY <1>1, <1>8, <2>1, FixupCount DEF Expanded
  <2>5. Subs[sub] = input[pos].subs[sub] BY <2>1, CurrentSub
  <2>6. /\ Len(fixups') = Cardinality(FixupsTo(input, pos, sub))
        /\ \A l \in 1 .. Len(fixups') : Renders(input, fixups'[l], pos, l)
    <3>1. CASE ReadThread
      <4>1. fixups' = fixups /\ Subs[sub].kind = "thread" BY <3>1 DEF ReadThread
      <4> QED BY <1>1, <2>4, <2>5, <4>1
    <3>2. CASE ExpandFixup
      <4> DEFINE e == Explicit(Subs[sub])
      <4>1. Subs[sub].kind = "fixup" /\ fixups' = Append(fixups, e) BY <3>2 DEF ExpandFixup
      <4>2. e \in FixupType BY <2>1, <4>1, MadeExplicit
      <4>3. \A l : l = Cardinality(FixupsTo(input, pos, sub)) => Renders(input, e, pos, l)
        BY <2>1, <4>1, ExplicitRenders
      <4> HIDE DEF e
      <4>4. /\ Len(fixups') = Len(fixups) + 1 /\ fixups'[Len(fixups) + 1] = e
            /\ \A l \in 1 .. Len(fixups) : fixups'[l] = fixups[l]
        BY <4>1, <4>2, AppendProperties DEF TypeInv
      <4>5. Cardinality(FixupsTo(input, pos, sub)) = Len(fixups) + 1 BY <2>4, <2>5, <4>1
      <4>6. 1 .. Len(fixups') = (1 .. Len(fixups)) \cup {Len(fixups) + 1} BY <1>1, <4>4
      <4> QED BY <2>4, <4>3, <4>4, <4>5, <4>6
    <3> QED BY <1>9, <3>1, <3>2
  <2>7. Expanded' BY <2>1, <2>3, <2>6 DEF Expanded
  <2> QED BY <1>8, <2>1, <2>2, <2>7 DEF OutInv, Pending
<1>10. CASE EndFixupp
  <2>1. /\ InFixupp /\ sub > Len(Subs) /\ fixups' = <<>> /\ sub' = 1 /\ pos' = pos + 1
        /\ UNCHANGED <<phase, records, input>> /\ More("fixups")
    BY <1>10 DEF EndFixupp, InFixupp
  <2>2. /\ Traced(input, origin, pos - 1) /\ Expanded
        /\ \A k \in 1 .. Len(out) : Copied(input, records, out[k], origin[k])
    BY <1>8, <2>1
  <2>3. /\ pos \in 1 .. Len(input) /\ records[pos] = input[pos] /\ records[pos] \in RecType
        /\ input[pos].type = "FIXUPP" /\ sub - 1 = Len(input[pos].subs) /\ phase = "fixups"
    <3>1. sub = Len(Subs) + 1 BY <2>1, Current
    <3> QED BY <2>1, <3>1, Current
  <2>4. /\ Len(fixups) = Cardinality(FixupsTo(input, pos, Len(input[pos].subs)))
        /\ \A l \in 1 .. Len(fixups) : Renders(input, fixups[l], pos, l)
    BY <2>2, <2>3 DEF Expanded
  <2>5. Pending' BY <2>1, NothingPending
  <2>6. Done' = pos BY <1>1, <2>1, <2>3 DEF Done
  <2>7. pos - 1 \in Nat /\ pos - 1 + 1 = pos BY <1>1
  <2>8. CASE fixups = <<>>
    <3>1. out' = out /\ origin' = origin BY <1>10, <2>8 DEF EndFixupp
    <3>2. Len(fixups) = 0 BY <2>8, EmptySeq
    <3>3. OnlyThreads(input[pos]) BY <2>3, <2>4, <3>2, NoFixups DEF TypeInv
    <3>4. Traced(input, origin, pos) BY <1>1, <2>2, <2>7, <3>3, TracedMore
    <3> QED BY <2>1, <2>2, <2>5, <2>6, <3>1, <3>4 DEF OutInv
  <2>9. CASE fixups # <<>>
    <3> DEFINE r == [records[pos] EXCEPT !.subs = fixups]
    <3>1. out' = Append(out, r) /\ origin' = Append(origin, pos) BY <1>10, <2>9 DEF EndFixupp
    <3>2. fixups \in Seq(FixupType) /\ fixups \in Seq(SubType)
      <4>1. fixups \in Seq(FixupType) BY DEF TypeInv
      <4> QED BY <4>1, SeqMonotonic DEF SubType
    <3>3. /\ r \in RecType /\ r.subs = fixups /\ r.type = "FIXUPP"
          /\ r = [records[pos] EXCEPT !.subs = r.subs]
      BY <2>3, <3>2, NewSubrecords
    <3> HIDE DEF r
    <3>4. \A l \in 1 .. Len(fixups) : fixups[l] \in FixupType BY <3>2, ElementOf
    <3>5. Copied(input, records, r, pos) BY <2>4, <2>9, <3>3, <3>4 DEF Copied
    <3>6. \A k \in 1 .. Len(out') : Copied(input, records, out'[k], origin'[k])
      BY <2>2, <3>1, <3>3, <3>5, CopiedMore
    <3>7. Traced(input, origin', pos) BY <1>1, <2>2, <2>7, <3>1, TracedMore
    <3> QED BY <2>1, <2>5, <2>6, <3>6, <3>7 DEF OutInv
  <2> QED BY <2>8, <2>9
<1>11. CASE CopyRecord
  <2>1. /\ More("fixups") /\ records[pos].type # "FIXUPP"
        /\ out' = Append(out, records[pos]) /\ origin' = Append(origin, pos) /\ pos' = pos + 1
        /\ UNCHANGED <<phase, sub, fixups, records, input>>
    BY <1>11 DEF CopyRecord
  <2>2. phase = "fixups" /\ pos \in 1 .. Len(input) /\ records[pos] \in RecType
    BY <2>1, CurrentRecord
  <2>3. /\ Traced(input, origin, pos - 1) /\ sub = 1 /\ fixups = <<>>
        /\ \A k \in 1 .. Len(out) : Copied(input, records, out[k], origin[k])
    BY <1>1, <2>1, <2>2 DEF OutInv, Pending, Done, InFixupp
  <2>4. Pending' BY <2>1, <2>3, NothingPending
  <2>5. Done' = pos BY <1>1, <2>1, <2>2 DEF Done
  <2>6. pos - 1 \in Nat /\ pos - 1 + 1 = pos BY <1>1
  <2> DEFINE r == records[pos]
  <2>7. r = [r EXCEPT !.subs = r.subs] BY <2>2 DEF RecType
  <2>8. Copied(input, records, r, pos) BY <2>1, <2>7 DEF Copied
  <2>9. \A k \in 1 .. Len(out') : Copied(input, records, out'[k], origin'[k])
    BY <2>1, <2>2, <2>3, <2>8, CopiedMore
  <2>10. Traced(input, origin', pos) BY <1>1, <2>1, <2>3, <2>6, TracedMore
  <2> QED BY <2>1, <2>4, <2>5, <2>9, <2>10 DEF OutInv
<1>12. CASE StartPass("fixups", "write")
  <2>1. /\ phase = "fixups" /\ phase' = "write" /\ pos > Len(records)
        /\ UNCHANGED <<sub, fixups, records, input, out, origin>>
    BY <1>12 DEF StartPass
  <2>2. pos - 1 = Len(input)
    <3>1. Len(records) = Len(input) /\ pos <= Len(records) + 1
      BY <2>1 DEF PassInv, SameInv, SameButLength, BoundInv
    <3> QED BY <1>1, <2>1, <3>1
  <2>3. Done' = Done BY <2>1, <2>2 DEF Done
  <2>4. ~InFixupp /\ ~InFixupp' BY <1>1, <2>1 DEF InFixupp, More
  <2> QED BY <1>1, <2>1, <2>3, <2>4 DEF OutInv, Pending
<1>13. CASE UNCHANGED vars
  BY <1>1, <1>13 DEF vars, passes, OutInv, Pending, Done, InFixupp, More, Expanded, Subs
<1> QED BY <1>3, <1>4, <1>5, <1>6, <1>7, <1>9, <1>10, <1>11, <1>12, <1>13 DEF Next

(* Every step keeps what the third pass has found out and made.              *)
LEMMA ThreadStep ==
  ASSUME TypeInv, PassInv, ThreadInv, AgainInv, [Next]_vars
  PROVE  ThreadInv'
<1>1. TypeInv' BY TypeStep
<1>2. ThreadsFound(input') BY <1>1, FoundStep DEF ThreadInv
<1> QED BY <1>1, <1>2, TableStep, OutStep DEF ThreadInv

-----------------------------------------------------------------------------
(* SEGDEF records are numbered in what is written as they were in the input. *)
LEMMA SameCount ==
  ASSUME NEW m, NEW n, NEW k \in Nat, \A h \in 1 .. k : n[h] = m[h]
  PROVE  SegdefsTo(n, k) = SegdefsTo(m, k)
<1>1. \A h : h \in SegdefsTo(n, k) <=> h \in SegdefsTo(m, k) BY DEF SegdefsTo
<1> QED BY <1>1

(* Every step keeps the numbers of SEGDEF records.                           *)
LEMMA CountStep ==
  ASSUME TypeInv, PassInv, ThreadInv, CountInv, [Next]_vars, TypeInv'
  PROVE  CountInv'
<1>1. /\ Len(input) \in Nat /\ Len(records) \in Nat /\ Len(out) \in Nat
      /\ out \in Seq(RecType) /\ Len(origin) = Len(out) /\ origin \in Seq(Nat)
      /\ pos \in Nat \ {0}
  BY Lists DEF TypeInv
<1>2. ASSUME phase' \notin {"fixups", "write"} PROVE CountInv' BY <1>2 DEF CountInv
<1>3. CASE AddRecord \/ AddSub BY <1>2, <1>3 DEF AddRecord, AddSub
<1>4. CASE Parse \/ WriteObject \/ RunAgain BY <1>2, <1>4 DEF Parse, WriteObject, RunAgain
<1>5. CASE ComputeSize \/ PatchSegdef BY <1>2, <1>5 DEF ComputeSize, PatchSegdef, More
<1>6. CASE StartPass("sizes", "segdefs") BY <1>2, <1>6 DEF StartPass
<1>7. CASE StartPass("segdefs", "fixups")
  <2>1. /\ phase = "segdefs" /\ phase' = "fixups" /\ pos' = 1 /\ UNCHANGED <<input, out, origin>>
    BY <1>7 DEF StartPass
  <2>2. Len(out') = 0 BY <2>1, EmptySeq DEF PassInv, StartInv, Fresh
  <2>3. Done' = 0 BY <2>1 DEF Done
  <2>4. \A m : Cardinality(SegdefsTo(m, 0)) = 0
    <3>1. \A m : SegdefsTo(m, 0) = {} BY DEF SegdefsTo
    <3> QED BY <3>1, FS_EmptySet
  <2> QED BY <2>2, <2>3, <2>4 DEF CountInv
<1>8. ASSUME phase \in {"fixups", "write"}, phase' \in {"fixups", "write"}, Done' = Done,
             UNCHANGED <<input, out, origin>>
      PROVE  CountInv'
  BY <1>8 DEF CountInv
<1>9. CASE ExpandFixup \/ ReadThread
  BY <1>8, <1>9 DEF ExpandFixup, ReadThread, InFixupp, More, Done
<1>10. CASE StartPass("fixups", "write")
  <2>1. /\ phase = "fixups" /\ phase' = "write" /\ pos > Len(records)
        /\ UNCHANGED <<input, out, origin>>
    BY <1>10 DEF StartPass
  <2>2. pos - 1 = Len(input)
    <3>1. Len(records) = Len(input) /\ pos <= Len(records) + 1
      BY <2>1 DEF PassInv, SameInv, SameButLength, BoundInv
    <3> QED BY <1>1, <2>1, <3>1
  <2> QED BY <1>8, <2>1, <2>2 DEF Done
<1>11. CASE EndFixupp \/ CopyRecord
  <2>1. /\ More("fixups") /\ pos' = pos + 1 /\ UNCHANGED <<phase, input>>
    BY <1>11 DEF EndFixupp, CopyRecord, InFixupp
  <2>2. phase = "fixups" /\ records[pos].type = input[pos].type /\ records[pos] \in RecType
    BY <2>1, CurrentRecord
  <2>3. /\ \A k \in 1 .. Len(out) :
             Cardinality(SegdefsTo(out, k)) = Cardinality(SegdefsTo(input, origin[k]))
        /\ Cardinality(SegdefsTo(out, Len(out))) = Cardinality(SegdefsTo(input, pos - 1))
    BY <2>2 DEF CountInv, Done
  <2>4. Done' = pos BY <1>1, <2>1, <2>2 DEF Done
  <2>5. Cardinality(SegdefsTo(input, pos)) =
          Cardinality(SegdefsTo(input, pos - 1)) + IF input[pos].type = "SEGDEF" THEN 1 ELSE 0
    BY <1>1, SegdefCount
  <2>6. CASE out' = out /\ origin' = origin /\ input[pos].type # "SEGDEF"
    <3>1. Cardinality(SegdefsTo(input, pos - 1)) \in Nat BY <1>1, SegdefCount
    <3>2. Cardinality(SegdefsTo(input, pos)) = Cardinality(SegdefsTo(input, pos - 1))
      BY <2>5, <2>6, <3>1
    <3> QED BY <2>1, <2>2, <2>3, <2>4, <2>6, <3>2 DEF CountInv
  <2>7. ASSUME NEW r \in RecType, r.type = input[pos].type,
               out' = Append(out, r), origin' = Append(origin, pos)
        PROVE  CountInv'
    <3> DEFINE n == Len(out)
    <3>1. /\ Len(out') = n + 1 /\ out'[n + 1] = r /\ \A k \in 1 .. n : out'[k] = out[k]
      BY <1>1, <2>7, AppendRecord
    <3>2. origin'[n + 1] = pos /\ \A k \in 1 .. n : origin'[k] = origin[k]
      BY <1>1, <2>7, AppendProperties
    <3>3. \A k \in 0 .. n : SegdefsTo(out', k) = SegdefsTo(out, k)
      <4>1. ASSUME NEW k \in 0 .. n PROVE SegdefsTo(out', k) = SegdefsTo(out, k)
        <5>1. k \in Nat /\ \A h \in 1 .. k : out'[h] = out[h] BY <1>1, <3>1
        <5> QED BY <5>1, SameCount
      <4> QED BY <4>1
    <3>4. /\ n + 1 \in Nat \ {0} /\ n + 1 - 1 = n /\ n \in 0 .. n
          /\ 1 .. (n + 1) = (1 .. n) \cup {n + 1} /\ \A k \in 1 .. n : k \in 0 .. n
      BY <1>1
    <3> HIDE DEF n
    <3>5. Cardinality(SegdefsTo(out', n + 1)) =
            Cardinality(SegdefsTo(out', n)) + IF out'[n + 1].type = "SEGDEF" THEN 1 ELSE 0
      BY <3>4, SegdefCount
    <3>6. Cardinality(SegdefsTo(out', n + 1)) = Cardinality(SegdefsTo(input, pos))
      BY <2>3, <2>5, <2>7, <3>1, <3>3, <3>4, <3>5 DEF n
    <3>7. ASSUME NEW k \in 1 .. Len(out')
          PROVE  Cardinality(SegdefsTo(out', k)) = Cardinality(SegdefsTo(input', origin'[k]))
      <4>1. CASE k = n + 1 BY <2>1, <3>2, <3>6, <4>1
      <4>2. CASE k \in 1 .. n BY <2>1, <2>3, <3>2, <3>3, <3>4, <4>2 DEF n
      <4> QED BY <3>1, <3>4, <4>1, <4>2
    <3> QED BY <2>1, <2>2, <2>4, <3>1, <3>6, <3>7 DEF CountInv
  <2>8. CASE CopyRecord BY <2>2, <2>7, <2>8 DEF CopyRecord
  <2>9. CASE EndFixupp
    <3>1. records[pos].type = "FIXUPP" BY <2>9 DEF EndFixupp, InFixupp
    <3>2. CASE fixups = <<>>
      <4>1. out' = out /\ origin' = origin BY <2>9, <3>2 DEF EndFixupp
      <4> QED BY <2>2, <2>6, <3>1, <4>1
    <3>3. CASE fixups # <<>>
      <4> DEFINE r == [records[pos] EXCEPT !.subs = fixups]
      <4>1. out' = Append(out, r) /\ origin' = Append(origin, pos) BY <2>9, <3>3 DEF EndFixupp
      <4>2. fixups \in Seq(SubType)
        <5>1. fixups \in Seq(FixupType) BY DEF TypeInv
        <5> QED BY <5>1, SeqMonotonic DEF SubType
      <4>3. r \in RecType /\ r.type = records[pos].type BY <2>2, <3>1, <4>2, NewSubrecords
      <4> HIDE DEF r
      <4> QED BY <2>2, <2>7, <4>1, <4>3
    <3> QED BY <3>2, <3>3
  <2> QED BY <1>11, <2>8, <2>9
<1>12. CASE UNCHANGED vars BY <1>12 DEF vars, passes, CountInv, Done
<1> QED BY <1>3, <1>4, <1>5, <1>6, <1>7, <1>9, <1>10, <1>11, <1>12 DEF Next

-----------------------------------------------------------------------------
(* There is one greatest end.                                                *)
LEMMA ExtendsOnce ==
  ASSUME NEW m \in Seq(RecType), NEW s, NEW d \in Int, NEW e \in Int,
         Extends(m, s, Len(m) + 1, d), Extends(m, s, Len(m) + 1, e)
  PROVE  d = e
<1>1. Len(m) \in Nat /\ Len(m) + 1 - 1 = Len(m) BY ElementOf
<1>2. /\ \A k \in 1 .. Len(m) : IsData(m, k, s) => End(m, k) <= d
      /\ d = -1 \/ \E k \in 1 .. Len(m) : IsData(m, k, s) /\ d = End(m, k)
  BY <1>1 DEF Extends
<1>3. /\ \A k \in 1 .. Len(m) : IsData(m, k, s) => End(m, k) <= e
      /\ e = -1 \/ \E k \in 1 .. Len(m) : IsData(m, k, s) /\ e = End(m, k)
  BY <1>1 DEF Extends
<1>4. \A k \in 1 .. Len(m) : End(m, k) \in Nat BY EndIsNat
<1>5. CASE d = -1 /\ e = -1 BY <1>5
<1>6. ASSUME NEW k \in 1 .. Len(m), IsData(m, k, s), d = End(m, k) PROVE d = e
  <2>1. d <= e /\ d >= 0 BY <1>3, <1>4, <1>6
  <2>2. e <= d BY <1>2, <1>3, <2>1
  <2> QED BY <2>1, <2>2
<1>7. ASSUME NEW k \in 1 .. Len(m), IsData(m, k, s), e = End(m, k) PROVE d = e
  <2>1. e <= d /\ e >= 0 BY <1>2, <1>4, <1>7
  <2>2. d <= e BY <1>2, <1>3, <2>1
  <2> QED BY <2>1, <2>2
<1> QED BY <1>2, <1>3, <1>5, <1>6, <1>7

(* A length that has been reduced to a word stays what it is.                *)
LEMMA LengthStays ==
  ASSUME NEW x \in Int, x >= -1, NEW l \in Words, NEW n,
         n = (IF x > l THEN x ELSE l) % WORD
  PROVE  (IF x > n THEN x ELSE n) % WORD = n
<1>1. WORD \in Nat \ {0} /\ l \in Nat /\ l < WORD BY Widths DEF Words
<1>2. \A y \in Nat : y < WORD => y % WORD = y BY <1>1
<1>3. \A y \in Nat : y % WORD \in Nat /\ y % WORD < WORD BY <1>1
<1>4. CASE x > l
  <2>1. x \in Nat /\ n = x % WORD BY <1>1, <1>4
  <2>2. n \in Nat /\ n < WORD BY <1>3, <2>1
  <2>3. CASE x > n BY <2>1, <2>3
  <2>4. CASE ~(x > n)
    <3>1. n % WORD = n BY <1>2, <2>2
    <3> QED BY <2>4, <3>1
  <2> QED BY <2>3, <2>4
<1>5. CASE ~(x > l)
  <2>1. n = l BY <1>1, <1>2, <1>5
  <2> QED BY <1>1, <1>2, <1>5, <2>1
<1> QED BY <1>4, <1>5

(* The data of a segment are in what is written as they were in the input.   *)
LEMMA SameData ==
  ASSUME TypeInv, PassInv, ThreadInv, phase = "write", NEW s, NEW e,
         Extends(out, s, Len(out) + 1, e)
  PROVE  Extends(input, s, Len(input) + 1, e)
<1>1. /\ Len(input) \in Nat /\ Len(out) \in Nat /\ Len(origin) = Len(out)
      /\ \A k \in 1 .. Len(input) : input[k] \in RecType
      /\ \A k \in 1 .. Len(out) : out[k] \in RecType
  BY Lists
<1>2. SameButLength BY DEF PassInv, SameInv
<1>3. /\ Traced(input, origin, Len(input))
      /\ \A k \in 1 .. Len(out) : Copied(input, records, out[k], origin[k])
  BY DEF ThreadInv, OutInv, Done
<1>4. ASSUME NEW k \in 1 .. Len(out)
      PROVE  /\ origin[k] \in 1 .. Len(input) /\ out[k].type = input[origin[k]].type
             /\ out[k].type = "LEDATA" => out[k] = input[origin[k]]
  <2> DEFINE i == origin[k]
  <2>1. i \in 1 .. Len(input) BY <1>1, <1>3 DEF Traced
  <2>2. /\ out[k] = [records[i] EXCEPT !.subs = out[k].subs]
        /\ out[k].type # "FIXUPP" => out[k] = records[i]
    BY <1>3 DEF Copied
  <2> HIDE DEF i
  <2>3. /\ records[i] = [input[i] EXCEPT !.len = records[i].len]
        /\ input[i].type # "SEGDEF" => records[i] = input[i]
    BY <1>2, <2>1 DEF SameButLength
  <2>4. input[i] \in RecType BY <1>1, <2>1
  <2>5. records[i].type = input[i].type BY <2>3, <2>4 DEF RecType
  <2>6. out[k].type = records[i].type
    <3>1. records[i] \in RecType
      <4>1. Len(records) = Len(input) BY <1>2 DEF SameButLength
      <4> QED BY <2>1, <4>1, Lists
    <3> QED BY <2>2, <3>1 DEF RecType
  <2> QED BY <2>1, <2>2, <2>3, <2>5, <2>6 DEF i
<1>5. ASSUME NEW k \in 1 .. Len(out), IsData(out, k, s)
      PROVE  IsData(input, origin[k], s) /\ End(out, k) = End(input, origin[k])
  BY <1>4, <1>5 DEF IsData, End
<1>6. ASSUME NEW i \in 1 .. Len(input), IsData(input, i, s)
      PROVE  \E k \in 1 .. Len(out) : IsData(out, k, s) /\ End(out, k) = End(input, i)
  <2>1. ~OnlyThreads(input[i]) BY <1>6 DEF IsData, OnlyThreads
  <2>2. PICK k \in 1 .. Len(out) : origin[k] = i BY <1>1, <1>3, <2>1 DEF Traced
  <2>3. out[k] = input[i] BY <1>4, <1>6, <2>2 DEF IsData
  <2> QED BY <1>6, <2>2, <2>3 DEF IsData, End
<1>7. /\ \A k \in 1 .. Len(out) : IsData(out, k, s) => End(out, k) <= e
      /\ e = -1 \/ \E k \in 1 .. Len(out) : IsData(out, k, s) /\ e = End(out, k)
  <2>1. Len(out) + 1 - 1 = Len(out) BY <1>1
  <2> QED BY <2>1 DEF Extends
<1>8. \A i \in 1 .. Len(input) : IsData(input, i, s) => End(input, i) <= e BY <1>6, <1>7
<1>9. e = -1 \/ \E i \in 1 .. Len(input) : IsData(input, i, s) /\ e = End(input, i)
  BY <1>4, <1>5, <1>7
<1>10. Len(input) + 1 - 1 = Len(input) BY <1>1
<1> QED BY <1>8, <1>9, <1>10 DEF Extends

(* What is written is settled.                                               *)
LEMMA OutIsSettled ==
  ASSUME TypeInv, PassInv, ThreadInv, CountInv, phase = "write"
  PROVE  Settled(out)
<1>1. /\ Len(input) \in Nat /\ Len(out) \in Nat /\ Len(origin) = Len(out)
      /\ \A k \in 1 .. Len(input) : input[k] \in RecType
      /\ input \in Seq(RecType) /\ out \in Seq(RecType)
      /\ sizes \in [Segments -> -1 .. (2 * WORD)] /\ WORD \in Nat
  BY Lists, Widths DEF TypeInv
<1>2. SameButLength /\ Covered(Len(input) + 1)
      /\ \A s \in Segments : Extends(input, s, Len(input) + 1, sizes[s])
  BY DEF PassInv, SameInv, PatchInv, SizeInv
<1>3. /\ Traced(input, origin, Len(input))
      /\ \A k \in 1 .. Len(out) : Copied(input, records, out[k], origin[k])
      /\ \A k \in 1 .. Len(out) :
           Cardinality(SegdefsTo(out, k)) = Cardinality(SegdefsTo(input, origin[k]))
  BY DEF ThreadInv, OutInv, Done, CountInv
<1>4. ASSUME NEW k \in 1 .. Len(out), out[k].type = "FIXUPP"
      PROVE  out[k].subs # <<>> /\ \A l \in 1 .. Len(out[k].subs) : IsExplicit(out[k].subs[l])
  <2>1. out[k].subs # <<>> BY <1>3, <1>4 DEF Copied
  <2>2. ASSUME NEW l \in 1 .. Len(out[k].subs) PROVE IsExplicit(out[k].subs[l])
    <3>1. out[k].subs[l] \in FixupType /\ Renders(input, out[k].subs[l], origin[k], l)
      BY <1>3, <1>4 DEF Copied
    <3> QED BY <3>1 DEF Renders, IsExplicit
  <2> QED BY <2>1, <2>2
<1>5. ASSUME NEW k \in 1 .. Len(out), out[k].type = "SEGDEF", NEW e \in -1 .. (2 * WORD),
             Cardinality(SegdefsTo(out, k)) \in Segments,
             Extends(out, Cardinality(SegdefsTo(out, k)), Len(out) + 1, e)
      PROVE  (IF e > out[k].len THEN e ELSE out[k].len) % WORD = out[k].len
  <2> DEFINE i == origin[k]
             n == Cardinality(SegdefsTo(out, k))
  <2>1. i \in 1 .. Len(input) BY <1>1, <1>3 DEF Traced
  <2>2. out[k] = records[i] BY <1>3, <1>5 DEF Copied
  <2>3. n = Cardinality(SegdefsTo(input, i)) /\ n \in Segments BY <1>3, <1>5
  <2>4. Extends(input, n, Len(input) + 1, e) BY <1>5, SameData
  <2> HIDE DEF i, n
  <2>5. input[i] \in RecType /\ records[i] = [input[i] EXCEPT !.len = records[i].len]
    BY <1>1, <1>2, <2>1 DEF SameButLength
  <2>6. input[i].type = "SEGDEF" /\ input[i].len \in Words
    BY <1>5, <2>2, <2>5, RecFields DEF RecType
  <2>7. records[i].len = Patched(input[i], n)
    <3>1. i \in 1 .. (Len(input) + 1 - 1) BY <1>1, <2>1
    <3> QED BY <1>2, <2>3, <2>6, <3>1 DEF Covered
  <2>8. e = sizes[n]
    <3>1. sizes[n] \in Int /\ e \in Int BY <1>1, <2>3
    <3>2. Extends(input, n, Len(input) + 1, sizes[n]) BY <1>2, <2>3
    <3> QED BY <1>1, <2>4, <3>1, <3>2, ExtendsOnce
  <2>9. out[k].len = (IF e > input[i].len THEN e ELSE input[i].len) % WORD
    BY <2>2, <2>3, <2>7, <2>8 DEF Patched
  <2>10. e \in Int /\ e >= -1 BY <1>1
  <2> QED BY <2>6, <2>9, <2>10, LengthStays
<1> QED BY <1>4, <1>5 DEF Settled

-----------------------------------------------------------------------------
(* A settled module is left as it is.                                        *)
LEMMA SettledLength ==
  ASSUME TypeInv, PassInv, PatchSegdef, records = input, Settled(input)
  PROVE  records' = records
<1>1. /\ pos \in 1 .. Len(records) /\ Len(records') = Len(records) /\ phase = "segdefs"
      /\ \A k \in 1 .. Len(records) : k # pos => records'[k] = records[k]
      /\ records[pos].type # "SEGDEF" => records'[pos] = records[pos]
      /\ records[pos].type = "SEGDEF" =>
           /\ records'[pos] = [records[pos] EXCEPT !.len = records'[pos].len]
           /\ records'[pos].len = Patched(records[pos], segdefs + 1)
  BY PatchedRecord
<1>2. records[pos] \in RecType BY <1>1, Lists
<1>3. CASE records[pos].type # "SEGDEF" BY <1>3 DEF PatchSegdef
<1>4. CASE records[pos].type = "SEGDEF"
  <2> DEFINE n == segdefs + 1
             r == records[pos]
  <2>1. n = Cardinality(SegdefsTo(input, pos))
    <3>1. segdefs = Cardinality(SegdefsTo(input, pos - 1)) BY <1>1 DEF PassInv, PatchInv
    <3>2. pos \in Nat \ {0} BY Lists
    <3> QED BY <1>4, <3>1, <3>2, SegdefCount
  <2>2. r.len \in Words /\ r.len \in Nat /\ r.len < WORD /\ WORD \in Nat \ {0}
    BY <1>2, RecFields, Widths DEF Words
  <2>3. Patched(r, n) = r.len
    <3>1. CASE n \in Segments
      <4> DEFINE e == sizes[n]
      <4>1. Extends(input, n, Len(input) + 1, e) BY <1>1, <3>1 DEF PassInv, SizeInv
      <4>2. e \in -1 .. (2 * WORD) BY <3>1 DEF TypeInv
      <4>3. (IF e > r.len THEN e ELSE r.len) % WORD = r.len
        BY <1>1, <1>4, <2>1, <3>1, <4>1, <4>2 DEF Settled
      <4> QED BY <3>1, <4>3 DEF Patched
    <3>2. CASE n \notin Segments
      <4>1. Patched(r, n) = r.len % WORD BY <3>2 DEF Patched
      <4> QED BY <2>2, <4>1
    <3> QED BY <3>1, <3>2
  <2> HIDE DEF n
  <2>4. records' = [records EXCEPT ![pos] = [r EXCEPT !.len = Patched(r, n)]]
    BY <1>4 DEF PatchSegdef, n
  <2>5. [r EXCEPT !.len = Patched(r, n)] = r BY <1>2, <2>3, SameRecord
  <2>6. records' = [records EXCEPT ![pos] = r] BY <2>4, <2>5
  <2>7. records \in Seq(RecType) BY DEF TypeInv
  <2>8. /\ records' \in Seq(RecType) /\ Len(records') = Len(records)
        /\ \A k \in 1 .. Len(records) : records'[k] = records[k]
    BY <1>1, <1>2, <2>6, <2>7, UpdateRecord
  <2> QED BY <2>7, <2>8, SeqEqual
<1> QED BY <1>3, <1>4

(* The fixups of a settled module are left as they are.                      *)
LEMMA SettledSub ==
  ASSUME TypeInv, PassInv, ThreadInv, InFixupp, Settled(input)
  PROVE  /\ Subs # <<>>
         /\ sub <= Len(Subs) => Subs[sub].kind = "fixup" /\ Explicit(Subs[sub]) = Subs[sub]
<1>1. pos \in 1 .. Len(input) /\ input[pos].type = "FIXUPP" /\ Subs = input[pos].subs
  BY Current
<1>2. Subs # <<>> /\ \A l \in 1 .. Len(Subs) : IsExplicit(Subs[l]) BY <1>1 DEF Settled
<1>3. ASSUME sub <= Len(Subs) PROVE Subs[sub].kind = "fixup" /\ Explicit(Subs[sub]) = Subs[sub]
  <2>1. IsExplicit(Subs[sub]) BY <1>2, <1>3, CurrentSub
  <2>2. Subs[sub].kind = "fixup" BY <2>1 DEF IsExplicit, FixupType
  <2> QED BY <2>1, <2>2, ExplicitStays
<1> QED BY <1>2, <1>3

(* What a second run has done so far.                                        *)
LEMMA RerunStep ==
  ASSUME TypeInv, PassInv, ThreadInv, Rerun, Settled(first), [Next]_vars, TypeInv',
         first' = first, phase' \in {"sizes", "segdefs", "fixups", "write"}, phase # "compile",
         ~RunAgain
  PROVE  Rerun'
<1>1. /\ Len(input) \in Nat /\ Len(records) \in Nat /\ Len(out) \in Nat /\ Len(fixups) \in Nat
      /\ pos \in Nat \ {0} /\ sub \in Nat \ {0} /\ out \in Seq(RecType)
  BY Lists DEF TypeInv
<1>2. CASE ComputeSize \/ StartPass("sizes", "segdefs")
  BY <1>2 DEF ComputeSize, StartPass, More, Rerun
<1>3. CASE PatchSegdef
  <2>1. phase = "segdefs" /\ phase' = phase /\ input' = input
    BY <1>3 DEF PatchSegdef, More
  <2>2. records = input /\ input = first BY <2>1 DEF Rerun
  <2>3. records' = records BY <1>3, <2>2, SettledLength
  <2> QED BY <2>1, <2>2, <2>3 DEF Rerun
<1>4. CASE StartPass("segdefs", "fixups")
  <2>1. /\ phase = "segdefs" /\ phase' = "fixups" /\ pos' = 1
        /\ UNCHANGED <<input, records, sub, fixups, out>>
    BY <1>4 DEF StartPass
  <2>2. sub = 1 /\ Len(fixups) = 0 /\ Len(out) = 0
    BY <2>1, EmptySeq DEF PassInv, StartInv, Fresh
  <2>3. Done' = 0 BY <2>1 DEF Done
  <2>4. records = input /\ input = first BY <2>1 DEF Rerun
  <2> QED BY <2>1, <2>2, <2>3, <2>4 DEF Rerun
<1>5. ASSUME phase = "fixups"
      PROVE  /\ records = input /\ input = first /\ Settled(input)
             /\ Len(out) = pos - 1 /\ \A k \in 1 .. (pos - 1) : out[k] = input[k]
             /\ InFixupp => /\ Len(fixups) = sub - 1
                            /\ \A l \in 1 .. (sub - 1) : fixups[l] = Subs[l]
  BY <1>5 DEF Rerun, Done
<1>6. CASE ExpandFixup
  <2>1. /\ InFixupp /\ sub <= Len(Subs) /\ fixups' = Append(fixups, Explicit(Subs[sub]))
        /\ sub' = sub + 1 /\ UNCHANGED <<phase, pos, out, records, input>> /\ phase = "fixups"
    BY <1>6 DEF ExpandFixup, InFixupp, More
  <2>2. Explicit(Subs[sub]) = Subs[sub] /\ Subs[sub] \in FixupType
    BY <1>5, <2>1, SettledSub, MadeExplicit
  <2>3. Len(fixups) = sub - 1 /\ \A l \in 1 .. (sub - 1) : fixups[l] = Subs[l] BY <1>5, <2>1
  <2>4. fixups \in Seq(FixupType) BY DEF TypeInv
  <2>5. /\ Len(fixups') = Len(fixups) + 1 /\ fixups'[Len(fixups) + 1] = Subs[sub]
        /\ \A l \in 1 .. Len(fixups) : fixups'[l] = fixups[l]
    BY <2>1, <2>2, <2>4, AppendProperties
  <2>6. Len(fixups) + 1 = sub /\ sub' - 1 = sub /\ 1 .. sub = (1 .. (sub - 1)) \cup {sub}
    BY <1>1, <2>1, <2>3
  <2>7. Subs' = Subs BY <2>1 DEF Subs
  <2>8. Len(fixups') = sub' - 1 /\ \A l \in 1 .. (sub' - 1) : fixups'[l] = Subs'[l]
    BY <2>3, <2>5, <2>6, <2>7
  <2>9. Done' = pos - 1 BY <2>1 DEF Done
  <2> QED BY <1>5, <2>1, <2>8, <2>9 DEF Rerun
<1>7. CASE ReadThread
  <2>1. InFixupp /\ sub <= Len(Subs) /\ Subs[sub].kind = "thread" /\ phase = "fixups"
    BY <1>7 DEF ReadThread, InFixupp, More
  <2> QED BY <1>5, <2>1, SettledSub
<1>8. ASSUME phase = "fixups", pos \in 1 .. Len(input), pos' = pos + 1,
             UNCHANGED <<phase, records, input>>, out' = Append(out, input[pos]),
             sub' = 1, fixups' = <<>>
      PROVE  Rerun'
  <2>1. input[pos] \in RecType BY <1>8, Lists
  <2>2. /\ Len(out') = Len(out) + 1 /\ out'[Len(out) + 1] = input[pos]
        /\ \A k \in 1 .. Len(out) : out'[k] = out[k]
    BY <1>1, <1>8, <2>1, AppendRecord
  <2>3. Len(out) = pos - 1 /\ \A k \in 1 .. (pos - 1) : out[k] = input[k] BY <1>5, <1>8
  <2>4. Len(out) + 1 = pos /\ 1 .. pos = (1 .. (pos - 1)) \cup {pos} BY <1>1, <2>3
  <2>5. Len(out') = pos /\ \A k \in 1 .. pos : out'[k] = input[k] BY <2>2, <2>3, <2>4
  <2>6. Done' = pos BY <1>1, <1>8 DEF Done
  <2>7. Len(fixups') = 0 /\ sub' - 1 = 0 BY <1>8, EmptySeq
  <2>8. Len(fixups') = sub' - 1 /\ \A l \in 1 .. (sub' - 1) : fixups'[l] = Subs'[l] BY <2>7
  <2> QED BY <1>5, <1>8, <2>5, <2>6, <2>8 DEF Rerun
<1>9. CASE EndFixupp
  <2>1. /\ InFixupp /\ sub > Len(Subs) /\ fixups' = <<>> /\ sub' = 1 /\ pos' = pos + 1
        /\ UNCHANGED <<phase, records, input>>
    BY <1>9 DEF EndFixupp
  <2>2. /\ phase = "fixups" /\ pos \in 1 .. Len(input) /\ records[pos] = input[pos]
        /\ Subs = input[pos].subs /\ Len(Subs) \in Nat /\ sub = Len(Subs) + 1
        /\ Subs \in Seq(SubType) /\ records[pos] \in RecType
    BY <2>1, Current
  <2>3. Len(fixups) = Len(Subs) /\ \A l \in 1 .. Len(Subs) : fixups[l] = Subs[l]
    <3>1. sub - 1 = Len(Subs) BY <2>2
    <3> QED BY <1>5, <2>1, <2>2, <3>1
  <2>4. fixups = Subs
    <3>1. fixups \in Seq(SubType)
      <4>1. fixups \in Seq(FixupType) BY DEF TypeInv
      <4> QED BY <4>1, SeqMonotonic DEF SubType
    <3> QED BY <2>2, <2>3, <3>1, SeqEqual
  <2>5. fixups # <<>> BY <1>5, <2>1, <2>2, <2>4, SettledSub
  <2>6. [records[pos] EXCEPT !.subs = fixups] = input[pos] BY <2>2, <2>4 DEF RecType
  <2>7. out' = Append(out, [records[pos] EXCEPT !.subs = fixups]) BY <1>9, <2>5 DEF EndFixupp
  <2> QED BY <1>8, <2>1, <2>2, <2>6, <2>7
<1>10. CASE CopyRecord
  <2>1. /\ More("fixups") /\ records[pos].type # "FIXUPP" /\ out' = Append(out, records[pos])
        /\ pos' = pos + 1 /\ UNCHANGED <<phase, sub, fixups, records, input>>
    BY <1>10 DEF CopyRecord
  <2>2. phase = "fixups" /\ pos \in 1 .. Len(input) BY <2>1, CurrentRecord
  <2>3. sub = 1 /\ fixups = <<>> BY <2>1, <2>2 DEF ThreadInv, OutInv, Pending, InFixupp
  <2>4. records = input BY <1>5, <2>2
  <2> QED BY <1>8, <2>1, <2>2, <2>3, <2>4
<1>11. CASE StartPass("fixups", "write")
  <2>1. /\ phase = "fixups" /\ phase' = "write" /\ pos > Len(records)
        /\ UNCHANGED <<records, input, out>>
    BY <1>11 DEF StartPass
  <2>2. pos - 1 = Len(input)
    <3>1. Len(records) = Len(input) /\ pos <= Len(records) + 1
      BY <2>1 DEF PassInv, SameInv, SameButLength, BoundInv
    <3> QED BY <1>1, <2>1, <3>1
  <2>3. Done' = pos - 1 /\ ~InFixupp' BY <2>1, <2>2 DEF Done, InFixupp, More
  <2> QED BY <1>5, <2>1, <2>3 DEF Rerun
<1>12. CASE UNCHANGED vars
  BY <1>12 DEF vars, passes, Rerun, Done, InFixupp, More, Subs
<1>13. CASE AddRecord \/ AddSub \/ Parse BY <1>13 DEF AddRecord, AddSub, Parse
<1>14. CASE WriteObject BY <1>14 DEF WriteObject
<1> QED
  BY <1>2, <1>3, <1>4, <1>6, <1>7, <1>9, <1>10, <1>11, <1>12, <1>13, <1>14 DEF Next

(* Every step keeps what is known of a second run.                           *)
LEMMA AgainStep ==
  ASSUME TypeInv, PassInv, ThreadInv, CountInv, AgainInv, [Next]_vars, TypeInv'
  PROVE  AgainInv'
<1>1. /\ destination.is = "whole" => Settled(destination.recs)
      /\ phase = "compile" => first = <<>>
      /\ first # <<>> => Settled(first)
      /\ first # <<>> /\ phase \in {"sizes", "segdefs", "fixups", "write"} => Rerun
  BY DEF AgainInv
<1>2. destination'.is = "whole" => Settled(destination'.recs)
  <2>1. CASE destination' = destination BY <1>1, <2>1
  <2>2. CASE WriteObject
    <3>1. phase = "write" BY <2>2 DEF WriteObject
    <3>2. Settled(out) BY <3>1, OutIsSettled
    <3>3. \/ destination' = destination
          \/ destination' = [is |-> "whole", recs |-> out]
          \/ destination' = [is |-> "cut", recs |-> <<>>]
      BY <2>2 DEF WriteObject
    <3> QED BY <1>1, <3>2, <3>3
  <2>3. CASE ~WriteObject
    <3>1. destination' = destination
      BY <2>3 DEF Next, vars, AddRecord, AddSub, Parse, ComputeSize, StartPass, PatchSegdef,
         ExpandFixup, ReadThread, EndFixupp, CopyRecord, RunAgain
    <3> QED BY <2>1, <3>1
  <2> QED BY <2>2, <2>3
<1>3. CASE RunAgain
  <2>1. /\ phase' = "sizes" /\ first' = destination.recs /\ input' = first' /\ records' = first'
        /\ destination.is = "whole"
    BY <1>3 DEF RunAgain
  <2>2. Settled(first') BY <1>1, <2>1
  <2>3. Rerun' BY <2>1 DEF Rerun
  <2> QED BY <1>2, <2>1, <2>2, <2>3 DEF AgainInv
<1>4. CASE ~RunAgain
  <2>1. first' = first /\ (phase' = "compile" => phase = "compile")
    BY <1>4 DEF Next, vars, passes, AddRecord, AddSub, Parse, ComputeSize, StartPass, PatchSegdef,
       ExpandFixup, ReadThread, EndFixupp, CopyRecord, WriteObject, InFixupp, More
  <2>2. ASSUME first' # <<>>, phase' \in {"sizes", "segdefs", "fixups", "write"} PROVE Rerun'
    <3>1. first # <<>> /\ phase # "compile" /\ Settled(first) BY <1>1, <2>1, <2>2
    <3>2. phase \in {"sizes", "segdefs", "fixups", "write"}
      BY <1>4, <2>2, <3>1 DEF Next, vars, AddRecord, AddSub, Parse, ComputeSize, StartPass,
         PatchSegdef, ExpandFixup, ReadThread, EndFixupp, CopyRecord, WriteObject, InFixupp, More
    <3> QED BY <1>1, <1>4, <2>1, <2>2, <3>1, <3>2, RerunStep
  <2>3. phase' = "compile" => first' = <<>> BY <1>1, <2>1
  <2>4. first' # <<>> => Settled(first') BY <1>1, <2>1
  <2> QED BY <1>2, <2>2, <2>3, <2>4 DEF AgainInv
<1> QED BY <1>3, <1>4

-----------------------------------------------------------------------------
(* The program starts in a state of the invariant, and every step keeps it.  *)
LEMMA InitHolds == Init => IInv
<1> SUFFICES ASSUME Init PROVE IInv OBVIOUS
<1>1. /\ phase = "compile" /\ input = <<>> /\ records = <<>> /\ out = <<>> /\ origin = <<>>
      /\ pos = 1 /\ sub = 1 /\ segdefs = 0 /\ sizes = [s \in Segments |-> -1]
      /\ frames = [t \in Threads |-> Undefined] /\ targets = [t \in Threads |-> Undefined]
      /\ fixups = <<>> /\ first = <<>> /\ destination = [is |-> "old", recs |-> <<>>]
  BY DEF Init
<1>2. TypeInv
  <2>1. <<>> \in Seq(RecType) /\ <<>> \in Seq(FixupType) /\ <<>> \in Seq(Nat) BY EmptySeq
  <2>2. sizes \in [Segments -> -1 .. (2 * WORD)]
    <3>1. -1 \in -1 .. (2 * WORD) BY Widths
    <3> QED BY <1>1, <3>1
  <2>3. /\ frames \in [Threads -> EntryType] /\ targets \in [Threads -> EntryType]
        /\ \A t \in Threads : ~targets[t].defined
    BY <1>1, EmptyTable
  <2>4. destination \in [is : {"old", "whole", "cut"}, recs : Seq(RecType)]
    <3>1. PICK x \in Seq(RecType) : x = <<>> BY <2>1
    <3>2. destination = [is |-> "old", recs |-> x] BY <1>1, <3>1
    <3> QED BY <3>2
  <2> QED BY <1>1, <2>1, <2>2, <2>3, <2>4 DEF TypeInv
<1>3. PassInv
  <2>1. Len(records) = 0 /\ Len(out) = 0 BY <1>1, EmptySeq
  <2> QED BY <1>1, <2>1 DEF PassInv, StartInv, Fresh, BoundInv, SameInv, SizeInv, PatchInv
<1>4. ThreadInv
  <2>1. DOMAIN input = {} BY <1>1, EmptySeq
  <2> QED BY <1>1, <2>1 DEF ThreadInv, ThreadsFound, TableInv, OutInv
<1>5. CountInv /\ AgainInv BY <1>1 DEF CountInv, AgainInv
<1> QED BY <1>2, <1>3, <1>4, <1>5 DEF IInv

(* Every behaviour keeps the invariant.                                      *)
LEMMA Invariance == Spec => []IInv
<1>1. IInv /\ [Next]_vars => IInv'
  <2> SUFFICES ASSUME IInv, [Next]_vars PROVE IInv' OBVIOUS
  <2>1. TypeInv /\ PassInv /\ ThreadInv /\ CountInv /\ AgainInv BY DEF IInv
  <2>2. TypeInv' BY <2>1, TypeStep
  <2> QED BY <2>1, <2>2, PassStep, ThreadStep, CountStep, AgainStep DEF IInv
<1> QED BY <1>1, InitHolds, PTL DEF Spec

-----------------------------------------------------------------------------
(* A fixup has at most the datum of a frame, that of a target and a          *)
(* displacement.                                                             *)
LEMMA ThreeTokens ==
  ASSUME NEW s \in FixupType
  PROVE  Len(s.data) <= 3
<1>1. Complete(s) BY DEF FixupType
<1>2. FrameData(s) \in {0, 1} BY DEF FrameData
<1> QED BY <1>1, <1>2 DEF Complete

(* No table, size or count of the program ever holds what its C type cannot, *)
(* no position is beyond the list, and no fixup has more than three fields:  *)
(* TypeOK, for modules of any size.                                          *)
THEOREM ObjectIsTyped == Spec => []TypeOK
<1>1. ASSUME IInv PROVE TypeOK
  <2>1. TypeInv /\ PassInv /\ ThreadInv BY <1>1 DEF IInv
  <2>2. phase \in {"compile", "sizes", "segdefs", "fixups", "write", "done", "refused"}
    BY <2>1 DEF PassInv, StartInv
  <2>3. /\ Len(records) \in Nat /\ pos \in Nat \ {0} /\ segdefs \in Nat
        /\ Len(out) = Len(origin)
    BY <2>1, Lists
  <2>4. /\ pos \in 1 .. (Len(records) + 1) /\ segdefs \in 0 .. Len(records)
        /\ Len(out) <= Len(records)
    BY <2>1, <2>3 DEF PassInv, BoundInv
  <2>5. sub \in Nat \ {0} /\ (InFixupp => sub <= Len(Subs) + 1) BY <2>1, Lists, Current
  <2>6. EntryType \subseteq [defined : BOOLEAN, method : FrameMethods \cup {0},
                             datum : {"none", "thread", "frame", "target"} \X (Nat \X Nat)]
    <3>1. ThreadTokens \cup {NoDatum} \subseteq {"none", "thread", "frame", "target"} \X (Nat \X Nat)
      BY DEF ThreadTokens, NoDatum
    <3> QED BY <3>1 DEF EntryType
  <2>7. frames \in ThreadTable /\ targets \in ThreadTable
    BY <2>1, <2>6 DEF TypeInv, ThreadTable
  <2>8. \A k \in DOMAIN records : records[k].len \in 0 .. (WORD - 1)
    <3>1. ASSUME NEW k \in DOMAIN records PROVE records[k].len \in 0 .. (WORD - 1)
      <4>1. records[k] \in RecType BY <2>1, Lists
      <4> QED BY <4>1, RecFields DEF Words
    <3> QED BY <3>1
  <2>9. \A k \in DOMAIN fixups : Len(fixups[k].data) <= 3
    <3>1. ASSUME NEW k \in DOMAIN fixups PROVE Len(fixups[k].data) <= 3
      <4>1. fixups \in Seq(FixupType) BY <2>1 DEF TypeInv
      <4>2. fixups[k] \in FixupType BY <4>1, ElementOf
      <4> QED BY <4>2, ThreeTokens
    <3> QED BY <3>1
  <2>10. sizes \in [Segments -> -1 .. (2 * WORD)] BY <2>1 DEF TypeInv
  <2> QED BY <2>2, <2>3, <2>4, <2>5, <2>7, <2>8, <2>9, <2>10 DEF TypeOK
<1> QED BY <1>1, Invariance, PTL

(* What is written means to the linker what the module meant: every fixup is *)
(* explicit and whole and denotes the frame, target and displacement that    *)
(* the threads in force at its place gave it, and no record or fixup is      *)
(* lost, doubled or moved, whatever the module and however many times the    *)
(* threads are redefined in it.                                              *)
THEOREM MeaningIsKept == Spec => []ConversionKeepsMeaning
<1>1. ASSUME IInv, phase = "write"
      PROVE  /\ Traced(input, origin, Len(input))
             /\ \A k \in 1 .. Len(out) : Copied(input, records, out[k], origin[k])
             /\ SameButLength /\ TypeInv
  BY <1>1 DEF IInv, ThreadInv, OutInv, Done, PassInv, SameInv
<1>2. ASSUME IInv, phase = "write", NEW k \in DOMAIN out, out[k].type = "FIXUPP"
      PROVE  /\ \A l \in DOMAIN out[k].subs : Renders(input, out[k].subs[l], origin[k], l)
             /\ Len(out[k].subs) =
                  Cardinality(FixupsTo(input, origin[k], Len(input[origin[k]].subs)))
  <2>1. k \in 1 .. Len(out) /\ out[k] \in RecType BY <1>1, <1>2, Lists
  <2>2. Copied(input, records, out[k], origin[k]) BY <1>1, <1>2, <2>1
  <2>3. DOMAIN out[k].subs = 1 .. Len(out[k].subs)
    <3>1. out[k].subs \in Seq(SubType) BY <2>1, RecFields
    <3> QED BY <3>1, ElementOf
  <2> QED BY <1>2, <2>2, <2>3 DEF Copied
<1>3. ASSUME IInv, phase = "write", NEW k \in DOMAIN out
      PROVE  out[k].type = input[origin[k]].type
  <2> DEFINE i == origin[k]
  <2>1. k \in 1 .. Len(out) /\ k \in 1 .. Len(origin) BY <1>1, <1>3, Lists
  <2>2. i \in 1 .. Len(input) BY <1>1, <1>3, <2>1 DEF Traced
  <2>3. out[k] = [records[i] EXCEPT !.subs = out[k].subs] BY <1>1, <1>3, <2>1 DEF Copied
  <2> HIDE DEF i
  <2>4. records[i] = [input[i] EXCEPT !.len = records[i].len] /\ Len(records) = Len(input)
    BY <1>1, <1>3, <2>2 DEF SameButLength
  <2>5. records[i] \in RecType /\ input[i] \in RecType BY <1>1, <1>3, <2>2, <2>4, Lists
  <2>6. out[k].type = records[i].type BY <2>3, <2>5 DEF RecType
  <2>7. records[i].type = input[i].type BY <2>4, <2>5 DEF RecType
  <2> QED BY <2>6, <2>7 DEF i
<1>4. IInv => FixupsKeepMeaning BY <1>2 DEF FixupsKeepMeaning
<1>5. ASSUME IInv, phase = "write"
      PROVE  /\ \A k, l \in DOMAIN origin : k < l => origin[k] < origin[l]
             /\ \A i \in DOMAIN input :
                  (\E k \in DOMAIN origin : origin[k] = i) \/ OnlyThreads(input[i])
  <2>1. DOMAIN origin = 1 .. Len(origin) /\ DOMAIN input = 1 .. Len(input) BY <1>1, <1>5, Lists
  <2> QED BY <1>1, <1>5, <2>1 DEF Traced
<1>6. IInv => OrderKept BY <1>2, <1>3, <1>5 DEF OrderKept
<1>7. IInv => ConversionKeepsMeaning BY <1>4, <1>6 DEF ConversionKeepsMeaning
<1> QED BY <1>7, Invariance, PTL

(* A second run writes what the first wrote, byte for byte as far as records *)
(* and subrecords go: it finds every fixup explicit and every SEGDEF length  *)
(* what its data give it.                                                    *)
THEOREM ConversionIsIdempotent == Spec => []Idempotent
<1>1. ASSUME IInv, phase = "write", first # <<>> PROVE out = first
  <2>1. /\ TypeInv /\ input = first /\ Len(out) = Len(input)
        /\ \A k \in 1 .. Len(input) : out[k] = input[k]
    BY <1>1 DEF IInv, AgainInv, Rerun, Done
  <2>2. out \in Seq(RecType) /\ input \in Seq(RecType) BY <2>1 DEF TypeInv
  <2>3. out = input BY <2>1, <2>2, SeqEqual
  <2> QED BY <2>1, <2>3
<1>2. IInv => Idempotent BY <1>1 DEF Idempotent
<1> QED BY <1>2, Invariance, PTL

(* Every SEGDEF record that is written covers the data of its segment and    *)
(* what the compiler declared, and no more, whatever the order of records.   *)
THEOREM SegdefsAreRight == Spec => []SegdefsCoverData
<1>1. ASSUME IInv, phase \in {"fixups", "write"}, NEW i \in DOMAIN input, NEW n \in Segments,
             IsSegdef(input, i, n), \A e \in Ends(n) : e < WORD
      PROVE  /\ records[i].len \in Ends(n) \cup {input[i].len}
             /\ \A e \in Ends(n) \cup {input[i].len} : e <= records[i].len
  <2>1. TypeInv /\ PassInv BY <1>1 DEF IInv
  <2>2. /\ Covered(Len(input) + 1)
        /\ \A s \in Segments : Extends(input, s, Len(input) + 1, sizes[s])
    BY <1>1, <2>1 DEF PassInv, PatchInv, SizeInv
  <2>3. DOMAIN input = 1 .. Len(input) /\ Len(input) \in Nat BY <2>1, Lists
  <2>4. input[i].len \in Words /\ WORD \in Nat \ {0} /\ sizes[n] \in Int
    <3>1. input[i] \in RecType BY <2>1, Lists
    <3>2. sizes[n] \in Int BY <2>1 DEF TypeInv
    <3> QED BY <3>1, <3>2, RecFields, Widths
  <2>5. records[i].len = Patched(input[i], n)
    <3>1. i \in 1 .. (Len(input) + 1 - 1) BY <2>3
    <3>2. input[i].type = "SEGDEF" /\ Cardinality(SegdefsTo(input, i)) = n
      BY <1>1 DEF IsSegdef, SegdefsTo
    <3> QED BY <2>2, <3>1, <3>2 DEF Covered
  <2>6. 1 .. (Len(input) + 1 - 1) = DOMAIN input BY <2>3
  <2>7. \A e : e \in Ends(n) <=> \E k \in DOMAIN input : IsData(input, k, n) /\ e = End(input, k)
    BY DEF Ends, IsData, End
  <2>8. /\ \A e \in Ends(n) : e <= sizes[n]
        /\ sizes[n] = -1 \/ sizes[n] \in Ends(n)
    BY <2>2, <2>6, <2>7 DEF Extends
  <2>9. \A e \in Ends(n) : e \in Int
    <3>1. ASSUME NEW k \in DOMAIN input PROVE End(input, k) \in Nat
      BY <2>1, <2>3, EndIsNat DEF TypeInv
    <3> QED BY <2>7, <3>1
  <2>10. PICK l \in 0 .. (WORD - 1) : l = input[i].len BY <2>4 DEF Words
  <2>11. PICK size \in Int : size = sizes[n] BY <2>4
  <2>12. CASE size > l
    <3>1. size \in Ends(n) /\ size < WORD BY <1>1, <2>4, <2>8, <2>10, <2>11, <2>12
    <3>2. records[i].len = size % WORD BY <2>5, <2>10, <2>11, <2>12 DEF Patched
    <3>3. size \in 0 .. (WORD - 1) BY <2>4, <2>10, <2>12, <3>1
    <3>4. records[i].len = size BY <2>4, <3>2, <3>3
    <3> QED BY <2>4, <2>8, <2>9, <2>10, <2>11, <2>12, <3>1, <3>4
  <2>13. CASE ~(size > l)
    <3>1. records[i].len = l % WORD BY <2>5, <2>10, <2>11, <2>13 DEF Patched
    <3>2. records[i].len = l BY <2>4, <3>1
    <3>3. ASSUME NEW e \in Ends(n) PROVE e <= l BY <2>4, <2>8, <2>9, <2>11, <2>13
    <3> QED BY <2>4, <2>10, <3>2, <3>3
  <2> QED BY <2>12, <2>13
<1>2. IInv => SegdefsCoverData BY <1>1 DEF SegdefsCoverData
<1> QED BY <1>2, Invariance, PTL
=============================================================================
