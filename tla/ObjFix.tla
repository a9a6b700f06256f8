------------------------------- MODULE ObjFix -------------------------------
(***************************************************************************)
(* src/plitools/drpli_objfix.c: an object of the PL/I-86 compiler is made   *)
(* fit for LINK86.  Three passes over the records of the module: the extent *)
(* of every segment is found from the LEDATA records, SEGDEF records are     *)
(* given that length, and the fixups that name a thread are rewritten to     *)
(* name its frame or target themselves.                                      *)
(*                                                                          *)
(* A record is [type, seg, off, len, subs]: segment, offset and number of    *)
(* bytes of LEDATA, length of SEGDEF, subrecords of FIXUPP.  A fixup keeps   *)
(* the layout of the file: the bits of its fix-data byte, then the datums    *)
(* and the displacement that follow it, in order and only when present; each *)
(* of them is a token that tells which subrecord it came with.  Checksums,   *)
(* names and the bytes of LEDATA are not modelled.                           *)
(***************************************************************************)
EXTENDS Integers, Sequences, FiniteSets

CONSTANTS
  WORD,            \* 2^16: lengths and offsets are words
  Lengths,         \* lengths and offsets that occur in a module
  MaxSegments,     \* segments are numbered from 1
  Threads,         \* numbers of frame and of target threads (0 .. 3)
  FrameMethods,    \* frame methods that occur: 0 .. 2 have a datum
  TargetMethods,   \* explicit target methods that occur: all have a datum,
                   \* 0 .. 3 a displacement; 3 and 7 are not used by compilers
  Shapes           \* bounds on a module: its records and subrecords, and
                   \* the segments and lengths its records may name

ASSUME ObjFixAssumption ==
  /\ WORD \in Nat \ {0} /\ Lengths \subseteq 0 .. (WORD - 1)
  /\ MaxSegments \in Nat
  /\ Shapes # {}
  /\ \A s \in Shapes : /\ {s.records, s.subs, s.segments} \subseteq Nat
                      /\ s.lengths \subseteq Lengths
  /\ Threads \subseteq 0 .. 3
  /\ FrameMethods \subseteq {0, 1, 2, 4, 5}
  /\ TargetMethods \subseteq {0, 1, 2, 4, 5, 6}

VARIABLES
  phase, pos, sub,        \* the pass, its record, its subrecord
  records,                \* the list parse_records made, patched in place
  sizes,                  \* seg_sizes: -1 where no data was seen
  segdefs,                \* SEGDEF records met so far
  frames, targets,        \* the thread tables
  fixups,                 \* subrecords expanded for the current record
  out,                    \* the records to write
  destination,            \* what the output path holds
  input,                  \* history: the module as it was compiled
  origin,                 \* history: where each record of out comes from
  first                   \* history: what the first run wrote

passes == <<pos, sub, sizes, segdefs, frames, targets, fixups, out, origin>>
vars == <<phase, passes, records, destination, input, first>>

Segments == 1 .. MaxSegments
NoDatum == <<"none", <<0, 0>>>>
Undefined == [defined |-> FALSE, method |-> 0, datum |-> NoDatum]

-----------------------------------------------------------------------------
(***************************************************************************)
(* The modules the compiler writes                                         *)
(***************************************************************************)

Rec(t, s, o, l) == [type |-> t, seg |-> s, off |-> o, len |-> l, subs |-> <<>>]

PlainRecords ==
     {Rec("SEGDEF", 0, 0, l) : l \in Lengths}
  \cup {Rec("LEDATA", s, o, l) : s \in Segments, o \in Lengths, l \in Lengths}
  \cup {Rec("FIXUPP", 0, 0, 0)}

(* The subrecord with number n: a thread, or a fixup whose frame and target  *)
(* are explicit or taken from a thread.                                      *)
ThreadSubs(n) ==
  {[kind |-> "thread", frame |-> d, num |-> t, method |-> m,
    datum |-> IF m <= 2 THEN <<"thread", n>> ELSE NoDatum] :
     d \in BOOLEAN, t \in Threads, m \in FrameMethods}

Fixup(n, f, fm, t, p, tm, data) ==
  [kind |-> "fixup", locat |-> n, f |-> f, fm |-> fm, t |-> t, p |-> p,
   tm |-> tm, data |-> data]

FixupSubs(n) ==
  LET FData(f, m)   == IF ~f /\ m <= 2 THEN << <<"frame", n>> >> ELSE <<>>
      TData(t)      == IF ~t THEN << <<"target", n>> >> ELSE <<>>
      Disp(t, p, m) == IF (t /\ ~p) \/ (~t /\ m <= 3) THEN << <<"disp", n>> >> ELSE <<>>
      Any == {Fixup(n, f, fm, t, p, tm, FData(f, fm) \o TData(t) \o Disp(t, p, tm)) :
                f \in BOOLEAN, fm \in Threads \cup FrameMethods,
                t \in BOOLEAN, p \in BOOLEAN, tm \in Threads \cup TargetMethods}
  IN {s \in Any : /\ s.fm \in IF s.f THEN Threads ELSE FrameMethods
                  /\ s.tm \in IF s.t THEN Threads ELSE TargetMethods
                  /\ s.t \/ ~s.p}

SubsOf(m) == UNION {{i} \X DOMAIN m[i].subs : i \in DOMAIN m}

(* Subrecords of the module that come before subrecord j of record i.        *)
Before(m, i, j) == {q \in SubsOf(m) : q[1] < i \/ (q[1] = i /\ q[2] < j)}

(* What OMF says a thread stands for there: the last definition of it.       *)
Defines(m, q, d, t) ==
  LET s == m[q[1]].subs[q[2]] IN s.kind = "thread" /\ s.frame = d /\ s.num = t

LastDefinition(m, i, j, d, t, q) ==
  /\ q \in Before(m, i, j) /\ Defines(m, q, d, t)
  /\ \A r \in Before(m, i, j) :
        Defines(m, r, d, t) => r[1] < q[1] \/ (r[1] = q[1] /\ r[2] <= q[2])

IsDefined(m, i, j, d, t) == \E q \in Before(m, i, j) : Defines(m, q, d, t)

Thread(m, i, j, d, t) ==
  LET q == CHOOSE q \in Before(m, i, j) : LastDefinition(m, i, j, d, t, q)
  IN [method |-> m[q[1]].subs[q[2]].method, datum |-> m[q[1]].subs[q[2]].datum]

(* A compiler defines a thread before it is used; a target thread has one of *)
(* the methods 0 .. 2, the others have no meaning for a target.              *)
WellFormed(m, i, j, s) ==
  IF s.kind = "thread" THEN s.frame \/ s.method <= 2
  ELSE /\ s.f => IsDefined(m, i, j, TRUE, s.fm)
       /\ s.t => IsDefined(m, i, j, FALSE, s.tm)

(* Modules are as large as one of the shapes allows.                         *)
Bounded(m) ==
  \E s \in Shapes :
    /\ Len(m) <= s.records /\ Cardinality(SubsOf(m)) <= s.subs
    /\ \A i \in DOMAIN m :
         /\ m[i].seg <= s.segments
         /\ m[i].type # "FIXUPP" => m[i].len \in s.lengths
         /\ m[i].type = "LEDATA" => m[i].off \in s.lengths

Init ==
  /\ phase = "compile"
  /\ input = <<>> /\ records = <<>>
  /\ pos = 1 /\ sub = 1
  /\ sizes = [s \in Segments |-> -1] /\ segdefs = 0
  /\ frames = [t \in Threads |-> Undefined]
  /\ targets = [t \in Threads |-> Undefined]
  /\ fixups = <<>> /\ out = <<>> /\ origin = <<>> /\ first = <<>>
  /\ destination = [is |-> "old", recs |-> <<>>]

AddRecord ==
  /\ phase = "compile"
  /\ \E r \in PlainRecords : input' = Append(input, r)
  /\ Bounded(input')
  /\ UNCHANGED <<phase, passes, records, destination, first>>

AddSub ==
  /\ phase = "compile"
  /\ input # <<>> /\ input[Len(input)].type = "FIXUPP"
  /\ LET i == Len(input)
         j == Len(input[i].subs) + 1
     IN \E s \in ThreadSubs(<<i, j>>) \cup FixupSubs(<<i, j>>) :
          /\ WellFormed(input, i, j, s)
          /\ input' = [input EXCEPT ![i].subs = Append(@, s)]
  /\ Bounded(input')
  /\ UNCHANGED <<phase, passes, records, destination, first>>

-----------------------------------------------------------------------------
(***************************************************************************)
(* The program                                                             *)
(***************************************************************************)

(* parse_records stops at MODEND, and at 1Ah or a record that is cut; only a *)
(* list that ends with MODEND is worked on.                                  *)
Parse ==
  /\ phase = "compile"
  /\ \/ /\ records' = Append(input, Rec("MODEND", 0, 0, 0))
        /\ input' = records'
        /\ phase' = "sizes"
     \/ /\ phase' = "refused"
        /\ UNCHANGED <<records, input>>
  /\ UNCHANGED <<passes, destination, first>>

More(p) == phase = p /\ pos <= Len(records)

(* mutant: the last record that names a segment decides *)
ExtentOfLast(s, r) == IF r.type = "LEDATA" /\ r.seg = s THEN r.off + r.len ELSE sizes[s]

(* compute_seg_sizes: the greatest end of data seen in the segment.          *)
Extent(s, r) ==
  IF r.type = "LEDATA" /\ r.seg = s /\ (sizes[s] < 0 \/ r.off + r.len > sizes[s])
  THEN r.off + r.len ELSE sizes[s]

ComputeSize ==
  /\ More("sizes")
  /\ sizes' = [s \in Segments |-> Extent(s, records[pos])]
  /\ pos' = pos + 1
  /\ UNCHANGED <<phase, sub, segdefs, frames, targets, fixups, out, origin,
                 records, destination, input, first>>

StartPass(from, to) ==
  /\ phase = from /\ pos > Len(records)
  /\ phase' = to /\ pos' = 1
  /\ UNCHANGED <<sub, sizes, segdefs, frames, targets, fixups, out, origin,
                 records, destination, input, first>>

(* mutant: the length is not reduced to a word *)
PatchedLong(r, n) == IF n \in Segments /\ sizes[n] > r.len THEN sizes[n] ELSE r.len

(* patch_segdefs: the declared length may cover storage no LEDATA describes  *)
(* and never shrinks, but what is stored is a word.                          *)
Patched(r, n) ==
  (IF n \in Segments /\ sizes[n] > r.len THEN sizes[n] ELSE r.len) % WORD

PatchSegdef ==
  /\ More("segdefs")
  /\ IF records[pos].type = "SEGDEF"
     THEN /\ segdefs' = segdefs + 1
          /\ records' = [records EXCEPT ![pos].len = Patched(records[pos], segdefs + 1)]
     ELSE UNCHANGED <<segdefs, records>>
  /\ pos' = pos + 1
  /\ UNCHANGED <<phase, sub, sizes, frames, targets, fixups, out, origin,
                 destination, input, first>>

(* What the fixup uses as its frame: its own datum, or the thread's; a       *)
(* thread that is not defined is a warning and the target's frame (5).       *)
Frame(s) ==
  IF ~s.f THEN [method |-> s.fm, datum |-> IF s.fm <= 2 THEN s.data[1] ELSE NoDatum]
  ELSE IF frames[s.fm].defined
       THEN [method |-> frames[s.fm].method, datum |-> frames[s.fm].datum]
       ELSE [method |-> 5, datum |-> NoDatum]

(* Elements of data that parsing the frame has consumed.                     *)
FrameRead(s) == IF ~s.f /\ s.fm <= 2 THEN 1 ELSE 0

Target(s) ==
  LET k == FrameRead(s)
      thread == targets[s.tm]
  IN IF ~s.t THEN [method |-> s.tm, datum |-> s.data[k + 1],
                   disp |-> IF s.tm <= 3 THEN <<s.data[k + 2]>> ELSE <<>>]
     ELSE IF ~thread.defined THEN [method |-> 4, datum |-> NoDatum, disp |-> <<>>]
     ELSE IF s.p THEN [method |-> thread.method + 4, datum |-> thread.datum,
                       disp |-> <<>>]
     ELSE [method |-> thread.method, datum |-> thread.datum, disp |-> <<s.data[k + 1]>>]

Datum(method, last, datum) ==
  IF method <= last /\ datum # NoDatum THEN <<datum>> ELSE <<>>

(* mutant: the target's datum is written before the frame's *)
ExplicitSwapped(s) ==
  LET f == Frame(s)
      t == Target(s)
  IN Fixup(s.locat, FALSE, f.method, FALSE, FALSE, t.method % 8,
           Datum(t.method, 6, t.datum) \o Datum(f.method, 2, f.datum) \o t.disp)

(* The fixup as it is written: F = 0, T = 0.                                 *)
Explicit(s) ==
  LET f == Frame(s)
      t == Target(s)
  IN Fixup(s.locat, FALSE, f.method, FALSE, FALSE, t.method % 8,
           Datum(f.method, 2, f.datum) \o Datum(t.method, 6, t.datum) \o t.disp)

Entry(s) == [defined |-> TRUE, method |-> s.method, datum |-> s.datum]

DefineThread(s) ==
  IF s.frame THEN frames' = [frames EXCEPT ![s.num] = Entry(s)] /\ UNCHANGED targets
  ELSE targets' = [targets EXCEPT ![s.num] = Entry(s)] /\ UNCHANGED frames

InFixupp == More("fixups") /\ records[pos].type = "FIXUPP"
Subs == records[pos].subs

ExpandFixup ==
  /\ InFixupp /\ sub <= Len(Subs) /\ Subs[sub].kind = "fixup"
  /\ fixups' = Append(fixups, Explicit(Subs[sub]))
  /\ sub' = sub + 1
  /\ UNCHANGED <<phase, pos, sizes, segdefs, frames, targets, out, origin,
                 records, destination, input, first>>

ReadThread ==
  /\ InFixupp /\ sub <= Len(Subs) /\ Subs[sub].kind = "thread"
  /\ DefineThread(Subs[sub])
  /\ sub' = sub + 1
  /\ UNCHANGED <<phase, pos, sizes, segdefs, fixups, out, origin,
                 records, destination, input, first>>

(* mutant: the thread tables are cleared for every FIXUPP record *)
EndFixuppClearing ==
  /\ InFixupp /\ sub > Len(Subs)
  /\ IF fixups = <<>> THEN UNCHANGED <<out, origin>>
     ELSE /\ out' = Append(out, [records[pos] EXCEPT !.subs = fixups])
          /\ origin' = Append(origin, pos)
  /\ fixups' = <<>> /\ sub' = 1 /\ pos' = pos + 1
  /\ frames' = [t \in Threads |-> Undefined]
  /\ targets' = [t \in Threads |-> Undefined]
  /\ UNCHANGED <<phase, sizes, segdefs, records, destination, input, first>>

(* A FIXUPP record that only defines threads is dropped; the thread tables   *)
(* are kept for the records that follow.                                     *)
EndFixupp ==
  /\ InFixupp /\ sub > Len(Subs)
  /\ IF fixups = <<>> THEN UNCHANGED <<out, origin>>
     ELSE /\ out' = Append(out, [records[pos] EXCEPT !.subs = fixups])
          /\ origin' = Append(origin, pos)
  /\ fixups' = <<>> /\ sub' = 1 /\ pos' = pos + 1
  /\ UNCHANGED <<phase, sizes, segdefs, frames, targets,
                 records, destination, input, first>>

CopyRecord ==
  /\ More("fixups") /\ records[pos].type # "FIXUPP"
  /\ out' = Append(out, records[pos])
  /\ origin' = Append(origin, pos)
  /\ pos' = pos + 1
  /\ UNCHANGED <<phase, sub, sizes, segdefs, frames, targets, fixups,
                 records, destination, input, first>>

(* The output, which is the input unless a second name is given, is opened   *)
(* last; what fwrite and fclose return is not looked at, so that any part of *)
(* the object may be missing from a file reported as written.                *)
WriteObject ==
  /\ phase = "write"
  /\ \/ phase' = "done" /\ destination' = [is |-> "whole", recs |-> out]
     \/ phase' = "done" /\ destination' = [is |-> "cut", recs |-> <<>>]
     \/ phase' = "refused" /\ UNCHANGED destination
  /\ UNCHANGED <<passes, records, input, first>>

(* The program is run again on what it has written.                          *)
RunAgain ==
  /\ phase = "done" /\ destination.is = "whole" /\ first = <<>>
  /\ first' = destination.recs
  /\ input' = destination.recs /\ records' = destination.recs
  /\ phase' = "sizes"
  /\ pos' = 1 /\ sub' = 1
  /\ sizes' = [s \in Segments |-> -1] /\ segdefs' = 0
  /\ frames' = [t \in Threads |-> Undefined]
  /\ targets' = [t \in Threads |-> Undefined]
  /\ fixups' = <<>> /\ out' = <<>> /\ origin' = <<>>
  /\ UNCHANGED destination

Next ==
  \/ AddRecord \/ AddSub \/ Parse
  \/ ComputeSize \/ StartPass("sizes", "segdefs")
  \/ PatchSegdef \/ StartPass("segdefs", "fixups")
  \/ ExpandFixup \/ ReadThread \/ EndFixupp \/ CopyRecord
  \/ StartPass("fixups", "write") \/ WriteObject \/ RunAgain

Spec == Init /\ [][Next]_vars

-----------------------------------------------------------------------------
(***************************************************************************)
(* Properties                                                              *)
(***************************************************************************)

ThreadTable == [Threads -> [defined : BOOLEAN, method : FrameMethods \cup {0},
                            datum : {"none", "thread", "frame", "target"} \X (Nat \X Nat)]]

TypeOK ==
  /\ phase \in {"compile", "sizes", "segdefs", "fixups", "write", "done", "refused"}
  /\ pos \in 1 .. (Len(records) + 1)
  /\ sub \in Nat \ {0} /\ (InFixupp => sub <= Len(Subs) + 1)
  /\ sizes \in [Segments -> -1 .. (2 * WORD)]
  /\ segdefs \in 0 .. Len(records)
  /\ frames \in ThreadTable /\ targets \in ThreadTable
  /\ \A k \in DOMAIN records : records[k].len \in 0 .. (WORD - 1)
  /\ \A k \in DOMAIN fixups : Len(fixups[k].data) <= 3
  /\ Len(out) = Len(origin) /\ Len(out) <= Len(records)

(* What a fixup denotes for the linker, by the rules of OMF and the threads  *)
(* defined before it: the frame, the target (its method without the P bit)   *)
(* and the displacement, none standing for zero.                             *)
OwnFrame(s) == [method |-> s.fm, datum |-> IF s.fm <= 2 THEN s.data[1] ELSE NoDatum]

FrameData(s) == IF ~s.f /\ s.fm <= 2 THEN 1 ELSE 0

OwnTarget(s) ==
  LET k == FrameData(s)
  IN [thread |-> [method |-> s.tm % 4, datum |-> s.data[k + 1]],
      disp   |-> IF s.tm <= 3 THEN <<s.data[k + 2]>> ELSE <<>>]

FrameOf(m, i, j) ==
  LET s == m[i].subs[j] IN
  IF s.f THEN Thread(m, i, j, TRUE, s.fm) ELSE OwnFrame(s)

TargetOf(m, i, j) ==
  LET s == m[i].subs[j]
      k == FrameData(s)
  IN IF s.t THEN [thread |-> Thread(m, i, j, FALSE, s.tm),
                  disp   |-> IF s.p THEN <<>> ELSE <<s.data[k + 1]>>]
     ELSE OwnTarget(s)

(* Every field the bits announce is there and nothing else.                  *)
Complete(s) ==
  Len(s.data) = FrameData(s) + (IF ~s.t THEN 1 ELSE 0)
                + (IF (s.t /\ ~s.p) \/ (~s.t /\ s.tm <= 3) THEN 1 ELSE 0)

(* The l-th fixup of record i of a module is its subrecord j.                *)
FixupsTo(m, i, j) == {h \in 1 .. j : m[i].subs[h].kind = "fixup"}
IsFixup(m, i, j, l) ==
  m[i].subs[j].kind = "fixup" /\ Cardinality(FixupsTo(m, i, j)) = l

(* drpli_objfix.c:14-16, expand_fixupp_threads: fixup l of a written record  *)
(* is explicit and complete and denotes the frame, target and displacement   *)
(* that fixup l of the original record denotes, with the threads that were in *)
(* force at its place, whichever record defined or redefined them.           *)
Renders(m, s, i, l) ==
  /\ s.kind = "fixup" /\ ~s.f /\ ~s.t /\ Complete(s)
  /\ \E j \in DOMAIN m[i].subs :
       /\ IsFixup(m, i, j, l)
       /\ m[i].subs[j].locat = s.locat
       /\ FrameOf(m, i, j) = OwnFrame(s)
       /\ TargetOf(m, i, j) = OwnTarget(s)

FixupsKeepMeaning ==
  phase = "write" =>
    \A k \in DOMAIN out : out[k].type = "FIXUPP" =>
      \A l \in DOMAIN out[k].subs : Renders(input, out[k].subs[l], origin[k], l)

(* No record and no fixup is lost, doubled or moved: what is written comes   *)
(* from the input in its order, every fixup still with the LEDATA record it  *)
(* follows, and what is missing only defined threads.                        *)
OnlyThreads(r) ==
  r.type = "FIXUPP" /\ \A j \in DOMAIN r.subs : r.subs[j].kind = "thread"

OrderKept ==
  phase = "write" =>
    /\ \A k, l \in DOMAIN origin : k < l => origin[k] < origin[l]
    /\ \A i \in DOMAIN input :
         (\E k \in DOMAIN origin : origin[k] = i) \/ OnlyThreads(input[i])
    /\ \A k \in DOMAIN out :
         /\ out[k].type = input[origin[k]].type
         /\ out[k].type = "FIXUPP" =>
              Len(out[k].subs) =
                Cardinality(FixupsTo(input, origin[k], Len(input[origin[k]].subs)))

(* The linker makes of the converted object what it made of the compiler's.  *)
ConversionKeepsMeaning == FixupsKeepMeaning /\ OrderKept

(* The n-th SEGDEF record of a list is record i of it.                       *)
IsSegdef(m, i, n) ==
  /\ m[i].type = "SEGDEF"
  /\ Cardinality({k \in 1 .. i : m[k].type = "SEGDEF"}) = n

(* drpli_objfix.c:6-9: a SEGDEF record that is written covers all the data   *)
(* of its segment and what the compiler declared, and no more; the segments  *)
(* whose data ends below 64K.                                                *)
Ends(n) == {input[k].off + input[k].len :
              k \in {k \in DOMAIN input : input[k].type = "LEDATA" /\ input[k].seg = n}}

SegdefsCoverData ==
  phase \in {"fixups", "write"} =>
    \A i \in DOMAIN input : \A n \in Segments :
      IsSegdef(input, i, n) /\ (\A e \in Ends(n) : e < WORD) =>
        /\ records[i].len \in Ends(n) \cup {input[i].len}
        /\ \A e \in Ends(n) \cup {input[i].len} : e <= records[i].len

(* test_objfix.py:52: "conversion must be idempotent".                       *)
Idempotent == phase = "write" /\ first # <<>> => out = first

(* drpli_objfix.c:9: "Existing lengths also cover uninitialized storage and  *)
(* must not shrink."  Violated: data that ends at 64K makes the length zero. *)
SegdefsNeverShrink ==
  phase = "fixups" =>
    \A i \in DOMAIN input :
      input[i].type = "SEGDEF" => input[i].len <= records[i].len

(* drpli_objfix.c:17-18: "The output file is also padded to a 128-byte       *)
(* boundary": what a run reports as written is a whole padded object.        *)
(* Violated: the results of fwrite and fclose are not looked at.             *)
ReportedIsWritten == phase = "done" => destination.is = "whole"
=============================================================================
