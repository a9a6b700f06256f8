---------------------------- MODULE AccArgsProofs ----------------------------
(***************************************************************************)
(* The properties of AccArgs for every set of arguments, command lines of   *)
(* every length, and every table of macros, names and limits.               *)
(*                                                                          *)
(* The arguments read so far are compared with the request by operators of  *)
(* a sequence s of tokens and a request r: a step of the parser adds one     *)
(* option to s (one token, or two with a separate operand), changes r as     *)
(* that option says, and is refused whenever the two would no longer agree.  *)
(***************************************************************************)
EXTENDS AccArgs, FiniteSetTheorems, SequenceTheorems, TLAPS

Accepted == {"plan", "print", "execute"}

Vals == {t.val : t \in Tokens}
Entries == Vals \cup ({"", "-l"} \X Vals) \cup {Macro[v] : v \in Vals}

ValsOrNone == Vals \cup {""}
Stages == {"link", "object", "assembly"}
Optimizations == {"default", "-Osize", "-Ospeed"}

Request ==
  [stage : Stages, flags : SUBSET Flags,
   optimize : Optimizations,
   choice : [Chosen -> ValsOrNone], text : [Texts -> ValsOrNone],
   list : [Lists -> Seq(Entries)]]

(* The options of a sequence of tokens, where they stand and what they say.  *)
Bare(t) == t.opt \in Short /\ t.val = ""
OperandOf(s, i) == i > 1 /\ Bare(s[i - 1])
OptionsOf(s) == {i \in DOMAIN s : ~OperandOf(s, i)}
AtOf(s, opt) == {i \in OptionsOf(s) : s[i].opt = opt}
ValueOf(s, i) == IF Bare(s[i]) THEN s[i + 1].val ELSE s[i].val
SaidOf(s, opt) == IF AtOf(s, opt) = {} THEN "" ELSE ValueOf(s, LastOf(AtOf(s, opt)))

(* The options a list is made of, and the entry one of them puts there.      *)
IsFor(l, opt) == IF l = "inputs" THEN opt \in {"input", "-l"} ELSE opt = l
Entry(l, opt, v) ==
  IF l = "inputs" THEN <<IF opt = "-l" THEN "-l" ELSE "", v>>
  ELSE IF l = "-D" THEN Macro[v] ELSE v
ListArgs(s, l) == {i \in OptionsOf(s) : IsFor(l, s[i].opt)}
Rank(S, i) == Cardinality({j \in S : j <= i})

ListSays(s, l, list) ==
  /\ Len(list) = Cardinality(ListArgs(s, l))
  /\ \A i \in ListArgs(s, l) :
       list[Rank(ListArgs(s, l), i)] = Entry(l, s[i].opt, ValueOf(s, i))

(* The request says what the arguments say.                                  *)
Says(s, r) ==
  /\ \A t \in Texts : r.text[t] = SaidOf(s, t)
  /\ \A c \in Chosen : r.choice[c] = SaidOf(s, c)
  /\ r.flags = {f \in Flags : AtOf(s, f) # {}}
  /\ r.stage = IF AtOf(s, "-c") # {} THEN "object"
               ELSE IF AtOf(s, "-S") # {} THEN "assembly" ELSE "link"
  /\ \A l \in Lists : ListSays(s, l, r.list[l])

OverlayOptions == {"-overlay=", "-overlay-root="}
Refused == {"@", "empty", "unknown"} \cup Alone

(* The arguments do not contradict each other.                               *)
Agree(s, r) ==
  /\ AtOf(s, "-c") = {} \/ AtOf(s, "-S") = {}
  /\ \A x \in OverlayOptions :
       AtOf(s, x) = {} \/ (r.text[x] # "" /\ \E m : AtOf(s, x) = {m})
  /\ \A bad \in Refused : AtOf(s, bad) = {}
  /\ \A i, j \in AtOf(s, "-D") :
       Macro[ValueOf(s, i)].name = Macro[ValueOf(s, j)].name =>
         Macro[ValueOf(s, i)].value = Macro[ValueOf(s, j)].value

(* No option still waits for its operand; every option given has a last      *)
(* place.                                                                    *)
Finished(s) == s # <<>> => ~Bare(s[Len(s)])
HasLast(s) ==
  \A opt : AtOf(s, opt) # {} =>
    \E i \in AtOf(s, opt) : \A j \in AtOf(s, opt) : j <= i

(* What the parser bounds of a request.                                      *)
Limits(r) ==
  /\ \A c \in Chosen : r.choice[c] \in Choices[c] \cup {""}
  /\ \A l \in Lists : Len(r.list[l]) <= ListLimit
  /\ r.text["-overlay-root="] # "" => r.text["-overlay-root="] \in HexSizes

TypeInv ==
  /\ phase \in {"start", "parse", "exit"} \cup Accepted
  /\ request \in Request
  /\ argv \in Seq(Tokens)
  /\ Limits(request)

UnderstoodInv ==
  phase # "exit" =>
    Finished(argv) /\ HasLast(argv) /\ Says(argv, request) /\ Agree(argv, request)

IInv == TypeInv /\ UnderstoodInv /\ (phase \in Accepted => ~Contradiction)

-----------------------------------------------------------------------------
(***************************************************************************)
(* One more option                                                         *)
(***************************************************************************)

(* t is s with option opt, which says v, at place n behind all the others.   *)
Gives(s, t, n, opt, v) ==
  /\ n \in Nat /\ OptionsOf(s) \subseteq 1 .. (n - 1)
  /\ OptionsOf(t) = OptionsOf(s) \cup {n}
  /\ t[n].opt = opt /\ ValueOf(t, n) = v
  /\ \A i \in OptionsOf(s) : t[i].opt = s[i].opt /\ ValueOf(t, i) = ValueOf(s, i)
  /\ Finished(t)

StageAfter(opt, stage) ==
  IF opt = "-c" THEN "object" ELSE IF opt = "-S" THEN "assembly" ELSE stage

(* The request r becomes q as the option says.                               *)
Follows(opt, v, r, q) ==
  /\ \A t \in Texts : q.text[t] = IF t = opt THEN v ELSE r.text[t]
  /\ \A c \in Chosen : q.choice[c] = IF c = opt THEN v ELSE r.choice[c]
  /\ q.flags = r.flags \cup ({opt} \cap Flags)
  /\ q.stage = StageAfter(opt, r.stage)
  /\ \A l \in Lists :
       q.list[l] = IF IsFor(l, opt) THEN Append(r.list[l], Entry(l, opt, v)) ELSE r.list[l]

(* Why the parser did not refuse the option.                                 *)
Allowed(opt, v, r) ==
  /\ opt = "-c" => r.stage # "assembly"
  /\ opt = "-S" => r.stage # "object"
  /\ opt \in OverlayOptions => r.text[opt] = "" /\ v # ""
  /\ opt \notin Refused
  /\ opt = "-D" => \A k \in DOMAIN r.list["-D"] :
                     r.list["-D"][k].name = Macro[v].name =>
                       r.list["-D"][k].value = Macro[v].value
  /\ v \in Vals
  /\ \A l \in Lists : IsFor(l, opt) => Len(r.list[l]) # ListLimit
  /\ opt \in Chosen => v \in Choices[opt]
  /\ opt = "-overlay-root=" => v \in HexSizes

(* An option of one token.                                                   *)
LEMMA GivesOne ==
  ASSUME NEW s \in Seq(Tokens), Finished(s), NEW t \in Tokens, ~Bare(t)
  PROVE  \E n : Gives(s, s \o <<t>>, n, t.opt, t.val)
<1> DEFINE u == s \o <<t>>
<1> HIDE DEF u
<1>1. PICK n \in Nat : n = Len(s) + 1 BY LenProperties
<1>2. /\ u \in Seq(Tokens) /\ Len(u) = n /\ u[n] = t /\ DOMAIN u = 1 .. n /\ DOMAIN s = 1 .. (n - 1)
      /\ \A i \in 1 .. (n - 1) : u[i] = s[i]
  <2>1. <<t>> \in Seq(Tokens) /\ Len(<<t>>) = 1 /\ <<t>>[1] = t OBVIOUS
  <2>2. DOMAIN s = 1 .. (n - 1) /\ Len(s) = n - 1 BY <1>1, LenProperties
  <2>3. u \in Seq(Tokens) /\ Len(u) = n BY <1>1, <2>1, ConcatProperties DEF u
  <2>4. \A i \in 1 .. n : u[i] = IF i <= n - 1 THEN s[i] ELSE <<t>>[i - (n - 1)]
    BY <2>1, <2>2, <2>3, ConcatProperties DEF u
  <2> QED BY <2>1, <2>2, <2>3, <2>4
<1>3. \A i \in 1 .. (n - 1) : OperandOf(u, i) <=> OperandOf(s, i)
  BY <1>2 DEF OperandOf
<1>4. ~OperandOf(u, n)
  <2>1. CASE n > 1
    <3>1. s # <<>> /\ Len(s) = n - 1 BY <1>1, <2>1
    <3>2. u[n - 1] = s[n - 1] BY <1>2, <2>1
    <3> QED BY <3>1, <3>2 DEF OperandOf, Finished
  <2> QED BY <2>1 DEF OperandOf
<1>5. OptionsOf(u) = OptionsOf(s) \cup {n} /\ OptionsOf(s) \subseteq 1 .. (n - 1)
  <2>1. \A i : i \in OptionsOf(u) <=> i \in OptionsOf(s) \cup {n}
    BY <1>1, <1>2, <1>3, <1>4 DEF OptionsOf
  <2> QED BY <1>2, <2>1 DEF OptionsOf
<1>6. ASSUME NEW i \in OptionsOf(s) PROVE u[i].opt = s[i].opt /\ ValueOf(u, i) = ValueOf(s, i)
  <2>1. i \in 1 .. (n - 1) /\ u[i] = s[i] BY <1>2, <1>5
  <2>2. CASE i = n - 1
    <3>1. s # <<>> /\ Len(s) = i BY <1>1, <2>1, <2>2
    <3> QED BY <2>1, <3>1 DEF ValueOf, Finished
  <2>3. CASE i # n - 1
    <3>1. u[i + 1] = s[i + 1] BY <1>2, <2>1, <2>3
    <3> QED BY <2>1, <3>1 DEF ValueOf
  <2> QED BY <2>2, <2>3
<1>7. ValueOf(u, n) = t.val /\ Finished(u) BY <1>2 DEF ValueOf, Finished
<1> QED BY <1>2, <1>5, <1>6, <1>7 DEF Gives, u

(* An option and the word after it, which is its operand.                    *)
LEMMA GivesTwo ==
  ASSUME NEW s \in Seq(Tokens), Finished(s), NEW t \in Tokens, NEW o \in Tokens,
         Bare(t), ~Bare(o)
  PROVE  \E n : Gives(s, s \o <<t, o>>, n, t.opt, o.val)
<1> DEFINE u == s \o <<t, o>>
<1> HIDE DEF u
<1>1. PICK n \in Nat : n = Len(s) + 1 BY LenProperties
<1>2. /\ u \in Seq(Tokens) /\ Len(u) = n + 1 /\ u[n] = t /\ u[n + 1] = o
      /\ DOMAIN u = 1 .. (n + 1) /\ DOMAIN s = 1 .. (n - 1)
      /\ \A i \in 1 .. (n - 1) : u[i] = s[i]
  <2>1. <<t, o>> \in Seq(Tokens) /\ Len(<<t, o>>) = 2 /\ <<t, o>>[1] = t /\ <<t, o>>[2] = o
    OBVIOUS
  <2>2. DOMAIN s = 1 .. (n - 1) /\ Len(s) = n - 1 BY <1>1, LenProperties
  <2>3. u \in Seq(Tokens) /\ Len(u) = n + 1 BY <1>1, <2>1, <2>2, ConcatProperties DEF u
  <2>4. \A i \in 1 .. (n + 1) : u[i] = IF i <= n - 1 THEN s[i] ELSE <<t, o>>[i - (n - 1)]
    BY <2>1, <2>2, <2>3, ConcatProperties DEF u
  <2> QED BY <2>1, <2>2, <2>3, <2>4
<1>3. \A i \in 1 .. (n - 1) : OperandOf(u, i) <=> OperandOf(s, i)
  BY <1>2 DEF OperandOf
<1>4. ~OperandOf(u, n)
  <2>1. CASE n > 1
    <3>1. s # <<>> /\ Len(s) = n - 1 BY <1>1, <2>1
    <3>2. u[n - 1] = s[n - 1] BY <1>2, <2>1
    <3> QED BY <3>1, <3>2 DEF OperandOf, Finished
  <2> QED BY <2>1 DEF OperandOf
<1>5. OperandOf(u, n + 1)
  <2>1. n >= 1 BY <1>1
  <2> QED BY <1>2, <2>1 DEF OperandOf
<1>6. OptionsOf(u) = OptionsOf(s) \cup {n} /\ OptionsOf(s) \subseteq 1 .. (n - 1)
  <2>1. \A i : i \in OptionsOf(u) <=> i \in OptionsOf(s) \cup {n}
    BY <1>1, <1>2, <1>3, <1>4, <1>5 DEF OptionsOf
  <2> QED BY <1>2, <2>1 DEF OptionsOf
<1>7. ASSUME NEW i \in OptionsOf(s) PROVE u[i].opt = s[i].opt /\ ValueOf(u, i) = ValueOf(s, i)
  <2>1. i \in 1 .. (n - 1) /\ u[i] = s[i] BY <1>2, <1>6
  <2>2. CASE i = n - 1
    <3>1. s # <<>> /\ Len(s) = i BY <1>1, <2>1, <2>2
    <3> QED BY <2>1, <3>1 DEF ValueOf, Finished
  <2>3. CASE i # n - 1
    <3>1. u[i + 1] = s[i + 1] BY <1>2, <2>1, <2>3
    <3> QED BY <2>1, <3>1 DEF ValueOf
  <2> QED BY <2>2, <2>3
<1>8. ValueOf(u, n) = o.val BY <1>2 DEF ValueOf
<1>9. Finished(u) BY <1>2 DEF Finished
<1> QED BY <1>2, <1>6, <1>7, <1>8, <1>9 DEF Gives, u

(* The places of every option after one more.                                *)
LEMMA PlacesAfter ==
  ASSUME NEW s, NEW t, NEW n, NEW opt, NEW v, Gives(s, t, n, opt, v)
  PROVE  /\ \A p : AtOf(t, p) = IF p = opt THEN AtOf(s, p) \cup {n} ELSE AtOf(s, p)
         /\ \A l : ListArgs(t, l) = IF IsFor(l, opt) THEN ListArgs(s, l) \cup {n}
                                    ELSE ListArgs(s, l)
         /\ n \in Nat
         /\ \A p : AtOf(s, p) \subseteq 1 .. (n - 1)
         /\ \A l : ListArgs(s, l) \subseteq 1 .. (n - 1)
<1> USE DEF Gives
<1>1. n \in Nat /\ OptionsOf(s) \subseteq 1 .. (n - 1) /\ n \notin OptionsOf(s) OBVIOUS
<1>2. ASSUME NEW p, NEW i
      PROVE  i \in AtOf(t, p) <=> i \in AtOf(s, p) \/ (i = n /\ p = opt)
  BY <1>1 DEF AtOf
<1>3. ASSUME NEW l, NEW i
      PROVE  i \in ListArgs(t, l) <=> i \in ListArgs(s, l) \/ (i = n /\ IsFor(l, opt))
  <2>1. CASE i = n BY <1>1, <2>1 DEF ListArgs
  <2>2. CASE i # n
    <3>1. ASSUME i \in OptionsOf(s) PROVE t[i].opt = s[i].opt BY <3>1
    <3> QED BY <2>2, <3>1 DEF ListArgs
  <2> QED BY <2>1, <2>2
<1>4. ASSUME NEW p
      PROVE  AtOf(t, p) = IF p = opt THEN AtOf(s, p) \cup {n} ELSE AtOf(s, p)
  <2>1. CASE p = opt
    <3>1. \A i : i \in AtOf(t, p) <=> i \in AtOf(s, p) \cup {n} BY <1>2, <2>1
    <3> QED BY <2>1, <3>1
  <2>2. CASE p # opt
    <3>1. \A i : i \in AtOf(t, p) <=> i \in AtOf(s, p) BY <1>2, <2>2
    <3> QED BY <2>2, <3>1
  <2> QED BY <2>1, <2>2
<1>5. \A l : ListArgs(t, l) = IF IsFor(l, opt) THEN ListArgs(s, l) \cup {n} ELSE ListArgs(s, l)
  BY <1>3
<1> QED BY <1>1, <1>4, <1>5 DEF AtOf, ListArgs

(* The last place of an option is one of its places.                         *)
LEMMA LastIsPlace ==
  ASSUME NEW S, NEW i \in S, \A j \in S : j <= i
  PROVE  LastOf(S) \in S /\ \A j \in S : j <= LastOf(S)
BY DEF LastOf

(* What an option finally says is what it said last.                         *)
LEMMA SaidAfter ==
  ASSUME NEW s, NEW t, NEW n, NEW opt, NEW v, Gives(s, t, n, opt, v), HasLast(s)
  PROVE  /\ HasLast(t)
         /\ \A p : SaidOf(t, p) = IF p = opt THEN v ELSE SaidOf(s, p)
<1>1. n \in Nat /\ \A p : AtOf(s, p) \subseteq 1 .. (n - 1) BY PlacesAfter
<1>2. \A p : AtOf(t, p) = IF p = opt THEN AtOf(s, p) \cup {n} ELSE AtOf(s, p) BY PlacesAfter
<1>3. n \in AtOf(t, opt) /\ \A j \in AtOf(t, opt) : j \in Nat /\ j <= n BY <1>1, <1>2
<1>4. HasLast(t) BY <1>2, <1>3 DEF HasLast
<1>5. SaidOf(t, opt) = v
  <2>1. LastOf(AtOf(t, opt)) \in AtOf(t, opt) /\ n <= LastOf(AtOf(t, opt)) BY <1>3, LastIsPlace
  <2>2. PICK m \in AtOf(t, opt) : m = LastOf(AtOf(t, opt)) /\ n <= m BY <2>1
  <2>3. m \in Nat /\ m <= n BY <1>3
  <2>4. LastOf(AtOf(t, opt)) = n BY <1>1, <2>2, <2>3
  <2> QED BY <1>3, <2>4 DEF SaidOf, Gives
<1>6. ASSUME NEW p, p # opt PROVE SaidOf(t, p) = SaidOf(s, p)
  <2>1. AtOf(t, p) = AtOf(s, p) BY <1>2, <1>6
  <2>2. CASE AtOf(s, p) = {} BY <2>1, <2>2 DEF SaidOf
  <2>3. CASE AtOf(s, p) # {}
    <3>1. LastOf(AtOf(s, p)) \in AtOf(s, p) BY <2>3, LastIsPlace DEF HasLast
    <3>2. LastOf(AtOf(s, p)) \in OptionsOf(s) BY <3>1 DEF AtOf
    <3>3. ValueOf(t, LastOf(AtOf(s, p))) = ValueOf(s, LastOf(AtOf(s, p))) BY <3>2 DEF Gives
    <3> QED BY <2>1, <3>3 DEF SaidOf
  <2> QED BY <2>2, <2>3
<1> QED BY <1>4, <1>5, <1>6

(* Ranks of a set of places below n, and of n when it is added.              *)
LEMMA RankAfter ==
  ASSUME NEW n \in Nat, NEW S \in SUBSET (1 .. (n - 1))
  PROVE  /\ IsFiniteSet(S) /\ Cardinality(S) \in Nat
         /\ Cardinality(S \cup {n}) = Cardinality(S) + 1
         /\ Rank(S \cup {n}, n) = Cardinality(S) + 1
         /\ \A i \in S : /\ Rank(S \cup {n}, i) = Rank(S, i)
                         /\ Rank(S, i) \in 1 .. Cardinality(S)
<1>1. IsFiniteSet(S) /\ n \notin S
  <2>1. IsFiniteSet(1 .. (n - 1)) BY FS_Interval
  <2>2. n \notin S OBVIOUS
  <2> QED BY <2>1, <2>2, FS_Subset
<1>2. Cardinality(S) \in Nat /\ Cardinality(S \cup {n}) = Cardinality(S) + 1
  BY <1>1, FS_CardinalityType, FS_AddElement
<1>3. {j \in S \cup {n} : j <= n} = S \cup {n}
  <2>1. \A j \in S \cup {n} : j <= n OBVIOUS
  <2> QED BY <2>1
<1>4. ASSUME NEW i \in S
      PROVE  Rank(S \cup {n}, i) = Rank(S, i) /\ Rank(S, i) \in 1 .. Cardinality(S)
  <2> DEFINE B == {j \in S : j <= i}
  <2>1. i \in 1 .. (n - 1) OBVIOUS
  <2>2. {j \in S \cup {n} : j <= i} = B BY <2>1
  <2>3. B \in SUBSET S /\ i \in B BY <2>1
  <2> HIDE DEF B
  <2>4. IsFiniteSet(B) /\ Cardinality(B) <= Cardinality(S) BY <1>1, <2>3, FS_Subset
  <2>5. Cardinality(B) \in Nat /\ Cardinality(B) # 0
    BY <2>3, <2>4, FS_CardinalityType, FS_EmptySet
  <2>6. Rank(S \cup {n}, i) = Cardinality(B) BY <2>2 DEF Rank
  <2>7. Rank(S, i) = Cardinality(B) BY DEF Rank, B
  <2> QED BY <1>2, <2>4, <2>5, <2>6, <2>7
<1> QED BY <1>1, <1>2, <1>3, <1>4 DEF Rank

(* Every list still says what its options say after one more option.         *)
LEMMA ListAfter ==
  ASSUME NEW s, NEW t, NEW n, NEW opt, NEW v, Gives(s, t, n, opt, v),
         NEW l, NEW list \in Seq(Entries), ListSays(s, l, list),
         Entry(l, opt, v) \in Entries \/ ~IsFor(l, opt)
  PROVE  ListSays(t, l, IF IsFor(l, opt) THEN Append(list, Entry(l, opt, v)) ELSE list)
<1> DEFINE S == ListArgs(s, l)
<1>1. /\ n \in Nat /\ S \in SUBSET (1 .. (n - 1))
      /\ ListArgs(t, l) = IF IsFor(l, opt) THEN S \cup {n} ELSE S
  BY PlacesAfter
<1>2. ASSUME NEW i \in S
      PROVE  Entry(l, t[i].opt, ValueOf(t, i)) = Entry(l, s[i].opt, ValueOf(s, i))
  <2>1. i \in OptionsOf(s) BY DEF ListArgs
  <2> QED BY <2>1 DEF Gives
<1>3. /\ Len(list) = Cardinality(S)
      /\ \A i \in S : list[Rank(S, i)] = Entry(l, s[i].opt, ValueOf(s, i))
  BY DEF ListSays
<1>4. Entry(l, t[n].opt, ValueOf(t, n)) = Entry(l, opt, v) BY DEF Gives
<1> HIDE DEF S
<1>5. CASE ~IsFor(l, opt)
  <2>1. ListArgs(t, l) = S BY <1>1, <1>5
  <2> QED BY <1>2, <1>3, <1>5, <2>1 DEF ListSays
<1>6. CASE IsFor(l, opt)
  <2> DEFINE T == S \cup {n}
             longer == Append(list, Entry(l, opt, v))
  <2>1. ListArgs(t, l) = T BY <1>1, <1>6
  <2>2. /\ Cardinality(S) \in Nat
        /\ Cardinality(T) = Cardinality(S) + 1
        /\ Rank(T, n) = Cardinality(S) + 1
        /\ \A i \in S : Rank(T, i) = Rank(S, i) /\ Rank(S, i) \in 1 .. Cardinality(S)
    BY <1>1, RankAfter
  <2>3. /\ Len(longer) = Len(list) + 1 /\ longer[Len(list) + 1] = Entry(l, opt, v)
        /\ \A k \in 1 .. Len(list) : longer[k] = list[k]
    BY <1>6
  <2> HIDE DEF T, longer
  <2>4. Len(longer) = Cardinality(T) BY <1>3, <2>2, <2>3
  <2>5. ASSUME NEW i \in T PROVE longer[Rank(T, i)] = Entry(l, t[i].opt, ValueOf(t, i))
    <3>1. CASE i = n BY <1>3, <1>4, <2>2, <2>3, <3>1
    <3>2. CASE i \in S
      <4>1. longer[Rank(T, i)] = list[Rank(S, i)] BY <1>3, <2>2, <2>3, <3>2
      <4> QED BY <1>2, <1>3, <3>2, <4>1
    <3> QED BY <3>1, <3>2 DEF T
  <2>6. ListSays(t, l, longer) BY <2>1, <2>4, <2>5 DEF ListSays
  <2> QED BY <1>6, <2>6 DEF longer
<1> QED BY <1>5, <1>6

(* A request that follows the option still says what the arguments say, and  *)
(* what was allowed does not contradict what was said before.                *)
LEMMA Understands ==
  ASSUME NEW s, NEW t, NEW n, NEW opt, NEW v, Gives(s, t, n, opt, v),
         NEW r \in Request, NEW q, HasLast(s), Says(s, r), Agree(s, r),
         Follows(opt, v, r, q), Allowed(opt, v, r)
  PROVE  HasLast(t) /\ Says(t, q) /\ Agree(t, q)
<1>1. HasLast(t) /\ \A p : SaidOf(t, p) = IF p = opt THEN v ELSE SaidOf(s, p) BY SaidAfter
<1>2. n \in Nat /\ \A p : AtOf(t, p) = IF p = opt THEN AtOf(s, p) \cup {n} ELSE AtOf(s, p)
  BY PlacesAfter
<1>3. Says(t, q)
  <2>1. \A x \in Texts : q.text[x] = SaidOf(t, x) BY <1>1 DEF Follows, Says
  <2>2. \A c \in Chosen : q.choice[c] = SaidOf(t, c) BY <1>1 DEF Follows, Says
  <2>3. q.flags = {f \in Flags : AtOf(t, f) # {}}
    <3>1. q.flags = r.flags \cup ({opt} \cap Flags) BY DEF Follows
    <3>2. r.flags = {f \in Flags : AtOf(s, f) # {}} BY DEF Says
    <3>3. ASSUME NEW f \in Flags PROVE AtOf(t, f) # {} <=> AtOf(s, f) # {} \/ f = opt
      BY <1>2
    <3> QED BY <3>1, <3>2, <3>3
  <2>4. q.stage = IF AtOf(t, "-c") # {} THEN "object"
                  ELSE IF AtOf(t, "-S") # {} THEN "assembly" ELSE "link"
    <3>1. \A p : AtOf(t, p) # {} <=> AtOf(s, p) # {} \/ p = opt BY <1>2
    <3>2. CASE opt = "-c" BY <3>1, <3>2 DEF Follows, StageAfter
    <3>3. CASE opt = "-S"
      <4>1. AtOf(s, "-c") = {} BY <3>3 DEF Allowed, Says
      <4> QED BY <3>1, <3>3, <4>1 DEF Follows, StageAfter
    <3>4. CASE opt \notin {"-c", "-S"} BY <3>1, <3>4 DEF Follows, Says, StageAfter
    <3> QED BY <3>2, <3>3, <3>4
  <2>5. ASSUME NEW l \in Lists PROVE ListSays(t, l, q.list[l])
    <3>1. r.list[l] \in Seq(Entries) /\ ListSays(s, l, r.list[l]) BY DEF Request, Says
    <3>2. Entry(l, opt, v) \in Entries BY DEF Allowed, Entries, Entry
    <3>3. q.list[l] = IF IsFor(l, opt) THEN Append(r.list[l], Entry(l, opt, v)) ELSE r.list[l]
      BY DEF Follows
    <3> QED BY <3>1, <3>2, <3>3, ListAfter
  <2> QED BY <2>1, <2>2, <2>3, <2>4, <2>5 DEF Says
<1>4. AtOf(t, "-c") = {} \/ AtOf(t, "-S") = {}
  <2>1. opt = "-c" => AtOf(s, "-S") = {} BY DEF Allowed, Says, Agree
  <2>2. opt = "-S" => AtOf(s, "-c") = {} BY DEF Allowed, Says
  <2> QED BY <1>2, <2>1, <2>2 DEF Agree
<1>5. ASSUME NEW x \in OverlayOptions
      PROVE  AtOf(t, x) = {} \/ (q.text[x] # "" /\ \E m : AtOf(t, x) = {m})
  <2>1. x \in Texts BY DEF OverlayOptions, Texts
  <2>2. CASE x = opt
    <3>1. AtOf(s, x) = {} BY <2>2 DEF Allowed, Agree
    <3>2. AtOf(t, x) = {n} BY <1>2, <2>2, <3>1
    <3>3. q.text[x] # "" BY <2>1, <2>2 DEF Follows, Allowed
    <3> QED BY <3>2, <3>3
  <2>3. CASE x # opt
    <3>1. AtOf(t, x) = AtOf(s, x) /\ q.text[x] = r.text[x] BY <1>2, <2>1, <2>3 DEF Follows
    <3> QED BY <3>1 DEF Agree
  <2> QED BY <2>2, <2>3
<1>6. \A bad \in Refused : AtOf(t, bad) = {} BY <1>2 DEF Allowed, Agree
<1>7. ASSUME NEW i \in AtOf(t, "-D"), NEW j \in AtOf(t, "-D"),
             Macro[ValueOf(t, i)].name = Macro[ValueOf(t, j)].name
      PROVE  Macro[ValueOf(t, i)].value = Macro[ValueOf(t, j)].value
  <2>1. ASSUME NEW k \in AtOf(s, "-D") PROVE ValueOf(t, k) = ValueOf(s, k)
    BY DEF AtOf, Gives
  <2>2. CASE opt # "-D" BY <1>2, <1>7, <2>1, <2>2 DEF Agree
  <2>3. CASE opt = "-D"
    <3> DEFINE defs == r.list["-D"]
    <3>1. ASSUME NEW k \in AtOf(s, "-D")
          PROVE  /\ Macro[ValueOf(s, k)] \in {defs[m] : m \in DOMAIN defs}
      <4>1. ListArgs(s, "-D") = AtOf(s, "-D") BY DEF ListArgs, AtOf, IsFor
      <4>2. "-D" \in Lists BY DEF Lists
      <4>3. ListSays(s, "-D", defs) /\ defs \in Seq(Entries) BY <4>2 DEF Says, Request
      <4>4. AtOf(s, "-D") \subseteq 1 .. (n - 1) BY PlacesAfter
      <4>5. Rank(AtOf(s, "-D"), k) \in 1 .. Cardinality(AtOf(s, "-D"))
        BY <1>2, <4>4, RankAfter
      <4>6. /\ Len(defs) = Cardinality(AtOf(s, "-D"))
            /\ defs[Rank(AtOf(s, "-D"), k)] = Macro[ValueOf(s, k)]
        BY <4>1, <4>3 DEF ListSays, Entry
      <4>7. DOMAIN defs = 1 .. Cardinality(AtOf(s, "-D")) BY <4>3, <4>6, LenProperties
      <4> QED BY <4>5, <4>6, <4>7
    <3>2. ASSUME NEW k \in AtOf(s, "-D"), Macro[ValueOf(s, k)].name = Macro[v].name
          PROVE  Macro[ValueOf(s, k)].value = Macro[v].value
      BY <2>3, <3>1, <3>2 DEF Allowed
    <3>3. ValueOf(t, n) = v BY DEF Gives
    <3>4. AtOf(t, "-D") = AtOf(s, "-D") \cup {n} BY <1>2, <2>3
    <3>5. CASE i = n BY <1>7, <2>1, <3>2, <3>3, <3>4, <3>5
    <3>6. CASE j = n BY <1>7, <2>1, <3>2, <3>3, <3>4, <3>6
    <3>7. CASE i # n /\ j # n BY <1>7, <2>1, <3>4, <3>7 DEF Agree
    <3> QED BY <3>5, <3>6, <3>7
  <2> QED BY <2>2, <2>3
<1> QED BY <1>1, <1>3, <1>4, <1>5, <1>6, <1>7 DEF Agree

-----------------------------------------------------------------------------
(***************************************************************************)
(* The changes the parser makes of a request                               *)
(***************************************************************************)

WithText(r, x, v) == [r EXCEPT !.text[x] = v]
WithChoice(r, x, v) == [r EXCEPT !.choice[x] = v]
WithEntry(r, x, e) == [r EXCEPT !.list[x] = Append(@, e)]

(* What an update leaves alone.                                              *)
LEMMA TextUpdate ==
  ASSUME NEW r \in Request, NEW x \in Texts, NEW v \in Vals,
         NEW q, q = WithText(r, x, v)
  PROVE  /\ q \in Request
         /\ \A t \in Texts : q.text[t] = IF t = x THEN v ELSE r.text[t]
         /\ q.choice = r.choice /\ q.flags = r.flags /\ q.stage = r.stage /\ q.list = r.list
<1>1. v \in ValsOrNone BY DEF ValsOrNone
<1> QED BY <1>1 DEF Request, WithText

(* An option that makes a choice changes that choice alone.                  *)
LEMMA ChoiceUpdate ==
  ASSUME NEW r \in Request, NEW x \in Chosen, NEW v \in Vals,
         NEW q, q = WithChoice(r, x, v)
  PROVE  /\ q \in Request
         /\ \A c \in Chosen : q.choice[c] = IF c = x THEN v ELSE r.choice[c]
         /\ q.text = r.text /\ q.flags = r.flags /\ q.stage = r.stage /\ q.list = r.list
<1>1. v \in ValsOrNone BY DEF ValsOrNone
<1> QED BY <1>1 DEF Request, WithChoice

(* An option that adds to a list changes that list alone.                    *)
LEMMA ListUpdate ==
  ASSUME NEW r \in Request, NEW x \in Lists, NEW e \in Entries,
         NEW q, q = WithEntry(r, x, e)
  PROVE  /\ q \in Request
         /\ \A l \in Lists : q.list[l] = IF l = x THEN Append(r.list[l], e) ELSE r.list[l]
         /\ q.choice = r.choice /\ q.flags = r.flags /\ q.stage = r.stage /\ q.text = r.text
<1>1. r.list[x] \in Seq(Entries) BY DEF Request
<1>2. PICK longer \in Seq(Entries) : longer = Append(r.list[x], e) BY <1>1, AppendProperties
<1>3. q = [r EXCEPT !.list[x] = longer] BY <1>2 DEF WithEntry
<1>4. /\ q \in Request
      /\ \A l \in Lists : q.list[l] = IF l = x THEN longer ELSE r.list[l]
      /\ q.choice = r.choice /\ q.flags = r.flags /\ q.stage = r.stage /\ q.text = r.text
  BY <1>3, ZenonT(60) DEF Request
<1> QED BY <1>2, <1>4

(* The options that set a flag or the stage.                                 *)
LEMMA OtherUpdates ==
  ASSUME NEW r \in Request
  PROVE  /\ \A f \in Flags : LET q == [r EXCEPT !.flags = @ \cup {f}] IN
              /\ q \in Request /\ q.flags = r.flags \cup {f}
              /\ q.text = r.text /\ q.choice = r.choice /\ q.stage = r.stage /\ q.list = r.list
         /\ \A stage \in {"object", "assembly"} : LET q == [r EXCEPT !.stage = stage] IN
              /\ q \in Request /\ q.stage = stage
              /\ q.text = r.text /\ q.choice = r.choice /\ q.flags = r.flags /\ q.list = r.list
         /\ \A o \in Optimizations : LET q == [r EXCEPT !.optimize = o] IN
              /\ q \in Request /\ q.stage = r.stage
              /\ q.text = r.text /\ q.choice = r.choice /\ q.flags = r.flags /\ q.list = r.list
<1>1. {"object", "assembly"} \subseteq Stages BY DEF Stages
<1> QED BY <1>1 DEF Request

(* Each change the parser makes of a request follows the option it is for.    *)
LEMMA FollowsText ==
  ASSUME NEW r \in Request, NEW opt \in Texts, NEW v \in Vals,
         NEW q, q = WithText(r, opt, v)
  PROVE  q \in Request /\ Follows(opt, v, r, q)
<1>1. \A l \in Lists : ~IsFor(l, opt) BY DEF IsFor, Lists, Raw, Texts
<1>2. opt \notin Flags \cup Chosen /\ StageAfter(opt, r.stage) = r.stage
  BY DEF StageAfter, Flags, Chosen, Texts
<1>3. {opt} \cap Flags = {} BY <1>2
<1>4. /\ q \in Request
      /\ \A t \in Texts : q.text[t] = IF t = opt THEN v ELSE r.text[t]
      /\ q.choice = r.choice /\ q.flags = r.flags /\ q.stage = r.stage /\ q.list = r.list
  BY TextUpdate
<1> QED BY <1>1, <1>2, <1>3, <1>4 DEF Follows

(* An option that makes a choice is followed.                                *)
LEMMA FollowsChoice ==
  ASSUME NEW r \in Request, NEW opt \in Chosen, NEW v \in Vals,
         NEW q, q = WithChoice(r, opt, v)
  PROVE  q \in Request /\ Follows(opt, v, r, q)
<1>1. \A l \in Lists : ~IsFor(l, opt) BY DEF IsFor, Lists, Raw, Chosen
<1>2. opt \notin Flags \cup Texts /\ StageAfter(opt, r.stage) = r.stage
  BY DEF StageAfter, Flags, Chosen, Texts
<1>3. {opt} \cap Flags = {} BY <1>2
<1>4. /\ q \in Request
      /\ \A c \in Chosen : q.choice[c] = IF c = opt THEN v ELSE r.choice[c]
      /\ q.text = r.text /\ q.flags = r.flags /\ q.stage = r.stage /\ q.list = r.list
  BY ChoiceUpdate
<1> QED BY <1>1, <1>2, <1>3, <1>4 DEF Follows

(* An option that sets a flag is followed.                                   *)
LEMMA FollowsFlag ==
  ASSUME NEW r \in Request, NEW opt \in Flags, NEW v,
         NEW q, q = [r EXCEPT !.flags = @ \cup {opt}]
  PROVE  q \in Request /\ Follows(opt, v, r, q)
<1>1. \A l \in Lists : ~IsFor(l, opt) BY DEF IsFor, Lists, Raw, Flags
<1>2. opt \notin Chosen \cup Texts /\ StageAfter(opt, r.stage) = r.stage
  BY DEF StageAfter, Flags, Chosen, Texts
<1>3. {opt} \cap Flags = {opt} OBVIOUS
<1>4. /\ q \in Request /\ q.flags = r.flags \cup {opt}
      /\ q.text = r.text /\ q.choice = r.choice /\ q.stage = r.stage /\ q.list = r.list
  BY OtherUpdates
<1> QED BY <1>1, <1>2, <1>3, <1>4 DEF Follows

(* An option that stops the compilation is followed.                         *)
LEMMA FollowsStage ==
  ASSUME NEW r \in Request, NEW opt, NEW v, NEW stage,
         \/ opt = "-c" /\ stage = "object"
         \/ opt = "-S" /\ stage = "assembly",
         NEW q, q = [r EXCEPT !.stage = stage]
  PROVE  q \in Request /\ Follows(opt, v, r, q)
<1>1. \A l \in Lists : ~IsFor(l, opt) BY DEF IsFor, Lists, Raw
<1>2. opt \notin Chosen \cup Texts \cup Flags BY DEF Flags, Chosen, Texts
<1>3. StageAfter(opt, r.stage) = stage /\ stage \in {"object", "assembly"} BY DEF StageAfter
<1>4. {opt} \cap Flags = {} BY <1>2
<1>5. /\ q \in Request /\ q.stage = stage
      /\ q.text = r.text /\ q.choice = r.choice /\ q.flags = r.flags /\ q.list = r.list
  BY <1>3, OtherUpdates
<1> QED BY <1>1, <1>2, <1>3, <1>4, <1>5 DEF Follows

(* An option of the optimiser is followed.                                   *)
LEMMA FollowsOptimize ==
  ASSUME NEW r \in Request, NEW opt, opt \in {"-Osize", "-Ospeed"}, NEW v,
         NEW q, q = [r EXCEPT !.optimize = opt]
  PROVE  q \in Request /\ Follows(opt, v, r, q)
<1>1. \A l \in Lists : ~IsFor(l, opt) BY DEF IsFor, Lists, Raw
<1>2. opt \notin Chosen \cup Texts \cup Flags /\ StageAfter(opt, r.stage) = r.stage
  BY DEF StageAfter, Flags, Chosen, Texts
<1>3. opt \in Optimizations BY DEF Optimizations
<1>4. {opt} \cap Flags = {} BY <1>2
<1>5. /\ q \in Request /\ q.stage = r.stage
      /\ q.text = r.text /\ q.choice = r.choice /\ q.flags = r.flags /\ q.list = r.list
  BY <1>3, OtherUpdates
<1> QED BY <1>1, <1>2, <1>4, <1>5 DEF Follows

(* An option that adds to a list is followed.                                *)
LEMMA FollowsAdd ==
  ASSUME NEW r \in Request, NEW opt, opt \in {"input", "-l", "-I", "-D", "-L"} \cup Raw,
         NEW l \in Lists, IsFor(l, opt), NEW v \in Vals,
         NEW q, q = WithEntry(r, l, Entry(l, opt, v))
  PROVE  q \in Request /\ Follows(opt, v, r, q)
<1>1. \A m \in Lists : IsFor(m, opt) <=> m = l BY DEF IsFor, Lists, Raw
<1>2. opt \notin Chosen \cup Texts \cup Flags /\ StageAfter(opt, r.stage) = r.stage
  BY DEF StageAfter, Flags, Chosen, Texts, Raw
<1>3. Entry(l, opt, v) \in Entries BY DEF Entries, Entry
<1>4. {opt} \cap Flags = {} BY <1>2
<1>5. /\ q \in Request
      /\ \A m \in Lists :
           q.list[m] = IF m = l THEN Append(r.list[m], Entry(l, opt, v)) ELSE r.list[m]
      /\ q.choice = r.choice /\ q.flags = r.flags /\ q.stage = r.stage /\ q.text = r.text
  BY <1>3, ListUpdate
<1> QED BY <1>1, <1>2, <1>4, <1>5 DEF Follows

-----------------------------------------------------------------------------
(***************************************************************************)
(* The parser                                                              *)
(***************************************************************************)

(* The two outcomes of an argument: an option is understood, or the parser   *)
(* stops.                                                                    *)
Understood ==
  /\ phase' = phase /\ argv' \in Seq(Tokens) /\ request' \in Request
  /\ \E n, opt, v : /\ Gives(argv, argv', n, opt, v)
                    /\ Follows(opt, v, request, request')
                    /\ Allowed(opt, v, request)
Stopped == phase' = "exit" /\ request' = request /\ argv' \in Seq(Tokens)

(* The next argument is one of the menus' tokens.                            *)
LEMMA AheadFacts == \A k : Ahead(k) \subseteq Tokens
BY DEF Ahead, Tokens

(* What was allowed stays within the limits.                                 *)
LEMMA LimitsAfter ==
  ASSUME NEW r \in Request, NEW q \in Request, NEW opt, NEW v,
         Follows(opt, v, r, q), Allowed(opt, v, r), Limits(r)
  PROVE  Limits(q)
<1>1. \A c \in Chosen : q.choice[c] \in Choices[c] \cup {""} BY DEF Follows, Allowed, Limits
<1>2. ASSUME NEW l \in Lists PROVE Len(q.list[l]) <= ListLimit
  <2>1. r.list[l] \in Seq(Entries) /\ Entry(l, opt, v) \in Entries
    BY DEF Request, Allowed, Entry, Entries
  <2>2. /\ Len(r.list[l]) \in Nat
        /\ Len(Append(r.list[l], Entry(l, opt, v))) = Len(r.list[l]) + 1
    BY <2>1, LenProperties, AppendProperties
  <2>3. Len(r.list[l]) <= ListLimit /\ (IsFor(l, opt) => Len(r.list[l]) # ListLimit)
    BY DEF Limits, Allowed
  <2>4. q.list[l] = IF IsFor(l, opt) THEN Append(r.list[l], Entry(l, opt, v)) ELSE r.list[l]
    BY DEF Follows
  <2> QED BY <2>2, <2>3, <2>4, AccArgsAssumption
<1>3. q.text["-overlay-root="] # "" => q.text["-overlay-root="] \in HexSizes
  <2>1. "-overlay-root=" \in Texts BY DEF Texts
  <2> QED BY <2>1 DEF Follows, Allowed, Limits
<1> QED BY <1>1, <1>2, <1>3 DEF Limits

(* A word for a list is refused or added.                                    *)
LEMMA AddStep ==
  ASSUME TypeInv, phase = "parse", argv' \in Seq(Tokens),
         NEW opt, opt \in {"input", "-l", "-I", "-D", "-L"} \cup Raw,
         NEW l \in Lists, IsFor(l, opt), NEW v \in Vals, NEW n, Gives(argv, argv', n, opt, v),
         AddWord(l, Entry(l, opt, v)), opt = "-D" => ~Conflicts(v)
  PROVE  Understood \/ Stopped
<1>1. CASE Full(l) BY <1>1 DEF AddWord, Refuse, Stopped
<1>2. CASE ~Full(l)
  <2>1. request' = WithEntry(request, l, Entry(l, opt, v)) /\ phase' = phase
    BY <1>2 DEF AddWord, Keep, Add, WithEntry
  <2>2. request' \in Request /\ Follows(opt, v, request, request')
    BY <2>1, FollowsAdd DEF TypeInv
  <2>3. Allowed(opt, v, request)
    <3>1. opt \notin {"-c", "-S"} \cup OverlayOptions \cup Refused \cup Chosen
      BY DEF OverlayOptions, Refused, Chosen, Raw, Alone
    <3>2. ASSUME NEW m \in Lists, IsFor(m, opt) PROVE m = l
      <4>1. \A k \in Lists : IsFor(k, opt) => k = IF opt \in {"input", "-l"} THEN "inputs" ELSE opt
        BY DEF IsFor, Lists, Raw
      <4> QED BY <3>2, <4>1
    <3>3. Len(request.list[l]) # ListLimit BY <1>2 DEF Full
    <3>4. opt = "-D" => \A k \in DOMAIN request.list["-D"] :
                          request.list["-D"][k].name = Macro[v].name =>
                            request.list["-D"][k].value = Macro[v].value
      BY DEF Conflicts
    <3> QED BY <3>1, <3>2, <3>3, <3>4 DEF Allowed, OverlayOptions
  <2> QED BY <2>1, <2>2, <2>3 DEF Understood
<1> QED BY <1>1, <1>2

(* So is the operand of a short option, attached or separate.                *)
LEMMA OperandStep ==
  ASSUME TypeInv, phase = "parse", argv' \in Seq(Tokens),
         NEW opt \in Short, NEW v \in Vals, NEW n, Gives(argv, argv', n, opt, v),
         TakeOperand(opt, v)
  PROVE  Understood \/ Stopped
<1>1. CASE opt = "-o"
  <2>1. request' = WithText(request, opt, v) /\ phase' = phase
    BY <1>1 DEF TakeOperand, Keep, Set, WithText
  <2>2. opt \in Texts BY <1>1 DEF Texts
  <2>3. request' \in Request /\ Follows(opt, v, request, request')
    BY <2>1, <2>2, FollowsText DEF TypeInv
  <2>4. Allowed(opt, v, request)
    BY <1>1 DEF Allowed, OverlayOptions, Refused, Alone, Chosen, IsFor, Lists, Raw
  <2> QED BY <2>1, <2>3, <2>4 DEF Understood
<1>2. CASE opt = "-D"
  <2>1. Stopped \/ (~Conflicts(v) /\ AddWord("-D", Macro[v]))
    BY <1>2 DEF TakeOperand, DefineMacro, Refuse, Stopped
  <2>2. "-D" \in Lists /\ IsFor("-D", opt) /\ Macro[v] = Entry("-D", opt, v)
    BY <1>2 DEF Lists, IsFor, Entry
  <2>3. opt \in {"input", "-l", "-I", "-D", "-L"} \cup Raw BY <1>2
  <2> QED BY <2>1, <2>2, <2>3, AddStep
<1>3. CASE opt = "-l"
  <2>1. AddWord("inputs", <<"-l", v>>) BY <1>3 DEF TakeOperand
  <2>2. "inputs" \in Lists /\ IsFor("inputs", opt) /\ <<"-l", v>> = Entry("inputs", opt, v)
    BY <1>3 DEF Lists, IsFor, Entry
  <2>3. opt \in {"input", "-l", "-I", "-D", "-L"} \cup Raw /\ opt # "-D" BY <1>3
  <2> QED BY <2>1, <2>2, <2>3, AddStep
<1>4. CASE opt \in {"-I", "-L"}
  <2>1. AddWord(opt, v) BY <1>4 DEF TakeOperand
  <2>2. opt \in Lists /\ IsFor(opt, opt) /\ v = Entry(opt, opt, v)
    BY <1>4 DEF Lists, IsFor, Entry
  <2>3. opt \in {"input", "-l", "-I", "-D", "-L"} \cup Raw /\ opt # "-D" BY <1>4
  <2> QED BY <2>1, <2>2, <2>3, AddStep
<1> QED BY <1>1, <1>2, <1>3, <1>4 DEF Short

(* An option of one token, refused or followed.                              *)
LEMMA OneStep ==
  ASSUME TypeInv, NEW t \in Tokens, Read(<<t>>)
  PROVE  /\ argv' \in Seq(Tokens)
         /\ Finished(argv) /\ ~Bare(t) => \E n : Gives(argv, argv', n, t.opt, t.val)
         /\ t.val \in Vals
         /\ \A why : Refuse(why) => Stopped
<1>1. <<t>> \in Seq(Tokens) /\ argv \in Seq(Tokens) BY DEF TypeInv
<1>2. argv' = argv \o <<t>> BY DEF Read
<1>3. argv' \in Seq(Tokens) BY <1>1, <1>2, ConcatProperties
<1>4. Finished(argv) /\ ~Bare(t) => \E n : Gives(argv, argv', n, t.opt, t.val)
  BY <1>1, <1>2, GivesOne
<1>5. t.val \in Vals BY DEF Vals
<1> QED BY <1>3, <1>4, <1>5 DEF Refuse, Stopped

(* Every handler understands its argument or stops the parser.               *)
LEMMA ArgumentStep ==
  ASSUME TypeInv, UnderstoodInv, Argument
  PROVE  Understood \/ Stopped
<1>1. phase = "parse"
  BY DEF Argument, Word, Stage, Flag, Optimize, RawOption, Choice, TextOption, ShortOption,
         Unsupported
<1>2. Finished(argv) /\ Says(argv, request) BY <1>1 DEF UnderstoodInv
<1>3. PICK t \in Ahead(1) : \/ Word(t) \/ Stage(t) \/ Flag(t) \/ Optimize(t) \/ RawOption(t)
                            \/ Choice(t) \/ TextOption(t) \/ ShortOption(t) \/ Unsupported(t)
  BY DEF Argument
<1>4. t \in Tokens BY AheadFacts
<1>5. ASSUME Read(<<t>>)
      PROVE  /\ argv' \in Seq(Tokens) /\ t.val \in Vals
             /\ ~Bare(t) => \E n : Gives(argv, argv', n, t.opt, t.val)
             /\ \A why : Refuse(why) => Stopped
  BY <1>2, <1>4, <1>5, OneStep
<1>6. ASSUME Read(<<t>>), ~Bare(t), phase' = phase, request' \in Request,
             Follows(t.opt, t.val, request, request'), Allowed(t.opt, t.val, request)
      PROVE  Understood
  BY <1>5, <1>6 DEF Understood
<1>7. CASE Word(t)
  <2>1. Read(<<t>>) BY <1>7 DEF Word
  <2>2. CASE t.opt = "input"
    <3>1. AddWord("inputs", <<"", t.val>>) BY <1>7, <2>2 DEF Word
    <3>2. /\ "inputs" \in Lists /\ IsFor("inputs", t.opt)
          /\ <<"", t.val>> = Entry("inputs", t.opt, t.val)
      BY <2>2 DEF Lists, IsFor, Entry
    <3>3. t.opt \in {"input", "-l", "-I", "-D", "-L"} \cup Raw /\ t.opt # "-D" /\ ~Bare(t)
      BY <2>2 DEF Bare, Short
    <3> QED BY <1>1, <1>5, <2>1, <3>1, <3>2, <3>3, AddStep
  <2>3. CASE t.opt # "input" BY <1>5, <1>7, <2>1, <2>3 DEF Word
  <2> QED BY <2>2, <2>3
<1>8. CASE Stage(t)
  <2>1. Read(<<t>>) /\ t.opt \in {"-c", "-S"} BY <1>8 DEF Stage
  <2>2. PICK stage : \/ t.opt = "-c" /\ stage = "object"
                     \/ t.opt = "-S" /\ stage = "assembly"
    BY <2>1
  <2>3. stage = IF t.opt = "-c" THEN "object" ELSE "assembly" BY <2>2
  <2>4. \/ Refuse("stages")
        \/ /\ request.stage \in {"link", stage} /\ phase' = phase
           /\ request' = [request EXCEPT !.stage = stage]
    BY <1>8, <2>3 DEF Stage, Keep
  <2>5. CASE Refuse("stages") BY <1>5, <2>1, <2>5
  <2>6. CASE /\ request.stage \in {"link", stage} /\ phase' = phase
             /\ request' = [request EXCEPT !.stage = stage]
    <3>1. request' \in Request /\ Follows(t.opt, t.val, request, request')
      BY <2>2, <2>6, FollowsStage DEF TypeInv
    <3>2. ~Bare(t) BY <2>1 DEF Bare, Short
    <3>3. Allowed(t.opt, t.val, request)
      BY <1>5, <2>1, <2>2, <2>6
      DEF Allowed, OverlayOptions, Refused, Alone, Chosen, IsFor, Lists, Raw
    <3> QED BY <1>6, <2>1, <2>6, <3>1, <3>2, <3>3
  <2> QED BY <2>4, <2>5, <2>6
<1>9. CASE Flag(t)
  <2>1. /\ Read(<<t>>) /\ t.opt \in Flags /\ phase' = phase
        /\ request' = [request EXCEPT !.flags = @ \cup {t.opt}]
    BY <1>9 DEF Flag, Keep
  <2>2. request' \in Request /\ Follows(t.opt, t.val, request, request')
    BY <2>1, FollowsFlag DEF TypeInv
  <2>3. ~Bare(t) BY <2>1 DEF Bare, Short, Flags
  <2>4. Allowed(t.opt, t.val, request)
    BY <1>5, <2>1
    DEF Allowed, OverlayOptions, Refused, Alone, Chosen, IsFor, Lists, Raw, Flags
  <2> QED BY <1>6, <2>1, <2>2, <2>3, <2>4
<1>10. CASE Optimize(t)
  <2>1. /\ Read(<<t>>) /\ t.opt \in {"-Osize", "-Ospeed"} /\ phase' = phase
        /\ request' = [request EXCEPT !.optimize = t.opt]
    BY <1>10 DEF Optimize, Keep
  <2>2. request' \in Request /\ Follows(t.opt, t.val, request, request')
    BY <2>1, FollowsOptimize DEF TypeInv
  <2>3. ~Bare(t) BY <2>1 DEF Bare, Short
  <2>4. Allowed(t.opt, t.val, request)
    BY <1>5, <2>1
    DEF Allowed, OverlayOptions, Refused, Alone, Chosen, IsFor, Lists, Raw
  <2> QED BY <1>6, <2>1, <2>2, <2>3, <2>4
<1>11. CASE RawOption(t)
  <2>1. Read(<<t>>) /\ t.opt \in Raw BY <1>11 DEF RawOption
  <2>2. CASE t.val = "" BY <1>5, <1>11, <2>1, <2>2 DEF RawOption
  <2>3. CASE t.val # ""
    <3>1. AddWord(t.opt, t.val) BY <1>11, <2>3 DEF RawOption
    <3>2. t.opt \in Lists /\ IsFor(t.opt, t.opt) /\ t.val = Entry(t.opt, t.opt, t.val)
      BY <2>1 DEF Lists, IsFor, Entry, Raw
    <3>3. t.opt \in {"input", "-l", "-I", "-D", "-L"} \cup Raw /\ t.opt # "-D" /\ ~Bare(t)
      BY <2>1 DEF Bare, Short, Raw
    <3> QED BY <1>1, <1>5, <2>1, <3>1, <3>2, <3>3, AddStep
  <2> QED BY <2>2, <2>3
<1>12. CASE Choice(t)
  <2>1. Read(<<t>>) /\ t.opt \in Chosen BY <1>12 DEF Choice
  <2>2. CASE t.val \notin Choices[t.opt] BY <1>5, <1>12, <2>1, <2>2 DEF Choice
  <2>3. CASE t.val \in Choices[t.opt]
    <3>1. phase' = phase /\ request' = WithChoice(request, t.opt, t.val)
      BY <1>12, <2>3 DEF Choice, Keep, WithChoice
    <3>2. t.val \in Vals BY <1>5, <2>1
    <3>3. request' \in Request /\ Follows(t.opt, t.val, request, request')
      BY <2>1, <3>1, <3>2, FollowsChoice DEF TypeInv
    <3>4. ~Bare(t) BY <2>1 DEF Bare, Short, Chosen
    <3>5. Allowed(t.opt, t.val, request)
      BY <2>1, <2>3, <3>2
      DEF Allowed, OverlayOptions, Refused, Alone, Chosen, IsFor, Lists, Raw
    <3> QED BY <1>6, <2>1, <3>1, <3>3, <3>4, <3>5
  <2> QED BY <2>2, <2>3
<1>13. CASE TextOption(t)
  <2>1. Read(<<t>>) /\ t.opt \in Texts \ {"-o"} BY <1>13 DEF TextOption
  <2>2. CASE Refuse("text") BY <1>5, <2>1, <2>2
  <2>3. CASE ~Refuse("text")
    <3>1. /\ phase' = phase /\ request' = WithText(request, t.opt, t.val)
          /\ t.val # "" /\ (t.opt = "-overlay-root=" => t.val \in HexSizes)
          /\ t.opt \in OverlayOptions => request.text[t.opt] = ""
      BY <1>13, <2>3 DEF TextOption, Keep, Set, WithText, OverlayOptions
    <3>2. t.val \in Vals BY <1>5, <2>1
    <3>3. request' \in Request /\ Follows(t.opt, t.val, request, request')
      BY <2>1, <3>1, <3>2, FollowsText DEF TypeInv
    <3>4. ~Bare(t) BY <3>1 DEF Bare
    <3>5. /\ t.opt \notin {"-c", "-S", "-D"} \cup Refused \cup Chosen
          /\ \A l \in Lists : ~IsFor(l, t.opt)
      BY <2>1 DEF Refused, Alone, Chosen, IsFor, Lists, Raw, Texts
    <3>6. Allowed(t.opt, t.val, request) BY <3>1, <3>2, <3>5 DEF Allowed
    <3> QED BY <1>6, <2>1, <3>1, <3>3, <3>4, <3>6
  <2> QED BY <2>2, <2>3
<1>14. CASE ShortOption(t)
  <2>1. t.opt \in Short BY <1>14 DEF ShortOption
  <2>2. CASE t.val # ""
    <3>1. Read(<<t>>) /\ TakeOperand(t.opt, t.val) BY <1>14, <2>2 DEF ShortOption
    <3>2. ~Bare(t) BY <2>2 DEF Bare
    <3> QED BY <1>1, <1>5, <2>1, <3>1, <3>2, OperandStep
  <2>3. CASE t.val = ""
    <3>1. CASE Read(<<t>>) /\ Refuse("missing operand") BY <1>5, <3>1
    <3>2. ASSUME NEW o \in Ahead(2), Read(<<t, o>>),
                 IF o.opt \in Words THEN TakeOperand(t.opt, o.val)
                 ELSE Refuse("missing operand")
          PROVE  Understood \/ Stopped
      <4>1. o \in Tokens /\ o.val \in Vals BY AheadFacts DEF Vals
      <4>2. argv \in Seq(Tokens) /\ <<t, o>> \in Seq(Tokens) BY <1>4, <4>1 DEF TypeInv
      <4>3. argv' = argv \o <<t, o>> BY <3>2 DEF Read
      <4>4. argv' \in Seq(Tokens) BY <4>2, <4>3, ConcatProperties
      <4>5. CASE o.opt \in Words
        <5>1. Bare(t) /\ ~Bare(o) BY <2>1, <2>3, <4>5 DEF Bare, Short, Words
        <5>2. \E n : Gives(argv, argv', n, t.opt, o.val)
          BY <1>2, <1>4, <4>1, <4>2, <4>3, <5>1, GivesTwo
        <5> QED BY <1>1, <2>1, <3>2, <4>1, <4>4, <4>5, <5>2, OperandStep
      <4>6. CASE o.opt \notin Words BY <3>2, <4>4, <4>6 DEF Refuse, Stopped
      <4> QED BY <4>5, <4>6
    <3> QED BY <1>14, <2>3, <3>1, <3>2 DEF ShortOption
  <2> QED BY <2>2, <2>3
<1>15. CASE Unsupported(t) BY <1>5, <1>15 DEF Unsupported
<1> QED BY <1>3, <1>7, <1>8, <1>9, <1>10, <1>11, <1>12, <1>13, <1>14, <1>15

-----------------------------------------------------------------------------
(***************************************************************************)
(* The invariant                                                           *)
(***************************************************************************)

(* The request of no arguments says nothing.                                 *)
LEMMA InitHolds == Init => IInv
<1> SUFFICES ASSUME Init PROVE IInv OBVIOUS
<1>1. request \in Request
  <2>1. /\ request.stage = "link" /\ request.flags = {} /\ request.optimize = "default"
        /\ request.choice = [c \in Chosen |-> ""] /\ request.text = [t \in Texts |-> ""]
        /\ request.list = [l \in Lists |-> <<>>]
        /\ request = [stage |-> request.stage, flags |-> request.flags,
                      optimize |-> request.optimize, choice |-> request.choice,
                      text |-> request.text, list |-> request.list]
    BY DEF Init
  <2>2. request.stage \in Stages /\ request.optimize \in Optimizations
    BY <2>1 DEF Stages, Optimizations
  <2>3. request.choice \in [Chosen -> ValsOrNone] /\ request.text \in [Texts -> ValsOrNone]
    BY <2>1 DEF ValsOrNone
  <2>4. request.list \in [Lists -> Seq(Entries)]
    <3>1. <<>> \in Seq(Entries) BY EmptySeq
    <3> QED BY <2>1, <3>1
  <2>5. request.flags \in SUBSET Flags BY <2>1
  <2> QED BY <2>1, <2>2, <2>3, <2>4, <2>5 DEF Request
<1>2. /\ phase = "start" /\ argv = <<>>
      /\ request.flags = {} /\ request.stage = "link"
      /\ \A l \in Lists : request.list[l] = <<>>
      /\ \A c \in Chosen : request.choice[c] = ""
      /\ \A t \in Texts : request.text[t] = ""
  BY DEF Init
<1>3. argv \in Seq(Tokens) BY <1>2, EmptySeq
<1>4. OptionsOf(argv) = {}
  <2>1. argv \in Seq(Tokens) /\ Len(argv) = 0 BY <1>2, <1>3, EmptySeq
  <2>2. DOMAIN argv = 1 .. 0 BY <2>1, LenProperties
  <2>3. DOMAIN argv = {} BY <2>2
  <2> QED BY <2>3 DEF OptionsOf
<1>5. (\A o : AtOf(argv, o) = {}) /\ \A l : ListArgs(argv, l) = {} BY <1>4 DEF AtOf, ListArgs
<1>6. Limits(request)
  <2>1. "-overlay-root=" \in Texts BY DEF Texts
  <2>2. Len(<<>>) = 0 BY EmptySeq
  <2>3. 0 <= ListLimit
    <3>1. ListLimit \in Nat BY AccArgsAssumption
    <3> QED BY <3>1
  <2>4. ASSUME NEW l \in Lists PROVE Len(request.list[l]) <= ListLimit
    <3>1. Len(request.list[l]) = 0 BY <1>2, <2>2
    <3> QED BY <2>3, <3>1
  <2> QED BY <1>2, <2>1, <2>4 DEF Limits
<1>7. Finished(argv) /\ HasLast(argv) /\ Agree(argv, request)
  BY <1>2, <1>5 DEF Finished, HasLast, Agree
<1>8. Says(argv, request)
  <2>1. \A o : SaidOf(argv, o) = "" BY <1>5 DEF SaidOf
  <2>2. ASSUME NEW l \in Lists PROVE ListSays(argv, l, request.list[l])
    <3>1. Cardinality({}) = 0 BY FS_EmptySet
    <3>2. Len(request.list[l]) = 0
      <4>1. Len(<<>>) = 0 BY EmptySeq
      <4> QED BY <1>2, <4>1
    <3> QED BY <1>5, <3>1, <3>2 DEF ListSays
  <2> QED BY <1>2, <1>5, <2>1, <2>2 DEF Says
<1> QED BY <1>1, <1>2, <1>3, <1>6, <1>7, <1>8 DEF IInv, TypeInv, UnderstoodInv, Accepted

(* Every step keeps request and arguments together.                          *)
LEMMA NextHolds == IInv /\ [Next]_vars => IInv'
<1> SUFFICES ASSUME IInv, [Next]_vars PROVE IInv' OBVIOUS
<1>1. TypeInv /\ UnderstoodInv /\ (phase \in Accepted => ~Contradiction) BY DEF IInv
<1>2. ASSUME Stopped PROVE IInv'
  <2>1. phase' = "exit" /\ request' = request /\ argv' \in Seq(Tokens) BY <1>2 DEF Stopped
  <2> QED BY <1>1, <2>1 DEF IInv, TypeInv, UnderstoodInv, Accepted
<1>3. ASSUME Understood, phase = "parse" PROVE IInv'
  <2>1. PICK n, opt, v : /\ Gives(argv, argv', n, opt, v)
                         /\ Follows(opt, v, request, request')
                         /\ Allowed(opt, v, request)
    BY <1>3 DEF Understood
  <2>2. HasLast(argv) /\ Says(argv, request) /\ Agree(argv, request) /\ request \in Request
    BY <1>1, <1>3 DEF UnderstoodInv, TypeInv
  <2>3. HasLast(argv') /\ Says(argv', request') /\ Agree(argv', request')
    BY <2>1, <2>2, Understands
  <2>4. Finished(argv') BY <2>1 DEF Gives
  <2>5. phase' = "parse" /\ argv' \in Seq(Tokens) /\ request' \in Request BY <1>3 DEF Understood
  <2>6. Limits(request') BY <1>1, <2>1, <2>5, LimitsAfter DEF TypeInv
  <2> QED BY <2>3, <2>4, <2>5, <2>6 DEF IInv, TypeInv, UnderstoodInv, Accepted
<1>4. ASSUME argv' = argv, request' = request, phase' \in {"start", "parse", "exit"} \cup Accepted,
             phase # "exit", phase' \in Accepted => ~Contradiction
      PROVE  IInv'
  <2>1. TypeInv' BY <1>1, <1>4 DEF TypeInv
  <2>2. UnderstoodInv' BY <1>1, <1>4 DEF UnderstoodInv
  <2>3. Contradiction' <=> Contradiction BY <1>4 DEF Contradiction, Overlay, Given, Model
  <2> QED BY <1>4, <2>1, <2>2, <2>3 DEF IInv
<1>5. CASE Help
  <2>1. PICK t \in Tokens : argv' = <<t>> BY <1>5 DEF Help
  <2>2. Stopped BY <1>5, <2>1 DEF Help, Stopped
  <2> QED BY <1>2, <2>2
<1>6. CASE Start BY <1>4, <1>6 DEF Start, Accepted
<1>7. CASE Argument
  <2>1. phase = "parse"
    BY <1>7 DEF Argument, Word, Stage, Flag, Optimize, RawOption, Choice, TextOption,
       ShortOption, Unsupported
  <2> QED BY <1>1, <1>2, <1>3, <1>7, <2>1, ArgumentStep
<1>8. CASE Exhausted
  <2>1. PICK t \in Tokens : Read(<<t>>) BY <1>8, AheadFacts DEF Exhausted
  <2>2. Stopped BY <1>1, <1>8, <2>1, OneStep DEF Exhausted
  <2> QED BY <1>2, <2>2
<1>9. CASE EndOfArguments BY <1>4, <1>9 DEF EndOfArguments, Refuse, Accepted
<1>10. CASE BuildPlan BY <1>1, <1>4, <1>10 DEF BuildPlan, Accepted
<1>11. CASE PrintPlan BY <1>1, <1>4, <1>11 DEF PrintPlan, Accepted
<1>12. CASE ExecutePlan BY <1>1, <1>4, <1>12 DEF ExecutePlan, Accepted
<1>13. CASE UNCHANGED vars
  <2>1. Contradiction' <=> Contradiction
    BY <1>13 DEF vars, Contradiction, Overlay, Given, Model
  <2> QED BY <1>1, <1>13, <2>1 DEF IInv, TypeInv, UnderstoodInv, vars
<1> QED
  BY <1>5, <1>6, <1>7, <1>8, <1>9, <1>10, <1>11, <1>12, <1>13 DEF Next

(* Every behaviour keeps the invariant.                                      *)
LEMMA Invariance == Spec => []IInv
BY InitHolds, NextHolds, PTL DEF Spec

-----------------------------------------------------------------------------
(* The operators of AccArgs on the arguments read so far.                    *)
LEMMA Arguments ==
  /\ \A opt : At(opt) = AtOf(argv, opt)
  /\ \A i : Value(i) = ValueOf(argv, i)
  /\ \A opt : Said(opt) = SaidOf(argv, opt)
<1>1. Options = OptionsOf(argv)
  BY DEF Options, OptionsOf, Operand, OperandOf, Bare
<1>2. \A opt : At(opt) = AtOf(argv, opt) BY <1>1 DEF At, AtOf
<1>3. \A i : Value(i) = ValueOf(argv, i) BY DEF Value, ValueOf, Bare
<1> QED BY <1>2, <1>3 DEF Said, SaidOf

(* Every request stays within the limits of its lists and names.             *)
THEOREM TypeCorrect == Spec => []TypeOK
<1>1. IInv => TypeOK
  <2>1. TypeInv => TypeOK BY DEF TypeInv, TypeOK, Limits, Request, Accepted, Stages, Given
  <2> QED BY <2>1 DEF IInv
<1> QED BY <1>1, Invariance, PTL

(* An accepted request says what the whole command line says, whatever its    *)
(* length and the order of its arguments.                                    *)
THEOREM RequestsAreTrue == Spec => []RequestIsArguments
<1>1. ASSUME IInv, phase \in Accepted PROVE RequestIsArguments
  <2>1. Says(argv, request) BY <1>1 DEF IInv, UnderstoodInv, Accepted
  <2>2. ASSUME NEW l \in Lists
        PROVE  /\ Len(request.list[l]) = Cardinality(ListArgs(argv, l))
               /\ \A i \in ListArgs(argv, l) :
                    request.list[l][Cardinality({j \in ListArgs(argv, l) : j <= i})]
                      = Entry(l, argv[i].opt, ValueOf(argv, i))
    BY <2>1 DEF Says, ListSays, Rank
  <2>3. ListArgs(argv, "inputs") = At("input") \cup At("-l")
    BY Arguments DEF ListArgs, AtOf, IsFor
  <2>4. ASSUME NEW l \in Lists, l # "inputs" PROVE ListArgs(argv, l) = At(l)
    BY <2>4, Arguments DEF ListArgs, AtOf, IsFor
  <2>5. InOrder(request.list["inputs"], At("input") \cup At("-l"), InputEntry)
    <3>1. "inputs" \in Lists BY DEF Lists
    <3>2. \A i : Entry("inputs", argv[i].opt, ValueOf(argv, i)) = InputEntry(i)
      BY Arguments DEF Entry, InputEntry
    <3> QED BY <2>2, <2>3, <3>1, <3>2 DEF InOrder
  <2>6. InOrder(request.list["-D"], At("-D"), MacroEntry)
    <3>1. "-D" \in Lists /\ ListArgs(argv, "-D") = At("-D") BY <2>4 DEF Lists
    <3>2. \A i : Entry("-D", argv[i].opt, ValueOf(argv, i)) = MacroEntry(i)
      BY Arguments DEF Entry, MacroEntry
    <3> QED BY <2>2, <3>1, <3>2 DEF InOrder
  <2>7. ASSUME NEW l \in {"-I", "-L"} \cup Raw PROVE InOrder(request.list[l], At(l), Value)
    <3>1. l \in Lists /\ l \notin {"inputs", "-D"} BY DEF Lists, Raw
    <3>2. ListArgs(argv, l) = At(l) BY <2>4, <3>1
    <3>3. \A i : Entry(l, argv[i].opt, ValueOf(argv, i)) = Value(i)
      BY <3>1, Arguments DEF Entry
    <3> QED BY <2>2, <3>1, <3>2, <3>3 DEF InOrder
  <2> QED BY <2>1, <2>5, <2>6, <2>7, Arguments DEF RequestIsArguments, Says
<1>2. IInv => RequestIsArguments BY <1>1 DEF RequestIsArguments, Accepted
<1> QED BY <1>2, Invariance, PTL

(* What is accepted contradicts itself in no order of its arguments, and is   *)
(* what the planner takes for granted.                                       *)
THEOREM AcceptedAreConsistent == Spec => []AcceptedIsConsistent
<1>1. ASSUME IInv, phase \in Accepted PROVE AcceptedIsConsistent
  <2>1. Agree(argv, request) /\ Says(argv, request) /\ ~Contradiction
    BY <1>1 DEF IInv, UnderstoodInv, Accepted
  <2>2. At("-c") = {} \/ At("-S") = {} BY <2>1, Arguments DEF Agree
  <2>3. \A bad \in Refused : At(bad) = {} BY <2>1, Arguments DEF Agree
  <2>4. \A i, j \in At("-D") : Macro[Value(i)].name = Macro[Value(j)].name =>
                                 Macro[Value(i)].value = Macro[Value(j)].value
    BY <2>1, Arguments DEF Agree
  <2>5. Cardinality(At("-overlay=") \cup At("-overlay-root=")) <= 1
    <3> DEFINE A == At("-overlay=")
               B == At("-overlay-root=")
    <3>1. /\ A = {} \/ (Given("-overlay=") /\ \E m : A = {m})
          /\ B = {} \/ (Given("-overlay-root=") /\ \E m : B = {m})
      BY <2>1, Arguments DEF Agree, OverlayOptions, Given
    <3>2. ~(Given("-overlay-root=") /\ Given("-overlay=")) BY <2>1 DEF Contradiction, Overlay
    <3>3. A \cup B = {} \/ \E m : A \cup B = {m} BY <3>1, <3>2
    <3> HIDE DEF A, B
    <3>4. Cardinality({}) = 0 /\ \A m : Cardinality({m}) = 1 BY FS_EmptySet, FS_Singleton
    <3>5. Cardinality(A \cup B) = 0 \/ Cardinality(A \cup B) = 1 BY <3>3, <3>4
    <3>6. Cardinality(A \cup B) <= 1 BY <3>5
    <3> QED BY <3>6 DEF A, B
  <2>6. Plan!ParserAccepts(PlanRequest)
    <3>1. \A x : FileOr(x) # Plan!NoFile <=> x # ""
      BY DEF FileOr, File, NoFile, Plan!NoFile, Plan!Host
    <3>2. PlanRequest.inputs # <<>>
      <4>1. request.list["inputs"] # <<>> BY <2>1 DEF Contradiction
      <4>2. request.list["inputs"] \in Seq(Entries) BY <1>1 DEF IInv, TypeInv, Request, Lists
      <4>3. 1 \in DOMAIN request.list["inputs"] BY <4>1, <4>2, EmptySeq, LenProperties
      <4>4. 1 \in DOMAIN PlanRequest.inputs BY <4>3 DEF PlanRequest
      <4>5. DOMAIN <<>> = {} OBVIOUS
      <4> QED BY <4>4, <4>5
    <3>3. PlanRequest.targetGiven /\ PlanRequest.target # "dos2" => Model = "small"
      <4>1. "-target=" \in Chosen BY DEF Chosen
      <4>2. request.choice["-target="] \in {"cpm86", "dos1", "dos2", ""}
        BY <1>1, <4>1, AccArgsAssumption DEF IInv, TypeInv, Limits
      <4> QED BY <2>1, <4>2 DEF PlanRequest, Contradiction
    <3>4. /\ PlanRequest.stage = request.stage /\ PlanRequest.model = Model
          /\ PlanRequest.squeeze <=> "-squeeze" \in request.flags
          /\ PlanRequest.overlayRoot <=> Given("-overlay-root=")
          /\ PlanRequest.overlayTable = FileOr(request.text["-overlay="])
          /\ PlanRequest.output = FileOr(request.text["-o"])
      BY DEF PlanRequest
    <3>5. PlanRequest.overlayTable # Plan!NoFile <=> Given("-overlay=")
      BY <3>1, <3>4 DEF Given
    <3>6. PlanRequest.output # Plan!NoFile <=> Given("-o") BY <3>1, <3>4 DEF Given
    <3> QED BY <2>1, <3>2, <3>3, <3>4, <3>5, <3>6
        DEF Plan!ParserAccepts, Contradiction, Overlay
  <2> QED BY <2>2, <2>3, <2>4, <2>5, <2>6 DEF AcceptedIsConsistent, Refused
<1>2. IInv => AcceptedIsConsistent BY <1>1 DEF AcceptedIsConsistent, Accepted
<1> QED BY <1>2, Invariance, PTL
=============================================================================
