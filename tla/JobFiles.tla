------------------------------ MODULE JobFiles ------------------------------
(***************************************************************************)
(* The job scripts of src/benchmark/benchmark.py and the two pure          *)
(* algorithms process_files applies to their names:                        *)
(*   - sort_fun, the cmp function handed to list.sort, and CPython 2's     *)
(*     list.sort itself (count_run + binarysort, the whole algorithm for   *)
(*     lists shorter than 64), since sort_fun is not a consistent order;   *)
(*   - the regular expression built by the timeout handler to prune the   *)
(*     queue, with the semantics of re.match.                              *)
(*                                                                         *)
(* A job is the file name "<tool>/n<rows>_<op>_<arg>.R" written by stage 3 *)
(* of main().  It is kept as a record of its four fields:                  *)
(*   tool  the R package benchmarked,                                       *)
(*   ds    the row count n of the dataset "n%d",                            *)
(*   op    the query family ("sel", "proj", "psel", "group", "join"),       *)
(*   arg   the operation argument in hundredths (0.01 -> 1, group 5 ->    *)
(*         500, proj "0" -> 0).                                             *)
(***************************************************************************)
EXTENDS Integers, Sequences, FiniteSets, SequencesExt, TLC

Job(t, n, o, a) == [tool |-> t, ds |-> n, op |-> o, arg |-> a]

(***************************************************************************)
(* sort_fun (benchmark.py 68-101).                                         *)
(***************************************************************************)
ToolOrder == <<"monetinR", "RSQLite", "data.table", "MonetDB.R">>
OpOrder   == <<"sel", "proj", "psel", "group", "join">>

\* order.index(x)
IndexIn(seq, x) == CHOOSE i \in DOMAIN seq : seq[i] = x

\* len("n%d" % n): one letter and the decimal digits of n.
RECURSIVE NumDigits(_)
NumDigits(n) == IF n < 10 THEN 1 ELSE 1 + NumDigits(n \div 10)
NameLen(n) == 1 + NumDigits(n)

\* float(aaaa[0]): only the part of str(arg) before its first '.'.
IntPart(a) == a \div 100

\* -1 when the first key is smaller, 1 otherwise: sort_fun never answers 1
\* for "greater" only; two different keys that tie answer 1 both ways.
CmpBy(ka, kb) == IF ka < kb THEN -1 ELSE 1

\* The decimal digits of n as character codes, and byte order on them.
RECURSIVE DigitCodes(_)
DigitCodes(n) ==
    IF n < 10 THEN <<48 + n>> ELSE DigitCodes(n \div 10) \o <<48 + (n % 10)>>

RECURSIVE SeqLess(_, _)
SeqLess(u, v) ==
    /\ v # <<>>
    /\ \/ u = <<>>
       \/ Head(u) < Head(v)
       \/ Head(u) = Head(v) /\ SeqLess(Tail(u), Tail(v))

\* Mutant: the dataset names themselves are compared (aaa[0] < bbb[0], byte
\* order) instead of their lengths.
sort_funNameBytes(a, b) ==
    CASE a.tool # b.tool -> CmpBy(IndexIn(ToolOrder, a.tool), IndexIn(ToolOrder, b.tool))
      [] a.ds # b.ds     -> IF SeqLess(DigitCodes(a.ds), DigitCodes(b.ds)) THEN -1 ELSE 1
      [] a.op # b.op     -> CmpBy(IndexIn(OpOrder, a.op), IndexIn(OpOrder, b.op))
      [] IntPart(a.arg) # IntPart(b.arg) -> CmpBy(IntPart(a.arg), IntPart(b.arg))
      [] OTHER           -> 0

sort_fun(a, b) ==
    CASE a.tool # b.tool -> CmpBy(IndexIn(ToolOrder, a.tool), IndexIn(ToolOrder, b.tool))
      [] a.ds # b.ds     -> CmpBy(NameLen(a.ds), NameLen(b.ds))
      [] a.op # b.op     -> CmpBy(IndexIn(OpOrder, a.op), IndexIn(OpOrder, b.op))
      [] IntPart(a.arg) # IntPart(b.arg) -> CmpBy(IntPart(a.arg), IntPart(b.arg))
      [] OTHER           -> 0

(***************************************************************************)
(* list.sort(cmp) of CPython 2 for fewer than 64 elements: one natural run *)
(* is found at the front (a strictly descending one is reversed), and the  *)
(* rest is inserted by binary insertion.  ISLT(x, y) is cmp(x, y) < 0.      *)
(***************************************************************************)
IsLt(x, y) == sort_fun(x, y) < 0

\* count_run: the run continues while ISLT(s[i], s[i-1]) keeps the value
\* that started it (TRUE for a descending run, FALSE for an ascending one).
RECURSIVE RunEnd(_, _, _)
RunEnd(s, i, desc) ==
    IF i > Len(s) \/ IsLt(s[i], s[i - 1]) # desc THEN i - 1
    ELSE RunEnd(s, i + 1, desc)

\* The binary search of binarysort over the sorted slots l .. r-1.
RECURSIVE InsertPos(_, _, _, _)
InsertPos(s, x, l, r) ==
    IF l >= r THEN l
    ELSE LET p == l + (r - l) \div 2
         IN  IF IsLt(x, s[p]) THEN InsertPos(s, x, l, p)
                              ELSE InsertPos(s, x, p + 1, r)

RECURSIVE BinarySort(_, _)
BinarySort(s, k) ==
    IF k > Len(s) THEN s
    ELSE LET pos == InsertPos(s, s[k], 1, k)
         IN  BinarySort(InsertAt(SubSeq(s, 1, k - 1), pos, s[k])
                          \o SubSeq(s, k + 1, Len(s)), k + 1)

ListSort(s) ==
    IF Len(s) < 2 THEN s
    ELSE LET desc == IsLt(s[2], s[1])
             n    == RunEnd(s, 3, desc)
             run  == IF desc THEN Reverse(SubSeq(s, 1, n)) \o SubSeq(s, n + 1, Len(s))
                             ELSE s
         IN  BinarySort(run, n + 1)

(***************************************************************************)
(* The prune of the timeout handler (benchmark.py 140-143).               *)
(* The name and the pattern are sequences of tokens: a tool, a dataset or  *)
(* an argument is one token, punctuation is one token each.  re.match      *)
(* anchors at the start only.  The pattern built from the timed-out file  *)
(* fi = "T/D_K_A.R" is  T + '/*_' + K + '_*.R':  T, "/" repeated, "_", K,  *)
(* "_" repeated, any one character, "R".                                   *)
(***************************************************************************)
\* ftname is "n%d" % n; the argument token only has to differ from "_".
FileName(j) ==
    <<j.tool, "/", "n" \o ToString(j.ds), "_", j.op, "_", ToString(j.arg), ".", "R">>

Lit(x)  == [kind |-> "lit", tok |-> x]
Star(x) == [kind |-> "star", tok |-> x]
AnyTok  == [kind |-> "any", tok |-> "."]

PrunePattern(fi) ==
    <<Lit(fi.tool), Star("/"), Lit("_"), Lit(fi.op), Star("_"), AnyTok, Lit("R")>>

RECURSIVE ReMatch(_, _)
ReMatch(p, s) ==
    \/ p = <<>>
    \/ /\ p # <<>>
       /\ LET e == Head(p) IN
            \/ /\ e.kind = "lit"
               /\ s # <<>> /\ Head(s) = e.tok
               /\ ReMatch(Tail(p), Tail(s))
            \/ /\ e.kind = "any"
               /\ s # <<>>
               /\ ReMatch(Tail(p), Tail(s))
            \/ /\ e.kind = "star"
               /\ \/ ReMatch(Tail(p), s)
                  \/ s # <<>> /\ Head(s) = e.tok /\ ReMatch(p, Tail(s))

\* files = filter(lambda x: not pattern.match(x), files)
PruneQueue(q, fi) ==
    SelectSeq(q, LAMBDA x : ~ReMatch(PrunePattern(fi), FileName(x)))

(***************************************************************************)
(* Stage 3 of main() ends with files.sort(): the names in byte order.      *)
(* A name is compared as the sequence tool, "/", "n", digits of n, "_",    *)
(* op, "_", str(qarg), ".R".  No tool or op name is a prefix of another,   *)
(* so they enter as their rank in byte order; the digits and str(qarg)    *)
(* enter as character codes ("_" is 95, "." 46, "0" 48, "R" 82).           *)
(***************************************************************************)
ToolByteOrder == <<"MonetDB.R", "RSQLite", "data.table", "monetinR">>
OpByteOrder   == <<"group", "join", "proj", "psel", "sel">>

\* str(qarg): an int for group (and the literal "0" of proj), a float
\* (repr: "0.5", "0.01", "1.0") for the other families.
ArgCodes(op, a) ==
    LET frac == a % 100
    IN  IF op \in {"group", "proj"} THEN DigitCodes(a \div 100)
        ELSE DigitCodes(a \div 100) \o <<46>> \o
               (IF frac % 10 = 0 THEN <<48 + frac \div 10>>
                ELSE <<48 + frac \div 10, 48 + (frac % 10)>>)

NameCodes(j) ==
    <<IndexIn(ToolByteOrder, j.tool), 47, 110>> \o DigitCodes(j.ds) \o <<95>>
      \o <<IndexIn(OpByteOrder, j.op), 95>> \o ArgCodes(j.op, j.arg) \o <<46, 82>>

NameLess(a, b) == SeqLess(NameCodes(a), NameCodes(b))
NameSort(S) ==
    [r \in 1..Cardinality(S) |->
        CHOOSE j \in S : Cardinality({k \in S : NameLess(k, j)}) = r - 1]

=============================================================================
