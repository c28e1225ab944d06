------------------------------ MODULE Autogen ------------------------------
(***************************************************************************)
(* src/buildtools/autogen/autogen.py: the Makefile.ag transpiler.          *)
(*                                                                         *)
(*   - class parser (37-88): the token state machine that builds the      *)
(*     variable tree of one Makefile.ag, and read_makefile (91-98), which  *)
(*     feeds it the whitespace-split tokens of each non-comment line and a *)
(*     "\n" after each line;                                               *)
(*   - expand_subdirs (108-127): "cond?then:else" entries of SUBDIRS;      *)
(*   - main (130-153): parse, generate, then recurse into every existing  *)
(*     subdirectory, the call stack kept as a sequence of frames;          *)
(*   - the script body (155-179): install.lst and doc.lst are opened      *)
(*     before the walk, acout.in is written after it, sorted by depth and  *)
(*     passed through filter().                                            *)
(*                                                                         *)
(* The autogen.am/msc/codegen/var modules are not in the repository.  A   *)
(* group's dictionary is a function from names (groupvar.add assigns), a  *)
(* plain var holds a sequence of tokens (var.append), and the output list *)
(* of a directory is its own Makefile (am.output).  parser.cnt is written *)
(* and never read, and the printed messages change nothing: both are left *)
(* out.                                                                    *)
(***************************************************************************)
EXTENDS Integers, Sequences, FiniteSets, SequencesExt, FiniteSetsExt, TLC

CONSTANTS
    Ag,          \* the candidate Makefile.ag of each directory: a set of files
    Existing,    \* the directories that exist, as paths (sequences of names)
    MaxFrames    \* the depth of the recursion the model lets main() reach

VARIABLES
    pc,          \* "run", "done", "crashed"
    file,        \* the Makefile.ag of each existing directory
    frames,      \* the call stack of main(): the innermost frame last
    incdirsmap,  \* the list shared by every call of main()
    lists,       \* "old", "truncated" or "written": install.lst and doc.lst
    acout,       \* acout.in: [new, lines]; new is FALSE while it holds an earlier run's
    walked       \* ghost: [dir, conds] of each call of main(), in call order

vars == <<pc, file, frames, incdirsmap, lists, acout, walked>>

NL == "\n"

\* A file: absent (fileinput raises IOError) or a sequence of lines, each
\* the sequence of tokens line.split() returns.
Missing == [present |-> FALSE, lines |-> <<>>]

(***************************************************************************)
(* The variable tree.  A group's dictionary maps a name to the value add() *)
(* received, tagged with whether it came from a group.                     *)
(***************************************************************************)
Var(n)   == [name |-> n, group |-> FALSE, vals |-> <<>>, defs |-> <<>>]
Group(n) == [name |-> n, group |-> TRUE,  vals |-> <<>>, defs |-> <<>>]

Entry(g, v) == [group |-> g, val |-> v]

\* groupvar.add(name, values): the new value replaces an old one.
Add(g, n, v) ==
    [g EXCEPT !.defs = (n :> Entry(v.group, IF v.group THEN v.defs ELSE v.vals)) @@ g.defs]

\* Iterating a value: a var's list, or a dictionary's keys.
Items(e) == IF e.group THEN SetToSeq(DOMAIN e.val) ELSE e.val

isName(t) == t \notin {"{", "}", "="}

\* str.split(c), with Python's empty fields.
RECURSIVE Split(_, _)
Split(s, c) ==
    LET hits == {i \in 1..Len(s) : SubSeq(s, i, i) = c}
    IN  IF hits = {} THEN <<s>>
        ELSE <<SubSeq(s, 1, Min(hits) - 1)>> \o Split(SubSeq(s, Min(hits) + 1, Len(s)), c)

(***************************************************************************)
(* parser.parse, one operator per branch, tried in the code's order.       *)
(***************************************************************************)
NewParser == [state |-> "defs", cur |-> Add(Group("top"), "TARGETS", Group("TARGETS")),
              stack |-> <<>>]

\* self.top: the root group, at the bottom of the stack while a var is open.
Top(p) == IF p.stack = <<>> THEN p.cur ELSE p.stack[1]

StartVar(p, t) ==
    [p EXCEPT !.stack = Append(@, p.cur), !.cur = Var(t), !.state = "var"]

OpenGroup(p) == [p EXCEPT !.cur = Group(p.cur.name), !.state = "defs"]

\* Pop the enclosing group and add the finished var or group to it; on an
\* empty stack self.stack[-1] raises IndexError.
CloseVar(p) ==
    IF p.stack = <<>> THEN [p EXCEPT !.state = "crashed"]
    ELSE [p EXCEPT !.cur   = Add(Last(p.stack), p.cur.name, p.cur),
                   !.stack = Front(p.stack),
                   !.state = "defs"]

\* A value naming a variable of the root stands for that variable's items;
\* '""' is the empty string.
AppendValue(p, t) ==
    LET tok == IF t = "\"\"" THEN "" ELSE t
        top == Top(p)
    IN  [p EXCEPT !.cur.vals = @ \o (IF tok \in DOMAIN top.defs
                                     THEN Items(top.defs[tok]) ELSE <<tok>>)]

\* The last two branches only print ("Missing = ", "error").
Parse(p, t) ==
    CASE p.state = "crashed"                        -> p
      [] p.state = "defs" /\ t = NL                 -> p
      [] p.state = "\\" /\ t = NL                   -> [p EXCEPT !.state = "="]
      [] p.state = "defs" /\ isName(t)              -> StartVar(p, t)
      [] p.state = "=" /\ t = "\\"                  -> [p EXCEPT !.state = "\\"]
      [] p.state = "var" /\ t = "="                 -> [p EXCEPT !.state = "="]
      [] p.state = "=" /\ t = "{"                   -> OpenGroup(p)
      [] \/ p.state = "defs" /\ t = "}"
         \/ p.state \in {"=", "var"} /\ t = NL      -> CloseVar(p)
      [] p.state = "=" /\ isName(t)                 -> AppendValue(p, t)
      [] OTHER                                      -> p

IsComment(line) == line # <<>> /\ SubSeq(line[1], 1, 1) = "#"

ParseAll(p, ts) ==
    LET after[i \in 0..Len(ts)] == IF i = 0 THEN p ELSE Parse(after[i - 1], ts[i])
    IN  after[Len(ts)]

\* read_makefile: the tokens of every non-comment line, each line ended by "\n".
ReadMakefile(f) ==
    ParseAll(NewParser,
             FlattenSeq([i \in 1..Len(f.lines) |->
                           IF IsComment(f.lines[i]) THEN <<>> ELSE f.lines[i] \o <<NL>>]))

(***************************************************************************)
(* expand_subdirs: [dir, cond] pairs, cond "" for None.                    *)
(***************************************************************************)
Sub(d, c) == [dir |-> d, cond |-> c]

ExpandOne(s) ==
    LET parts == Split(s, "?")
        dirs  == Split(parts[2], ":")
    IN  IF Len(parts) = 1 THEN <<Sub(s, "")>>
        ELSE IF Len(parts) # 2 \/ Len(dirs) > 2 THEN <<>>
        ELSE SelectSeq([i \in 1..Len(dirs) |->
                          Sub(dirs[i], IF i = 1 THEN parts[1] ELSE "!" \o parts[1])],
                       LAMBDA e : e.dir # "")

expand_subdirs(subdirs) ==
    FlattenSeq([i \in DOMAIN subdirs |-> ExpandOne(subdirs[i])])

\* 'SUBDIRS' in p.curvar, then expand_subdirs(p.curvar['SUBDIRS']): the
\* tree handed on is p.curvar, whichever variable is open at the end.
SubdirsOf(p) ==
    IF p.cur.group /\ "SUBDIRS" \in DOMAIN p.cur.defs
    THEN expand_subdirs(Items(p.cur.defs["SUBDIRS"])) ELSE <<>>

(***************************************************************************)
(* The script and main().                                                  *)
(***************************************************************************)
Makefile(d) == Append(d, "Makefile")

Frame(d, conds) == [dir |-> d, conds |-> conds, st |-> "enter", subs |-> <<>>, out |-> <<>>]

\* The parse of every candidate file, computed once.
Parsed == [d \in Existing |-> [f \in Ag[d] |-> ReadMakefile(f)]]

Files == {f \in [Existing -> UNION {Ag[d] : d \in Existing}] : \A d \in Existing : f[d] \in Ag[d]}

TypeOK ==
    /\ pc \in {"start", "run", "done", "crashed"}
    /\ Len(frames) <= MaxFrames
    /\ \A i \in DOMAIN frames : frames[i].st \in {"enter", "loop"} /\ frames[i].dir \in Existing
    /\ lists \in {"old", "truncated", "written"}
    /\ acout.new \in BOOLEAN /\ acout.lines \in Seq(Seq(STRING))

Init ==
    /\ pc = "start"
    /\ file \in Files
    /\ frames = <<>>
    /\ incdirsmap = <<>>
    /\ lists = "old"
    /\ acout = [new |-> FALSE, lines |-> <<>>]
    /\ walked = <<>>

\* install.lst and doc.lst are opened for writing, then main(topdir, ...).
Start ==
    /\ pc = "start"
    /\ lists' = "truncated"
    /\ frames' = <<Frame(<<>>, <<>>)>>
    /\ pc' = "run"
    /\ UNCHANGED <<file, incdirsmap, acout, walked>>

\* An exception propagates out of main() and ends the script.
Raise ==
    /\ pc' = "crashed"
    /\ frames' = <<>>
    /\ UNCHANGED <<file, lists, acout, walked>>

\* main: read_makefile (a missing Makefile.ag raises IOError, a stray "}"
\* IndexError), codegen, am.output and msc.output, then the subdirectories.
Enter ==
    /\ pc = "run"
    /\ Last(frames).st = "enter"
    /\ LET fr == Last(frames)
           f  == file[fr.dir]
           p  == Parsed[fr.dir][f]
       IN  IF ~f.present \/ p.state = "crashed" THEN Raise /\ UNCHANGED incdirsmap
           ELSE /\ frames' = [frames EXCEPT ![Len(frames)] =
                                [@ EXCEPT !.st = "loop", !.subs = SubdirsOf(p),
                                          !.out = <<Makefile(fr.dir)>>]]
                /\ walked' = Append(walked, [dir |-> fr.dir, conds |-> fr.conds])
                /\ UNCHANGED <<pc, file, incdirsmap, lists, acout>>

\* os.path.join(cwd, dir): an empty name joins to cwd itself.
Join(d, x) == IF x = "" THEN d ELSE Append(d, x)

Cond(conds, c) == conds \o (IF c = "" THEN <<>> ELSE <<c>>)

\* for (dir, cond) in expand_subdirs(...): a directory that does not exist
\* is passed over; one that does is added to incdirsmap and main() recurses
\* into it, passing conditional + (cond,).  Past MaxFrames calls Python
\* raises RecursionError.
DescendWith(exists(_), cond(_, _)) ==
    /\ pc = "run"
    /\ Last(frames).st = "loop" /\ Last(frames).subs # <<>>
    /\ LET fr == Last(frames)
           e  == Head(fr.subs)
           d  == Join(fr.dir, e.dir)
           up == [frames EXCEPT ![Len(frames)].subs = Tail(@)]
       IN  CASE ~exists(d)              -> frames' = up /\ UNCHANGED <<pc, incdirsmap>>
             [] Len(frames) = MaxFrames -> Raise /\ UNCHANGED incdirsmap
             [] OTHER ->
                  /\ incdirsmap' = Append(incdirsmap, <<d, <<"includedir", e.dir>>>>)
                  /\ frames' = Append(up, Frame(d, cond(fr.conds, e.cond)))
                  /\ UNCHANGED pc
    /\ UNCHANGED <<file, lists, acout, walked>>

DescendNoExists == DescendWith(LAMBDA d : TRUE, Cond)

Descend == DescendWith(LAMBDA d : d \in Existing, Cond)

\* Mutant: the caller drops the lists the recursive call returns.
ReturnDropsDelta ==
    /\ pc = "run"
    /\ Len(frames) > 1
    /\ Last(frames).st = "loop" /\ Last(frames).subs = <<>>
    /\ frames' = Front(frames)
    /\ UNCHANGED <<pc, file, incdirsmap, lists, acout, walked>>

\* return InstallList, DocList, OutList: the caller appends them to its own.
Return ==
    /\ pc = "run"
    /\ Len(frames) > 1
    /\ Last(frames).st = "loop" /\ Last(frames).subs = <<>>
    /\ LET caller == frames[Len(frames) - 1]
       IN  frames' = [Front(frames) EXCEPT ![Len(frames) - 1].out =
                        caller.out \o Last(frames).out]
    /\ UNCHANGED <<pc, file, incdirsmap, lists, acout, walked>>

Skip == {<<"conf", "stamp-h">>, <<"conf", "config.h">>}

\* OutList.sort(key=count(os.sep)): a stable sort by depth.
SortByDepth(s) ==
    FlattenSeq([k \in 1..(MaxFrames + 1) |-> SelectSeq(s, LAMBDA x : Len(x) = k)])

\* map(filter, OutList): a name equal to the one before it, or in skip,
\* writes nothing (prev is updated either way).
RECURSIVE Filtered(_, _)
Filtered(s, prev) ==
    IF s = <<>> THEN <<>>
    ELSE (IF Head(s) = prev \/ Head(s) \in Skip THEN <<>> ELSE <<Head(s)>>)
           \o Filtered(Tail(s), Head(s))

\* The outermost main() returns: install.lst and doc.lst are written, then
\* acout.in.
Finish ==
    /\ pc = "run"
    /\ Len(frames) = 1
    /\ Last(frames).st = "loop" /\ Last(frames).subs = <<>>
    /\ lists' = "written"
    /\ acout' = [new |-> TRUE, lines |-> Filtered(SortByDepth(Last(frames).out), <<>>)]
    /\ frames' = <<>>
    /\ pc' = "done"
    /\ UNCHANGED <<file, incdirsmap, walked>>

Next == Start \/ Enter \/ Descend \/ Return \/ Finish

Spec == Init /\ [][Next]_vars

AcoutListsWalk ==
    pc = "done" =>
        LET ls == acout.lines IN
        /\ Range(ls) = {Makefile(w.dir) : w \in Range(walked)}
        /\ \A i, j \in DOMAIN ls : i < j => Len(ls[i]) <= Len(ls[j])

=============================================================================
