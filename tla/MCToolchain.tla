---------------------------- MODULE MCToolchain ----------------------------
(* Sources for the run of Toolchain: a native, functions main and g of lines *)
(* with one operation each, labels in front of it or on their own; and      *)
(* sources of directives for sizes and variables with a few functions.      *)
EXTENDS Toolchain

CONSTANTS main, g, p, x, l1, l2

MCName == {main, g, p, x}
Pair(l, fn) == <<l, fn>>

Intro(t, n) == [t |-> t, name |-> n]
O(op, arg) == [t |-> "op", op |-> op, arg |-> arg]
M(reg, imm) == O("movi", <<reg, imm>>)
S(s, n)   == [spaced |-> s] @@ O("st", n)
L(l)       == [t |-> "label", name |-> l]

\* The tokens of a line, the first of which is marked.
Line(ts) == [i \in DOMAIN ts |-> [nl |-> i = 1] @@ ts[i]]

Usual == { Line(<<M(255, 1)>>), Line(<<O("jmp", l1)>>), Line(<<L(l1)>>),
           Line(<<L(l2), O("jmp", l1)>>), Line(<<O("call", g)>>) }

Odd == { Line(<<O(o[1], o[2])>>) :
           o \in { <<"alloc", 255>>, <<"alloc", 256>>, <<"setvlen", 65535>>, <<"setvlen", 65536>>,
                   <<"lra", 65534>>, <<"lra", 65535>>, <<"ld", 32767>>, <<"ld", -32768>>,
                   <<"ld", 32768>>, <<"neg", 255>>, <<"neg", 256>>, <<"mov", 255>>, <<"mov", 256>>, <<"halt", 0>>,
                   <<"setelen", "long">>, <<"setelen", "other">>,
                   <<"jmp", l2>>, <<"call", main>>, <<"call", p>>, <<"call", x>>, <<"ldfn", p>>,
                   <<"ldfn", g>>, <<"ldfn", x>>, <<"ldvar", l1>> } }
       \cup { Line(<<o>>) : o \in { M(256, 1), M(1, -1), M(0, Int64Half - 1), M(0, Int64Half),
                                     S(TRUE, 32767), S(TRUE, 32768), S(FALSE, 8) } }
       \cup { Line(<<[t |-> "text"]>>), Line(<<O("nop", 0), [t |-> "text"]>>),
              Line(<<Intro("func", g)>>), Line(<<O("nop", 0), Intro("func", g)>>),
              Line(<<L(l1), L(l2)>>), Line(<<O("nop", 0), L(l2)>>), Line(<<O("nop", 0), O("mov", 0)>>), Line(<<[t |-> "end"]>>),
              Line(<<O("nop", 0), [t |-> "size", which |-> "heap", num |-> 1]>>), Line(<<O("nop", 0), Intro("extern", x)>>),
              Line(<<Intro("extern", x), O("nop", 0)>>),
              Line(<<O("nop", 0), [t |-> "global", name |-> l1, bytes |-> 3, data |-> <<2, 1>>]>>) }

Bodies  == UNION { [1 .. n -> Usual] : n \in 0 .. 3 }
           \cup { <<l, o, m>> : l \in Usual, o \in Odd, m \in Usual }
Second  == { << >>, <<Line(<<L(l1)>>), Line(<<O("jmp", l1)>>)>>,
             <<Line(<<O("jmp", l2)>>), Line(<<O("ldfn", main)>>), Line(<<L(l2)>>)>> }

FuncSource(n, body) == <<Line(<<Intro("func", n)>>)>> \o body \o <<Line(<<[t |-> "end"]>>)>>

Heads == { <<Line(<<Intro("native", p)>>)>>, <<Line(<<Intro("extern", p)>>)>>,
           <<Line(<<Intro("native", p)>>), Line(<<Intro("native", p)>>)>> }

OpSources ==
  { FlattenSeq(k \o FuncSource(main, c) \o FuncSource(g, d)) :
      k \in Heads, c \in Bodies, d \in Second }

\* Lengths of names and of code that fill their words in different ways.
MCChars(n) == IF n = main THEN 5 ELSE IF n = g THEN 2 ELSE IF n = p THEN 7 ELSE 4

SizeLine(w, n)        == Line(<<[t |-> "size", which |-> w, num |-> n]>>)
GlobalLine(n, k, ds)  == Line(<<[t |-> "global", name |-> n, bytes |-> k, data |-> ds]>>)

\* Stacks and heaps of usual sizes, by default (0), and of sizes that wrap around on their
\* own (8192 cells) or together; a heap that what is added to it makes half of all numbers.
Sizes == { <<SizeLine("opstack", o), SizeLine("callstack", c), SizeLine("heap", h)>> :
             o \in {0, 1, 4096, 8191, 8192}, c \in {0, 2, 3584}, h \in {0, 1, 300, 552, 592, 600} }
         \cup { <<SizeLine("opstack", -1)>>, <<SizeLine("heap", 40000)>>, <<SizeLine("heap", 32000)>>,
                <<SizeLine("callstack", 8193), SizeLine("callstack", 1)>> }

Variables3 == <<GlobalLine(l1, 3, <<2, 1>>), GlobalLine(l2, 0, << >>), GlobalLine(x, 16, <<8, 0>>)>>
Items == { << >>, FuncSource(main, << >>),
           <<Line(<<Intro("extern", p)>>)>> \o FuncSource(g, <<Line(<<O("call", p)>>), Line(<<O("ldvar", x)>>)>>),
           FuncSource(main, <<Line(<<O("ldvar", l2)>>), Line(<<O("mov", 0)>>)>>),
           <<Line(<<Intro("native", p)>>)>> \o FuncSource(main, <<Line(<<O("call", g)>>)>>)
             \o FuncSource(g, <<Line(<<M(1, 1)>>), Line(<<S(TRUE, -8)>>), Line(<<O("call", main)>>)>>) }

OddGlobals == { GlobalLine(l1, d[1], d[2]) :
                  d \in { <<4, <<4, 4>> >>, <<8, <<4>> >>, <<4, <<8>> >>, <<4, <<8, 0>> >>, <<16, <<0>> >>,
                          <<5, <<2, 1, 0>> >>, <<0, <<0>> >>, <<4, <<0, 4>> >>, <<7, <<4, 2, 1>> >> } }

DataSources ==
  { FlattenSeq(s \o fs) : s \in Sizes, fs \in Items }
  \cup { FlattenSeq(Variables3 \o s \o fs) : s \in Sizes, fs \in Items }
  \cup { <<v[1]>> \o FlattenSeq(fs \o w) : v \in OddGlobals, fs \in Items, w \in {<< >>, Variables3} }

MCSources == OpSources \cup DataSources
=============================================================================
