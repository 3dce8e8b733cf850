------------------------------- MODULE MCBoot -------------------------------
(***************************************************************************)
(* Inputs of the boot: any module list with a plain configuration and a    *)
(* plain image, any configuration text, or any image at one of four bases. *)
(***************************************************************************)
EXTENDS Boot

ConfPath == <<"/", "pconf">>
Tester   == <<"/", "boot", "/", "tester">>

-----------------------------------------------------------------------------
(* Texts: three lines and a fourth or a last one without newline, or any   *)
(* short text; and texts whose end is a section without its property.      *)

Line == {<<"a", "SP", "b", "SP", "a", "NL">>,
         <<"SP", "a", "SP", "SP", "a", "SP", "b", "b", "NL">>,
         <<"c", "a", "SP", "b", "SP", "a", "SP", "b", "NL">>,
         <<"d", "SP", "b", "SP", "b", "SP", "NL">>,
         <<"#", "a", "SP", "NL">>,
         <<"NL">>,
         <<"a", "SP", "NL">>,
         <<"a", "SP", "b", "NL">>}
Rest  == {<< >>, <<"a">>, <<"a", "SP">>, <<"a", "SP", "b", "SP">>, <<"#">>,
          <<"b", "SP", "a", "SP", "a", "NL">>}
Short == UNION {[1..n -> {"a", "b", "#", "SP", "NL"}] : n \in 0..4}
Texts == {l1 \o l2 \o l3 \o r : l1 \in Line, l2 \in Line, l3 \in Line, r \in Rest} \cup Short
Names == {<<"a">>, <<"b">>, <<"c", "a">>}

Setting(p, v) == <<"loader", "SP", p, "SP">> \o v \o <<"NL">>
Plain(b)      == Setting("image", Tester) \o Setting("base", <<b>>)
Ending        == {t \o <<"loader", "SP">> :
                    t \in {<< >>, Setting("image", Tester), Plain("2"), Plain("0"),
                           Setting("stack", <<"8">>)}}

-----------------------------------------------------------------------------
(* Images: two or three program headers, some out of order or overlapping, *)
(* and none, one or two relocations.  Some lack a table, or have it outside *)
(* their segments.                                                         *)

Ph(t, v, f, m) == [type |-> t, vaddr |-> v, filesz |-> f, memsz |-> m]
Seg == {Ph("LOAD", 0, 4, 6), Ph("LOAD", 0, 2, 4), Ph("LOAD", 6, 1, 1), Ph("LOAD", 1, 2, 2)}
Dyn == {Ph("DYNAMIC", 3, 1, 1), Ph("DYNAMIC", 2, 1, 1), Ph("NOTE", 0, 1, 1)}

Rel(t, o, s, a) == [type |-> t, offset |-> o, symbol |-> s, sym |-> 0, name |-> 0, addend |-> a]
Jump(o, s) == Rel("JUMP_SLOT", o, s, 0)
Rels == {<< >>,
         <<Jump(4, <<"thread", "yield">>), Rel("RELATIVE", 5, << >>, 2)>>,
         <<Rel("OTHER", 4, << >>, 2), Jump(5, <<"object", "find">>)>>,
         <<Jump(0, <<"page", "set">>), Jump(4, <<"page", "get">>)>>}

Headers == {<<s, d>> : s \in Seg, d \in Dyn}
           \cup {<<s, t, d>> : s \in Seg, t \in Seg \cup Dyn, d \in Dyn}
           \cup {<<d, s>> : s \in Seg, d \in Dyn}
Elf(h, r, str, sym) ==
    [phdr |-> h, strtab |-> str, symtab |-> sym, needed |-> 0,
     jmprel |-> 2, rel |-> r, entry |-> 0]
PlainHeaders == <<Ph("LOAD", 0, 4, 6), Ph("DYNAMIC", 3, 1, 1)>>
PlainElf     == Elf(PlainHeaders, << >>, 0, 1)
Elfs == {Elf(h, r, 0, 1) : h \in Headers, r \in Rels}
        \cup {Elf(PlainHeaders, r, str, sym) : r \in Rels, str \in {NONE, 0, 6}, sym \in {NONE, 1, 6}}

-----------------------------------------------------------------------------
(* Module lists.                                                           *)

Mod(s, kd, t, e) == [string |-> s, kind |-> kd, text |-> t, elf |-> e]
Pinion64  == Mod(<<"/", "pinion64">>, "elf64", << >>, PlainElf)
Pconf(t)  == Mod(ConfPath, "text", t, NONE)
Kernel(e) == Mod(Tester, "elf64", << >>, e)

Candidate == {
    Pinion64,
    Mod(<<"/", "boot", "/", "pinion64">>, "text", << >>, NONE),
    Pconf(Plain("2")),
    Pconf(<< >>),
    Kernel(PlainElf),
    Mod(<<"/", "other", "/">>, "elf32", << >>, PlainElf),
    Mod(<< >>, "text", << >>, NONE)}

Placed(c, a) == [string |-> c.string, kind |-> c.kind, text |-> c.text,
                 elf |-> c.elf, start |-> a]
Listed(s)    == [n \in DOMAIN s |-> Placed(s[n], n)]

Lists ==
    {Listed(s) : s \in UNION {[1..n -> Candidate] : n \in 0..4}}
    \cup {Listed(<<Pinion64, Pconf(t), Kernel(PlainElf)>>) : t \in Texts \cup Ending}
    \cup {Listed(<<Kernel(e), Pconf(Plain(b)), Pinion64>>) : e \in Elfs, b \in {"0", "2", "3", "c"}}

\* Page -1 is the last of the address space, where a stack at 0 begins: it is
\* pinion's, as are those that an image at the base "c" reaches.
Pages       == -1..9
PinionPages == {-1, 7, 8, 9}
=============================================================================
