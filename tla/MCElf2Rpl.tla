------------------------------ MODULE MCElf2Rpl ------------------------------
(* ELF files of the shape that link_rpl.ld and stubs_rpl.S give them: code,  *)
(* data and bss, a debugging section, and the system sections the converter *)
(* works on, with the addends, symbols and relocations that vary between    *)
(* builds.                                                                  *)
EXTENDS Elf2Rpl

Load == 1000
Code == 2000
Data == 4000
Wiiu == 8000
Largest == 65535

\* Two words of code and three trampolines, which end where .text2 begins
Fn == Code + 4
Tramp == Code + 8
Second == Code + 20
Rodata == Data
Bss == Data + 8

Libs == 0..2
Names12 == [w \in 0..Largest |-> CASE w = 1 -> <<"coreinit">> [] w = 2 -> <<"nn_act">> [] OTHER -> <<>>]

\* coreinit gives two functions, nn_act one
Stub(l) == 1200 + 8 * (l - 1)
Counts(l) == 3 - l
Trampoline(l, i) == Tramp + 8 * (l - 1) + 4 * i

\* addends of the relocations of .rela.text
Addends == {Code, Fn, Code + 3, Tramp, Stub(1), Rodata, Rodata + 4, Bss, Bss + 2, 0, 50}
DynTypes == {"RELATIVE", "NONE", "COPY"}

Sec(name, type, addr, data) ==
    [name |-> name, type |-> type, addr |-> addr, write |-> FALSE, size |-> 0, link |-> 0, data |-> data]
Rela(offset, index, type, addend) ==
    [offset |-> offset, index |-> index, type |-> type, addend |-> addend]
Sym(name, value, size, type) ==
    [name |-> name, value |-> value, size |-> size, type |-> type, binding |-> "GLOBAL"]

\* c: what varies.  .lib.rplLibs is not allocated, so that its words are final;
\* the stubs hold 0 until the loader relocations
Elf(c) ==
    LET libs == IF c.libs = 0 THEN <<>> ELSE [l \in 1..c.libs |-> l]
        each(Of(_)) == FlattenSeq([i \in DOMAIN libs |-> Of(libs[i])])
        dynsym == 3
        dyn == each(LAMBDA l : [i \in 1..Counts(l) |->
                                  Rela(Stub(l) + 4 * (i - 1), 0, "RELATIVE", Trampoline(l, i - 1))])
        null == Sym(<<>>, 0, 0, "NOTYPE")
    IN  [header |-> c.header,
         sections |->
          << Sec(<<>>, "NULL", 0, <<>>),
             [Sec(<<".symtab">>, "SYMTAB", 0,
                 << null, Sym(<<"text">>, Code, 0, "SECTION"), Sym(<<"fn">>, Fn, 4, c.fn),
                    Sym(<<"coreinit_fn">>, Tramp, 0, "NOTYPE"), Sym(<<"malloc_fn">>, Tramp + 4, 0, "NOTYPE"),
                    Sym(<<"act_fn">>, c.act, 0, "NOTYPE"),
                    Sym(<<"second">>, Second, 0, "FUNC"), Sym(<<"bss_start">>, Bss, 0, c.bss),
                    Sym(<<"stub">>, Stub(1), 0, "NOTYPE"), Sym(<<"abs">>, c.abs, 4, "OBJECT") >>) EXCEPT !.name = c.symtab],
             Sec(<<".dynsym">>, "DYNSYM", 1400, << null, Sym(<<"text">>, Code, 0, "SECTION") >>),
             Sec(<<".text">>, "PROGBITS", Code, <<0, 0, 0, 0, 0>>),
             Sec(<<".text2">>, "PROGBITS", Second, <<0>>),
             Sec(<<".rodata">>, "PROGBITS", Rodata, <<0, 0>>),
             [Sec(<<".bss">>, "NOBITS", Bss, <<>>) EXCEPT !.size = 4, !.write = TRUE],
             Sec(<<".debug">>, "PROGBITS", 0, <<0, 0>>),
             Sec(<<".rodata.rplNames">>, "PROGBITS", 1000, each(LAMBDA l : <<l>>)),
             Sec(<<".lib.rplLibs">>, "PROGBITS", 1100, each(LAMBDA l : <<1000 + 4 * (l - 1), Stub(l), Stub(l) + 4 * Counts(l)>>)),
             Sec(<<".data.rplFuncStubs">>, "PROGBITS", 1200, each(LAMBDA l : [i \in 1..Counts(l) |-> 0])),
             [Sec(<<".rela.dyn">>, "RELA", 1500, dyn \o c.dyn) EXCEPT !.link = dynsym],
             [Sec(<<".rela.text">>, "RELA", 1600,
                  << Rela(c.target, 0, "ADDR16_LO", c.first) >> \o c.second) EXCEPT !.link = dynsym] >>]

Usual == [header |-> TRUE, symtab |-> <<".symtab">>, libs |-> 1, fn |-> "FUNC", bss |-> "NOTYPE",
          dyn |-> <<>>, abs |-> Bss + 2, act |-> Tramp + 8, target |-> Code, first |-> Code, second |-> <<>>]

Builds ==
    { [Usual EXCEPT !.libs = l, !.fn = fn, !.first = a] : l \in Libs, fn \in {"FUNC", "NOTYPE"}, a \in Addends }
  \cup { [Usual EXCEPT !.libs = l, !.first = a,
                       !.second = << Rela(offset, index, "ADDR32", b) >>] :
            l \in {1, 2}, a \in Addends, b \in Addends, offset \in {Second, Rodata + 4}, index \in {0, 1} }
  \cup { [Usual EXCEPT !.libs = l, !.dyn = << Rela(offset, index, type, a) >>] :
            l \in Libs, offset \in {Rodata, 1200, 0, 7000}, index \in {0, 1}, type \in DynTypes, a \in Addends }
  \cup { [Usual EXCEPT !.target = 7000, !.first = a] : a \in Addends }
  \cup { [Usual EXCEPT !.libs = 2, !.act = Fn], [Usual EXCEPT !.abs = Largest] }
  \cup { [Usual EXCEPT !.header = FALSE], [Usual EXCEPT !.symtab = <<".dynsym">>] }

Files == { Elf(c) : c \in Builds }

PartBytes ==
    [p \in {"fn"} |-> 2] @@ [p \in {"abs"} |-> 3] @@ [p \in {"text", "stub", ".bss"} |-> 4]
    @@ [p \in {"$TEXT", "$DATA", ".text", ".rela"} |-> 5]
    @@ [p \in {"$UNDEF", ".text2", ".debug", "act_fn", "second", "_tramp", "nn_act"} |-> 6]
    @@ [p \in {".rodata", ".symtab", ".strtab", ".dynsym"} |-> 7] @@ [p \in {"coreinit"} |-> 8]
    @@ [p \in {"bss_start", ".fimport_", ".shstrtab", "malloc_fn"} |-> 9]
    @@ [p \in {".rela.dyn"} |-> 9] @@ [p \in {"coreinit_fn"} |-> 11]
    @@ [p \in {".rela.text"} |-> 10] @@ [p \in {".lib.rplLibs"} |-> 12]
    @@ [p \in {".rodata.rplNames"} |-> 16] @@ [p \in {".data.rplFuncStubs"} |-> 18]
=============================================================================
