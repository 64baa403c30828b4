------------------------------- MODULE Elf2Rpl -------------------------------
(***************************************************************************)
(* The converter of the build: wut/elf2rpl/main.cpp reads the ELF file the *)
(* linker made with link_rpl.ld and writes the RPL file the console loads. *)
(* One action is one phase of read() or write(); the program is sequential *)
(* and what can go wrong is the order of the phases, which share addresses,*)
(* sizes and section numbers that later phases change.                     *)
(*                                                                         *)
(* A name is a sequence of parts (".rela" and ".text"), Bytes gives the    *)
(* length of a part.  A section's data is a sequence of entries: words,    *)
(* relocations, symbols or names.  A symbol is a number, its place in      *)
(* file.heap: pointers to symbols are compared by the code.                *)
(***************************************************************************)
EXTENDS Integers, FiniteSets, SequencesExt, FiniteSetsExt

CONSTANTS
    Inputs,           \* the ELF files that may be converted
    LoadAddress, CodeAddress, DataAddress, WiiuLoadAddress,
    Junk,             \* addresses that freed memory may show
    Max32,            \* 0xFFFFFFFF, the value of -1 in a field of 32 bits
    Bytes,            \* the length of each part of a name
    Spelled           \* the name that the bytes at a word spell

ASSUME AddressesAssumption ==
    /\ {LoadAddress, CodeAddress, DataAddress, WiiuLoadAddress, Max32} \subseteq Nat
    /\ 0 < LoadAddress /\ LoadAddress < CodeAddress /\ CodeAddress < DataAddress
    /\ DataAddress < WiiuLoadAddress /\ WiiuLoadAddress < Max32

VARIABLES
    pc,      \* the phase that comes next, or how the program ended
    in,      \* what was read: the header's verdict and inSections
    file,    \* struct ElfFile
    out,     \* outSections
    itr,     \* sectionSymbolItr: the symbols before it
    tables   \* the predicted sizes of .strtab, .symtab and .shstrtab

vars == <<pc, in, file, out, itr, tables>>

Null == 0
Dyn == <<".rela.dyn">>

U32 == 0..Max32
Name == Seq(DOMAIN Bytes)
Wrapped(n) == n % (Max32 + 1)

AlignUp(n, a) == ((n + a - 1) \div a) * a

\* The sum of a sequence of numbers
Total(v) ==
    LET Upto[k \in 0..Len(v)] == IF k = 0 THEN 0 ELSE Upto[k - 1] + v[k]
    IN  Upto[Len(v)]

NameSize(name) == Total([i \in DOMAIN name |-> Bytes[name[i]]])

\* The entries of seq whose places are in I, in their order
Chosen(seq, I) ==
    LET Upto[k \in 0..Len(seq)] ==
            IF k = 0 THEN <<>>
            ELSE IF k \in I THEN Append(Upto[k - 1], seq[k]) ELSE Upto[k - 1]
    IN  Upto[Len(seq)]
Places(seq) == [i \in DOMAIN seq |-> i]

InCode(a) == a >= CodeAddress /\ a < DataAddress
InData(a) == a >= DataAddress /\ a < WiiuLoadAddress
InLoad(a) == a >= LoadAddress /\ a < CodeAddress

(***************************************************************************)
(* The sections of the input and what the file is made of                  *)
(***************************************************************************)
EntrySize == [PROGBITS |-> 4, RELA |-> 12, SYMTAB |-> 16, DYNSYM |-> 16, NOBITS |-> 0, NULL |-> 0]
InSize(s) == EntrySize[s.type] * Len(s.data)

\* What a linker writes: names of known parts, sections of words, of symbols
\* and of relocations, which name symbols that exist
SymbolTypes == {"NOTYPE", "OBJECT", "FUNC", "SECTION", "FILE", "COMMON", "TLS"}
Bindings == {"LOCAL", "GLOBAL", "WEAK"}
InSymbol == [name : Name, value : U32, size : U32, type : SymbolTypes, binding : Bindings]
InRela == [offset : U32, index : Nat, type : STRING, addend : U32]
InSectionOf(types, D) ==
    [name : Name, type : types, addr : U32, size : U32, write : BOOLEAN, link : Nat, data : Seq(D)]
InSection == InSectionOf({"PROGBITS"}, U32) \cup InSectionOf({"SYMTAB", "DYNSYM"}, InSymbol)
                 \cup InSectionOf({"RELA"}, InRela) \cup InSectionOf({"NOBITS", "NULL"}, {})
WellFormed(ss) ==
    /\ ss \in Seq(InSection)
    /\ \A i \in DOMAIN ss :
           /\ ss[i].type = "RELA" =>
                  /\ ss[i].link \in DOMAIN ss /\ ss[ss[i].link].type \in {"SYMTAB", "DYNSYM"}
                  /\ \A k \in DOMAIN ss[i].data : ss[i].data[k].index + 1 \in DOMAIN ss[ss[i].link].data
           /\ ss[i].name = <<".lib.rplLibs">> => ss[i].type = "PROGBITS"

ASSUME InputsAssumption ==
    /\ Inputs \subseteq [header : BOOLEAN, sections : Seq(InSection)]
    /\ \A e \in Inputs : WellFormed(e.sections)

\* The parts of the names that the converter makes
ASSUME NamesAssumption ==
    /\ Bytes \in [DOMAIN Bytes -> Nat]
    /\ {"$TEXT", "$DATA", "$UNDEF", "_tramp", ".rela", ".fimport_", ".symtab", ".strtab",
        ".shstrtab"} \subseteq DOMAIN Bytes
    /\ Spelled \in [U32 -> Name]
    /\ Junk \subseteq Nat

\* getLoaderDataPtr(): the first section whose data holds the address.  Only
\* PROGBITS hold words that mean anything to the converter, others read as 0.
Loader(ss, a) == {i \in DOMAIN ss : ss[i].addr <= a /\ a < ss[i].addr + InSize(ss[i])}
Holds(ss, a) == Loader(ss, a) # {}
WordAt(s, a) == ((a - s.addr) \div 4) + 1
Word(ss, a) == LET s == ss[Min(Loader(ss, a))]
               IN  IF Holds(ss, a) /\ s.type = "PROGBITS" THEN s.data[WordAt(s, a)] ELSE 0
Stored(ss, a, v) ==
    LET i == Min(Loader(ss, a))
    IN  IF Holds(ss, a) /\ ss[i].type = "PROGBITS"
          THEN [ss EXCEPT ![i].data[WordAt(ss[i], a)] = v] ELSE ss
AllStored(ss, words) ==
    LET Upto[k \in 0..Len(words)] ==
            IF k = 0 THEN ss ELSE Stored(Upto[k - 1], words[k].at, words[k].value)
    IN  Upto[Len(words)]

\* findSymbol(): a symbol with a type comes before one without
FindSymbol(f, a) ==
    LET found == {i \in DOMAIN f.symbols : f.heap[f.symbols[i]].address = a}
        typed == {i \in found : f.heap[f.symbols[i]].type # "NOTYPE"}
    IN  IF found = {} THEN Null ELSE f.symbols[Min(IF typed = {} THEN found ELSE typed)]

Imports(f) == FlattenSeq([l \in DOMAIN f.libs |-> f.libs[l].imports])

\* findImport(): the symbol of the import with this stub or trampoline
FindImport(f, a) ==
    LET imports == Imports(f)
        found == {i \in DOMAIN imports : a \in {imports[i].stubAddr, imports[i].trampAddr}}
    IN  IF found = {} THEN Null ELSE imports[Min(found)].symbol

WithSymbols(f, syms) ==
    [f EXCEPT !.heap = @ \o syms,
              !.symbols = @ \o [i \in 1..Len(syms) |-> Len(f.heap) + i]]

Symbol(name, address, size, type, binding) ==
    [name |-> name, address |-> address, size |-> size, type |-> type,
     binding |-> binding]

\* The relocations of .rela.dyn, or of the other sections, with their symbol
Relas(ss, dyn) ==
    FlattenSeq([i \in DOMAIN ss |->
        IF ss[i].type # "RELA" \/ (ss[i].name = Dyn) # dyn THEN <<>>
        ELSE [k \in DOMAIN ss[i].data |->
                 [rela |-> ss[i].data[k], symbol |-> ss[ss[i].link].data[ss[i].data[k].index + 1]]]])

EmptyFile == [sections |-> <<>>, symbols |-> <<>>, heap |-> <<>>, relocations |-> <<>>,
              libs |-> <<>>]

Init ==
    /\ pc = "header"
    /\ in \in Inputs
    /\ file = EmptyFile
    /\ out = <<>> /\ itr = 0
    /\ tables = [str |-> 0, sym |-> 0, shstr |-> 0]

ReadHeader ==
    /\ pc = "header"
    /\ pc' = IF in.header THEN "loader" ELSE "failed"
    /\ UNCHANGED <<in, file, out, itr, tables>>

\* Process any loader relocations: the words of the system sections
LoaderRelocations ==
    LET relas == Relas(in.sections, TRUE)
        Bad(r) == ~Holds(in.sections, r.rela.offset) \/ r.rela.type \notin {"RELATIVE", "NONE"}
        real == Chosen(relas, {i \in DOMAIN relas : relas[i].rela.type # "NONE"})
        word(r) == [at |-> r.rela.offset, value |-> Wrapped(r.symbol.value + r.rela.addend)]
    IN  /\ pc = "loader"
        /\ \/ /\ \E i \in DOMAIN relas : Bad(relas[i])
              /\ pc' = "failed" /\ UNCHANGED in
           \/ /\ \A i \in DOMAIN relas : ~Bad(relas[i])
              /\ in' = [in EXCEPT !.sections = AllStored(@, [i \in DOMAIN real |-> word(real[i])])]
              /\ pc' = "sections"
        /\ UNCHANGED <<file, out, itr, tables>>

\* Read text/data sections, the default symbols are made after them
DefaultSymbols ==
    << Symbol(<<>>, 0, 0, "NOTYPE", "LOCAL"),
       Symbol(<<"$TEXT">>, CodeAddress, 0, "SECTION", "LOCAL"),
       Symbol(<<"$DATA">>, DataAddress, 0, "SECTION", "LOCAL"),
       Symbol(<<"$UNDEF">>, 0, 0, "OBJECT", "GLOBAL") >>

ReadSections ==
    LET read == {i \in DOMAIN in.sections : /\ ~InLoad(in.sections[i].addr)
                                            /\ in.sections[i].type \in {"PROGBITS", "NOBITS"}}
    IN  /\ pc = "sections"
        /\ file' = WithSymbols([file EXCEPT !.sections = Chosen(in.sections, read)], DefaultSymbols)
        /\ pc' = "symbols"
        /\ UNCHANGED <<in, out, itr, tables>>

Kept(sym) ==
    /\ ~InLoad(sym.value)
    /\ ~(sym.type = "NOTYPE" /\ sym.value = 0)
    /\ sym.type \notin {"FILE", "SECTION"}

KeptOf(data) == Chosen(data, {i \in DOMAIN data : Kept(data[i])})

ReadSymbols ==
    LET tabs == {i \in DOMAIN in.sections : in.sections[i].type = "SYMTAB"}
        syms == FlattenSeq([i \in DOMAIN in.sections |->
                               IF i \in tabs THEN KeptOf(in.sections[i].data) ELSE <<>>])
        new(s) == Symbol(s.name, s.value, s.size, s.type, s.binding)
    IN  /\ pc = "symbols"
        /\ \/ /\ \E i \in tabs : in.sections[i].name # <<".symtab">>
              /\ pc' = "failed" /\ UNCHANGED file
           \/ /\ \A i \in tabs : in.sections[i].name = <<".symtab">>
              /\ file' = WithSymbols(file, [i \in DOMAIN syms |-> new(syms[i])])
              /\ pc' = "imports"
        /\ UNCHANGED <<in, out, itr, tables>>

\* struct RplLibsDef, and the addresses of the library's stubs
LibDefs(ss) ==
    LET Defs(d) == [i \in 1..(Len(d) \div 3) |->
                       [name |-> d[3 * i - 2], stubStart |-> d[3 * i - 1], stubEnd |-> d[3 * i]]]
    IN  FlattenSeq([i \in DOMAIN ss |->
                       IF ss[i].name = <<".lib.rplLibs">> THEN Defs(ss[i].data) ELSE <<>>])
Stubs(lib) == [i \in 1..((lib.stubEnd - lib.stubStart + 3) \div 4) |-> lib.stubStart + 4 * (i - 1)]

\* One function of a library: its stub holds the address of its trampoline,
\* whose symbol gives its name away to the import's new symbol
ReadImport(w, lib, stub) ==
    LET addr  == Word(in.sections, stub)
        tramp == FindSymbol(w.file, addr)
        new   == WithSymbols(w.file, <<Symbol(w.file.heap[tramp].name, 0, 0, "FUNC", "GLOBAL")>>)
    IN  IF w.lost \/ ~Holds(in.sections, stub) \/ tramp = Null THEN [w EXCEPT !.lost = TRUE]
        ELSE [w EXCEPT !.file =
                 [new EXCEPT !.heap[tramp].name = Append(@, "_tramp"),
                             !.libs[lib].imports =
                                 Append(@, [trampAddr |-> addr, stubAddr |-> stub,
                                            symbol |-> Len(new.heap)])]]

AllImported(w, stubs) ==
    LET Upto[k \in 0..Len(stubs)] ==
            IF k = 0 THEN w ELSE ReadImport(Upto[k - 1], stubs[k].lib, stubs[k].addr)
    IN  Upto[Len(stubs)]

\* Read RPL imports.  A name or a stub outside the sections, or a trampoline
\* without a symbol, is a null pointer.
ReadImports ==
    LET libs == LibDefs(in.sections)
        stubs == FlattenSeq([l \in DOMAIN libs |->
                    [i \in DOMAIN Stubs(libs[l]) |-> [lib |-> l, addr |-> Stubs(libs[l])[i]]]])
        named == [l \in DOMAIN libs |-> [name |-> Spelled[Word(in.sections, libs[l].name)],
                                         imports |-> <<>>]]
        w == AllImported([file |-> [file EXCEPT !.libs = named], lost |-> FALSE], stubs)
    IN  /\ pc = "imports"
        /\ \/ /\ (\E l \in DOMAIN libs : ~Holds(in.sections, libs[l].name)) \/ w.lost
              /\ pc' = "crash" /\ UNCHANGED file
           \/ /\ (\A l \in DOMAIN libs : Holds(in.sections, libs[l].name)) /\ ~w.lost
              /\ file' = w.file
              /\ pc' = "relocations"
        /\ UNCHANGED <<in, out, itr, tables>>

\* What an address in the addend of a relocation means
Meant(f, a) ==
    CASE FindImport(f, a) # Null -> [symbol |-> FindImport(f, a), addend |-> 0]
      [] FindImport(f, a) = Null /\ FindSymbol(f, a) # Null ->
             [symbol |-> FindSymbol(f, a), addend |-> 0]
      [] OTHER ->
             IF InData(a) THEN [symbol |-> FindSymbol(f, DataAddress), addend |-> a - DataAddress]
             ELSE IF InCode(a) THEN [symbol |-> FindSymbol(f, CodeAddress), addend |-> a - CodeAddress]
             ELSE [symbol |-> Null, addend |-> a]

Relocation(r, meant) ==
    [target |-> r.rela.offset, type |-> r.rela.type, symbol |-> meant.symbol,
     addend |-> meant.addend]

\* Read relocations.  An addend that means nothing is written into
\* inSections, whose data has been copied before, and the relocation is lost.
ReadRelocations ==
    LET relas == Relas(in.sections, FALSE)
        Bad(r) == /\ r.symbol.type = "SECTION" /\ r.symbol.value = CodeAddress
                  /\ ~InCode(r.rela.offset)
        Lost(r) == Meant(file, r.rela.addend).symbol = Null
        Wild(r) == Lost(r) /\ ~Holds(in.sections, r.rela.offset)
        wrong == {i \in DOMAIN relas : Bad(relas[i]) \/ Wild(relas[i])}
        kept == Chosen(relas, {i \in DOMAIN relas : ~Lost(relas[i])})
        lost == Chosen(relas, {i \in DOMAIN relas : Lost(relas[i])})
        word(r) == [at |-> r.rela.offset, value |-> r.rela.addend]
    IN  /\ pc = "relocations"
        /\ \/ /\ wrong # {}
              /\ pc' = IF Bad(relas[Min(wrong)]) THEN "failed" ELSE "crash"
              /\ UNCHANGED <<in, file>>
           \/ /\ wrong = {}
              /\ in' = [in EXCEPT !.sections = AllStored(@, [i \in DOMAIN lost |-> word(lost[i])])]
              /\ file' = [file EXCEPT !.relocations =
                              [i \in DOMAIN kept |-> Relocation(kept[i], Meant(file, kept[i].rela.addend))]]
              /\ pc' = "dyn"
        /\ UNCHANGED <<out, itr, tables>>

\* Read dyn relocations: one that names a symbol of .dynsym gets none
ReadDynRelocations ==
    LET all == Relas(in.sections, TRUE)
        relas == Chosen(all, {i \in DOMAIN all : all[i].rela.type # "NONE"})
        Means(r) == IF r.rela.index # 0 THEN [symbol |-> Null, addend |-> 0]
                    ELSE Meant(file, r.rela.addend)
        Bad(r) == (r.rela.index = 0 /\ Means(r).symbol = Null) \/ r.rela.type # "RELATIVE"
        Keep(r) == [Relocation(r, Means(r)) EXCEPT !.type = "ADDR32"]
        kept == Chosen(relas, {i \in DOMAIN relas : \/ InCode(relas[i].rela.offset)
                                                  \/ InData(relas[i].rela.offset)})
    IN  /\ pc = "dyn"
        /\ \/ /\ \E i \in DOMAIN relas : Bad(relas[i])
              /\ pc' = "failed" /\ UNCHANGED file
           \/ /\ \A i \in DOMAIN relas : ~Bad(relas[i])
              /\ file' = [file EXCEPT !.relocations = @ \o [i \in DOMAIN kept |-> Keep(kept[i])]]
              /\ pc' = "data sections"
        /\ UNCHANGED <<in, out, itr, tables>>

(***************************************************************************)
(* write(): the sections of the output                                     *)
(***************************************************************************)
Section(name, type, addr, size, data) ==
    [name |-> name, type |-> type, write |-> FALSE, addr |-> addr, offset |-> Max32,
     size |-> size, link |-> 0, info |-> 0, data |-> data, rela |-> Null, symbol |-> Null]

Names(data) == Total([i \in DOMAIN data |-> NameSize(data[i]) + 1])
\* (a plausible bug: the stubs are forgotten in the size)
ImportSizeOfName(name, count) == AlignUp(8 + NameSize(name), 8)
ImportSize(name, count) == Max({AlignUp(8 + NameSize(name), 8), 8 + 8 * count})

\* section->data.size()
DataSize(s) ==
    CASE s.type = "STRTAB"   -> 1 + Names(s.data)
      [] s.type = "IMPORTS"  -> ImportSize(s.data[1].name, s.data[1].count)
      [] s.type = "CRCS"     -> 4 * Len(s.data)
      [] s.type = "FILEINFO" -> 96
      [] OTHER               -> EntrySize[s.type] * Len(s.data)

End(s) == (s.addr + s.size) % (Max32 + 1)
\* (a plausible bug: the end of a section counts as inside)
CoversEnd(s, a) == s.addr <= a /\ a <= End(s)
Covers(s, a) == s.addr <= a /\ a < End(s)

\* getSectionIndex(): by address and by name, counted from 0
IndexOf(places) == IF places = {} THEN Max32 ELSE Min(places) - 1
SectionAt(secs, a) == IndexOf({k \in DOMAIN secs : Covers(secs[k], a)})
SectionNamed(secs, name) == IndexOf({k \in DOMAIN secs : secs[k].name = name})

\* addSection(): w holds the file's symbols, the sections and the iterator
AddSection(w, s) ==
    LET id == Len(w.file.heap) + 1
    IN  [w EXCEPT !.file.heap = Append(@, Symbol(s.name, s.addr, Max32, "SECTION", "LOCAL")),
                  !.file.symbols = InsertAt(@, w.itr + 1, id),
                  !.out = Append(@, [s EXCEPT !.symbol = id]),
                  !.itr = @ + 1]

AddAll(w, new) ==
    LET Upto[k \in 0..Len(new)] == IF k = 0 THEN w ELSE AddSection(Upto[k - 1], new[k])
    IN  Upto[Len(new)]

Become(w) == file' = w.file /\ out' = w.out /\ itr' = w.itr

AfterDefaults == 4

OutSection(s) ==
    [Section(s.name, s.type, s.addr, IF s.type = "NOBITS" THEN s.size ELSE InSize(s), s.data)
        EXCEPT !.write = s.write \/ s.addr = DataAddress]
NullSection == [Section(<<>>, "NULL", 0, 0, <<>>) EXCEPT !.offset = 0]

CreateDataSections ==
    /\ pc = "data sections"
    /\ Become(AddAll([file |-> file, out |-> <<NullSection>>, itr |-> AfterDefaults],
                     [k \in DOMAIN file.sections |-> OutSection(file.sections[k])]))
    /\ pc' = "rela sections"
    /\ UNCHANGED <<in, tables>>

\* Create relocation sections, one for each section that is a target
Target(secs, r) ==
    LET found == {k \in DOMAIN secs : Covers(secs[k], r.target)}
    IN  IF found = {} THEN Null ELSE Min(found)

InfoOf(w, t) == SectionAt(w.out, w.out[t].addr)

AddRela(w, r) ==
    LET t   == Target(w.out, r)
        new == [Section(<<".rela">> \o w.out[t].name, "RELA", 0, Max32, <<>>)
                   EXCEPT !.link = Max32, !.info = InfoOf(w, t)]
    IN  IF t = Null THEN [w EXCEPT !.lost = TRUE]
        ELSE IF w.out[t].rela # Null THEN w
        ELSE [AddSection(w, new) EXCEPT !.out[t].rela = Len(w.out) + 1]

AddRelas(w, relocations) ==
    LET Upto[k \in 0..Len(relocations)] ==
            IF k = 0 THEN w ELSE AddRela(Upto[k - 1], relocations[k])
    IN  Upto[Len(relocations)]

CreateRelaSections ==
    LET w == AddRelas([file |-> file, out |-> out, itr |-> itr, lost |-> FALSE], file.relocations)
    IN  /\ pc = "rela sections"
        /\ \/ w.lost /\ pc' = "failed" /\ UNCHANGED <<file, out, itr>>
           \/ ~w.lost /\ pc' = "predict" /\ Become(w)
        /\ UNCHANGED <<in, tables>>

\* Calculate sizes of symbol/string tables so RPL imports are placed after them
Predict ==
    /\ pc = "predict"
    /\ tables' =
         [str |-> AlignUp(1 + Names([i \in DOMAIN file.symbols |-> file.heap[file.symbols[i]].name]), 16),
          sym |-> AlignUp(1 + 16 * Len(file.symbols), 16),
          shstr |-> AlignUp(1 + Names([i \in DOMAIN out |-> out[i].name]), 16)]
    /\ pc' = "place"
    /\ UNCHANGED <<in, file, out, itr>>

\* Create RPL import sections; the symbols of the imports get their addresses
Placed(heap, lib, load) ==
    [s \in DOMAIN heap |->
        LET mine == {i \in DOMAIN lib.imports : lib.imports[i].symbol = s}
        IN  IF mine = {} THEN heap[s]
            ELSE [heap[s] EXCEPT !.address = load + 8 + (Min(mine) - 1) * 8]]

PlaceLib(w, lib) ==
    LET count == Len(lib.imports)
        new == Section(<<".fimport_">> \o lib.name, "IMPORTS", w.load, ImportSize(lib.name, count),
                       <<[name |-> lib.name, count |-> count, signature |-> <<>>]>>)
    IN  AddSection([w EXCEPT !.file.heap = Placed(@, lib, w.load),
                             !.load = AlignUp(@ + ImportSize(lib.name, count), 4)], new)

PlaceLibs(w, libs) ==
    LET Upto[k \in 0..Len(libs)] == IF k = 0 THEN w ELSE PlaceLib(Upto[k - 1], libs[k])
    IN  Upto[Len(libs)]

PlaceImports ==
    LET first == WiiuLoadAddress + tables.str + tables.sym + tables.shstr
    IN  /\ pc = "place"
        /\ Become(PlaceLibs([file |-> file, out |-> out, itr |-> itr, load |-> first], file.libs))
        /\ pc' = "prune"
        /\ UNCHANGED <<in, tables>>

\* Prune out unneeded symbols, which frees them
Unneeded(s) == s.name # <<>> /\ s.type = "NOTYPE" /\ s.size = 0

Prune ==
    /\ pc = "prune"
    /\ file' = [file EXCEPT !.symbols =
                    Chosen(@, {i \in DOMAIN @ : ~Unneeded(file.heap[@[i]])})]
    /\ pc' = "convert"
    /\ UNCHANGED <<in, out, itr, tables>>

\* Convert relocations.  One that points to a pruned symbol reads its address
\* from memory that is no longer the symbol's.
Live(r) == \E i \in DOMAIN file.symbols : file.symbols[i] = r.symbol
FromRegion(a) == IF InCode(a) THEN [index |-> 1, addend |-> a - CodeAddress]
               ELSE [index |-> 2, addend |-> a - DataAddress]
\* (a plausible bug: the place in the list before the pruning)
PointsUnpruned(r, read) ==
    IF Live(r) THEN [index |-> r.symbol - 1, addend |-> r.addend] ELSE FromRegion(read)
Points(r, read) ==
    IF Live(r) THEN [index |-> Min({i \in DOMAIN file.symbols : file.symbols[i] = r.symbol}) - 1,
                       addend |-> r.addend]
    ELSE FromRegion(read)
Converted(r, read) ==
    [type |-> IF r.type = "RELATIVE" THEN "ADDR32" ELSE r.type, offset |-> r.target] @@ Points(r, read)

Convert ==
    LET rs == file.relocations
        RelaOf(r) == LET t == Target(out, r) IN IF t = Null THEN Null ELSE out[t].rela
        freed == {i \in DOMAIN rs : ~Live(rs[i]) /\ rs[i].symbol # Null}
        Shown(i) == {file.heap[rs[i].symbol].address} \cup Junk
    IN  /\ pc = "convert"
        /\ \E read \in {f \in [freed -> UNION {Shown(i) : i \in freed}] : \A i \in freed : f[i] \in Shown(i)} :
             LET Bad(i) == \/ RelaOf(rs[i]) = Null
                           \/ rs[i].symbol = Null
                           \/ i \in freed /\ ~InCode(read[i]) /\ ~InData(read[i])
                 bad == {i \in DOMAIN rs : Bad(i)}
                 Read(i) == IF i \in freed THEN read[i] ELSE 0
                 Mine(k) == Chosen(Places(rs), {i \in DOMAIN rs : RelaOf(rs[i]) = k})
                 Entries(k) == [j \in DOMAIN Mine(k) |-> Converted(rs[Mine(k)[j]], Read(Mine(k)[j]))]
             IN  \/ /\ bad # {}
                    /\ pc' = IF rs[Min(bad)].symbol = Null THEN "crash" ELSE "failed"
                    /\ UNCHANGED out
                 \/ /\ bad = {}
                    /\ out' = [k \in DOMAIN out |-> [out[k] EXCEPT !.data = @ \o Entries(k)]]
                    /\ pc' = "link"
        /\ UNCHANGED <<in, file, itr, tables>>

\* Update relocation sections to link to symtab, the sizes and the symbols of
\* the sections; create .strtab and the header of .symtab
Sized(s) == [s EXCEPT !.size = IF s.type = "NOBITS" THEN @ ELSE DataSize(s)]
Linked(s, symtab) == [Sized(s) EXCEPT !.link = IF s.type = "RELA" THEN symtab ELSE @]

NonEmpty(names) == Chosen(names, {i \in DOMAIN names : names[i] # <<>>})

LinkTables ==
    LET symtab == Len(out)
        mine(s) == {k \in DOMAIN out : out[k].symbol = s}
    IN  /\ pc = "link"
        /\ out' = [k \in DOMAIN out |-> Linked(out[k], symtab)] \o
                  << [Section(<<".symtab">>, "SYMTAB", 0, Max32, <<>>) EXCEPT !.link = symtab + 1],
                     Section(<<".strtab">>, "STRTAB", 0, Max32,
                             NonEmpty([i \in DOMAIN file.symbols |-> file.heap[file.symbols[i]].name])),
                     Section(<<".shstrtab">>, "NULL", 0, 0, <<>>) >>
        /\ file' = [file EXCEPT !.heap = [s \in DOMAIN @ |->
                       IF mine(s) = {} THEN @[s]
                       ELSE [@[s] EXCEPT !.address = out[Min(mine(s))].addr,
                                         !.size = Sized(out[Min(mine(s))]).size]]]
        /\ pc' = "symtab"
        /\ UNCHANGED <<in, itr, tables>>

\* The section of a symbol
Shndx(s) == IF s.type = "SECTION" /\ s.address = 0 THEN SectionNamed(out, s.name)
            ELSE SectionAt(out, s.address)

\* Create .symtab and finish the signatures of the imports
Signed(names) == Append(names, <<"zeros">>)

CreateSymtab ==
    LET syms == [i \in DOMAIN file.symbols |-> file.heap[file.symbols[i]]]
        Entry(s) == [name |-> s.name, value |-> s.address, size |-> s.size, type |-> s.type,
                     binding |-> s.binding, shndx |-> Shndx(s)]
        Own(k) == Chosen(syms, {i \in DOMAIN syms : /\ Shndx(syms[i]) = k - 1
                                                    /\ syms[i].type # "SECTION"})
        Sign(k) == [out[k] EXCEPT !.data[1].signature =
                        Signed([i \in DOMAIN Own(k) |-> Own(k)[i].name])]
    IN  /\ pc = "symtab"
        /\ \/ /\ \E i \in DOMAIN syms : Shndx(syms[i]) = Max32
              /\ pc' = "failed" /\ UNCHANGED out
           \/ /\ \A i \in DOMAIN syms : Shndx(syms[i]) # Max32
              /\ out' = [k \in DOMAIN out |->
                            CASE out[k].type = "IMPORTS" -> Sign(k)
                              [] out[k].type = "SYMTAB" ->
                                     [out[k] EXCEPT !.data = [i \in DOMAIN syms |-> Entry(syms[i])]]
                              [] OTHER -> out[k]]
              /\ pc' = "shstrtab"
        /\ UNCHANGED <<in, file, itr, tables>>

\* Create .shstrtab and update the addresses of the three tables
CreateShstrtab ==
    LET n == Len(out)
        strtab == AlignUp(WiiuLoadAddress + tables.sym, 16)
        names == NonEmpty([k \in DOMAIN out |-> out[k].name])
        shstr == [Section(<<".shstrtab">>, "STRTAB", 0, Max32, names)
                     EXCEPT !.addr = AlignUp(strtab + tables.str, 16)]
    IN  /\ pc = "shstrtab"
        /\ out' = [out EXCEPT ![n - 2] = Sized([@ EXCEPT !.addr = WiiuLoadAddress]),
                              ![n - 1] = Sized([@ EXCEPT !.addr = strtab]),
                              ![n] = Sized(shstr)]
        /\ pc' = "fileinfo"
        /\ UNCHANGED <<in, file, itr, tables>>

\* Create the FILEINFO section: what the loader has to make room for
Extent(region, base) == Max({0} \cup {out[k].addr + out[k].size - base : k \in region})

FileInfo ==
    LET TempSize(s) == (IF s.type = "NOBITS" THEN s.size ELSE DataSize(s)) + 128
    IN  [textSize |-> Extent({k \in DOMAIN out : InCode(out[k].addr)}, CodeAddress),
         dataSize |-> Extent({k \in DOMAIN out : InData(out[k].addr)}, DataAddress),
         loadSize |-> Extent({k \in DOMAIN out : out[k].addr >= WiiuLoadAddress}, WiiuLoadAddress),
         tempSize |-> Total([k \in DOMAIN out |-> IF out[k].addr = 0 THEN TempSize(out[k]) ELSE 0])]

CreateFileInfo ==
    /\ pc = "fileinfo"
    /\ out' = out \o << Section(<<>>, "CRCS", 0, Max32, <<>>),
                        Section(<<>>, "FILEINFO", 0, Max32, <<FileInfo>>) >>
    /\ pc' = "crcs"
    /\ UNCHANGED <<in, file, itr, tables>>

\* The checksum of each section as it is then: its data stands for it
\* (a plausible bug: the sections made last get no checksum)
CreateCrcsEarly ==
    LET n == Len(out)
    IN  /\ pc = "crcs"
        /\ out' = [out EXCEPT ![n - 1].data = [k \in 1..(n - 2) |-> out[k].data]]
        /\ pc' = "offsets"
        /\ UNCHANGED <<in, file, itr, tables>>
CreateCrcs ==
    LET n == Len(out)
    IN  /\ pc = "crcs"
        /\ out' = [out EXCEPT ![n - 1].data = [k \in DOMAIN out |-> out[k].data]]
        /\ pc' = "offsets"
        /\ UNCHANGED <<in, file, itr, tables>>

\* Update section sizes and offsets, in four passes over the sections
HeaderEnd == AlignUp(AlignUp(52, 64) + 40 * Len(out), 64)
PassOf(s) ==
    CASE s.type \in {"CRCS", "FILEINFO"} -> 1
      [] s.type \notin {"CRCS", "FILEINFO"} /\ InData(s.addr) -> 2
      [] s.type \notin {"CRCS", "FILEINFO"} /\ s.addr >= WiiuLoadAddress -> 3
      [] OTHER -> 4

PutOnDisk(w, k) ==
    LET s == Sized(w.out[k])
        size == DataSize(s)
    IN  IF size = 0 THEN [w EXCEPT !.out[k] = [s EXCEPT !.offset = 0]]
        ELSE [out |-> [w.out EXCEPT ![k] = [s EXCEPT !.offset = w.next]],
              next |-> AlignUp(w.next + size, 64)]

\* One pass, over the sections that have no offset yet
Pass(w, p) ==
    LET Upto[k \in 0..Len(out)] ==
            IF k = 0 THEN w
            ELSE IF PassOf(out[k]) = p /\ out[k].offset = Max32 THEN PutOnDisk(Upto[k - 1], k)
            ELSE Upto[k - 1]
    IN  Upto[Len(out)]

SetOffsets ==
    /\ pc = "offsets"
    /\ out' = Pass(Pass(Pass(Pass([out |-> out, next |-> HeaderEnd], 1), 2), 3), 4).out
    /\ pc' = "write"
    /\ UNCHANGED <<in, file, itr, tables>>

WriteFile ==
    /\ pc = "write"
    /\ pc' \in {"done", "failed"}
    /\ UNCHANGED <<in, file, out, itr, tables>>

Read == \/ ReadHeader \/ LoaderRelocations \/ ReadSections \/ ReadSymbols \/ ReadImports
        \/ ReadRelocations \/ ReadDynRelocations
Write == \/ CreateDataSections \/ CreateRelaSections \/ Predict \/ PlaceImports \/ Prune
         \/ Convert \/ LinkTables \/ CreateSymtab \/ CreateShstrtab \/ CreateFileInfo
         \/ CreateCrcs \/ SetOffsets \/ WriteFile

Next == Read \/ Write
Spec == Init /\ [][Next]_vars

(***************************************************************************)
(* Properties                                                              *)
(***************************************************************************)
Done == pc = "done"
OfType(t) == {k \in DOMAIN out : out[k].type = t}
Symtab == out[Min(OfType("SYMTAB"))].data
Entries == UNION {Range(out[k].data) : k \in OfType("RELA")}
Loaded == {k \in DOMAIN out : out[k].type \in {"PROGBITS", "NOBITS", "IMPORTS"} /\ out[k].addr > 0}

Homes(a) == {k \in Loaded : out[k].addr <= a /\ a < out[k].addr + out[k].size}

\* The address an addend of the input stands for in the output: the slot of
\* the import it is the stub or the trampoline of, or itself
Resolved(a) == IF FindImport(file, a) = Null THEN a ELSE file.heap[FindImport(file, a)].address
Freed(a) == /\ FindImport(file, a) = Null
            /\ \E s \in DOMAIN file.heap : /\ file.heap[s].address = a
                                           /\ s \notin Range(file.symbols)
Known(a) == FindImport(file, a) # Null \/ InCode(a) \/ InData(a) \/ a = 0

Static == LET all == Relas(in.sections, FALSE)
          IN  Chosen(all, {i \in DOMAIN all : Known(all[i].rela.addend)})
Dynamic == LET all == Relas(in.sections, TRUE)
           IN  Chosen(all, {i \in DOMAIN all :
                   /\ all[i].rela.type = "RELATIVE"
                   /\ InCode(all[i].rela.offset) \/ InData(all[i].rela.offset)})
Resolves(e, r, type) ==
    /\ e.offset = r.rela.offset /\ e.type = type
    /\ \/ Symtab[e.index + 1].value + e.addend = Resolved(r.rela.addend)
       \/ Freed(r.rela.addend)

\* Every relocation of the input that means something is in the output once,
\* against a symbol and an addend that give the address it meant before
\* symbols were inserted, given addresses and pruned; the words the loader
\* relocations name hold that address already.  Where the symbol was pruned
\* its address is read from freed memory and may be any.  (read 403-533, write 744-805, 877-908)
RelocsResolve ==
    Done =>
        /\ \A r \in Range(Static) : \E e \in Entries : Resolves(e, r, r.rela.type)
        /\ \A r \in Range(Dynamic) : \E e \in Entries : Resolves(e, r, "ADDR32")
        /\ Total([k \in DOMAIN out |-> IF out[k].type = "RELA" THEN Len(out[k].data) ELSE 0])
               = Len(Static) + Len(Dynamic)
        /\ \A r \in Range(Dynamic) :
               Word(Chosen(out, OfType("PROGBITS")), r.rela.offset)
                   = Wrapped(r.symbol.value + r.rela.addend)

\* A relocation whose target lies in a loaded section is in the relocation
\* section whose info is that section's number and whose link is .symtab's.
\* (getSectionIndex 564-578, 638-676, 818-829)
RelaLinks ==
    Done => \A k \in OfType("RELA") :
        /\ out[k].link + 1 \in OfType("SYMTAB")
        /\ \A e \in Range(out[k].data) :
               Homes(e.offset) # {} => out[k].info + 1 \in Homes(e.offset)
        /\ \A e \in Range(out[k].data) : e.index < Len(Symtab)

\* Each symbol's section number is that of a section that holds its address,
\* and a symbol of a section without an address has the section of its name,
\* although the relocation sections and the tables have address 0, and the
\* tables the largest size, while they are looked through.
\* (addSection 550-562, getSectionIndex 564-592, 877-889)
SymbolsPlaced ==
    Done => \A s \in Range(Symtab) :
        /\ Homes(s.value) # {} => s.shndx + 1 \in Homes(s.value)
        /\ s.type = "SECTION" /\ s.value = 0 => out[s.shndx + 1].name = s.name

\* The section numbers in the output lead where the addresses lead, those of
\* the relocation sections and those of the symbols.
NumbersRight == RelaLinks /\ SymbolsPlaced

\* The signature of an import section is made of the names of its library's
\* functions, each once and in their order, and of nothing else: it is found
\* through addresses given out earlier (698-734, 899-903, 910-918).
ImportsSigned ==
    Done => \A l \in DOMAIN file.libs :
        \E k \in OfType("IMPORTS") :
            /\ out[k].data[1].name = file.libs[l].name
            /\ out[k].data[1].signature =
                   Signed([i \in DOMAIN file.libs[l].imports |->
                              file.heap[file.libs[l].imports[i].symbol].name])

\* In the file nothing overlaps: every section with data lies on a multiple of
\* 64 behind the section headers and away from the others, with the sections
\* of the data region before those of the load region (1066-1148).
LaidOut(o) ==
    LET stored == {k \in DOMAIN o : DataSize(o[k]) > 0}
        Before(k, j) == o[k].offset + o[k].size <= o[j].offset
    IN  /\ \A k \in stored : o[k].offset % 64 = 0 /\ o[k].offset >= 64 + 40 * Len(o)
        /\ \A k, j \in stored : k # j => Before(k, j) \/ Before(j, k)
        /\ \A k, j \in stored :
               InData(o[k].addr) /\ o[j].addr >= WiiuLoadAddress => Before(k, j)

\* What the file says of its sections is true of what is written: each has its
\* checksum (but the checksums' own), its size, and room in its region.
RoomFor(s, info) ==
    LET end == s.addr + s.size
    IN  /\ InCode(s.addr) => end <= CodeAddress + info.textSize
        /\ InData(s.addr) => end <= DataAddress + info.dataSize
        /\ s.addr >= WiiuLoadAddress => end <= WiiuLoadAddress + info.loadSize
Described(o) ==
    LET Of(t) == {k \in DOMAIN o : o[k].type = t}
        crcs == o[Min(Of("CRCS"))].data
        info == o[Min(Of("FILEINFO"))].data[1]
    IN  /\ \A k \in DOMAIN o \ Of("CRCS") : k \in DOMAIN crcs /\ crcs[k] = o[k].data
        /\ \A k \in DOMAIN o : o[k].type # "NOBITS" => o[k].size = DataSize(o[k])
        /\ \A k \in DOMAIN o : RoomFor(o[k], info)

\* The file as a whole: what is written lies where the headers say and is what
\* they say it is (1066-1148, 959-1064).
FileTrue == Done => LaidOut(out) /\ Described(out)

\* "Calculate sizes of symbol/string tables so RPL imports are placed after
\* them" (main.cpp:678).  The sizes are taken before the import sections and
\* the tables themselves have their names and symbols.
TablesBeforeImports ==
    Done => \A t \in OfType("SYMTAB") \cup OfType("STRTAB"), k \in OfType("IMPORTS") :
                out[t].addr + out[t].size <= out[k].addr
=============================================================================
