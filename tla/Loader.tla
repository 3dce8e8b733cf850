------------------------------- MODULE Loader -------------------------------
(***************************************************************************)
(* load.c's load_kernel once it has found the kernel's ELF file, and       *)
(* api_resolve.c: program headers, relocations, stack and entry point.     *)
(*                                                                         *)
(* A cell of memory is a 64-bit word.  The word of the file that belongs   *)
(* at address a of the image lies at the same offset of the file.  A cell  *)
(* holds a word of the file, a number, the address of an API function, or  *)
(* whatever the frame held before.  Frames are never exhausted here.       *)
(***************************************************************************)
EXTENDS Strings, Integers, FiniteSets

CONSTANTS
    PageSize,   \* words per page
    Page,       \* virtual pages
    PinionPage, \* those that pinion's own large pages map
    NONE

VARIABLES
    elf,        \* the kernel's file
    base,       \* kernel_base
    map,        \* the page tables: page to frame
    tlb,        \* translations the processor holds
    mem,        \* the frames handed out so far, and what is in them
    ph,         \* the program header in hand
    k,          \* the word, page or relocation in hand
    loading,
    entry,      \* rip and rsp of the first thread
    stack,      \* config_read_as_ptr("loader", "stack"); not changed here
    null_base, null_stack   \* the lookups of "base" and of "stack" read through a
                            \* null pointer; not changed here

FileWord(a)  == [is |-> "file", n |-> a, api |-> NONE]
Number(n)    == [is |-> "number", n |-> n, api |-> NONE]
Function(f)  == [is |-> "api", n |-> 0, api |-> f]
Junk         == [is |-> "junk", n |-> 0, api |-> NONE]

Init ==
    /\ elf = NONE /\ base = NONE
    /\ map = [p \in Page |-> NONE]
    /\ tlb = [p \in Page |-> NONE]
    /\ mem = << >>
    /\ ph = 1 /\ k = 0
    /\ loading = "idle"
    /\ entry = NONE

\* load_kernel goes on with the file it found.  Nothing is mapped at address 0
\* yet.
StartLoad(file, b) ==
    /\ loading = "idle"
    /\ elf' = file /\ base' = b
    /\ loading' = IF null_base THEN "null" ELSE "header"
    /\ UNCHANGED <<map, tlb, mem, ph, k, entry>>

Header == elf.phdr[ph]
At     == base + Header.vaddr       \* where the segment is loaded

\* The processor may drop a translation at any time.
Evict ==
    /\ \E p \in Page : tlb[p] # NONE /\ tlb' = [tlb EXCEPT ![p] = NONE]
    /\ UNCHANGED <<elf, base, map, mem, ph, k, loading, entry>>

FrameOf(a) == LET p == a \div PageSize IN IF tlb[p] # NONE THEN tlb[p] ELSE map[p]
Word(a)    == mem[FrameOf(a)][a % PageSize]
IsPinion(a) == a \div PageSize \in PinionPage
Mapped(a)  == FrameOf(a) # NONE \/ IsPinion(a)

\* A write, and what it leaves in the TLB.
Accessed(a) == tlb' = [tlb EXCEPT ![a \div PageSize] = FrameOf(a)]
Store(a, w) == mem' = [mem EXCEPT ![FrameOf(a)][a % PageSize] = w]

\* A write that misses the kernel's frames: pinion takes a page fault, which it
\* does not survive, or writes to memory behind its own large pages.
Astray(a) ==
    /\ loading' = IF IsPinion(a) THEN "wild" ELSE "fault"
    /\ UNCHANGED <<tlb, mem>>

\* A read that finds the word of the file that belongs there, or does not.
Finds(a, w) == FrameOf(a) # NONE /\ Word(a) = w
Misread(a)  ==
    /\ loading' = IF Mapped(a) THEN "garbage" ELSE "fault"
    /\ UNCHANGED <<tlb, mem>>

\* pcx_set_frame on a fresh page.  An address that is not aligned or in one of
\* pinion's large pages is refused, which load_kernel does not notice; the frame
\* is used up.  Present entries are replaced, and their translation stays in the
\* TLB.
MapFresh(a) ==
    /\ mem' = Append(mem, [c \in 0..PageSize - 1 |-> Junk])
    /\ map' = IF a % PageSize # 0 \/ IsPinion(a) THEN map
              ELSE [map EXCEPT ![a \div PageSize] = Len(mem) + 1]

-----------------------------------------------------------------------------
(* load_kernel's loop over the program headers.                            *)

Loadable == {"LOAD", "DYNAMIC"}
HaveHeader == ph <= Len(elf.phdr)

SkipHeader ==
    /\ loading = "header" /\ HaveHeader /\ Header.type \notin Loadable
    /\ ph' = ph + 1
    /\ UNCHANGED <<elf, base, map, tlb, mem, k, loading, entry>>

StartHeader ==
    /\ loading = "header" /\ HaveHeader /\ Header.type \in Loadable
    /\ k' = 0
    /\ loading' = "map"
    /\ UNCHANGED <<elf, base, map, tlb, mem, ph, entry>>

\* A bug: only the pages with contents of the file are mapped.
MapFileOnly ==
    /\ loading = "map"
    /\ IF k < Header.filesz
       THEN MapFresh(At + k) /\ k' = k + PageSize /\ UNCHANGED loading
       ELSE k' = 0 /\ loading' = "copy" /\ UNCHANGED <<map, mem>>
    /\ UNCHANGED <<elf, base, tlb, ph, entry>>

MapPage ==
    /\ loading = "map"
    /\ IF k < Header.memsz
       THEN MapFresh(At + k) /\ k' = k + PageSize /\ UNCHANGED loading
       ELSE k' = 0 /\ loading' = "copy" /\ UNCHANGED <<map, mem>>
    /\ UNCHANGED <<elf, base, tlb, ph, entry>>

\* memcpy, then memclr.
CopyWord ==
    /\ loading = "copy" /\ k < Header.filesz
    /\ IF FrameOf(At + k) = NONE THEN Astray(At + k) /\ k' = k
       ELSE /\ Accessed(At + k) /\ Store(At + k, FileWord(Header.vaddr + k))
            /\ k' = k + 1 /\ UNCHANGED loading
    /\ UNCHANGED <<elf, base, map, ph, entry>>

\* A bug: what the file does not fill is left as the frame is.
ClearNothing ==
    /\ loading = "copy" /\ k >= Header.filesz /\ k < Header.memsz
    /\ k' = Header.memsz
    /\ UNCHANGED <<elf, base, map, tlb, mem, ph, loading, entry>>

ClearWord ==
    /\ loading = "copy" /\ k >= Header.filesz /\ k < Header.memsz
    /\ IF FrameOf(At + k) = NONE THEN Astray(At + k) /\ k' = k
       ELSE /\ Accessed(At + k) /\ Store(At + k, Number(0))
            /\ k' = k + 1 /\ UNCHANGED loading
    /\ UNCHANGED <<elf, base, map, ph, entry>>

EndHeader ==
    /\ loading = "copy" /\ k >= Header.memsz
    /\ ph' = ph + 1
    /\ loading' = "header"
    /\ UNCHANGED <<elf, base, map, tlb, mem, k, entry>>

-----------------------------------------------------------------------------
(* fixup_kernel.                                                           *)

Dynamics == {n \in DOMAIN elf.phdr : elf.phdr[n].type = "DYNAMIC"}

\* A string, or a symbol, is one word of its table.  Without the table's entry
\* in the dynamic section the table is at address 0, and so is every symbol: a
\* symbol's size is given with the symbol table.
StringAt(n) == (IF elf.strtab = NONE THEN 0 ELSE base + elf.strtab) + n
SymbolAt(n) == IF elf.symtab = NONE THEN 0 ELSE base + elf.symtab + n
IsString(n) == elf.strtab # NONE /\ Finds(StringAt(n), FileWord(elf.strtab + n))
IsSymbol(n) == elf.symtab # NONE /\ Finds(SymbolAt(n), FileWord(elf.symtab + n))

\* The dynamic section is read from the file; without one, from address 0.  Then
\* the name of the needed library is read from the image.  What else is found
\* there is logged, as a string whose end may be in a page that is not mapped.
StartFixup ==
    /\ loading = "header" /\ ~HaveHeader
    /\ k' = 1
    /\ IF Dynamics = {} THEN Misread(0)
       ELSE /\ loading' \in IF IsString(elf.needed) THEN {"fixup"}
                            ELSE IF Mapped(StringAt(elf.needed)) THEN {"fixup", "fault"}
                            ELSE {"fault"}
            /\ UNCHANGED <<tlb, mem>>
    /\ UNCHANGED <<elf, base, map, ph, entry>>

\* The names api_resolve knows, by their parts behind "__PINION_".
ApiName == <<
    <<"thread", "yield">>, <<"thread", "create">>, <<"thread", "pause">>,
    <<"thread", "resume">>, <<"thread", "pull", "state">>,
    <<"thread", "push", "state">>, <<"thread", "exit">>, <<"thread", "reap">>,
    <<"interrupt", "set", "tap">>, <<"interrupt", "get", "tap">>,
    <<"interrupt", "reset">>, <<"interrupt", "wait">>,
    <<"fault", "get", "pagefault">>, <<"fault", "get", "miscfault">>,
    <<"fault", "get", "zombie">>, <<"page", "set">>, <<"page", "get">>,
    <<"memory", "map", "read">> >>

\* The first name that matches; without one the address 0.
api_resolve(symbol) ==
    LET found == {n \in DOMAIN ApiName : Matches(symbol, ApiName[n])}
    IN  IF found = {} THEN Number(0)
        ELSE Function(ApiName[CHOOSE n \in found : \A m \in found : n <= m])

\* Of what fixup_kernel collects it uses DT_JMPREL: consecutive words of the
\* image, one for each relocation here.
Entries   == Len(elf.rel)
EntryAt(n) == base + elf.jmprel + n - 1

\* The addend of a jump slot is 0.
Value(r) ==
    CASE r.type = "JUMP_SLOT" -> api_resolve(r.symbol)
      [] r.type = "RELATIVE"  -> Number(base + r.addend)

\* relocate, on the entry as it is read from the loaded image: a word that is
\* not the file's any more is no relocation, symbol or name.
Relocate ==
    /\ loading = "fixup" /\ k <= Entries
    /\ LET r == elf.rel[k]
       IN  IF ~Finds(EntryAt(k), FileWord(elf.jmprel + k - 1)) THEN Misread(EntryAt(k))
           ELSE IF r.type \notin {"JUMP_SLOT", "RELATIVE"} THEN UNCHANGED <<tlb, mem, loading>>
           ELSE IF r.type = "JUMP_SLOT" /\ ~IsSymbol(r.sym) THEN Misread(SymbolAt(r.sym))
           ELSE IF r.type = "JUMP_SLOT" /\ ~IsString(r.name) THEN Misread(StringAt(r.name))
           ELSE IF FrameOf(base + r.offset) = NONE THEN Astray(base + r.offset)
           ELSE /\ Accessed(base + r.offset) /\ Store(base + r.offset, Value(r))
                /\ UNCHANGED loading
    /\ k' = k + 1
    /\ UNCHANGED <<elf, base, map, ph, entry>>

\* The stack's page, and the first thread's registers.
Enter ==
    /\ loading = "fixup" /\ k > Entries
    /\ IF null_stack /\ ~Mapped(0)
       THEN loading' = "null" /\ UNCHANGED <<map, mem, entry>>
       ELSE /\ MapFresh(stack - PageSize)
            /\ entry' = [rip |-> base + elf.entry, rsp |-> stack]
            /\ loading' = "done"
    /\ UNCHANGED <<elf, base, tlb, ph, k>>

load_kernel ==
    \/ SkipHeader \/ StartHeader \/ MapPage \/ CopyWord \/ ClearWord \/ EndHeader
    \/ StartFixup \/ Relocate \/ Enter

-----------------------------------------------------------------------------
(* Properties.                                                             *)

Load(n)    == elf.phdr[n].type = "LOAD"
Segment(n) == elf.phdr[n].vaddr..elf.phdr[n].vaddr + elf.phdr[n].memsz - 1
FromFile(n) == elf.phdr[n].vaddr..elf.phdr[n].vaddr + elf.phdr[n].filesz - 1
PagesOf(S) == {(base + a) \div PageSize : a \in S}
Loads      == {n \in DOMAIN elf.phdr : Load(n)}
Filled     == UNION {FromFile(n) : n \in Loads}

\* What fixup_kernel reads of the image.
JumpSlots == {n \in 1..Entries : elf.rel[n].type = "JUMP_SLOT"}
Read ==
    {elf.strtab + elf.needed} \cup {elf.jmprel + n - 1 : n \in 1..Entries}
    \cup {elf.symtab + elf.rel[n].sym : n \in JumpSlots}
    \cup {elf.strtab + elf.rel[n].name : n \in JumpSlots}

\* What the loader is made for: segments that begin on pages, share none and
\* keep within the address space and out of pinion's part of it; a dynamic section
\* behind its segment that lies in the segment's file part and not at the
\* beginning of a page; a string table, and a symbol table for the jump slots;
\* relocations within the segments, and none in what fixup_kernel reads; a stack
\* apart.
WellLaid ==
    /\ base % PageSize = 0 /\ stack % PageSize = 0
    /\ \A n \in Loads :
          elf.phdr[n].vaddr % PageSize = 0 /\ PagesOf(Segment(n)) \subseteq Page \ PinionPage
    /\ \A n, m \in Loads : n # m => PagesOf(Segment(n)) \cap PagesOf(Segment(m)) = {}
    /\ Dynamics # {}
    /\ \A d \in Dynamics :
          /\ elf.phdr[d].vaddr % PageSize # 0
          /\ elf.phdr[d].filesz = elf.phdr[d].memsz
          /\ \E n \in Loads : n < d /\ Segment(d) \subseteq FromFile(n)
    /\ elf.strtab # NONE /\ (JumpSlots # {} => elf.symtab # NONE)
    /\ Read \subseteq Filled
    /\ \A n \in 1..Entries :
          /\ elf.rel[n].offset \in UNION {Segment(m) : m \in Loads}
          /\ elf.rel[n].offset \notin Read
          /\ \A m \in 1..Entries : m # n => elf.rel[m].offset # elf.rel[n].offset
    /\ (stack \div PageSize) - 1 \notin PinionPage
    /\ \A n \in Loads : (stack \div PageSize) - 1 \notin PagesOf(Segment(n))

\* A well-laid image is loaded without a page fault (a fault in pinion stops the
\* machine), without a write to pinion's own memory, and without relocating by
\* entries, symbols or names that were lost (load.c:188-333).
LoadsSafely == loading \in {"fault", "wild", "garbage"} => ~WellLaid

\* The word the linker meant for address a.
Linked(a) ==
    LET rs == {n \in 1..Entries : elf.rel[n].offset = a
                                  /\ elf.rel[n].type \in {"JUMP_SLOT", "RELATIVE"}}
    IN  IF rs # {} THEN Value(elf.rel[CHOOSE n \in rs : TRUE])
        ELSE IF a \in Filled THEN FileWord(a) ELSE Number(0)

\* When the kernel starts, each word of a well-laid image is what the linker
\* meant it to be, in the frame that is mapped and in the one the TLB may still
\* name: mapping the dynamic section and the stack damages nothing
\* (load.c:305-333).
ImageAsLinked ==
    loading = "done" /\ WellLaid =>
        \A n \in Loads : \A a \in Segment(n) :
            LET p == (base + a) \div PageSize
            IN  \A f \in {map[p], tlb[p]} \ {NONE} :
                    mem[f][(base + a) % PageSize] = Linked(a)

=============================================================================
