-------------------------------- MODULE Boot --------------------------------
(***************************************************************************)
(* From the multiboot loader's modules to the kernel's first instruction:  *)
(* unfold's object list and pinion's search (Objects), the configuration   *)
(* that is parsed out of a module (Config), the kernel that it names, and  *)
(* where it says to load it (Loader).  One processor, no interrupts; the   *)
(* memory map's way through the same boot is in MemoryMap.                 *)
(***************************************************************************)
EXTENDS Strings, Integers, FiniteSets

CONSTANTS Modules, NameSize, ListSize, ConfName, High,
          IndexSize, Ask, Bits, DefaultBase, DefaultStack,
          PageSize, Page, PinionPage, NONE

VARIABLES mods, list, pinion_image, conf, kernel, stage
VARIABLES file, pconf, i, index, item, parsing
VARIABLES elf, base, map, tlb, mem, ph, k, loading, entry

objectVars == <<mods, list, pinion_image, conf, kernel, stage>>
configVars == <<file, pconf, i, index, item, parsing>>
loaderVars == <<elf, base, map, tlb, mem, ph, k, loading, entry>>
vars       == <<objectVars, configVars, loaderVars>>

\* An image as a linker makes it: what the file has of a segment fits in it
\* (the size that load_kernel passes to memclr would wrap).
Image(e) ==
    /\ Len(e.phdr) \in Nat /\ DOMAIN e.phdr = 1..Len(e.phdr)
    /\ \A n \in DOMAIN e.phdr :
          /\ e.phdr[n].vaddr \in Nat /\ e.phdr[n].memsz \in Nat
          /\ e.phdr[n].filesz \in 0..e.phdr[n].memsz
    /\ e.strtab \in Nat \cup {NONE} /\ e.symtab \in Nat \cup {NONE} /\ e.needed \in Nat
    /\ Len(e.rel) \in Nat /\ e.jmprel \in Nat
    /\ \A n \in 1..Len(e.rel) :
          e.rel[n].offset \in Nat /\ e.rel[n].sym \in Nat /\ e.rel[n].name \in Nat

\* A list of modules as the multiboot loader passes it: no two begin at the
\* same address.  A text is what lies before its NUL.
ModuleList(l) ==
    /\ Len(l) \in Nat /\ DOMAIN l = 1..Len(l)
    /\ \A n \in DOMAIN l :
          /\ l[n].string \in Seq(STRING) /\ l[n].text \in Seq(STRING \ {"NUL"})
          /\ l[n].kind \in {"elf64", "elf32", "text"}
          /\ l[n].kind # "text" => Image(l[n].elf)
          /\ l[n].start \in Nat
    /\ \A m, n \in DOMAIN l : l[m].start = l[n].start => m = n

ASSUME ModulesAssumption == \A l \in Modules : ModuleList(l)

ASSUME SizeAssumption ==
    IndexSize \in Nat \ {0} /\ NameSize \in Nat \ {0} /\ ListSize \in Nat /\ High \in Nat

\* A word of Bits bits has values (nothing is known of ^ in a proof).
ASSUME AddressAssumption ==
    /\ PageSize \in Nat \ {0} /\ 2^Bits \in Nat \ {0}
    /\ 0 \in Page \ PinionPage
    /\ DefaultBase \in Nat /\ DefaultStack \in Nat

ASSUME NullAssumption == NONE \notin Nat /\ NONE # ConfName

C == INSTANCE Config

\* The image, the base and the stack that load_kernel asks for.
named ==
    LET n == C!config_read(<<"loader">>, <<"image">>)
    IN  IF n = NONE THEN NONE
        ELSE IF item[n].value = NONE THEN NONE ELSE C!CString(item[n].value)
Pointer(property, sentinel) ==
    C!config_read_as_ptr(<<"loader">>, <<property>>, sentinel, Bits)
stack == Pointer("stack", DefaultStack)

Null(property) == C!NullRead(<<"loader">>, <<property>>)
null_image == Null("image")
null_base  == Null("base")
null_stack == Null("stack")

O == INSTANCE Objects
L == INSTANCE Loader

Init == O!Init /\ C!Init /\ L!Init

Unfold == O!unfold /\ UNCHANGED <<configVars, loaderVars>>

\* The configuration is parsed where it lies, if there is one.
FindConfig ==
    /\ O!FindConfig
    /\ IF conf' = NONE THEN UNCHANGED configVars
       ELSE \E m \in O!Contents(list[conf'].base - High) : C!StartParse(m.text)
    /\ UNCHANGED loaderVars

Parse == C!config_parse /\ UNCHANGED <<objectVars, loaderVars>>

FindKernel ==
    /\ parsing \in {"idle", "done"}
    /\ O!FindKernel
    /\ IF stage' # "done" THEN UNCHANGED loaderVars
       ELSE \E m \in O!Contents(kernel' - High), b \in {Pointer("base", DefaultBase)} :
                L!StartLoad(m.elf, b)
    /\ UNCHANGED configVars

Load  == L!load_kernel /\ UNCHANGED <<objectVars, configVars>>
Evict == L!Evict /\ UNCHANGED <<objectVars, configVars>>

Code == Unfold \/ FindConfig \/ Parse \/ FindKernel \/ Load
Next == Code \/ Evict

\* The processor runs the boot until it ends.
Spec == Init /\ [][Next]_vars /\ WF_vars(Code)

-----------------------------------------------------------------------------
(* Properties.                                                             *)

\* Objects!RightObjects: the right modules are taken from every clear list.
RightObjects == O!RightObjects

\* No lookup reads through a null pointer, which is a page fault in pinion,
\* unless the text has an incomplete line (config.c:71 keeps the section of an
\* item whose line ends behind it; config.c:106).
ConfigSafe == stage = "fault" \/ loading = "null" => ~C!WellFormed

\* Config!CursorInText: the parser stays within its text and its index.
CursorInText == C!CursorInText

\* Config!ParsedAsMeant, once load_kernel asks: a file of complete lines is read
\* as its lines mean.
ParsedAsMeant == stage = "kernel" => C!ParsedAsMeant

\* Config!LookupExact: names are found exactly, unless one begins another.
LookupExact == stage = "kernel" => C!LookupExact

\* Config!PtrExact: numbers are read by the weights of their digits, and refused
\* as a whole.
PtrExact == stage = "kernel" => C!PtrExact

\* Loader!LoadsSafely: loading a well-laid image takes no page fault and writes
\* nothing of pinion's.
LoadsSafely == L!LoadsSafely

\* Loader!ImageAsLinked: and leaves it in memory, relocated.
ImageAsLinked == L!ImageAsLinked

\* The boot ends in the kernel's first instruction, or where the code gives up
\* or runs astray, whatever the modules, the text and the image.
BootDecides ==
    <>(\/ stage \in {"stopped", "overrun", "wild", "fault", "past"}
       \/ loading \in {"done", "null", "fault", "wild", "garbage"})
=============================================================================
