------------------------------ MODULE Objects ------------------------------
(***************************************************************************)
(* The boot modules on their way from the multiboot loader to pinion:      *)
(* unfold's multiboot.c makes the object list, object.c picks pinion's     *)
(* image, init.c loads it and moves the list to high addresses; pinion's   *)
(* init.c finds its configuration in it and load.c the kernel.             *)
(*                                                                         *)
(* A path is a sequence of parts; the part "pinion64" stands for any eight *)
(* characters' match, whatever follows.                                    *)
(***************************************************************************)
EXTENDS Strings, Integers, FiniteSets

CONSTANTS
    Modules,    \* the module lists that the multiboot loader can pass
    NameSize,   \* characters of an object's name, with the NUL
    ListSize,   \* entries that mboot_static_objl has room for
    ConfName,   \* "/boot/pconf"
    High,       \* 0xFFFFFFFFC0000000
    NONE

VARIABLES
    mods,       \* mboot->mods_addr: for each module its string, its address and
                \* what it holds (kind, and the text or the image)
    list,       \* the object list
    pinion_image,   \* an index of the list
    conf,       \* the object that config_parse was given
    kernel,     \* the address that load_kernel takes for the kernel's image
    stage,
    named,      \* config_read("loader", "image"); not changed here
    null_image  \* the lookup of it reads through a null pointer; not changed here

Init ==
    /\ mods \in Modules
    /\ list = << >>
    /\ pinion_image = NONE /\ conf = NONE /\ kernel = NONE
    /\ stage = "mods"

Smallest(S) == CHOOSE n \in S : \A k \in S : n <= k
First(S)    == IF S = {} THEN NONE ELSE Smallest(S)

\* The name an entry gets: the loop ends behind the length of the first
\* module's string, whichever module it copies.
Copied(string, first) ==
    SubSeq(string, 1, Smallest({Len(string), Len(first) + 1, NameSize - 1}))

\* A bug: the directory is not skipped.
NamesPinionAtOnce(string) == string # << >> /\ string[1] = "pinion64"

\* The last part of the path begins with "pinion64".
NamesPinion(string) ==
    LET slashes == {n \in DOMAIN string : string[n] = "/"}
        base    == IF slashes = {} THEN 1
                   ELSE 1 + (CHOOSE n \in slashes : \A k \in slashes : k <= n)
    IN  base <= Len(string) /\ string[base] = "pinion64"

\* One turn of init_multiboot's loop over the modules.
AddObject ==
    /\ stage = "mods" /\ Len(list) < Len(mods) /\ Len(list) < ListSize
    /\ LET m == mods[Len(list) + 1]
       IN  list' = Append(list, [name |-> Copied(m.string, mods[1].string),
                                 base |-> m.start, pinion |-> NamesPinion(m.string)])
    /\ UNCHANGED <<mods, pinion_image, conf, kernel, stage>>

\* The static list is full: the next entry is written past its end.
ListOverrun ==
    /\ stage = "mods" /\ Len(list) < Len(mods) /\ Len(list) = ListSize
    /\ stage' = "overrun"
    /\ UNCHANGED <<mods, list, pinion_image, conf, kernel>>

init_object_list ==
    /\ stage = "mods" /\ Len(list) = Len(mods)
    /\ pinion_image' = First({n \in DOMAIN list : list[n].pinion})
    /\ stage' = IF pinion_image' = NONE THEN "stopped" ELSE "load"
    /\ UNCHANGED <<mods, list, conf, kernel>>

\* What lies at an address.
Contents(a) == {mods[n] : n \in {k \in DOMAIN mods : mods[k].start = a}}

\* init() runs on after load_pinion has failed, with the entry point 0.
load_pinion ==
    /\ stage = "load"
    /\ stage' = IF \E m \in Contents(list[pinion_image].base) : m.kind = "elf64"
                THEN "relocate" ELSE "wild"
    /\ UNCHANGED <<mods, list, pinion_image, conf, kernel>>

Relocate ==
    /\ stage = "relocate"
    /\ list' = [n \in DOMAIN list |-> [list[n] EXCEPT !.base = @ + High]]
    /\ stage' = "conf"
    /\ UNCHANGED <<mods, pinion_image, conf, kernel>>

\* pinion's init().
FindConfig ==
    /\ stage = "conf"
    /\ conf' = First({n \in DOMAIN list : Matches(list[n].name, ConfName)})
    /\ stage' = "kernel"
    /\ UNCHANGED <<mods, list, pinion_image, kernel>>

IsElf(a) == \E m \in Contents(a) : m.kind \in {"elf64", "elf32"}

\* load_kernel's search, and its check of the image.  Without a match the entry
\* after the last is taken.  Nothing is mapped at address 0.
FindKernel ==
    /\ stage = "kernel"
    /\ IF null_image THEN stage' = "fault" /\ kernel' = kernel
       ELSE IF named = NONE THEN stage' = "stopped" /\ kernel' = kernel
       ELSE \E image \in {named} :
              \E found \in {First({n \in DOMAIN list : Matches(list[n].name, image)})} :
                IF found = NONE THEN stage' = "past" /\ kernel' = kernel
                ELSE /\ kernel' = list[found].base
                     /\ stage' = IF IsElf(kernel' - High) THEN "done" ELSE "stopped"
    /\ UNCHANGED <<mods, list, pinion_image, conf>>

unfold == AddObject \/ ListOverrun \/ init_object_list \/ load_pinion \/ Relocate

-----------------------------------------------------------------------------
(* What a list means.                                                      *)

Named(name) == {n \in DOMAIN mods : mods[n].string = name}

IsPinion(string) ==
    \E n \in DOMAIN string :
        /\ string[n] = "pinion64"
        /\ n = 1 \/ string[n - 1] = "/"
        /\ \A m \in n..Len(string) : string[m] # "/"

\* A module list as the build makes them: every name fits, none is longer than
\* the first by more than a character, none begins another or what is looked for.
Clear ==
    /\ Len(mods) <= ListSize
    /\ \A n \in DOMAIN mods :
          Len(mods[n].string) < NameSize /\ Len(mods[n].string) <= Len(mods[1].string) + 1
    /\ LET names == {mods[n].string : n \in DOMAIN mods} \cup ({ConfName, named} \ {NONE})
       IN  \A s, t \in names : Matches(s, t) => s = t

\* From a clear list pinion takes the right modules, whatever their order: its
\* own image is the first pinion64 (object.c:44), the configuration the first
\* ConfName (init.c:116), the kernel the image that the configuration names
\* (load.c:282).  If the search does not page-fault (load.c:273; ConfigSafe says
\* when), load_kernel goes on from an image whenever these are there, and only then.
RightObjects ==
    LET p == First({n \in DOMAIN mods : IsPinion(mods[n].string)})
        c == First(Named(ConfName))
        k == IF named = NONE THEN NONE ELSE First(Named(named))
    IN  /\ stage \notin {"mods", "overrun"} /\ Clear =>
              pinion_image = p /\ (stage = "stopped" => p = NONE \/ conf = c)
        /\ stage \in {"kernel", "fault", "done", "past"} /\ Clear =>
              conf = c
        /\ stage \in {"done", "stopped", "past"} /\ p # NONE /\ Clear =>
              IF c = NONE \/ k = NONE THEN stage # "done"
              ELSE IF mods[k].kind = "text" THEN stage = "stopped"
              ELSE stage = "done" /\ kernel = mods[k].start + High
=============================================================================
