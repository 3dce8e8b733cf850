----------------------------- MODULE BootProofs -----------------------------
(***************************************************************************)
(* For every list of modules, every text and every size of the index: the  *)
(* configuration's parser stays in its text and reads complete lines as    *)
(* they are meant, config_read and config_read_as_ptr answer with the      *)
(* first exact name and its number, from a clear list pinion takes the     *)
(* right objects, and load_kernel leaves a well-laid image as linked.      *)
(***************************************************************************)
EXTENDS Boot, WellFoundedInduction, SequenceTheorems, FiniteSetTheorems, FunctionTheorems, TLAPS

-----------------------------------------------------------------------------
(* The parser.                                                             *)

\* A text: its last character, and no other cell behind it, is a NUL.
Terminated(t) == \E n \in Nat : DOMAIN t = 0..n /\ t[n] = "NUL"

Resting == parsing \in {"idle", "done"}

\* Before the parser runs its counters are zero; while it runs they are in
\* range.  Nothing takes away the last NUL.
CursorInv ==
    /\ mods \in Modules
    /\ Terminated(pconf)
    /\ parsing = "idle" => i = 0 /\ index = 0
    /\ ~Resting => i \in DOMAIN pconf /\ index \in 0..IndexSize - 1

LEMMA CursorInit == Init => CursorInv
<1> SUFFICES ASSUME Init PROVE CursorInv
  OBVIOUS
<1>1. /\ mods \in Modules /\ pconf = [n \in {0} |-> "NUL"]
      /\ i = 0 /\ index = 0 /\ parsing = "idle"
  BY DEF Init, O!Init, C!Init
<1>2. 0 \in Nat /\ 0..0 = {0}
  OBVIOUS
<1>3. Terminated(pconf)
  BY <1>1, <1>2 DEF Terminated
<1> QED
  BY <1>1, <1>3 DEF CursorInv, Resting

\* A character that is no NUL is followed by another.
LEMMA NextOffset ==
    ASSUME Terminated(pconf), i \in DOMAIN pconf, pconf[i] # "NUL"
    PROVE  i + 1 \in DOMAIN pconf
<1>1. PICK n \in Nat : DOMAIN pconf = 0..n /\ pconf[n] = "NUL"
  BY DEF Terminated
<1>2. i \in 0..n /\ i # n
  BY <1>1
<1> QED
  BY <1>1, <1>2

LEMMA CursorParse == CursorInv /\ Parse => CursorInv'
<1> SUFFICES ASSUME CursorInv, Parse PROVE CursorInv'
  OBVIOUS
<1>1. mods' = mods /\ C!config_parse
  BY DEF Parse, objectVars
<1>2. CASE C!CutField
  <2>1. /\ parsing \in C!Within /\ pconf[i] \in C!Stop(parsing)
        /\ pconf' = [pconf EXCEPT ![i] = "NUL"] /\ i' = i + 1
        /\ index' = IF parsing = "value" THEN index + 1 ELSE index
        /\ parsing' = CASE parsing = "section" -> "to_property"
                        [] parsing = "property" -> "to_value"
                        [] parsing = "value" -> IF index + 1 = IndexSize THEN "done"
                                                ELSE "line"
    BY <1>2 DEF C!CutField, C!At, C!Goto
  <2>2. /\ i \in DOMAIN pconf /\ index \in 0..IndexSize - 1
        /\ parsing \in {"section", "property", "value"}
    BY <2>1 DEF CursorInv, Resting, C!Within
  <2>3. pconf[i] # "NUL"
    BY <2>1 DEF C!Stop, C!Blank
  <2>4. i + 1 \in DOMAIN pconf
    BY <2>2, <2>3, NextOffset DEF CursorInv
  <2>5. Terminated(pconf')
    <3>1. PICK n \in Nat : DOMAIN pconf = 0..n /\ pconf[n] = "NUL"
      BY DEF CursorInv, Terminated
    <3>2. DOMAIN pconf' = 0..n /\ pconf'[n] = "NUL"
      BY <2>1, <3>1
    <3> QED
      BY <3>2 DEF Terminated
  <2>6. DOMAIN pconf' = DOMAIN pconf
    BY <2>1
  <2>7. parsing' # "idle" /\ (parsing' # "done" => index' \in 0..IndexSize - 1)
    <3>1. CASE parsing = "value"
      BY <2>1, <2>2, <3>1, SizeAssumption
    <3>2. CASE parsing # "value"
      BY <2>1, <2>2, <3>2
    <3> QED
      BY <3>1, <3>2
  <2> QED
    BY <1>1, <2>1, <2>4, <2>5, <2>6, <2>7 DEF CursorInv, Resting
<1>3. CASE C!LineComment \/ C!LineItem \/ C!StartField
  <2>1. UNCHANGED <<pconf, i, index>> /\ ~Resting /\ parsing' # "idle"
    BY <1>3 DEF C!LineComment, C!LineItem, C!StartField, C!Goto, C!Before, C!Field, Resting
  <2> QED
    BY <1>1, <2>1 DEF CursorInv, Resting
<1>4. CASE C!LineEnd \/ C!EndBefore \/ C!EndWithin
  <2>1. UNCHANGED <<pconf, i, index>> /\ parsing' = "done"
    BY <1>4 DEF C!LineEnd, C!EndBefore, C!EndWithin, C!Goto
  <2> QED
    BY <1>1, <2>1 DEF CursorInv, Resting
<1>5. CASE C!LineEmpty \/ C!SkipBlank \/ C!SkipField
  <2>1. /\ UNCHANGED <<pconf, index, parsing>> /\ ~Resting /\ i' = i + 1
        /\ pconf[i] # "NUL"
    BY <1>5 DEF C!LineEmpty, C!SkipBlank, C!SkipField, C!At, C!Before, C!Within,
       C!Blank, Resting
  <2>2. i + 1 \in DOMAIN pconf
    BY <2>1, NextOffset DEF CursorInv
  <2> QED
    BY <1>1, <2>1, <2>2 DEF CursorInv, Resting
<1>6. CASE C!Comment
  <2>1. /\ UNCHANGED <<pconf, index>> /\ ~Resting /\ parsing' \in {"line", "comment"}
        /\ i' = IF pconf[i] = "NUL" THEN i ELSE i + 1
    BY <1>6 DEF C!Comment, C!At, C!Goto, Resting
  <2>2. i' \in DOMAIN pconf
    BY <2>1, NextOffset DEF CursorInv
  <2> QED
    BY <1>1, <2>1, <2>2 DEF CursorInv, Resting
<1> QED
  BY <1>1, <1>2, <1>3, <1>4, <1>5, <1>6 DEF C!config_parse

LEMMA CursorStep == CursorInv /\ [Next]_vars => CursorInv'
<1> SUFFICES ASSUME CursorInv, [Next]_vars PROVE CursorInv'
  OBVIOUS
<1>1. mods' = mods
  BY DEF Next, Code, Unfold, FindConfig, Parse, FindKernel, Load, Evict, objectVars, vars,
     O!unfold, O!AddObject, O!ListOverrun, O!init_object_list, O!load_pinion, O!Relocate,
     O!FindConfig, O!FindKernel
<1>2. CASE UNCHANGED configVars
  BY <1>1, <1>2 DEF CursorInv, Resting, configVars
<1>3. CASE FindConfig
  <2>1. CASE conf' = NONE
    BY <1>2, <1>3, <2>1 DEF FindConfig
  <2>2. CASE conf' # NONE
    <3>1. PICK m \in O!Contents(list[conf'].base - High) : C!StartParse(m.text)
      BY <1>3, <2>2 DEF FindConfig
    <3>2. m.text \in Seq(STRING \ {"NUL"})
      BY <3>1, ModulesAssumption DEF O!Contents, CursorInv, ModuleList
    <3>3. Len(m.text) \in Nat
      BY <3>2, LenProperties
    <3>4. /\ parsing = "idle" /\ parsing' = "line" /\ UNCHANGED <<i, index>>
          /\ pconf' = [n \in 0..Len(m.text) |->
                          IF n = Len(m.text) THEN "NUL" ELSE m.text[n + 1]]
      BY <3>1 DEF C!StartParse
    <3>5. DOMAIN pconf' = 0..Len(m.text) /\ pconf'[Len(m.text)] = "NUL"
      BY <3>3, <3>4
    <3>6. Terminated(pconf') /\ 0 \in DOMAIN pconf'
      BY <3>3, <3>5 DEF Terminated
    <3>7. i = 0 /\ index = 0 /\ 0 \in 0..IndexSize - 1
      BY <3>4, SizeAssumption DEF CursorInv
    <3> QED
      BY <1>1, <3>4, <3>6, <3>7 DEF CursorInv, Resting
  <2> QED
    BY <2>1, <2>2
<1>4. CASE Parse
  BY <1>4, CursorParse
<1> QED
  BY <1>2, <1>3, <1>4 DEF Next, Code, Unfold, FindKernel, Load, Evict, vars

LEMMA InvCursor == CursorInv => CursorInText
BY SizeAssumption DEF CursorInv, CursorInText, C!CursorInText, C!Offset, Resting

\* config_parse (config.c:38-99) neither reads past the NUL of the configuration
\* nor writes an item past the index, whatever the text and wherever it ends.
THEOREM ParserInText == Spec => []CursorInText
<1> QED
  BY CursorInit, CursorStep, InvCursor, PTL DEF Spec

-----------------------------------------------------------------------------
(* Smallest and largest numbers.                                           *)

LEMMA SmallestIs ==
    ASSUME NEW S \in SUBSET Nat, S # {}
    PROVE  O!Smallest(S) \in S /\ \A k1 \in S : O!Smallest(S) <= k1
<1>1. PICK x \in S : \A y \in S : ~(<<y, x>> \in OpToRel(<, Nat))
  BY NatLessThanWellFounded, WFMin
<1>2. ASSUME NEW y \in S PROVE x <= y
  <2> SUFFICES ASSUME y < x PROVE FALSE
    OBVIOUS
  <2>1. <<y, x>> \in Nat \X Nat /\ <<y, x>>[1] < <<y, x>>[2]
    OBVIOUS
  <2>2. <<y, x>> \in OpToRel(<, Nat)
    BY <2>1 DEF OpToRel
  <2> QED
    BY <1>1, <2>2
<1> QED
  BY <1>1, <1>2 DEF O!Smallest

LEMMA FirstIs ==
    ASSUME NEW S \in SUBSET Nat
    PROVE  /\ S = {} => O!First(S) = NONE
           /\ S # {} => O!First(S) \in S
           /\ O!First(S) = NONE <=> S = {}
BY SmallestIs, NullAssumption DEF O!First

\* A set of positions has a last one.
LEMMA LastExists ==
    ASSUME NEW n \in Nat, NEW S \in SUBSET (1..n), S # {}
    PROVE  \E m \in S : \A x \in S : x <= m
<1> DEFINE T == {n - x : x \in S}
<1>1. T \in SUBSET Nat /\ T # {}
  <2>1. \A x \in S : n - x \in Nat
    OBVIOUS
  <2> QED
    BY <2>1
<1>2. PICK y \in T : \A z \in T : y <= z
  BY <1>1, SmallestIs
<1>3. PICK m \in S : y = n - m
  BY <1>2
<1>4. \A x \in S : n - m <= n - x
  BY <1>2, <1>3
<1> QED
  BY <1>4

-----------------------------------------------------------------------------
(* Names.                                                                  *)

\* object.c skips to behind the last slash, if there is one.
LEMMA PinionByBase ==
    ASSUME NEW string \in Seq(STRING)
    PROVE  O!NamesPinion(string) <=> O!IsPinion(string)
<1>1. Len(string) \in Nat /\ DOMAIN string = 1..Len(string)
  BY LenProperties
<1> DEFINE slashes == {n \in DOMAIN string : string[n] = "/"}
           last == CHOOSE n \in slashes : \A x \in slashes : x <= n
           start == IF slashes = {} THEN 1 ELSE 1 + last
<1>2. O!NamesPinion(string) <=> start <= Len(string) /\ string[start] = "pinion64"
  BY DEF O!NamesPinion
<1>3. slashes # {} => last \in slashes /\ \A x \in slashes : x <= last
  <2>1. slashes \in SUBSET (1..Len(string))
    BY <1>1
  <2> QED
    BY <1>1, <2>1, LastExists
<1>4. start \in Nat /\ start >= 1 /\ \A n \in DOMAIN string : n >= start => string[n] # "/"
  BY <1>1, <1>3
<1>5. start = 1 \/ (start - 1 \in DOMAIN string /\ string[start - 1] = "/")
  BY <1>1, <1>3
<1> HIDE DEF start
<1>6. ASSUME O!NamesPinion(string) PROVE O!IsPinion(string)
  <2>1. /\ start \in DOMAIN string /\ string[start] = "pinion64"
        /\ \A m \in start..Len(string) : m \in DOMAIN string /\ m >= start
    BY <1>1, <1>2, <1>4, <1>6
  <2> QED
    BY <1>4, <1>5, <2>1 DEF O!IsPinion
<1>7. ASSUME O!IsPinion(string) PROVE O!NamesPinion(string)
  <2>1. PICK n \in DOMAIN string :
           /\ string[n] = "pinion64"
           /\ n = 1 \/ string[n - 1] = "/"
           /\ \A m \in n..Len(string) : string[m] # "/"
    BY <1>7 DEF O!IsPinion
  <2>2. n >= start
    <3> SUFFICES ASSUME n < start PROVE FALSE
      BY <1>1, <1>4
    <3>1. start # 1
      BY <1>1
    <3>2. start - 1 \in n..Len(string) /\ string[start - 1] = "/"
      BY <1>1, <1>4, <1>5, <3>1
    <3> QED
      BY <2>1, <3>2
  <2>3. n <= start
    <3> SUFFICES ASSUME start < n PROVE FALSE
      BY <1>1, <1>4
    <3>1. n # 1 /\ n - 1 \in DOMAIN string /\ n - 1 >= start
      BY <1>1, <1>4
    <3> QED
      BY <1>4, <2>1, <3>1
  <2>4. n = start /\ start <= Len(string)
    BY <1>1, <1>4, <2>2, <2>3
  <2> QED
    BY <1>2, <2>1, <2>4
<1> QED
  BY <1>6, <1>7

\* A list as O!Clear has it, whatever the configuration names.
ClearNames ==
    /\ Len(mods) <= ListSize
    /\ \A n \in DOMAIN mods :
          Len(mods[n].string) < NameSize /\ Len(mods[n].string) <= Len(mods[1].string) + 1
    /\ \A n \in DOMAIN mods :
          O!Matches(mods[n].string, ConfName) => mods[n].string = ConfName

LEMMA ClearIsClear ==
    ASSUME O!Clear
    PROVE  /\ ClearNames
           /\ named # NONE => \A n \in DOMAIN mods :
                 O!Matches(mods[n].string, named) => mods[n].string = named
<1> DEFINE names == {mods[n].string : n \in DOMAIN mods} \cup ({ConfName, named} \ {NONE})
<1>1. \A s, t \in names : O!Matches(s, t) => s = t
  BY DEF O!Clear
<1>2. ConfName \in names /\ (named # NONE => named \in names)
  BY NullAssumption
<1>3. \A n \in DOMAIN mods : mods[n].string \in names
  OBVIOUS
<1> HIDE DEF names
<1> QED
  BY <1>1, <1>2, <1>3 DEF ClearNames, O!Clear

\* multiboot.c copies every name of a clear list whole.
LEMMA CopiedWhole ==
    ASSUME mods \in Modules, ClearNames, NEW n \in DOMAIN mods
    PROVE  O!Copied(mods[n].string, mods[1].string) = mods[n].string
<1> DEFINE s == mods[n].string
           S == {Len(s), Len(mods[1].string) + 1, NameSize - 1}
<1>1. /\ s \in Seq(STRING) /\ mods[1].string \in Seq(STRING)
      /\ Len(s) < NameSize /\ Len(s) <= Len(mods[1].string) + 1
  BY ModulesAssumption DEF ModuleList, ClearNames
<1>2. Len(s) \in Nat /\ Len(mods[1].string) \in Nat
  BY <1>1, LenProperties
<1>3. S \in SUBSET Nat /\ Len(s) \in S /\ \A x \in S : Len(s) <= x
  BY <1>1, <1>2, SizeAssumption
<1>4. O!Smallest(S) \in S /\ \A x \in S : O!Smallest(S) <= x
  BY <1>3, SmallestIs
<1>5. O!Smallest(S) = Len(s)
  <2>1. O!Smallest(S) \in Nat
    BY <1>3, <1>4
  <2> QED
    BY <1>2, <1>3, <1>4, <2>1
<1>6. O!Copied(s, mods[1].string) = SubSeq(s, 1, Len(s))
  BY <1>5 DEF O!Copied
<1> QED
  BY <1>1, <1>6, SubSeqFull

-----------------------------------------------------------------------------
(* The object list.                                                        *)

Entry == [name : Seq(STRING), base : Nat, pinion : BOOLEAN]

\* The entry that multiboot.c makes of a module, at an offset.
IsCopy(e, m, offset) ==
    e = [name |-> O!Copied(m.string, mods[1].string), base |-> m.start + offset,
         pinion |-> O!NamesPinion(m.string)]

\* The list grows by the modules, and is moved to high addresses as a whole.
ListInv ==
    /\ stage = "mods" =>
          /\ list \in Seq(Entry) /\ Len(list) <= Len(mods)
          /\ \A n \in DOMAIN list : IsCopy(list[n], mods[n], 0)
    /\ stage \in {"load", "relocate"} =>
          DOMAIN list = DOMAIN mods /\ \A n \in DOMAIN mods : IsCopy(list[n], mods[n], 0)
    /\ stage \in {"conf", "kernel"} =>
          DOMAIN list = DOMAIN mods /\ \A n \in DOMAIN mods : IsCopy(list[n], mods[n], High)

\* There are items only from a file, which is parsed between two searches.
FileInv ==
    /\ stage \in {"mods", "load", "relocate", "conf", "overrun", "wild"} => parsing = "idle"
    /\ stage \in {"fault", "done", "stopped", "past"} => Resting
    /\ conf = NONE => parsing = "idle"
    /\ parsing = "idle" => item = [n \in 0..IndexSize - 1 |-> C!NoItem]

PinionModule == O!First({n \in DOMAIN mods : O!IsPinion(mods[n].string)})
ConfModule   == O!First(O!Named(ConfName))
KernelModule == IF named = NONE THEN NONE ELSE O!First(O!Named(named))

\* What was found, whatever the configuration will name.
FoundInv ==
    ClearNames =>
        /\ stage \notin {"mods", "overrun"} => pinion_image = PinionModule
        /\ stage \in {"kernel", "fault", "done", "past"} => conf = ConfModule
        /\ stage = "stopped" => PinionModule = NONE \/ conf = ConfModule

\* And what was started.
StartedInv ==
    stage \in {"done", "stopped", "past"} /\ PinionModule # NONE /\ O!Clear =>
        IF ConfModule = NONE \/ KernelModule = NONE THEN stage # "done"
        ELSE IF mods[KernelModule].kind = "text" THEN stage = "stopped"
        ELSE stage = "done" /\ kernel = mods[KernelModule].start + High

ObjectInv == ListInv /\ FileInv /\ FoundInv /\ StartedInv

LEMMA InvRightObjects == ObjectInv => RightObjects
<1> SUFFICES ASSUME ObjectInv PROVE RightObjects
  OBVIOUS
<1>1. O!Clear => ClearNames
  BY ClearIsClear
<1> QED
  BY <1>1 DEF RightObjects, O!RightObjects, ObjectInv, FoundInv, StartedInv,
     PinionModule, ConfModule, KernelModule

LEMMA ModulesFacts ==
    ASSUME CursorInv
    PROVE  /\ mods \in Modules /\ Len(mods) \in Nat /\ DOMAIN mods = 1..Len(mods)
           /\ DOMAIN mods \in SUBSET Nat
           /\ \A n \in DOMAIN mods :
                 /\ mods[n].string \in Seq(STRING) /\ mods[n].start \in Nat
                 /\ mods[n].kind \in {"elf64", "elf32", "text"}
           /\ \A m, n \in DOMAIN mods : mods[m].start = mods[n].start => m = n
<1>1. mods \in Modules
  BY DEF CursorInv
<1>2. ModuleList(mods)
  BY <1>1, ModulesAssumption
<1> QED
  BY <1>1, <1>2 DEF ModuleList

LEMMA ObjectInit == Init => ObjectInv
<1> SUFFICES ASSUME Init PROVE ObjectInv
  OBVIOUS
<1>1. CursorInv
  BY CursorInit
<1>2. /\ stage = "mods" /\ list = << >> /\ conf = NONE /\ parsing = "idle"
      /\ item = [n \in 0..IndexSize - 1 |-> C!NoItem]
  BY DEF Init, O!Init, C!Init
<1>3. list \in Seq(Entry) /\ Len(list) = 0 /\ DOMAIN list = {}
  BY <1>2
<1> QED
  BY <1>1, <1>2, <1>3, ModulesFacts
     DEF ObjectInv, ListInv, FileInv, FoundInv, StartedInv

\* A step that leaves modules, list and configuration alone.
LEMMA NamedSame ==
    ASSUME UNCHANGED <<pconf, item>>
    PROVE  named' = named
BY DEF named, C!config_read, C!Found, C!CString, C!Offset

LEMMA ClearSame ==
    ASSUME UNCHANGED mods
    PROVE  /\ ClearNames' <=> ClearNames
           /\ PinionModule' = PinionModule /\ ConfModule' = ConfModule
           /\ named' = named => (O!Clear' <=> O!Clear) /\ KernelModule' = KernelModule
BY SMTT(30), ZenonT(40) DEF ClearNames, PinionModule, ConfModule, KernelModule, O!Clear, O!Named

LEMMA ObjectSame ==
    ASSUME ObjectInv, UNCHANGED objectVars, UNCHANGED configVars
    PROVE  ObjectInv'
<1>1. named' = named /\ UNCHANGED mods
  BY NamedSame DEF objectVars, configVars
<1>2. ListInv' /\ FileInv'
  BY DEF ObjectInv, ListInv, FileInv, Resting, IsCopy, objectVars, configVars
<1>3. FoundInv' /\ StartedInv'
  BY <1>1, ClearSame DEF ObjectInv, FoundInv, StartedInv, objectVars
<1> QED
  BY <1>2, <1>3 DEF ObjectInv

\* The characters that config_parse turns over are looked at only when it rests.
LEMMA ObjectParse ==
    ASSUME ObjectInv, Parse
    PROVE  ObjectInv'
<1>1. ~Resting /\ parsing' # "idle"
  BY DEF Parse, C!config_parse, C!LineComment, C!LineEmpty, C!LineEnd, C!LineItem,
     C!Comment, C!SkipBlank, C!EndBefore, C!StartField, C!SkipField, C!EndWithin,
     C!CutField, C!Goto, C!Before, C!Within, C!Field, Resting
<1>2. UNCHANGED <<mods, list, pinion_image, conf, kernel, stage>>
  BY DEF Parse, objectVars
<1>3. stage \notin {"mods", "load", "relocate", "conf", "overrun", "wild",
                    "fault", "done", "stopped", "past"} /\ conf # NONE
  BY <1>1 DEF ObjectInv, FileInv, Resting
<1>4. ListInv' /\ FileInv'
  BY <1>1, <1>2, <1>3 DEF ObjectInv, ListInv, FileInv, IsCopy
<1>5. FoundInv' /\ StartedInv'
  BY <1>2, <1>3, ClearSame DEF ObjectInv, FoundInv, StartedInv
<1> QED
  BY <1>4, <1>5 DEF ObjectInv

-----------------------------------------------------------------------------
(* unfold.                                                                 *)

LEMMA PrefixIsSeq ==
    ASSUME NEW T, NEW s \in Seq(T), NEW n \in Nat, n <= Len(s)
    PROVE  SubSeq(s, 1, n) \in Seq(T)
<1>1. \A x \in 1..n : s[x] \in T
  BY LenProperties
<1> QED
  BY <1>1, SubSeqProperties

LEMMA EntryIs ==
    ASSUME CursorInv, NEW n \in DOMAIN mods
    PROVE  [name |-> O!Copied(mods[n].string, mods[1].string), base |-> mods[n].start,
            pinion |-> O!NamesPinion(mods[n].string)] \in Entry
<1> DEFINE s == mods[n].string
           first == mods[1].string
           S == {Len(s), Len(first) + 1, NameSize - 1}
<1>1. s \in Seq(STRING) /\ first \in Seq(STRING) /\ mods[n].start \in Nat
  BY ModulesFacts
<1>2. Len(s) \in Nat /\ Len(first) \in Nat
  BY <1>1, LenProperties
<1>3. S \in SUBSET Nat /\ S # {}
  BY <1>2, SizeAssumption
<1>4. O!Smallest(S) \in Nat /\ O!Smallest(S) <= Len(s)
  <2>1. O!Smallest(S) \in S /\ \A x \in S : O!Smallest(S) <= x
    BY <1>3, SmallestIs
  <2> QED
    BY <1>3, <2>1
<1>5. SubSeq(s, 1, O!Smallest(S)) \in Seq(STRING)
  BY <1>1, <1>4, PrefixIsSeq
<1>6. O!Copied(s, first) \in Seq(STRING)
  BY <1>5 DEF O!Copied
<1>7. O!NamesPinion(s) \in BOOLEAN
  BY DEF O!NamesPinion
<1> QED
  BY <1>1, <1>6, <1>7 DEF Entry

LEMMA ObjectUnfold ==
    ASSUME CursorInv, ObjectInv, Unfold
    PROVE  ObjectInv'
<1>1. named' = named /\ UNCHANGED <<mods, conf, kernel, parsing, item, pconf>>
  <2>1. UNCHANGED <<mods, conf, kernel, parsing, item, pconf>>
    BY DEF Unfold, configVars, O!unfold, O!AddObject, O!ListOverrun, O!init_object_list,
       O!load_pinion, O!Relocate
  <2> QED
    BY <2>1, NamedSame
<1>2. Len(mods) \in Nat /\ DOMAIN mods = 1..Len(mods) /\ DOMAIN mods \in SUBSET Nat
  BY ModulesFacts
<1>3. CASE O!AddObject
  <2> DEFINE m == mods[Len(list) + 1]
             e == [name |-> O!Copied(m.string, mods[1].string), base |-> m.start,
                   pinion |-> O!NamesPinion(m.string)]
  <2>1. /\ stage = "mods" /\ Len(list) < Len(mods) /\ list' = Append(list, e)
        /\ UNCHANGED <<pinion_image, stage>>
    BY <1>3 DEF O!AddObject
  <2>2. list \in Seq(Entry) /\ Len(list) \in Nat /\ DOMAIN list = 1..Len(list)
        /\ \A n \in DOMAIN list : IsCopy(list[n], mods[n], 0)
    BY <2>1, LenProperties DEF ObjectInv, ListInv
  <2>3. Len(list) + 1 \in DOMAIN mods
    BY <1>2, <2>1, <2>2
  <2>4. e \in Entry /\ m.start \in Nat
    BY <2>3, EntryIs, ModulesFacts
  <2>5. IsCopy(e, m, 0)
    BY <2>4 DEF IsCopy
  <2> HIDE DEF e
  <2>6. /\ list' \in Seq(Entry) /\ Len(list') = Len(list) + 1
        /\ \A n \in 1..Len(list) : list'[n] = list[n]
        /\ list'[Len(list) + 1] = e
    BY <2>1, <2>2, <2>4, AppendProperties
  <2>7. DOMAIN list' = 1..Len(list) + 1
    BY <2>6, LenProperties
  <2>8. \A n \in DOMAIN list' : IsCopy(list'[n], mods[n], 0)
    <3> SUFFICES ASSUME NEW n \in DOMAIN list' PROVE IsCopy(list'[n], mods[n], 0)
      OBVIOUS
    <3>1. n \in DOMAIN list \/ n = Len(list) + 1
      BY <2>2, <2>7
    <3> QED
      BY <2>2, <2>5, <2>6, <3>1
  <2>9. (\A n \in DOMAIN list : IsCopy(list[n], mods[n], 0))'
    BY <1>1, <2>8 DEF IsCopy
  <2>10. Len(list') <= Len(mods')
    BY <1>1, <1>2, <2>1, <2>2, <2>6
  <2>11. ListInv'
    BY <2>1, <2>6, <2>9, <2>10 DEF ListInv
  <2> QED
    BY <1>1, <2>1, <2>11 DEF ObjectInv, FileInv, FoundInv, StartedInv
<1>4. CASE O!ListOverrun
  BY <1>1, <1>4 DEF O!ListOverrun, ObjectInv, ListInv, FileInv, FoundInv, StartedInv
<1>5. CASE O!init_object_list
  <2>1. /\ stage = "mods" /\ Len(list) = Len(mods) /\ list' = list
        /\ pinion_image' = O!First({n \in DOMAIN list : list[n].pinion})
        /\ stage' = IF pinion_image' = NONE THEN "stopped" ELSE "load"
    BY <1>5 DEF O!init_object_list
  <2>2. /\ list \in Seq(Entry) /\ DOMAIN list = DOMAIN mods
        /\ \A n \in DOMAIN mods : IsCopy(list[n], mods[n], 0)
    BY <1>2, <2>1, LenProperties DEF ObjectInv, ListInv
  <2>3. \A n \in DOMAIN mods : list[n].pinion <=> O!IsPinion(mods[n].string)
    <3> SUFFICES ASSUME NEW n \in DOMAIN mods
                 PROVE  list[n].pinion <=> O!IsPinion(mods[n].string)
      OBVIOUS
    <3>1. list[n].pinion = O!NamesPinion(mods[n].string)
      BY <2>2 DEF IsCopy
    <3>2. mods[n].string \in Seq(STRING)
      BY ModulesFacts
    <3> QED
      BY <3>1, <3>2, PinionByBase
  <2>4. {n \in DOMAIN list : list[n].pinion}
            = {n \in DOMAIN mods : O!IsPinion(mods[n].string)}
    BY <2>2, <2>3
  <2>5. pinion_image' = PinionModule
    BY <2>1, <2>4 DEF PinionModule
  <2>6. FoundInv' /\ StartedInv'
    BY <1>1, <2>1, <2>5, ClearSame DEF FoundInv, StartedInv
  <2>7. ListInv'
    BY <1>1, <2>1, <2>2 DEF ListInv, IsCopy
  <2>8. FileInv'
    BY <1>1, <2>1 DEF ObjectInv, FileInv, Resting
  <2> QED
    BY <2>6, <2>7, <2>8 DEF ObjectInv
<1>6. CASE O!load_pinion
  <2>1. /\ stage = "load" /\ stage' \in {"relocate", "wild"}
        /\ UNCHANGED <<list, pinion_image>>
    BY <1>6 DEF O!load_pinion
  <2>2. ListInv' /\ FileInv'
    BY <1>1, <2>1 DEF ObjectInv, ListInv, FileInv, IsCopy
  <2>3. FoundInv' /\ StartedInv'
    BY <1>1, <2>1, ClearSame DEF ObjectInv, FoundInv, StartedInv
  <2> QED
    BY <2>2, <2>3 DEF ObjectInv
<1>7. CASE O!Relocate
  <2>1. /\ stage = "relocate" /\ stage' = "conf" /\ UNCHANGED pinion_image
        /\ list' = [n \in DOMAIN list |-> [list[n] EXCEPT !.base = @ + High]]
    BY <1>7 DEF O!Relocate
  <2>2. DOMAIN list = DOMAIN mods /\ \A n \in DOMAIN mods : IsCopy(list[n], mods[n], 0)
    BY <2>1 DEF ObjectInv, ListInv
  <2>3. \A n \in DOMAIN mods : IsCopy(list'[n], mods[n], High)
    <3> SUFFICES ASSUME NEW n \in DOMAIN mods PROVE IsCopy(list'[n], mods[n], High)
      OBVIOUS
    <3>1. list'[n] = [list[n] EXCEPT !.base = list[n].base + High]
      BY <2>1, <2>2
    <3>2. mods[n].start \in Nat
      BY ModulesFacts
    <3>3. list[n] = [name |-> O!Copied(mods[n].string, mods[1].string),
                     base |-> mods[n].start,
                     pinion |-> O!NamesPinion(mods[n].string)]
      BY <2>2, <3>2 DEF IsCopy
    <3> QED
      BY <3>1, <3>3 DEF IsCopy
  <2>4. ListInv'
    BY <1>1, <2>1, <2>2, <2>3 DEF ListInv, IsCopy
  <2>5. FileInv'
    BY <1>1, <2>1 DEF ObjectInv, FileInv
  <2>6. FoundInv' /\ StartedInv'
    BY <1>1, <2>1, ClearSame DEF ObjectInv, FoundInv, StartedInv
  <2> QED
    BY <2>4, <2>5, <2>6 DEF ObjectInv
<1> QED
  BY <1>3, <1>4, <1>5, <1>6, <1>7 DEF Unfold, O!unfold

-----------------------------------------------------------------------------
(* pinion.                                                                 *)

\* The search for a name in the list finds the modules of that name.
LEMMA SearchFinds ==
    ASSUME CursorInv, ClearNames, ListInv, stage \in {"conf", "kernel"}, NEW name,
           \A n \in DOMAIN mods :
              O!Matches(mods[n].string, name) => mods[n].string = name
    PROVE  {n \in DOMAIN list : O!Matches(list[n].name, name)} = O!Named(name)
<1>1. DOMAIN list = DOMAIN mods /\ \A n \in DOMAIN mods : IsCopy(list[n], mods[n], High)
  BY DEF ListInv
<1>2. \A n \in DOMAIN mods : list[n].name = mods[n].string
  <2> SUFFICES ASSUME NEW n \in DOMAIN mods PROVE list[n].name = mods[n].string
    OBVIOUS
  <2>1. list[n].name = O!Copied(mods[n].string, mods[1].string)
    BY <1>1 DEF IsCopy
  <2> QED
    BY <2>1, CopiedWhole, ModulesFacts
<1>3. \A n \in DOMAIN mods : O!Matches(mods[n].string, name) <=> mods[n].string = name
  BY DEF O!Matches
<1> QED
  BY <1>1, <1>2, <1>3 DEF O!Named

LEMMA ObjectFindConfig ==
    ASSUME CursorInv, ObjectInv, FindConfig
    PROVE  ObjectInv'
<1>1. /\ stage = "conf" /\ stage' = "kernel"
      /\ UNCHANGED <<mods, list, pinion_image, kernel>>
      /\ conf' = O!First({n \in DOMAIN list : O!Matches(list[n].name, ConfName)})
  BY DEF FindConfig, O!FindConfig
<1>2. parsing = "idle" /\ item = [n \in 0..IndexSize - 1 |-> C!NoItem]
  BY <1>1 DEF ObjectInv, FileInv
<1>3. item' = item /\ (conf' = NONE => parsing' = "idle")
  BY <1>2 DEF FindConfig, configVars, C!StartParse
<1>4. ListInv'
  BY <1>1 DEF ObjectInv, ListInv, IsCopy
<1>5. FileInv'
  BY <1>1, <1>2, <1>3 DEF FileInv
<1>6. ClearNames => conf' = ConfModule
  <2> SUFFICES ASSUME ClearNames PROVE conf' = ConfModule
    OBVIOUS
  <2>1. {n \in DOMAIN list : O!Matches(list[n].name, ConfName)} = O!Named(ConfName)
    BY <1>1, SearchFinds DEF ObjectInv, ClearNames
  <2> QED
    BY <1>1, <2>1 DEF ConfModule
<1>7. FoundInv' /\ StartedInv'
  BY <1>1, <1>6, ClearSame DEF ObjectInv, FoundInv, StartedInv
<1> QED
  BY <1>4, <1>5, <1>7 DEF ObjectInv

\* Without a file nothing is found in it.
LEMMA NoFileNoName ==
    ASSUME item = [n \in 0..IndexSize - 1 |-> C!NoItem]
    PROVE  named = NONE /\ \A s, p : C!Found(s, p) = {}
<1>1. \A s, p : C!Found(s, p) = {}
  <2> SUFFICES ASSUME NEW s, NEW p, NEW n \in C!Found(s, p) PROVE FALSE
    OBVIOUS
  <2>1. n \in 0..IndexSize - 1 /\ \A y \in 0..n : item[y].section # NONE
    BY DEF C!Found
  <2>2. n \in 0..n
    BY <2>1, SizeAssumption
  <2> QED
    BY <2>1, <2>2 DEF C!NoItem
<1>2. \A s, p : C!config_read(s, p) = NONE
  BY <1>1 DEF C!config_read
<1> QED
  BY <1>1, <1>2 DEF named

\* What lies where module n begins is module n.
LEMMA ContentsIs ==
    ASSUME CursorInv, NEW n \in DOMAIN mods
    PROVE  O!IsElf(mods[n].start) <=> mods[n].kind # "text"
<1>1. O!Contents(mods[n].start) = {mods[n]}
  BY ModulesFacts DEF O!Contents
<1> QED
  BY <1>1, ModulesFacts DEF O!IsElf

LEMMA ObjectFindKernel ==
    ASSUME CursorInv, ObjectInv, FindKernel
    PROVE  ObjectInv'
<1>1. /\ stage = "kernel" /\ Resting
      /\ UNCHANGED <<mods, list, pinion_image, conf, file, pconf, i, index, item, parsing>>
  BY DEF FindKernel, O!FindKernel, configVars, Resting
<1>2. /\ stage' \in {"fault", "done", "stopped", "past"}
      /\ stage' = "fault" <=> null_image
      /\ named = NONE => stage' \in {"fault", "stopped"}
  BY DEF FindKernel, O!FindKernel
<1> DEFINE found == O!First({n \in DOMAIN list : O!Matches(list[n].name, named)})
<1>3. ASSUME ~null_image, named # NONE
      PROVE  IF found = NONE THEN stage' = "past"
             ELSE /\ kernel' = list[found].base
                  /\ stage' = IF O!IsElf(kernel' - High) THEN "done" ELSE "stopped"
  BY <1>3 DEF FindKernel, O!FindKernel
<1>4. named' = named
  BY <1>1, NamedSame
<1>5. ListInv' /\ FileInv'
  BY <1>1, <1>2 DEF ObjectInv, ListInv, FileInv, Resting
<1>6. FoundInv'
  BY <1>1, <1>2, ClearSame DEF ObjectInv, FoundInv
<1>7. StartedInv'
  <2> SUFFICES ASSUME stage' # "fault", O!Clear
               PROVE  IF ConfModule = NONE \/ KernelModule = NONE THEN stage' # "done"
                      ELSE IF mods[KernelModule].kind = "text" THEN stage' = "stopped"
                      ELSE stage' = "done" /\ kernel' = mods[KernelModule].start + High
    <3>1. /\ mods' = mods /\ ConfModule' = ConfModule /\ KernelModule' = KernelModule
          /\ O!Clear' <=> O!Clear
      BY <1>1, <1>4, ClearSame
    <3> QED
      BY <3>1 DEF StartedInv
  <2>1. /\ ClearNames
        /\ named # NONE => \A n \in DOMAIN mods :
              O!Matches(mods[n].string, named) => mods[n].string = named
    BY ClearIsClear
  <2>2. CASE named = NONE
    BY <1>2, <2>2 DEF KernelModule
  <2>3. CASE named # NONE
    <3>1. ConfModule # NONE
      <4>1. conf = ConfModule
        BY <1>1, <2>1 DEF ObjectInv, FoundInv
      <4> QED
        BY <2>3, <4>1, NoFileNoName DEF ObjectInv, FileInv
    <3>2. {n \in DOMAIN list : O!Matches(list[n].name, named)} = O!Named(named)
      BY <1>1, <2>1, <2>3, SearchFinds DEF ObjectInv
    <3>3. found = KernelModule
      BY <2>3, <3>2 DEF KernelModule
    <3>4. CASE KernelModule = NONE
      BY <1>2, <1>3, <2>3, <3>3, <3>4
    <3>5. CASE KernelModule # NONE
      <4>1. O!Named(named) \in SUBSET Nat /\ O!Named(named) \subseteq DOMAIN mods
        BY ModulesFacts DEF O!Named
      <4>2. KernelModule \in DOMAIN mods
        BY <2>3, <3>5, <4>1, FirstIs DEF KernelModule
      <4>3. list[KernelModule].base = mods[KernelModule].start + High
        BY <1>1, <4>2 DEF ObjectInv, ListInv, IsCopy
      <4>4. (mods[KernelModule].start + High) - High = mods[KernelModule].start
        <5>1. mods[KernelModule].start \in Nat
          BY <4>2, ModulesFacts
        <5> QED
          BY <5>1, SizeAssumption
      <4>5. O!IsElf(mods[KernelModule].start) <=> mods[KernelModule].kind # "text"
        BY <4>2, ContentsIs
      <4> QED
        BY <1>2, <1>3, <2>3, <3>1, <3>3, <3>5, <4>3, <4>4, <4>5
    <3> QED
      BY <3>4, <3>5
  <2> QED
    BY <2>2, <2>3
<1> QED
  BY <1>5, <1>6, <1>7 DEF ObjectInv

LEMMA ObjectStep == CursorInv /\ ObjectInv /\ [Next]_vars => ObjectInv'
<1> SUFFICES ASSUME CursorInv, ObjectInv, [Next]_vars PROVE ObjectInv'
  OBVIOUS
<1>1. CASE Load \/ Evict \/ UNCHANGED vars
  BY <1>1, ObjectSame DEF Load, Evict, vars
<1> QED
  BY <1>1, ObjectUnfold, ObjectFindConfig, ObjectParse, ObjectFindKernel DEF Next, Code

\* Through the cut names, the moved list, the parser and three searches (object.c:44,
\* init.c:116, load.c:282), pinion takes the right modules from every clear list,
\* whatever their order and number, and, unless load_kernel's search page-faults
\* (see NullsOnlyFromIncomplete), goes on from an image just when there is one.
THEOREM ObjectsRight == Spec => []RightObjects
<1> DEFINE Inv == CursorInv /\ ObjectInv
<1>1. Init => Inv
  BY CursorInit, ObjectInit
<1>2. Inv /\ [Next]_vars => Inv'
  BY CursorStep, ObjectStep
<1>3. Inv => RightObjects
  BY InvRightObjects
<1> QED
  BY <1>1, <1>2, <1>3, PTL DEF Spec

-----------------------------------------------------------------------------
(* What the configuration asks for.                                        *)

\* The fields of the items point into the text, or nowhere.
Pointers == DOMAIN pconf \cup {NONE}
ItemType == [section : Pointers, property : Pointers, value : Pointers]
ItemInv  ==
    /\ item \in [0..IndexSize - 1 -> ItemType]
    /\ parsing = "idle" => item = [n \in 0..IndexSize - 1 |-> C!NoItem]

LEMMA ItemInit == Init => ItemInv
BY DEF Init, C!Init, ItemInv, ItemType, Pointers, C!NoItem

LEMMA ItemStep == CursorInv /\ ObjectInv /\ ItemInv /\ [Next]_vars => ItemInv'
<1> SUFFICES ASSUME CursorInv, ObjectInv, ItemInv, [Next]_vars PROVE ItemInv'
  OBVIOUS
<1>1. CASE UNCHANGED configVars
  BY <1>1 DEF ItemInv, ItemType, Pointers, configVars
<1>2. CASE FindConfig
  <2>1. CASE conf' = NONE
    BY <1>1, <1>2, <2>1 DEF FindConfig
  <2>2. CASE conf' # NONE
    <3>1. parsing = "idle" /\ parsing' = "line" /\ item' = item
      BY <1>2, <2>2 DEF FindConfig, C!StartParse
    <3>2. item = [n \in 0..IndexSize - 1 |-> C!NoItem]
      BY <3>1 DEF ItemInv
    <3> QED
      BY <3>1, <3>2 DEF ItemInv, ItemType, Pointers, C!NoItem
  <2> QED
    BY <2>1, <2>2
<1>3. CASE Parse
  <2>1. ~Resting /\ parsing' # "idle"
    BY <1>3 DEF Parse, C!config_parse, C!LineComment, C!LineEmpty, C!LineEnd, C!LineItem,
       C!Comment, C!SkipBlank, C!EndBefore, C!StartField, C!SkipField, C!EndWithin,
       C!CutField, C!Goto, C!Before, C!Within, C!Field, Resting
  <2>2. i \in DOMAIN pconf /\ index \in 0..IndexSize - 1
    BY <2>1 DEF CursorInv
  <2>3. DOMAIN pconf' = DOMAIN pconf
    BY <1>3 DEF Parse, C!config_parse, C!LineComment, C!LineEmpty, C!LineEnd, C!LineItem,
       C!Comment, C!SkipBlank, C!EndBefore, C!StartField, C!SkipField, C!EndWithin, C!CutField
  <2>4. Pointers' = Pointers /\ i \in Pointers /\ NONE \in Pointers
    BY <2>2, <2>3 DEF Pointers
  <2> HIDE DEF Pointers
  <2>5. item' \in [0..IndexSize - 1 -> ItemType]
    <3>1. CASE C!StartField
      <4>1. /\ parsing \in {"to_section", "to_property", "to_value"}
            /\ item' = [item EXCEPT ![index][C!Field[parsing]] = i]
        BY <3>1 DEF C!StartField, C!Before
      <4> QED
        BY <2>2, <2>4, <4>1 DEF ItemInv, ItemType, C!Field
    <3>2. CASE C!EndWithin
      <4>1. item' = [item EXCEPT ![index].section = NONE]
        BY <3>2 DEF C!EndWithin
      <4> QED
        BY <2>2, <2>4, <4>1 DEF ItemInv, ItemType
    <3>3. CASE ~(C!StartField \/ C!EndWithin)
      <4>1. item' = item
        BY <1>3, <3>3 DEF Parse, C!config_parse, C!LineComment, C!LineEmpty, C!LineEnd,
           C!LineItem, C!Comment, C!SkipBlank, C!EndBefore, C!SkipField, C!CutField
      <4> QED
        BY <4>1 DEF ItemInv
    <3> QED
      BY <3>1, <3>2, <3>3
  <2>6. ItemType' = ItemType
    BY <2>4 DEF ItemType
  <2> QED
    BY <2>1, <2>5, <2>6 DEF ItemInv
<1> QED
  BY <1>1, <1>2, <1>3 DEF Next, Code, Unfold, FindKernel, Load, Evict, vars

\* A pointer into the text is a string: there is a NUL behind it.
LEMMA StringThere ==
    ASSUME Terminated(pconf), NEW a \in DOMAIN pconf
    PROVE  \E n \in Nat : /\ a + n \in DOMAIN pconf
                          /\ pconf[a + n] = "NUL" /\ \A x \in a..a + n - 1 : pconf[x] # "NUL"
                          /\ C!CString(a) = [x \in 1..n |-> pconf[a + x - 1]]
<1>1. PICK last \in Nat : DOMAIN pconf = 0..last /\ pconf[last] = "NUL"
  BY DEF Terminated
<1> DEFINE S == {n \in Nat : a + n \in DOMAIN pconf /\ pconf[a + n] = "NUL"}
           Ends(e) == /\ e \in DOMAIN pconf /\ e >= a /\ pconf[e] = "NUL"
                      /\ \A x \in a..e - 1 : pconf[x] # "NUL"
<1>2. last - a \in S
  <2>1. last - a \in Nat /\ a + (last - a) = last
    BY <1>1
  <2> QED
    BY <1>1, <2>1
<1>3. PICK n \in S : \A y \in S : n <= y
  <2>1. S \in SUBSET Nat /\ S # {}
    BY <1>2
  <2> HIDE DEF S
  <2> QED
    BY <2>1, SmallestIs
<1>4. Ends(a + n)
  <2>1. ASSUME NEW x \in a..a + n - 1 PROVE pconf[x] # "NUL"
    <3>1. x - a \in Nat /\ ~(n <= x - a) /\ a + (x - a) = x /\ x \in 0..last
      BY <1>1, <1>3
    <3>2. x - a \notin S
      <4> HIDE DEF S
      <4> QED
        BY <1>3, <3>1
    <3> QED
      BY <1>1, <3>1, <3>2
  <2> QED
    BY <1>1, <1>3, <2>1
<1>5. \A e : Ends(e) => e = a + n
  <2> SUFFICES ASSUME NEW e, Ends(e) PROVE e = a + n
    OBVIOUS
  <2>1. e \in Nat /\ e >= a /\ pconf[e] = "NUL" /\ \A x \in a..e - 1 : pconf[x] # "NUL"
    BY <1>1
  <2>2. a + n \in Nat /\ a + n >= a /\ pconf[a + n] = "NUL" /\ \A x \in a..a + n - 1 : pconf[x] # "NUL"
    BY <1>1, <1>4
  <2>3. a \in Nat
    BY <1>1
  <2> QED
    BY <2>1, <2>2, <2>3
<1> DEFINE end == CHOOSE e \in DOMAIN pconf :
                     e >= a /\ pconf[e] = "NUL" /\ \A x \in a..e - 1 : pconf[x] # "NUL"
<1>6. Ends(end)
  BY <1>4
<1>7. end = a + n
  <2> HIDE DEF end, Ends
  <2> QED
    BY <1>5, <1>6
<1>8. C!CString(a) = [x \in 1..end - a |-> pconf[a + x - 1]]
  BY DEF C!CString, C!Offset
<1> HIDE DEF end
<1>9. end - a = n
  BY <1>1, <1>3, <1>7
<1>10. C!CString(a) = [x \in 1..n |-> pconf[a + x - 1]]
  BY <1>8, <1>9
<1>11. n \in Nat
  BY <1>3
<1>12. /\ a + n \in DOMAIN pconf
       /\ pconf[a + n] = "NUL" /\ \A x \in a..a + n - 1 : pconf[x] # "NUL"
  <2>1. a \in Int /\ n \in Int
    BY <1>1, <1>3
  <2> HIDE DEF S
  <2> QED
    BY <1>4, <2>1
<1> HIDE DEF S, Ends
<1> QED
  BY <1>10, <1>11, <1>12, Zenon

LEMMA StringIs ==
    ASSUME Terminated(pconf), NEW a \in DOMAIN pconf
    PROVE  /\ Len(C!CString(a)) \in Nat
           /\ DOMAIN C!CString(a) = 1..Len(C!CString(a))
<1>1. PICK n \in Nat : C!CString(a) = [x \in 1..n |-> pconf[a + x - 1]]
  BY StringThere
<1> QED
  BY <1>1

\* Every digit has a value.
LEMMA HexIs == \A c \in DOMAIN C!Hex : C!Hex[c] \in 0..15
<1> DEFINE D == <<"0", "1", "2", "3", "4", "5", "6", "7", "8", "9", "a", "b", "c", "d", "e", "f">>
           U == <<"A", "B", "C", "D", "E", "F">>
<1>1. C!Digits = D /\ C!Upper = U
  BY DEF C!Digits, C!Upper
<1>2. DOMAIN D = 1..16 /\ DOMAIN U = 1..6
  OBVIOUS
<1> HIDE DEF D, U
<1>3. DOMAIN C!Hex = {D[n] : n \in 1..16} \cup {U[n] : n \in 1..6}
  BY <1>1, <1>2 DEF C!Hex, C!Chars
<1>4. ASSUME NEW c \in DOMAIN C!Hex
      PROVE  \E h \in 0..15 : D[h + 1] = c \/ (h > 9 /\ U[h - 9] = c)
  <2>1. CASE \E n \in 1..16 : c = D[n]
    <3>1. PICK n \in 1..16 : c = D[n]
      BY <2>1
    <3>2. n - 1 \in 0..15 /\ (n - 1) + 1 = n
      OBVIOUS
    <3> QED
      BY <3>1, <3>2
  <2>2. CASE \E n \in 1..6 : c = U[n]
    <3>1. PICK n \in 1..6 : c = U[n]
      BY <2>2
    <3>2. n + 9 \in 0..15 /\ n + 9 > 9 /\ (n + 9) - 9 = n
      OBVIOUS
    <3> QED
      BY <3>1, <3>2
  <2> QED
    BY <1>3, <2>1, <2>2
<1>5. \A c \in DOMAIN C!Hex : C!Hex[c] = CHOOSE h \in 0..15 : D[h + 1] = c \/ (h > 9 /\ U[h - 9] = c)
  BY <1>1 DEF C!Hex
<1> QED
  BY <1>4, <1>5

\* The sums that config_read_as_ptr runs through.
Sums(h, v, w, n) ==
    h = [x \in 0..n |-> IF x = 0 THEN 0 ELSE (h[x - 1] * 16 + C!Hex[v[x]]) % 2^w]

LEMMA SumsExist ==
    ASSUME NEW v, NEW w, 2^w \in Nat \ {0}, NEW n \in Nat,
           \A x \in 1..n : v[x] \in DOMAIN C!Hex
    PROVE  \E h \in [0..n -> Nat] : Sums(h, v, w, n)
<1> DEFINE m == 2^w
           S == {x \in 0..n : ~ \E h \in [0..x -> Nat] : Sums(h, v, w, x)}
<1> SUFFICES ASSUME S # {} PROVE FALSE
  <2>1. n \in 0..n
    OBVIOUS
  <2> QED
    BY <2>1
<1>1. PICK k1 \in S : \A y \in S : k1 <= y
  <2>1. S \in SUBSET Nat
    OBVIOUS
  <2> HIDE DEF S
  <2> QED
    BY <2>1, SmallestIs
<1>2. CASE k1 = 0
  <2> DEFINE h == [x \in 0..0 |-> 0]
  <2>1. h = [x \in 0..0 |-> IF x = 0 THEN 0 ELSE (h[x - 1] * 16 + C!Hex[v[x]]) % 2^w]
    OBVIOUS
  <2>2. h \in [0..0 -> Nat] /\ Sums(h, v, w, 0)
    BY <2>1 DEF Sums
  <2> QED
    BY <1>1, <1>2, <2>2
<1>3. CASE k1 # 0
  <2>0. k1 \in 1..n
    BY <1>1, <1>3
  <2>1. k1 - 1 \in 0..n /\ k1 - 1 \notin S
    <3>1. k1 - 1 \in 0..n /\ ~(k1 <= k1 - 1)
      BY <2>0
    <3> HIDE DEF S
    <3> QED
      BY <1>1, <3>1
  <2>2. PICK h \in [0..k1 - 1 -> Nat] : Sums(h, v, w, k1 - 1)
    BY <2>1
  <2> DEFINE last == (h[k1 - 1] * 16 + C!Hex[v[k1]]) % m
             g == [x \in 0..k1 |-> IF x = k1 THEN last ELSE h[x]]
  <2>3. last \in Nat
    <3>1. h[k1 - 1] \in Nat
      BY <2>0, <2>2
    <3>2. C!Hex[v[k1]] \in 0..15
      BY <2>0, HexIs
    <3>3. h[k1 - 1] * 16 + C!Hex[v[k1]] \in Nat
      <4>1. \A x \in Nat, y \in 0..15 : x * 16 + y \in Nat
        OBVIOUS
      <4> QED
        BY <3>1, <3>2, <4>1, Zenon
    <3>4. m \in Nat \ {0}
      OBVIOUS
    <3> HIDE DEF m
    <3> QED
      BY <3>3, <3>4
  <2>4. \A x \in 0..k1 - 1 : x \in 0..k1 /\ x # k1 /\ g[x] = h[x]
    BY <2>0
  <2>5. g \in [0..k1 -> Nat] /\ g[k1] = last
    <3>1. \A x \in 0..k1 : x # k1 => x \in 0..k1 - 1
      BY <2>0
    <3>2. k1 \in 0..k1
      BY <2>0
    <3> HIDE DEF last
    <3> QED
      BY <2>2, <2>3, <3>1, <3>2
  <2>6. ASSUME NEW x \in 0..k1
        PROVE  g[x] = IF x = 0 THEN 0 ELSE (g[x - 1] * 16 + C!Hex[v[x]]) % m
    <3>1. CASE x = k1
      <4>1. g[k1 - 1] = h[k1 - 1]
        BY <2>0, <2>4
      <4> HIDE DEF g
      <4> QED
        BY <1>3, <2>5, <3>1, <4>1
    <3>2. CASE x # k1
      <4>1. x \in 0..k1 - 1 /\ g[x] = h[x]
        BY <2>0, <2>4, <3>2
      <4>2. x # 0 => x - 1 \in 0..k1 - 1 /\ g[x - 1] = h[x - 1]
        BY <2>0, <2>4, <4>1
      <4>3. h[x] = IF x = 0 THEN 0 ELSE (h[x - 1] * 16 + C!Hex[v[x]]) % m
        BY <2>2, <4>1 DEF Sums
      <4> HIDE DEF g, m
      <4> QED
        BY <4>1, <4>2, <4>3
    <3> QED
      BY <3>1, <3>2
  <2>7. Sums(g, v, w, k1)
    <3>1. g = [x \in 0..k1 |-> g[x]]
      OBVIOUS
    <3> HIDE DEF g
    <3> QED
      BY <2>6, <3>1 DEF Sums
  <2> HIDE DEF g
  <2> QED
    BY <1>1, <2>5, <2>7
<1> QED
  BY <1>2, <1>3

LEMMA ShiftedIs ==
    ASSUME NEW v, NEW w, 2^w \in Nat \ {0}, Len(v) \in Nat,
           \A x \in 1..Len(v) : v[x] \in DOMAIN C!Hex
    PROVE  \E h \in [0..Len(v) -> Nat] : Sums(h, v, w, Len(v)) /\ C!Shifted(v, w) = h[Len(v)]
<1> DEFINE len == Len(v)
           sum == CHOOSE h : h = [x \in 0..len |->
                     IF x = 0 THEN 0 ELSE (h[x - 1] * 16 + C!Hex[v[x]]) % 2^w]
<1>1. C!Shifted(v, w) = sum[len]
  BY DEF C!Shifted
<1>2. PICK h \in [0..len -> Nat] : Sums(h, v, w, len)
  BY SumsExist
<1>3. Sums(sum, v, w, len)
  BY <1>2 DEF Sums
<1> HIDE DEF sum
<1>4. \A x \in 0..len : sum[x] = h[x]
  <2> DEFINE S == {x \in 0..len : sum[x] # h[x]}
  <2> SUFFICES ASSUME S # {} PROVE FALSE
    OBVIOUS
  <2>1. S \in SUBSET Nat
    OBVIOUS
  <2>2. PICK x \in S : \A y \in S : x <= y
    <3> HIDE DEF S
    <3> QED
      BY <2>1, SmallestIs
  <2>3. x \in 0..len /\ sum[x] # h[x]
    BY <2>2
  <2>4. x # 0
    BY <1>2, <1>3, <2>3 DEF Sums
  <2>5. x - 1 \in 0..len /\ x - 1 \notin S
    <3>1. x - 1 \in 0..len /\ ~(x <= x - 1)
      BY <2>3, <2>4
    <3> HIDE DEF S
    <3> QED
      BY <2>2, <3>1
  <2>6. sum[x - 1] = h[x - 1]
    BY <2>5
  <2> QED
    BY <1>2, <1>3, <2>3, <2>4, <2>6, SMTT(30), ZenonT(40) DEF Sums
<1>5. len \in 0..len
  OBVIOUS
<1>6. sum = h
  BY <1>2, <1>3, <1>4 DEF Sums
<1> QED
  BY <1>1, <1>2, <1>6

\* What load_kernel is told of addresses is an address.
LEMMA PointerIs ==
    ASSUME CursorInv, ItemInv, NEW s, NEW sentinel \in Nat
    PROVE  Pointer(s, sentinel) \in Nat
<1> DEFINE n == C!config_read(<<"loader">>, <<s>>)
           F == C!Found(<<"loader">>, <<s>>)
           v == C!CString(item[n].value)
<1>1. Pointer(s, sentinel) = IF n = NONE THEN sentinel
         ELSE IF item[n].value = NONE THEN sentinel ELSE C!AsNumber(v, sentinel, Bits)
  BY DEF Pointer, C!config_read_as_ptr
<1>2. CASE n = NONE \/ item[n].value = NONE
  BY <1>1, <1>2
<1>3. CASE n # NONE /\ item[n].value # NONE
  <2>1. n \in F
    <3>1. F # {} /\ n = O!Smallest(F)
      BY <1>3 DEF C!config_read, O!Smallest
    <3>2. F \in SUBSET Nat
      BY SizeAssumption DEF C!Found
    <3> HIDE DEF F, n
    <3> QED
      BY <3>1, <3>2, SmallestIs
  <2>2. n \in 0..IndexSize - 1
    BY <2>1 DEF C!Found
  <2>3. item[n].value \in DOMAIN pconf
    <3> HIDE DEF n
    <3> QED
      BY <1>3, <2>2 DEF ItemInv, ItemType, Pointers
  <2>4. Len(v) \in Nat /\ DOMAIN v = 1..Len(v)
    <3> HIDE DEF n
    <3> QED
      BY <2>3, StringIs DEF CursorInv
  <2> HIDE DEF v
  <2>5. CASE \A x \in DOMAIN v : v[x] \in DOMAIN C!Hex
    <3>1. PICK h \in [0..Len(v) -> Nat] : C!Shifted(v, Bits) = h[Len(v)]
      BY <2>4, <2>5, ShiftedIs, AddressAssumption
    <3>2. C!Shifted(v, Bits) \in Nat
      <4>1. Len(v) \in 0..Len(v)
        BY <2>4
      <4> QED
        BY <3>1, <4>1
    <3> QED
      BY <1>1, <1>3, <2>5, <3>2 DEF C!AsNumber
  <2>6. CASE ~ \A x \in DOMAIN v : v[x] \in DOMAIN C!Hex
    BY <1>1, <1>3, <2>6 DEF C!AsNumber
  <2> QED
    BY <2>5, <2>6
<1> QED
  BY <1>2, <1>3

-----------------------------------------------------------------------------
(* Addresses, pages and cells.                                             *)

LEMMA Divided ==
    ASSUME NEW b \in Nat \ {0}
    PROVE  /\ \A x \in Int : x = (x \div b) * b + (x % b) /\ x % b \in 0..b - 1 /\ x \div b \in Int
           /\ \A q \in Int, r \in 0..b - 1 : (q * b + r) \div b = q /\ (q * b + r) % b = r
OBVIOUS

\* Numbers in the same place of the same page are the same.
LEMMA SamePlace ==
    ASSUME NEW b \in Nat \ {0}, NEW x \in Int, NEW y \in Int,
           x \div b = y \div b, x % b = y % b
    PROVE  x = y
BY Divided

LEMMA AlignedSum ==
    ASSUME NEW b \in Nat \ {0}, NEW x \in Int, NEW y \in Int, x % b = 0
    PROVE  (x + y) % b = y % b
<1> DEFINE q == x \div b
           s == y \div b
           r == y % b
<1>1. x = q * b + 0 /\ q \in Int
  BY Divided
<1>2. y = s * b + r /\ s \in Int /\ r \in 0..b - 1
  BY Divided
<1> HIDE DEF q, s, r
<1>3. x + y = (q + s) * b + r
  <2>1. (q + s) * b = q * b + s * b
    BY <1>1, <1>2
  <2>2. q * b \in Int /\ s * b \in Int /\ r \in Int
    BY <1>1, <1>2
  <2> QED
    BY <1>1, <1>2, <2>1, <2>2
<1>4. q + s \in Int
  BY <1>1, <1>2
<1>5. ((q + s) * b + r) % b = r
  BY <1>2, <1>4, Divided, SMTT(30), ZenonT(40)
<1>6. (x + y) % b = r
  BY <1>3, <1>5
<1> QED
  BY <1>6 DEF r

\* A page begins at an aligned number.
LEMMA InPage ==
    ASSUME NEW b \in Nat \ {0}, NEW x \in Int, NEW y \in Int, x % b = 0, x <= y, y < x + b
    PROVE  y \div b = x \div b
<1> DEFINE q == x \div b
<1>1. x = q * b + 0 /\ q \in Int
  BY Divided
<1> HIDE DEF q
<1>2. y = q * b + (y - x) /\ y - x \in 0..b - 1
  <2>1. q * b \in Int
    BY <1>1
  <2> QED
    BY <1>1, <2>1
<1>3. y \div b = q
  BY <1>1, <1>2, Divided
<1> QED
  BY <1>3 DEF q

LEMMA PageBefore ==
    ASSUME NEW b \in Nat \ {0}, NEW x \in Int, x % b = 0
    PROVE  (x - b) % b = 0 /\ (x - b) \div b = (x \div b) - 1
<1> DEFINE q == x \div b
<1>1. x = q * b + 0 /\ q \in Int
  BY Divided
<1> HIDE DEF q
<1>2. x - b = (q - 1) * b + 0 /\ q - 1 \in Int /\ 0 \in 0..b - 1
  <2>1. (q - 1) * b = q * b - b /\ q * b \in Int
    BY <1>1
  <2> QED
    BY <1>1, <2>1
<1>3. ((q - 1) * b + 0) \div b = q - 1 /\ ((q - 1) * b + 0) % b = 0
  <2>1. q - 1 \in Int /\ 0 \in 0..b - 1
    BY <1>1
  <2>2. \A s \in Int, r \in 0..b - 1 : (s * b + r) \div b = s /\ (s * b + r) % b = r
    BY Divided
  <2> QED
    BY <2>1, <2>2, Zenon
<1>4. (x - b) \div b = q - 1 /\ (x - b) % b = 0
  BY <1>2, <1>3
<1> QED
  BY <1>4 DEF q

-----------------------------------------------------------------------------
(* Loading: the invariant.                                                 *)

\* Where the word at address a of the image is kept.
Pg(a)   == (base + a) \div PageSize
Cell(a) == (base + a) % PageSize
Held(a) == mem[map[Pg(a)]][Cell(a)]

\* The relocations before the u-th that go to a, and what they leave there.
Patches(a, u) ==
    {n \in 1..L!Entries : n < u /\ elf.rel[n].offset = a
                          /\ elf.rel[n].type \in {"JUMP_SLOT", "RELATIVE"}}
Choice(S) == CHOOSE n \in S : TRUE
Wanted(a, u) ==
    IF Patches(a, u) # {} THEN L!Value(elf.rel[Choice(Patches(a, u))])
    ELSE IF a \in L!Filled THEN L!FileWord(a) ELSE L!Number(0)
Upto == IF loading \in {"fixup", "done"} THEN k ELSE 1

Vaddr(n)   == elf.phdr[n].vaddr
Copying(n) == n < ph \/ (n = ph /\ loading = "copy")

\* How far the loader has come in segment n.
Reached(n, a) == Copying(n) \/ (n = ph /\ loading = "map" /\ a < Vaddr(n) + k)
Written(n, a) == n < ph \/ (n = ph /\ loading = "copy" /\ a < Vaddr(n) + k)

Words == {L!Junk, L!Number(0)} \cup {L!FileWord(a) : a \in Nat}
         \cup {L!Value(elf.rel[n]) : n \in 1..L!Entries}
FrameType == [0..PageSize - 1 -> Words]

PhaseInv ==
    /\ loading \in {"header", "map", "copy", "fixup", "done"}
    /\ ph \in 1..Len(elf.phdr) + 1
    /\ loading \in {"map", "copy"} =>
          ph <= Len(elf.phdr) /\ elf.phdr[ph].type \in {"LOAD", "DYNAMIC"}
    /\ loading \in {"fixup", "done"} => ph = Len(elf.phdr) + 1
    /\ k \in Nat
    /\ loading = "map" => k % PageSize = 0
    /\ loading = "fixup" => k >= 1
    /\ loading = "done" => k > L!Entries

\* Every page has a frame of its own, and the TLB is right about pages that were
\* written to.
FramesInv ==
    /\ mem \in Seq(FrameType)
    /\ map \in [Page -> {NONE} \cup 1..Len(mem)]
    /\ DOMAIN tlb = Page
    /\ \A p, q \in Page : map[p] # NONE /\ map[p] = map[q] => p = q
    /\ \A p \in Page : tlb[p] # NONE =>
          tlb[p] = map[p] /\ \E n \in L!Loads : Copying(n) /\ p \in L!PagesOf(L!Segment(n))

\* What is mapped, and what was written.
ContentsInv ==
    \A n \in L!Loads : \A a \in L!Segment(n) :
        /\ Reached(n, a) => map[Pg(a)] # NONE
        /\ Written(n, a) => Held(a) = Wanted(a, Upto)

Given   == Image(elf) /\ base \in Nat /\ stack \in Nat
LoadInv == Given /\ L!WellLaid /\ PhaseInv /\ FramesInv /\ ContentsInv

\* Whatever happens, load_kernel goes on from a configuration that stands.
LoaderInv ==
    /\ loading = "idle" =>
          /\ map = [p \in Page |-> NONE] /\ tlb = [p \in Page |-> NONE]
          /\ mem = << >> /\ ph = 1 /\ k = 0
    /\ loading # "idle" =>
          Given /\ stage = "done" /\ (L!WellLaid /\ loading # "null" => LoadInv)

-----------------------------------------------------------------------------
(* Well-laid images.                                                       *)

LEMMA HeaderIs ==
    ASSUME Given, NEW n \in 1..Len(elf.phdr)
    PROVE  /\ Vaddr(n) \in Nat /\ elf.phdr[n].memsz \in Nat
           /\ elf.phdr[n].filesz \in 0..elf.phdr[n].memsz
           /\ L!Segment(n) = Vaddr(n)..Vaddr(n) + elf.phdr[n].memsz - 1
           /\ L!FromFile(n) = Vaddr(n)..Vaddr(n) + elf.phdr[n].filesz - 1
           /\ L!FromFile(n) \subseteq L!Segment(n) /\ L!Segment(n) \subseteq Nat
<1>1. /\ Vaddr(n) \in Nat /\ elf.phdr[n].memsz \in Nat
      /\ elf.phdr[n].filesz \in 0..elf.phdr[n].memsz
  BY DEF Given, Image, Vaddr
<1>2. /\ L!Segment(n) = Vaddr(n)..Vaddr(n) + elf.phdr[n].memsz - 1
      /\ L!FromFile(n) = Vaddr(n)..Vaddr(n) + elf.phdr[n].filesz - 1
  BY DEF L!Segment, L!FromFile, Vaddr
<1> QED
  BY <1>1, <1>2

LEMMA LoadsAre ==
    ASSUME Given
    PROVE  /\ L!Loads \subseteq 1..Len(elf.phdr)
           /\ \A n \in 1..Len(elf.phdr) : n \in L!Loads <=> elf.phdr[n].type = "LOAD"
           /\ \A n \in 1..Len(elf.phdr) : n \in L!Dynamics <=> elf.phdr[n].type = "DYNAMIC"
           /\ Len(elf.phdr) \in Nat
BY DEF Given, Image, L!Loads, L!Load, L!Dynamics

LEMMA PlaceIs ==
    ASSUME Given, NEW a \in Nat
    PROVE  /\ Pg(a) \in Int /\ Cell(a) \in 0..PageSize - 1
           /\ \A c \in Nat : Pg(c) = Pg(a) /\ Cell(c) = Cell(a) => c = a
<1>1. PageSize \in Nat \ {0} /\ base \in Nat
  BY AddressAssumption DEF Given
<1>2. Pg(a) \in Int /\ Cell(a) \in 0..PageSize - 1
  BY <1>1, Divided DEF Pg, Cell
<1>3. ASSUME NEW c \in Nat, Pg(c) = Pg(a), Cell(c) = Cell(a) PROVE c = a
  <2>1. base + c \in Int /\ base + a \in Int
    BY <1>1
  <2>2. base + c = base + a
    BY <1>1, <1>3, <2>1, SamePlace DEF Pg, Cell
  <2> QED
    BY <1>1, <2>2
<1> QED
  BY <1>2, <1>3

LEMMA SegmentPages ==
    ASSUME Given, L!WellLaid, NEW n \in L!Loads, NEW a \in L!Segment(n)
    PROVE  /\ a \in Nat /\ Pg(a) \in Page /\ Pg(a) \in L!PagesOf(L!Segment(n))
           /\ Pg(a) \notin PinionPage
           /\ \A m \in L!Loads : Pg(a) \in L!PagesOf(L!Segment(m)) => m = n
           /\ \A m \in L!Loads : \A c \in L!Segment(m) : Pg(a) = Pg(c) => m = n
           /\ Pg(a) # (stack \div PageSize) - 1
<1>1. a \in Nat
  BY LoadsAre, HeaderIs
<1>2. \A m \in L!Loads : \A c \in L!Segment(m) : Pg(c) \in L!PagesOf(L!Segment(m))
  BY DEF Pg, L!PagesOf
<1>3. /\ L!PagesOf(L!Segment(n)) \subseteq Page \ PinionPage
      /\ \A m \in L!Loads : m # n => L!PagesOf(L!Segment(m)) \cap L!PagesOf(L!Segment(n)) = {}
      /\ (stack \div PageSize) - 1 \notin L!PagesOf(L!Segment(n))
  BY DEF L!WellLaid
<1> QED
  BY <1>1, <1>2, <1>3

\* What the file holds of a segment is asked of no other.
LEMMA FilledIs ==
    ASSUME Given, L!WellLaid, NEW n \in L!Loads, NEW a \in L!Segment(n)
    PROVE  a \in L!Filled <=> a \in L!FromFile(n)
<1>1. a \in L!FromFile(n) => a \in L!Filled
  BY DEF L!Filled
<1>2. ASSUME a \in L!Filled PROVE a \in L!FromFile(n)
  <2>1. PICK m \in L!Loads : a \in L!FromFile(m)
    BY <1>2 DEF L!Filled
  <2>2. a \in L!Segment(m)
    BY <2>1, LoadsAre, HeaderIs
  <2>3. m = n
    BY <2>2, SegmentPages
  <2> QED
    BY <2>1, <2>3
<1> QED
  BY <1>1, <1>2

\* A dynamic section lies where its segment has been copied to.
LEMMA DynamicIs ==
    ASSUME Given, L!WellLaid, NEW d \in L!Dynamics
    PROVE  /\ Vaddr(d) % PageSize # 0 /\ elf.phdr[d].filesz = elf.phdr[d].memsz
           /\ \E n \in L!Loads : n < d /\ L!Segment(d) \subseteq L!FromFile(n)
BY DEF L!WellLaid, Vaddr

-----------------------------------------------------------------------------
(* Loading: the steps.                                                     *)

\* The image, where it is loaded to and its stack do not change any more.
LEMMA StaticSame ==
    ASSUME UNCHANGED <<elf, base>>, stack' = stack
    PROVE  /\ Given' <=> Given
           /\ L!WellLaid' <=> L!WellLaid
           /\ L!Loads' = L!Loads /\ L!Dynamics' = L!Dynamics /\ L!Entries' = L!Entries
           /\ Words' = Words /\ FrameType' = FrameType
           /\ \A n : /\ Vaddr(n)' = Vaddr(n) /\ L!Segment(n)' = L!Segment(n)
                     /\ L!PagesOf(L!Segment(n))' = L!PagesOf(L!Segment(n))
           /\ \A a : Pg(a)' = Pg(a) /\ Cell(a)' = Cell(a)
           /\ \A a, u : Wanted(a, u)' = Wanted(a, u)
<1>1. /\ Given' <=> Given
      /\ L!Loads' = L!Loads /\ L!Dynamics' = L!Dynamics /\ L!Entries' = L!Entries
      /\ \A n : Vaddr(n)' = Vaddr(n) /\ L!Segment(n)' = L!Segment(n) /\ L!FromFile(n)' = L!FromFile(n)
      /\ \A a : Pg(a)' = Pg(a) /\ Cell(a)' = Cell(a)
  BY DEF Given, L!Loads, L!Load, L!Dynamics, L!Entries, Vaddr, L!Segment, L!FromFile, Pg, Cell
<1>2. \A r : L!Value(r)' = L!Value(r)
  BY DEF L!Value
<1>3. \A n : L!PagesOf(L!Segment(n))' = L!PagesOf(L!Segment(n))
  BY <1>1 DEF L!PagesOf
<1>4. L!Filled' = L!Filled
  BY <1>1 DEF L!Filled
<1>5. Words' = Words /\ FrameType' = FrameType
  BY <1>1, <1>2 DEF Words, FrameType
<1>6. \A a, u : Wanted(a, u)' = Wanted(a, u)
  <2>1. \A a, u : Patches(a, u)' = Patches(a, u)
    BY <1>1 DEF Patches
  <2> SUFFICES ASSUME NEW a, NEW u PROVE Wanted(a, u)' = Wanted(a, u)
    OBVIOUS
  <2>2. Patches(a, u)' = Patches(a, u)
    BY <2>1
  <2>3. Choice(Patches(a, u)') = Choice(Patches(a, u))
    BY <2>2
  <2>4. L!Value(elf.rel[Choice(Patches(a, u))])' = L!Value(elf.rel[Choice(Patches(a, u))])
    <3>1. elf'.rel[Choice(Patches(a, u)')] = elf.rel[Choice(Patches(a, u))]
      BY <2>3
    <3> QED
      BY <1>2, <3>1
  <2> QED
    BY <1>4, <2>2, <2>4 DEF Wanted
<1>7. L!Read' = L!Read /\ L!JumpSlots' = L!JumpSlots
  <2>1. L!JumpSlots' = L!JumpSlots
    BY <1>1 DEF L!JumpSlots
  <2> QED
    BY <1>1, <2>1 DEF L!Read
<1>8. L!WellLaid' <=> L!WellLaid
  BY <1>1, <1>3, <1>4, <1>7 DEF L!WellLaid
<1> QED
  BY <1>1, <1>3, <1>5, <1>6, <1>8

\* A step between two loops.
LEMMA Quiet ==
    ASSUME LoadInv, UNCHANGED <<elf, base, map, tlb, mem>>, stack' = stack, PhaseInv',
           Upto' = Upto,
           \A n \in L!Loads : Copying(n) => Copying(n)',
           \A n \in L!Loads : \A a \in L!Segment(n) :
              (Reached(n, a)' => Reached(n, a)) /\ (Written(n, a)' => Written(n, a))
    PROVE  LoadInv'
<1>1. FramesInv'
  <2>1. FramesInv /\ Words' = Words /\ FrameType' = FrameType /\ L!Loads' = L!Loads
        /\ \A n : L!PagesOf(L!Segment(n))' = L!PagesOf(L!Segment(n))
    BY StaticSame DEF LoadInv
  <2> QED
    BY <2>1 DEF FramesInv
<1>2. ContentsInv'
  <2>1. /\ L!Loads' = L!Loads /\ \A n : L!Segment(n)' = L!Segment(n)
        /\ \A a : Pg(a)' = Pg(a) /\ Cell(a)' = Cell(a)
        /\ \A a, u : Wanted(a, u)' = Wanted(a, u)
    BY StaticSame
  <2>2. \A a : Held(a)' = Held(a)
    BY <2>1 DEF Held
  <2>3. \A a : Wanted(a, Upto)' = Wanted(a, Upto)
    BY <2>1
  <2>4. ContentsInv
    BY DEF LoadInv
  <2> QED
    BY <2>1, <2>2, <2>3, <2>4 DEF ContentsInv
<1> QED
  BY <1>1, <1>2, StaticSame DEF LoadInv

LEMMA HeaderStep ==
    ASSUME LoadInv, stack' = stack, L!SkipHeader \/ L!StartHeader \/ L!EndHeader
    PROVE  LoadInv'
<1>0. Given /\ PhaseInv /\ UNCHANGED <<elf, base, map, tlb, mem>>
  BY DEF LoadInv, L!SkipHeader, L!StartHeader, L!EndHeader
<1>1. Len(elf.phdr) \in Nat
  BY <1>0, LoadsAre
<1>2. CASE L!SkipHeader
  <2>1. /\ loading = "header" /\ ph <= Len(elf.phdr) /\ elf.phdr[ph].type \notin {"LOAD", "DYNAMIC"}
        /\ ph' = ph + 1 /\ k' = k /\ loading' = loading
    BY <1>2 DEF L!SkipHeader, L!HaveHeader, L!Header, L!Loadable
  <2>2. ph \in 1..Len(elf.phdr) /\ ph \notin L!Loads
    BY <1>0, <2>1, LoadsAre DEF PhaseInv
  <2>3. PhaseInv'
    BY <1>0, <1>1, <2>1, <2>2 DEF PhaseInv
  <2>4. \A n \in L!Loads : n \in Int /\ n # ph
    BY <1>0, <2>2, LoadsAre
  <2>5. \A n \in L!Loads : Copying(n)' <=> Copying(n)
    BY <2>1, <2>2, <2>4 DEF Copying
  <2>6. \A n \in L!Loads : \A a : (Reached(n, a)' <=> Reached(n, a)) /\ (Written(n, a)' <=> Written(n, a))
    BY <2>1, <2>2, <2>4, <2>5 DEF Reached, Written
  <2>7. Upto' = Upto
    BY <2>1 DEF Upto
  <2> QED
    BY <1>0, <2>3, <2>5, <2>6, <2>7, Quiet
<1>3. CASE L!StartHeader
  <2>1. /\ loading = "header" /\ ph <= Len(elf.phdr) /\ elf.phdr[ph].type \in {"LOAD", "DYNAMIC"}
        /\ ph' = ph /\ k' = 0 /\ loading' = "map"
    BY <1>3 DEF L!StartHeader, L!HaveHeader, L!Header, L!Loadable
  <2>2. PhaseInv'
    <3>1. 0 % PageSize = 0
      BY AddressAssumption
    <3> QED
      BY <1>0, <1>1, <2>1, <3>1 DEF PhaseInv
  <2>3. \A n \in L!Loads : Copying(n)' <=> Copying(n)
    BY <2>1 DEF Copying
  <2>4. \A n \in L!Loads : \A a \in L!Segment(n) :
           (Reached(n, a)' => Reached(n, a)) /\ (Written(n, a)' => Written(n, a))
    <3> SUFFICES ASSUME NEW n \in L!Loads, NEW a \in L!Segment(n)
                 PROVE  (Reached(n, a)' => Reached(n, a)) /\ (Written(n, a)' => Written(n, a))
      OBVIOUS
    <3>1. Vaddr(n) \in Nat /\ a \in Nat /\ a >= Vaddr(n) /\ Vaddr(n)' = Vaddr(n)
      BY <1>0, LoadsAre, HeaderIs, StaticSame
    <3>2. ~(a < Vaddr(n)' + k')
      BY <2>1, <3>1
    <3> QED
      BY <2>1, <2>3, <3>2 DEF Reached, Written
  <2>5. Upto' = Upto
    BY <2>1 DEF Upto
  <2> QED
    BY <1>0, <2>2, <2>3, <2>4, <2>5, Quiet
<1>4. CASE L!EndHeader
  <2>1. /\ loading = "copy" /\ k >= elf.phdr[ph].memsz
        /\ ph' = ph + 1 /\ k' = k /\ loading' = "header"
    BY <1>4 DEF L!EndHeader, L!Header
  <2>2. ph \in 1..Len(elf.phdr)
    BY <1>0, <1>1, <2>1 DEF PhaseInv
  <2>3. PhaseInv'
    BY <1>0, <1>1, <2>1, <2>2 DEF PhaseInv
  <2>4. \A n \in L!Loads : Copying(n)' <=> Copying(n)
    <3>1. \A n \in L!Loads : n \in Int
      BY <1>0, LoadsAre
    <3> QED
      BY <2>1, <2>2, <3>1 DEF Copying
  <2>5. \A n \in L!Loads : \A a \in L!Segment(n) :
           (Reached(n, a)' => Reached(n, a)) /\ (Written(n, a)' => Written(n, a))
    <3> SUFFICES ASSUME NEW n \in L!Loads, NEW a \in L!Segment(n)
                 PROVE  (Reached(n, a)' => Reached(n, a)) /\ (Written(n, a)' => Written(n, a))
      OBVIOUS
    <3>1. n \in 1..Len(elf.phdr)
      BY <1>0, LoadsAre
    <3>2. Vaddr(n) \in Nat /\ a \in Vaddr(n)..Vaddr(n) + elf.phdr[n].memsz - 1 /\ elf.phdr[n].memsz \in Nat
      BY <1>0, <3>1, HeaderIs
    <3>3. n = ph => a < Vaddr(n) + k
      <4>1. k \in Nat
        BY <1>0 DEF PhaseInv
      <4> QED
        BY <2>1, <3>2, <4>1
    <3>4. n < ph + 1 => n < ph \/ n = ph
      BY <2>2, <3>1
    <3>5. Reached(n, a)' => Reached(n, a)
      BY <2>1, <2>4 DEF Reached
    <3>6. Written(n, a)' => Written(n, a)
      BY <2>1, <3>3, <3>4 DEF Written
    <3> QED
      BY <3>5, <3>6
  <2>6. Upto' = Upto
    BY <2>1 DEF Upto
  <2> QED
    BY <1>0, <2>3, <2>4, <2>5, <2>6, Quiet
<1> QED
  BY <1>2, <1>3, <1>4

\* A translation through the TLB or the tables is the tables'.
LEMMA FrameOfIs ==
    ASSUME FramesInv, NEW a, Pg(a) \in Page
    PROVE  L!FrameOf(base + a) = map[Pg(a)]
BY DEF FramesInv, L!FrameOf, Pg

\* A fresh frame for a page that no segment before shares.
LEMMA FreshFrame ==
    ASSUME LoadInv, UNCHANGED <<elf, base, tlb>>, stack' = stack,
           mem' = Append(mem, [c \in 0..PageSize - 1 |-> L!Junk]),
           NEW p,
           map' = [map EXCEPT ![p] = Len(mem) + 1],
           \A n \in L!Loads : Copying(n) => p \notin L!PagesOf(L!Segment(n)) /\ Copying(n)'
    PROVE  /\ FramesInv'
           /\ p \in Page => map'[p] # NONE
           /\ \A q \in Page : map[q] # NONE => map'[q] # NONE
           /\ \A q \in Page : q # p /\ map[q] # NONE =>
                 map'[q] = map[q] /\ mem'[map[q]] = mem[map[q]]
<1> DEFINE f == [c \in 0..PageSize - 1 |-> L!Junk]
<1>1. FramesInv
  BY DEF LoadInv
<1>2. /\ L!Loads' = L!Loads /\ Words' = Words /\ FrameType' = FrameType
      /\ \A n : L!PagesOf(L!Segment(n))' = L!PagesOf(L!Segment(n))
  BY StaticSame
<1>3. f \in FrameType
  BY DEF FrameType, Words
<1> HIDE DEF f
<1>4. /\ mem' \in Seq(FrameType) /\ Len(mem) \in Nat /\ Len(mem') = Len(mem) + 1
      /\ \A x \in 1..Len(mem) : mem'[x] = mem[x]
  <2>1. mem \in Seq(FrameType) /\ mem' = Append(mem, f)
    BY <1>1 DEF FramesInv, f
  <2> QED
    BY <1>3, <2>1, AppendProperties, LenProperties
<1>5. \A q \in Page : map[q] # NONE => map[q] \in 1..Len(mem)
  BY <1>1 DEF FramesInv
<1>6. Len(mem) + 1 # NONE
  BY <1>4, NullAssumption
<1>7. DOMAIN map' = Page /\ \A q \in Page : map'[q] = IF q = p THEN Len(mem) + 1 ELSE map[q]
  BY <1>1 DEF FramesInv
<1>8. map' \in [Page -> {NONE} \cup 1..Len(mem')]
  <2>1. map' = [q \in Page |-> map'[q]]
    BY <1>1 DEF FramesInv
  <2>2. \A q \in Page : map'[q] \in {NONE} \cup 1..Len(mem')
    BY <1>4, <1>5, <1>7
  <2> QED
    BY <2>1, <2>2
<1>9. \A q, r \in Page : map'[q] # NONE /\ map'[q] = map'[r] => q = r
  <2> SUFFICES ASSUME NEW q \in Page, NEW r \in Page, map'[q] # NONE, map'[q] = map'[r]
               PROVE  q = r
    OBVIOUS
  <2>1. \A x \in 1..Len(mem) : x # Len(mem) + 1
    BY <1>4
  <2>2. map[q] # NONE /\ map[q] = map[r] => q = r
    BY <1>1 DEF FramesInv
  <2> QED
    BY <1>5, <1>6, <1>7, <2>1, <2>2
<1>10. \A q \in Page : tlb'[q] # NONE =>
          tlb'[q] = map'[q] /\ \E n \in L!Loads : Copying(n)' /\ q \in L!PagesOf(L!Segment(n))
  <2> SUFFICES ASSUME NEW q \in Page, tlb[q] # NONE
               PROVE  tlb[q] = map'[q] /\ \E n \in L!Loads : Copying(n)' /\ q \in L!PagesOf(L!Segment(n))
    OBVIOUS
  <2>1. PICK n \in L!Loads : Copying(n) /\ q \in L!PagesOf(L!Segment(n))
    BY <1>1 DEF FramesInv
  <2>2. q # p /\ Copying(n)'
    BY <2>1
  <2>3. tlb[q] = map[q]
    BY <1>1 DEF FramesInv
  <2> QED
    BY <1>7, <2>1, <2>2, <2>3
<1>11. FramesInv'
  <2>1. DOMAIN tlb' = Page
    BY <1>1 DEF FramesInv
  <2> QED
    BY <1>2, <1>4, <1>8, <1>9, <1>10, <2>1 DEF FramesInv
<1> QED
  BY <1>4, <1>5, <1>6, <1>7, <1>11

\* Where nothing is mapped or stored for the image, its contents stay.
LEMMA ContentsSame ==
    ASSUME LoadInv, UNCHANGED <<elf, base>>, stack' = stack, Upto' = Upto,
           \A n \in L!Loads : \A a \in L!Segment(n) :
              /\ Reached(n, a)' => map'[Pg(a)] # NONE
              /\ Written(n, a)' => /\ Written(n, a)
                                   /\ map'[Pg(a)] = map[Pg(a)]
                                   /\ mem'[map[Pg(a)]] = mem[map[Pg(a)]]
    PROVE  ContentsInv'
<1>1. /\ L!Loads' = L!Loads /\ \A n : L!Segment(n)' = L!Segment(n)
      /\ \A a : Pg(a)' = Pg(a) /\ Cell(a)' = Cell(a)
      /\ \A a, u : Wanted(a, u)' = Wanted(a, u)
  BY StaticSame
<1>2. \A a : Wanted(a, Upto)' = Wanted(a, Upto)
  BY <1>1
<1>3. ContentsInv
  BY DEF LoadInv
<1>4. ASSUME NEW n \in L!Loads, NEW a \in L!Segment(n)
      PROVE  /\ Reached(n, a)' => map'[Pg(a)'] # NONE
             /\ Written(n, a)' => mem'[map'[Pg(a)']][Cell(a)'] = Wanted(a, Upto)'
  <2>1. Written(n, a) => Held(a) = Wanted(a, Upto)
    BY <1>3 DEF ContentsInv
  <2>2. Written(n, a)' => mem'[map'[Pg(a)']][Cell(a)'] = Held(a)
    BY <1>1 DEF Held
  <2> QED
    BY <1>1, <1>2, <2>1, <2>2
<1> QED
  BY <1>1, <1>4 DEF ContentsInv, Held

LEMMA MapStep ==
    ASSUME LoadInv, stack' = stack, L!MapPage
    PROVE  LoadInv'
<1>0. /\ Given /\ L!WellLaid /\ PhaseInv /\ FramesInv /\ ContentsInv /\ UNCHANGED <<elf, base, tlb>>
      /\ loading = "map" /\ ph' = ph
  BY DEF LoadInv, L!MapPage
<1>1. ph \in 1..Len(elf.phdr) /\ elf.phdr[ph].type \in {"LOAD", "DYNAMIC"} /\ k \in Nat
      /\ k % PageSize = 0 /\ Len(elf.phdr) \in Nat
  BY <1>0, LoadsAre DEF PhaseInv
<1>2. PageSize \in Nat \ {0} /\ base \in Nat
  BY <1>0, AddressAssumption DEF Given
<1>3. Vaddr(ph) \in Nat /\ elf.phdr[ph].memsz \in Nat
      /\ L!Segment(ph) = Vaddr(ph)..Vaddr(ph) + elf.phdr[ph].memsz - 1
  BY <1>0, <1>1, HeaderIs
<1>4. \A n \in L!Loads : n \in Int
  BY <1>0, LoadsAre
<1>5. CASE k >= elf.phdr[ph].memsz
  <2>1. ~(k < elf.phdr[ph].memsz)
    BY <1>1, <1>3, <1>5
  <2>2. k' = 0 /\ loading' = "copy" /\ UNCHANGED <<map, mem>>
    BY <2>1 DEF L!MapPage, L!Header
  <2>3. PhaseInv'
    BY <1>0, <1>1, <2>2 DEF PhaseInv
  <2>4. \A n \in L!Loads : Copying(n) => Copying(n)'
    BY <1>0, <2>2 DEF Copying
  <2>5. \A n \in L!Loads : \A a \in L!Segment(n) :
           (Reached(n, a)' => Reached(n, a)) /\ (Written(n, a)' => Written(n, a))
    <3> SUFFICES ASSUME NEW n \in L!Loads, NEW a \in L!Segment(n)
                 PROVE  (Reached(n, a)' => Reached(n, a)) /\ (Written(n, a)' => Written(n, a))
      OBVIOUS
    <3>1. Vaddr(n)' = Vaddr(n) /\ a \in Nat /\ a >= Vaddr(n) /\ Vaddr(n) \in Nat
      BY <1>0, LoadsAre, HeaderIs, StaticSame
    <3>2. n = ph => a < Vaddr(n) + k
      BY <1>1, <1>3, <1>5, <3>1
    <3>3. ~(a < Vaddr(n)' + k')
      BY <2>2, <3>1
    <3>4. Reached(n, a)' => Reached(n, a)
      BY <1>0, <2>2, <3>2 DEF Reached, Copying
    <3>5. Written(n, a)' => Written(n, a)
      BY <1>0, <3>3 DEF Written
    <3> QED
      BY <3>4, <3>5
  <2>6. Upto' = Upto
    BY <1>0, <2>2 DEF Upto
  <2> QED
    BY <1>0, <2>2, <2>3, <2>4, <2>5, <2>6, Quiet
<1>6. CASE k < elf.phdr[ph].memsz
  <2> DEFINE a0 == Vaddr(ph) + k
             p == Pg(a0)
  <2>1. /\ L!MapFresh(base + Vaddr(ph) + k) /\ k' = k + PageSize /\ loading' = loading
    BY <1>6 DEF L!MapPage, L!Header, L!At, Vaddr
  <2>2. base + Vaddr(ph) + k = base + a0 /\ a0 \in L!Segment(ph) /\ a0 \in Nat
    BY <1>1, <1>2, <1>3, <1>6, SMTT(60)
  <2>3. /\ mem' = Append(mem, [c \in 0..PageSize - 1 |-> L!Junk])
        /\ (base + a0) % PageSize = 0 /\ p \notin PinionPage =>
              map' = [map EXCEPT ![p] = Len(mem) + 1]
        /\ (base + a0) % PageSize # 0 => map' = map
    BY <2>1, <2>2 DEF L!MapFresh, L!IsPinion, Pg
  <2>4. (base + a0) % PageSize = Vaddr(ph) % PageSize
    <3>1. base % PageSize = 0
      BY <1>0 DEF L!WellLaid
    <3>2. base + a0 = base + (k + Vaddr(ph)) /\ k + Vaddr(ph) \in Int /\ base \in Int
      BY <1>1, <1>2, <1>3
    <3>3. (base + (k + Vaddr(ph))) % PageSize = (k + Vaddr(ph)) % PageSize
      BY <1>2, <3>1, <3>2, AlignedSum
    <3>4. (k + Vaddr(ph)) % PageSize = Vaddr(ph) % PageSize
      <4>1. k \in Int /\ Vaddr(ph) \in Int
        BY <1>1, <1>3
      <4> QED
        BY <1>1, <1>2, <4>1, AlignedSum
    <3> HIDE DEF a0
    <3> QED
      BY <3>2, <3>3, <3>4
  <2>5. PhaseInv'
    <3>1. (k + PageSize) % PageSize = 0
      <4>1. k \in Int /\ PageSize \in Int
        BY <1>1, <1>2
      <4>2. (k + PageSize) % PageSize = PageSize % PageSize
        BY <1>1, <1>2, <4>1, AlignedSum
      <4>3. PageSize % PageSize = 0
        <5>1. PageSize = 1 * PageSize + 0 /\ 0 \in 0..PageSize - 1
          BY <1>2
        <5>2. (1 * PageSize + 0) % PageSize = 0
          <6>1. \A q \in Int, r \in 0..PageSize - 1 : (q * PageSize + r) % PageSize = r
            BY <1>2, Divided
          <6>2. 1 \in Int
            OBVIOUS
          <6> QED
            BY <5>1, <6>1, <6>2, Zenon
        <5> QED
          BY <5>1, <5>2
      <4> QED
        BY <4>2, <4>3
    <3>2. k + PageSize \in Nat
      BY <1>1, <1>2
    <3> HIDE DEF a0, p
    <3> QED
      BY <1>0, <1>1, <2>1, <3>1, <3>2 DEF PhaseInv
  <2>6. Upto' = Upto
    BY <1>0, <2>1 DEF Upto
  <2>7. \A n \in L!Loads : /\ Copying(n)' <=> Copying(n)
                           /\ Copying(n) => n # ph
    BY <1>0, <1>1, <1>4, <2>1 DEF Copying
  <2>8. \A n \in L!Loads : \A a : Written(n, a)' <=> Written(n, a)
    BY <1>0, <2>1 DEF Written
  <2>9. \A n \in L!Loads : \A a : Written(n, a) => Copying(n) /\ Reached(n, a)
    BY <1>0 DEF Written, Reached, Copying
  <2> HIDE DEF p
  <2>10. CASE elf.phdr[ph].type = "LOAD"
    <3>1. ph \in L!Loads
      BY <1>0, <1>1, <2>10, LoadsAre
    <3>2. (base + a0) % PageSize = 0
      <4>1. Vaddr(ph) % PageSize = 0
        BY <1>0, <3>1 DEF L!WellLaid, Vaddr
      <4> QED
        BY <2>4, <4>1
    <3>3. map' = [map EXCEPT ![p] = Len(mem) + 1]
      <4>1. p \notin PinionPage
        BY <1>0, <2>2, <3>1, SegmentPages DEF p
      <4> QED
        BY <2>3, <3>2, <4>1
    <3>4. /\ p \in Page /\ p \in L!PagesOf(L!Segment(ph))
          /\ \A m \in L!Loads : p \in L!PagesOf(L!Segment(m)) => m = ph
          /\ \A m \in L!Loads : \A c \in L!Segment(m) : p = Pg(c) => m = ph
      BY <1>0, <2>2, <3>1, SegmentPages DEF p
    <3>5. /\ FramesInv'
          /\ p \in Page => map'[p] # NONE
          /\ \A q \in Page : map[q] # NONE => map'[q] # NONE
          /\ \A q \in Page : q # p /\ map[q] # NONE =>
                map'[q] = map[q] /\ mem'[map[q]] = mem[map[q]]
      <4>1. \A n \in L!Loads : Copying(n) => p \notin L!PagesOf(L!Segment(n)) /\ Copying(n)'
        BY <2>7, <3>4
      <4> QED
        BY <1>0, <2>3, <3>3, <4>1, FreshFrame
    <3>6. ASSUME NEW n \in L!Loads, NEW a \in L!Segment(n)
          PROVE  /\ Reached(n, a)' => map'[Pg(a)] # NONE
                 /\ Written(n, a)' => /\ Written(n, a)
                                      /\ map'[Pg(a)] = map[Pg(a)]
                                      /\ mem'[map[Pg(a)]] = mem[map[Pg(a)]]
      <4>1. Pg(a) \in Page /\ a \in Nat
        BY <1>0, SegmentPages
      <4>2. Reached(n, a) => map[Pg(a)] # NONE
        BY <1>0 DEF ContentsInv
      <4>3. Vaddr(n)' = Vaddr(n)
        BY <1>0, StaticSame
      <4>4. Reached(n, a)' => Reached(n, a) \/ Pg(a) = p
        <5> SUFFICES ASSUME Reached(n, a)', ~Reached(n, a) PROVE Pg(a) = p
          OBVIOUS
        <5>1. n = ph /\ a < Vaddr(ph) + (k + PageSize) /\ ~(a < Vaddr(ph) + k)
          BY <1>0, <2>1, <2>7, <4>3 DEF Reached
        <5>2. base + a0 \in Int /\ base + a \in Int /\ base + a0 <= base + a /\ base + a < base + a0 + PageSize
          BY <1>1, <1>2, <1>3, <4>1, <5>1, SMTT(30), ZenonT(40)
        <5> HIDE DEF a0
        <5>3. (base + a) \div PageSize = (base + a0) \div PageSize
          BY <1>2, <3>2, <5>2, InPage
        <5> QED
          BY <5>3 DEF Pg, p
      <4>5. Written(n, a) => n # ph /\ Reached(n, a)
        BY <2>7, <2>9
      <4>6. n # ph => Pg(a) # p
        BY <3>4
      <4> QED
        BY <2>8, <3>4, <3>5, <4>1, <4>2, <4>4, <4>5, <4>6
    <3>7. ContentsInv'
      BY <1>0, <2>6, <3>6, ContentsSame
    <3> QED
      BY <1>0, <2>5, <3>5, <3>7, StaticSame DEF LoadInv
  <2>11. CASE elf.phdr[ph].type = "DYNAMIC"
    <3>1. ph \in L!Dynamics /\ ph \notin L!Loads
      BY <1>0, <1>1, <2>11, LoadsAre
    <3>2. map' = map
      BY <1>0, <2>3, <2>4, <3>1, DynamicIs
    <3>3. /\ mem' \in Seq(FrameType) /\ Len(mem) \in Nat /\ Len(mem') = Len(mem) + 1
          /\ \A x \in 1..Len(mem) : mem'[x] = mem[x]
      <4> DEFINE f == [c \in 0..PageSize - 1 |-> L!Junk]
      <4>1. f \in FrameType
        BY DEF FrameType, Words
      <4>2. mem \in Seq(FrameType) /\ mem' = Append(mem, f)
        BY <1>0, <2>3 DEF FramesInv
      <4> HIDE DEF f
      <4> QED
        BY <4>1, <4>2, AppendProperties, LenProperties
    <3>4. map \in [Page -> {NONE} \cup 1..Len(mem)]
      BY <1>0 DEF FramesInv
    <3>5. FramesInv'
      <4>1. /\ L!Loads' = L!Loads /\ FrameType' = FrameType
            /\ \A n : L!PagesOf(L!Segment(n))' = L!PagesOf(L!Segment(n))
        BY <1>0, StaticSame
      <4>2. map' \in [Page -> {NONE} \cup 1..Len(mem')]
        <5>1. {NONE} \cup 1..Len(mem) \subseteq {NONE} \cup 1..Len(mem')
          BY <3>3
        <5> QED
          BY <3>2, <3>4, <5>1
      <4> QED
        BY <1>0, <2>7, <3>2, <3>3, <4>1, <4>2 DEF FramesInv
    <3>6. ASSUME NEW n \in L!Loads, NEW a \in L!Segment(n)
          PROVE  /\ Reached(n, a)' => map'[Pg(a)] # NONE
                 /\ Written(n, a)' => /\ Written(n, a)
                                      /\ map'[Pg(a)] = map[Pg(a)]
                                      /\ mem'[map[Pg(a)]] = mem[map[Pg(a)]]
      <4>1. Pg(a) \in Page
        BY <1>0, SegmentPages
      <4>2. Reached(n, a) => map[Pg(a)] # NONE
        BY <1>0 DEF ContentsInv
      <4>3. Reached(n, a)' => Reached(n, a)
        BY <1>0, <2>7, <3>1 DEF Reached
      <4> QED
        BY <2>8, <2>9, <3>2, <3>3, <3>4, <4>1, <4>2, <4>3
    <3>7. ContentsInv'
      BY <1>0, <2>6, <3>6, ContentsSame
    <3> QED
      BY <1>0, <2>5, <3>5, <3>7, StaticSame DEF LoadInv
  <2> QED
    BY <1>1, <2>10, <2>11
<1>7. k >= elf.phdr[ph].memsz \/ k < elf.phdr[ph].memsz
  BY <1>1, <1>3
<1> QED
  BY <1>5, <1>6, <1>7

\* A word stored in a segment changes no other.
LEMMA StoreHeld ==
    ASSUME LoadInv, UNCHANGED <<elf, base, map>>, stack' = stack,
           NEW n \in L!Loads, NEW a \in L!Segment(n), Copying(n), map[Pg(a)] # NONE,
           NEW word \in Words, L!Store(base + a, word), L!Accessed(base + a),
           \A m \in L!Loads : Copying(m) => Copying(m)'
    PROVE  /\ FramesInv'
           /\ \A m \in L!Loads : \A c \in L!Segment(m) : map[Pg(c)] # NONE =>
                 mem'[map[Pg(c)]][Cell(c)] = IF c = a THEN word ELSE Held(c)
<1> DEFINE g == map[Pg(a)]
           new == [mem[g] EXCEPT ![Cell(a)] = word]
<1>0. Given /\ L!WellLaid /\ FramesInv
  BY DEF LoadInv
<1>1. a \in Nat /\ Pg(a) \in Page /\ Pg(a) \in L!PagesOf(L!Segment(n))
  BY <1>0, SegmentPages
<1>2. L!FrameOf(base + a) = g
  BY <1>0, <1>1, FrameOfIs
<1>3. /\ mem \in Seq(FrameType) /\ Len(mem) \in Nat /\ DOMAIN mem = 1..Len(mem)
      /\ g \in 1..Len(mem) /\ mem[g] \in FrameType /\ Cell(a) \in 0..PageSize - 1
  <2>1. mem \in Seq(FrameType) /\ map \in [Page -> {NONE} \cup 1..Len(mem)]
    BY <1>0 DEF FramesInv
  <2>2. g \in 1..Len(mem)
    BY <1>1, <2>1
  <2>3. Cell(a) \in 0..PageSize - 1
    BY <1>0, <1>1, PlaceIs
  <2> HIDE DEF g
  <2> QED
    BY <2>1, <2>2, <2>3, LenProperties
<1>4. mem' = [mem EXCEPT ![g] = new]
  BY <1>2 DEF L!Store, Cell
<1>5. tlb' = [tlb EXCEPT ![Pg(a)] = g]
  BY <1>2 DEF L!Accessed, Pg
<1>6. new \in FrameType /\ \A c \in 0..PageSize - 1 : new[c] = IF c = Cell(a) THEN word ELSE mem[g][c]
  <2> HIDE DEF g
  <2> QED
    BY <1>3 DEF FrameType
<1> HIDE DEF g, new
<1>7. mem' \in Seq(FrameType) /\ Len(mem') = Len(mem)
      /\ \A x \in 1..Len(mem) : mem'[x] = IF x = g THEN new ELSE mem[x]
  BY <1>3, <1>4, <1>6, ExceptSeq
<1>8. FramesInv'
  <2>1. /\ L!Loads' = L!Loads /\ FrameType' = FrameType
        /\ \A m : L!PagesOf(L!Segment(m))' = L!PagesOf(L!Segment(m))
    BY StaticSame
  <2>2. DOMAIN tlb' = Page /\ \A p \in Page : tlb'[p] = IF p = Pg(a) THEN g ELSE tlb[p]
    BY <1>0, <1>1, <1>5 DEF FramesInv
  <2>3. \A p \in Page : tlb'[p] # NONE =>
           tlb'[p] = map[p] /\ \E m \in L!Loads : Copying(m)' /\ p \in L!PagesOf(L!Segment(m))
    <3> SUFFICES ASSUME NEW p \in Page, tlb'[p] # NONE
                 PROVE  tlb'[p] = map[p] /\ \E m \in L!Loads : Copying(m)' /\ p \in L!PagesOf(L!Segment(m))
      OBVIOUS
    <3>1. CASE p = Pg(a)
      BY <1>1, <2>2, <3>1 DEF g
    <3>2. CASE p # Pg(a)
      BY <1>0, <2>2, <3>2 DEF FramesInv
    <3> QED
      BY <3>1, <3>2
  <2> QED
    BY <1>0, <1>7, <2>1, <2>2, <2>3 DEF FramesInv
<1>9. ASSUME NEW m \in L!Loads, NEW c \in L!Segment(m), map[Pg(c)] # NONE
      PROVE  mem'[map[Pg(c)]][Cell(c)] = IF c = a THEN word ELSE Held(c)
  <2>1. c \in Nat /\ Pg(c) \in Page
    BY <1>0, SegmentPages
  <2>2. Cell(c) \in 0..PageSize - 1 /\ (Pg(c) = Pg(a) /\ Cell(c) = Cell(a) => c = a)
    BY <1>0, <1>1, <2>1, PlaceIs
  <2>3. map[Pg(c)] \in 1..Len(mem)
    BY <1>0, <1>9, <2>1 DEF FramesInv
  <2>4. CASE c = a
    BY <1>3, <1>6, <1>7, <2>4 DEF g
  <2>5. CASE c # a /\ Pg(c) = Pg(a)
    BY <1>3, <1>6, <1>7, <2>2, <2>5 DEF g, Held
  <2>6. CASE c # a /\ Pg(c) # Pg(a)
    <3>1. map[Pg(c)] # g
      BY <1>0, <1>1, <1>9, <2>1, <2>6 DEF FramesInv, g
    <3> QED
      BY <1>7, <2>3, <2>6, <3>1 DEF Held
  <2> QED
    BY <2>4, <2>5, <2>6
<1> QED
  BY <1>8, <1>9

\* memcpy and memclr.
LEMMA FillStep ==
    ASSUME LoadInv, stack' = stack, L!CopyWord \/ L!ClearWord
    PROVE  LoadInv'
<1> DEFINE a == Vaddr(ph) + k
           word == IF k < elf.phdr[ph].filesz THEN L!FileWord(a) ELSE L!Number(0)
<1>0. /\ Given /\ L!WellLaid /\ PhaseInv /\ FramesInv /\ ContentsInv /\ UNCHANGED <<elf, base, map>>
      /\ loading = "copy" /\ ph' = ph
  BY DEF LoadInv, L!CopyWord, L!ClearWord
<1>1. ph \in 1..Len(elf.phdr) /\ elf.phdr[ph].type \in {"LOAD", "DYNAMIC"} /\ k \in Nat
      /\ Len(elf.phdr) \in Nat
  BY <1>0, LoadsAre DEF PhaseInv
<1>2. /\ Vaddr(ph) \in Nat /\ elf.phdr[ph].memsz \in Nat /\ elf.phdr[ph].filesz \in 0..elf.phdr[ph].memsz
      /\ L!Segment(ph) = Vaddr(ph)..Vaddr(ph) + elf.phdr[ph].memsz - 1
      /\ L!FromFile(ph) = Vaddr(ph)..Vaddr(ph) + elf.phdr[ph].filesz - 1
  BY <1>0, <1>1, HeaderIs
<1>3. k < elf.phdr[ph].memsz
  BY <1>1, <1>2 DEF L!CopyWord, L!ClearWord, L!Header
<1>4. a \in L!Segment(ph) /\ a \in Nat /\ (base + Vaddr(ph)) + k = base + a
  <2>1. base \in Nat /\ k \in Nat /\ Vaddr(ph) \in Nat
    BY <1>0, <1>1, <1>2 DEF Given
  <2>2. a \in Vaddr(ph)..Vaddr(ph) + elf.phdr[ph].memsz - 1
    BY <1>2, <1>3, <2>1
  <2>3. (base + Vaddr(ph)) + k = base + a
    BY <2>1
  <2> HIDE DEF a
  <2> QED
    BY <1>2, <2>2, <2>3
<1>5. IF L!FrameOf(base + a) = NONE THEN TRUE
      ELSE L!Accessed(base + a) /\ L!Store(base + a, word) /\ k' = k + 1 /\ loading' = loading
  <2>1. L!At + k = base + a /\ L!Header = elf.phdr[ph] /\ L!Header.vaddr + k = a
    BY <1>4 DEF L!At, L!Header, Vaddr
  <2>2. CASE L!CopyWord
    BY <2>1, <2>2 DEF L!CopyWord
  <2>3. CASE L!ClearWord
    <3>1. ~(k < elf.phdr[ph].filesz)
      BY <1>1, <1>2, <2>3 DEF L!ClearWord, L!Header
    <3> QED
      BY <2>1, <2>3, <3>1 DEF L!ClearWord
  <2> QED
    BY <2>2, <2>3
<1>6. word \in Words
  BY <1>4 DEF Words
\* The segment whose pages are written to.
<1>7. PICK n \in L!Loads : /\ a \in L!Segment(n) /\ Copying(n)
                           /\ elf.phdr[ph].type = "LOAD" => n = ph
                           /\ elf.phdr[ph].type = "DYNAMIC" =>
                                 n < ph /\ a \in L!FromFile(n) /\ word = L!FileWord(a)
  <2>1. CASE elf.phdr[ph].type = "LOAD"
    <3>1. ph \in L!Loads /\ Copying(ph)
      BY <1>0, <1>1, <2>1, LoadsAre DEF Copying
    <3> QED
      BY <1>4, <2>1, <3>1
  <2>2. CASE elf.phdr[ph].type = "DYNAMIC"
    <3>1. ph \in L!Dynamics
      BY <1>0, <1>1, <2>2, LoadsAre
    <3>2. elf.phdr[ph].filesz = elf.phdr[ph].memsz
      BY <1>0, <3>1, DynamicIs
    <3>3. PICK n \in L!Loads : n < ph /\ L!Segment(ph) \subseteq L!FromFile(n)
      BY <1>0, <3>1, DynamicIs
    <3>4. a \in L!FromFile(n) /\ word = L!FileWord(a)
      BY <1>3, <1>4, <3>2, <3>3
    <3>5. a \in L!Segment(n) /\ Copying(n)
      BY <1>0, <3>3, <3>4, LoadsAre, HeaderIs DEF Copying
    <3> QED
      BY <2>2, <3>3, <3>4, <3>5
  <2> QED
    BY <1>1, <2>1, <2>2
<1>8. a \in L!Filled <=> a \in L!FromFile(n)
  BY <1>0, <1>7, FilledIs
<1>9. word = IF a \in L!Filled THEN L!FileWord(a) ELSE L!Number(0)
  <2>1. CASE elf.phdr[ph].type = "LOAD"
    <3>1. a \in L!FromFile(n) <=> k < elf.phdr[ph].filesz
      BY <1>1, <1>2, <1>7, <2>1
    <3> QED
      BY <1>8, <3>1
  <2>2. CASE elf.phdr[ph].type = "DYNAMIC"
    BY <1>7, <1>8, <2>2
  <2> QED
    BY <1>1, <2>1, <2>2
<1> HIDE DEF word
<1>10. map[Pg(a)] # NONE
  <2>1. Reached(n, a)
    BY <1>7 DEF Reached
  <2> QED
    BY <1>0, <1>7, <2>1 DEF ContentsInv
<1>11. L!FrameOf(base + a) = map[Pg(a)]
  <2>1. Pg(a) \in Page
    BY <1>0, <1>7, SegmentPages
  <2> QED
    BY <1>0, <2>1, FrameOfIs
<1>12. L!Accessed(base + a) /\ L!Store(base + a, word) /\ k' = k + 1 /\ loading' = loading
  BY <1>5, <1>10, <1>11
<1>13. \A m \in L!Loads : Copying(m) <=> Copying(m)'
  BY <1>0, <1>12 DEF Copying
<1>14. /\ FramesInv'
       /\ \A m \in L!Loads : \A c \in L!Segment(m) : map[Pg(c)] # NONE =>
             mem'[map[Pg(c)]][Cell(c)] = IF c = a THEN word ELSE Held(c)
  <2> HIDE DEF a
  <2> QED
    BY <1>0, <1>6, <1>7, <1>10, <1>12, <1>13, StoreHeld
<1>15. PhaseInv'
  BY <1>0, <1>1, <1>12 DEF PhaseInv
<1>16. Upto = 1 /\ Upto' = 1
  BY <1>0, <1>12 DEF Upto
<1>17. \A c : Wanted(c, 1) = IF c \in L!Filled THEN L!FileWord(c) ELSE L!Number(0)
  <2>1. \A c : Patches(c, 1) = {}
    BY DEF Patches
  <2> QED
    BY <2>1 DEF Wanted
<1>18. ContentsInv'
  <2>1. /\ L!Loads' = L!Loads /\ \A m : L!Segment(m)' = L!Segment(m) /\ Vaddr(m)' = Vaddr(m)
        /\ \A c : Pg(c)' = Pg(c) /\ Cell(c)' = Cell(c)
        /\ \A c, u : Wanted(c, u)' = Wanted(c, u)
    BY <1>0, StaticSame
  <2>2. ASSUME NEW m \in L!Loads, NEW c \in L!Segment(m)
        PROVE  /\ Reached(m, c)' => map[Pg(c)] # NONE
               /\ Written(m, c)' => mem'[map[Pg(c)]][Cell(c)] = Wanted(c, 1)
    <3>1. Reached(m, c)' => Reached(m, c)
      BY <1>0, <1>12, <1>13 DEF Reached
    <3>2. /\ Reached(m, c) => map[Pg(c)] # NONE
          /\ Written(m, c) => Held(c) = Wanted(c, 1)
      BY <1>0, <1>16 DEF ContentsInv
    <3>3. Written(m, c)' => Written(m, c) \/ c = a
      <4>1. Vaddr(m) \in Nat /\ c \in Nat
        BY <1>0, LoadsAre, HeaderIs
      <4>2. CASE m = ph
        <5>1. Written(m, c)' => c < Vaddr(ph) + (k + 1)
          BY <1>0, <1>1, <1>12, <2>1, <4>2 DEF Written
        <5>2. c < Vaddr(ph) + k => Written(m, c)
          BY <1>0, <4>2 DEF Written
        <5>3. \A x, v, y \in Nat : x < v + (y + 1) => x < v + y \/ x = v + y
          OBVIOUS
        <5>4. c < Vaddr(ph) + (k + 1) => c < Vaddr(ph) + k \/ c = Vaddr(ph) + k
          BY <1>1, <1>2, <4>1, <5>3
        <5> QED
          BY <5>1, <5>2, <5>4
      <4>3. CASE m # ph
        BY <1>0, <4>3 DEF Written
      <4> QED
        BY <4>2, <4>3
    <3>4. Written(m, c) => Reached(m, c)
      BY DEF Written, Reached, Copying
    <3>5. c = a => word = Wanted(c, 1)
      BY <1>9, <1>17
    <3> HIDE DEF a
    <3> QED
      BY <1>10, <1>14, <3>1, <3>2, <3>3, <3>4, <3>5
  <2> QED
    BY <1>0, <1>16, <2>1, <2>2 DEF ContentsInv, Held
<1> QED
  BY <1>0, <1>14, <1>15, <1>18, StaticSame DEF LoadInv

\* One relocation more: it goes where no other does.
LEMMA PatchesNext ==
    ASSUME Given, L!WellLaid, NEW u \in 1..L!Entries, NEW a
    PROVE  Patches(a, u + 1) =
              IF elf.rel[u].offset = a /\ elf.rel[u].type \in {"JUMP_SLOT", "RELATIVE"}
              THEN {u} ELSE Patches(a, u)
<1>1. L!Entries \in Nat
  BY DEF Given, Image, L!Entries
<1>2. \A n \in 1..L!Entries : n < u + 1 <=> n < u \/ n = u
  BY <1>1
<1>3. \A n \in 1..L!Entries : n # u => elf.rel[n].offset # elf.rel[u].offset
  BY DEF L!WellLaid
<1>4. u < u + 1 /\ ~(u < u)
  BY <1>1
<1>5. CASE elf.rel[u].offset = a /\ elf.rel[u].type \in {"JUMP_SLOT", "RELATIVE"}
  BY <1>2, <1>3, <1>4, <1>5 DEF Patches
<1>6. CASE ~(elf.rel[u].offset = a /\ elf.rel[u].type \in {"JUMP_SLOT", "RELATIVE"})
  <2>1. \A n \in 1..L!Entries :
           n \in Patches(a, u + 1) <=> n \in Patches(a, u)
    BY <1>2, <1>4, <1>6 DEF Patches
  <2> QED
    BY <1>6, <2>1 DEF Patches
<1> QED
  BY <1>5, <1>6

\* The image is complete when the headers have been gone through.
LEMMA AllWritten ==
    ASSUME LoadInv, ph = Len(elf.phdr) + 1, NEW n \in L!Loads, NEW a \in L!Segment(n)
    PROVE  /\ Copying(n) /\ Written(n, a) /\ Reached(n, a)
           /\ Pg(a) \in Page /\ map[Pg(a)] # NONE
           /\ L!FrameOf(base + a) = map[Pg(a)]
           /\ Held(a) = Wanted(a, Upto)
<1>1. Given /\ L!WellLaid /\ PhaseInv /\ FramesInv /\ ContentsInv
  BY DEF LoadInv
<1>2. n < ph
  BY <1>1, LoadsAre
<1>3. Copying(n) /\ Written(n, a) /\ Reached(n, a)
  BY <1>2 DEF Copying, Written, Reached
<1>4. Pg(a) \in Page
  BY <1>1, SegmentPages
<1> QED
  BY <1>1, <1>3, <1>4, FrameOfIs DEF ContentsInv

\* What fixup_kernel reads is what the file says: no relocation goes there.
LEMMA ReadIsThere ==
    ASSUME LoadInv, ph = Len(elf.phdr) + 1, NEW a \in L!Read
    PROVE  L!Finds(base + a, L!FileWord(a))
<1>0. Given /\ L!WellLaid
  BY DEF LoadInv
<1>1. a \in L!Filled /\ \A x \in 1..L!Entries : elf.rel[x].offset # a
  BY <1>0 DEF L!WellLaid
<1>2. PICK n \in L!Loads : a \in L!FromFile(n)
  BY <1>1 DEF L!Filled
<1>3. a \in L!Segment(n) /\ a \in Nat
  BY <1>0, <1>2, LoadsAre, HeaderIs
<1>4. Patches(a, Upto) = {}
  BY <1>1 DEF Patches
<1>5. Wanted(a, Upto) = L!FileWord(a)
  BY <1>1, <1>4 DEF Wanted
<1>6. Held(a) = L!FileWord(a) /\ L!FrameOf(base + a) = map[Pg(a)] /\ map[Pg(a)] # NONE
  BY <1>3, <1>5, AllWritten
<1> QED
  BY <1>6 DEF L!Finds, L!Word, Held, Cell

\* The words that fixup_kernel looks at.
LEMMA TablesAre ==
    ASSUME Given, L!WellLaid
    PROVE  /\ elf.strtab \in Nat /\ elf.strtab # NONE
           /\ elf.strtab + elf.needed \in L!Read
           /\ L!StringAt(elf.needed) = base + (elf.strtab + elf.needed)
           /\ L!Entries \in Nat
           /\ \A n \in 1..L!Entries :
                 /\ elf.jmprel + n - 1 \in L!Read
                 /\ L!EntryAt(n) = base + (elf.jmprel + n - 1)
           /\ \A n \in L!JumpSlots :
                 /\ elf.symtab # NONE
                 /\ elf.symtab + elf.rel[n].sym \in L!Read
                 /\ elf.strtab + elf.rel[n].name \in L!Read
                 /\ L!SymbolAt(elf.rel[n].sym) = base + (elf.symtab + elf.rel[n].sym)
                 /\ L!StringAt(elf.rel[n].name) = base + (elf.strtab + elf.rel[n].name)
<1>1. /\ base \in Nat /\ elf.strtab \in Nat \cup {NONE} /\ elf.symtab \in Nat \cup {NONE}
      /\ elf.needed \in Nat /\ elf.jmprel \in Nat /\ L!Entries \in Nat
      /\ \A n \in 1..L!Entries : elf.rel[n].sym \in Nat /\ elf.rel[n].name \in Nat
  BY DEF Given, Image, L!Entries
<1>2. elf.strtab # NONE /\ (L!JumpSlots # {} => elf.symtab # NONE)
  BY DEF L!WellLaid
<1>3. elf.strtab \in Nat
  BY <1>1, <1>2
<1>4. \A n \in Nat : L!StringAt(n) = base + (elf.strtab + n)
  <2>1. \A x, y, z \in Nat : (x + y) + z = x + (y + z)
    OBVIOUS
  <2> QED
    BY <1>1, <1>2, <1>3, <2>1 DEF L!StringAt
<1>5. ASSUME NEW n \in 1..L!Entries
      PROVE  elf.jmprel + n - 1 \in L!Read /\ L!EntryAt(n) = base + (elf.jmprel + n - 1)
  <2>1. elf.jmprel + n - 1 \in L!Read
    BY DEF L!Read
  <2>2. \A x, y, z \in Nat : x + y + z - 1 = x + (y + z - 1)
    OBVIOUS
  <2>3. n \in Nat
    BY <1>1
  <2> QED
    BY <1>1, <2>1, <2>2, <2>3 DEF L!EntryAt
<1>6. ASSUME NEW n \in L!JumpSlots
      PROVE  /\ elf.symtab # NONE
             /\ elf.symtab + elf.rel[n].sym \in L!Read
             /\ elf.strtab + elf.rel[n].name \in L!Read
             /\ L!SymbolAt(elf.rel[n].sym) = base + (elf.symtab + elf.rel[n].sym)
             /\ L!StringAt(elf.rel[n].name) = base + (elf.strtab + elf.rel[n].name)
  <2>1. elf.symtab # NONE
    BY <1>2
  <2>2. elf.symtab + elf.rel[n].sym \in L!Read /\ elf.strtab + elf.rel[n].name \in L!Read
    BY DEF L!Read
  <2>3. n \in 1..L!Entries
    BY DEF L!JumpSlots
  <2>4. \A x, y, z \in Nat : (x + y) + z = x + (y + z)
    OBVIOUS
  <2>5. L!SymbolAt(elf.rel[n].sym) = base + (elf.symtab + elf.rel[n].sym)
    BY <1>1, <2>1, <2>3, <2>4 DEF L!SymbolAt
  <2>6. L!StringAt(elf.rel[n].name) = base + (elf.strtab + elf.rel[n].name)
    BY <1>1, <1>4, <2>3
  <2> QED
    BY <2>1, <2>2, <2>5, <2>6
<1>7. elf.strtab + elf.needed \in L!Read
  BY DEF L!Read
<1>8. L!StringAt(elf.needed) = base + (elf.strtab + elf.needed)
  BY <1>1, <1>4
<1> QED
  BY <1>1, <1>2, <1>3, <1>5, <1>6, <1>7, <1>8

\* From the last header to the dynamic section.
LEMMA FixupStep ==
    ASSUME LoadInv, stack' = stack, L!StartFixup
    PROVE  LoadInv'
<1>0. /\ Given /\ L!WellLaid /\ PhaseInv /\ UNCHANGED <<elf, base, map>>
      /\ loading = "header" /\ ph' = ph /\ k' = 1 /\ ~(ph <= Len(elf.phdr))
  BY DEF LoadInv, L!StartFixup, L!HaveHeader
<1>1. Len(elf.phdr) \in Nat /\ ph = Len(elf.phdr) + 1
  <2>1. Len(elf.phdr) \in Nat /\ ph \in 1..Len(elf.phdr) + 1
    BY <1>0, LoadsAre DEF PhaseInv
  <2> QED
    BY <1>0, <2>1
<1>2. loading' = "fixup" /\ UNCHANGED <<tlb, mem>>
  <2>1. L!Dynamics # {}
    BY <1>0 DEF L!WellLaid
  <2>2. /\ elf.strtab # NONE /\ elf.strtab + elf.needed \in L!Read
        /\ L!StringAt(elf.needed) = base + (elf.strtab + elf.needed)
    BY <1>0, TablesAre
  <2>3. L!Finds(base + (elf.strtab + elf.needed), L!FileWord(elf.strtab + elf.needed))
    BY <1>1, <2>2, ReadIsThere
  <2>4. L!IsString(elf.needed)
    BY <2>2, <2>3 DEF L!IsString
  <2> QED
    BY <2>1, <2>4 DEF L!StartFixup
<1>3. PhaseInv'
  BY <1>0, <1>1, <1>2 DEF PhaseInv
<1>4. \A n \in L!Loads : Copying(n)' <=> Copying(n)
  BY <1>0, <1>2 DEF Copying
<1>5. \A n \in L!Loads : \A a : (Reached(n, a)' <=> Reached(n, a)) /\ (Written(n, a)' <=> Written(n, a))
  BY <1>0, <1>2, <1>4 DEF Reached, Written
<1>6. Upto' = Upto
  BY <1>0, <1>2 DEF Upto
<1> QED
  BY <1>0, <1>2, <1>3, <1>4, <1>5, <1>6, Quiet

\* relocate, on one entry.
LEMMA RelocateStep ==
    ASSUME LoadInv, stack' = stack, L!Relocate
    PROVE  LoadInv'
<1> DEFINE o == elf.rel[k].offset
           word == L!Value(elf.rel[k])
           known == elf.rel[k].type \in {"JUMP_SLOT", "RELATIVE"}
<1>0. /\ Given /\ L!WellLaid /\ PhaseInv /\ FramesInv /\ ContentsInv /\ UNCHANGED <<elf, base, map>>
      /\ loading = "fixup" /\ ph' = ph /\ k' = k + 1 /\ k <= L!Entries
  BY DEF LoadInv, L!Relocate
<1>1. k \in 1..L!Entries /\ k \in Nat /\ L!Entries \in Nat
  BY <1>0 DEF PhaseInv, Given, Image, L!Entries
<1>2. PICK n \in L!Loads : o \in L!Segment(n)
  BY <1>0, <1>1 DEF L!WellLaid
<1>3. /\ ph = Len(elf.phdr) + 1 /\ Upto = k
      /\ Copying(n) /\ map[Pg(o)] # NONE /\ L!FrameOf(base + o) = map[Pg(o)]
  <2>1. ph = Len(elf.phdr) + 1 /\ Upto = k
    BY <1>0 DEF PhaseInv, Upto
  <2> QED
    BY <1>0, <1>2, <2>1, AllWritten
<1>4. /\ loading' = loading
      /\ IF known THEN L!Accessed(base + o) /\ L!Store(base + o, word) ELSE UNCHANGED <<tlb, mem>>
  <2>1. L!Finds(L!EntryAt(k), L!FileWord(elf.jmprel + k - 1))
    <3>1. elf.jmprel + k - 1 \in L!Read /\ L!EntryAt(k) = base + (elf.jmprel + k - 1)
      BY <1>0, <1>1, TablesAre
    <3> DEFINE e == elf.jmprel + k - 1
    <3> HIDE DEF e
    <3>2. e \in L!Read /\ L!EntryAt(k) = base + e
      BY <3>1 DEF e
    <3>3. L!Finds(base + e, L!FileWord(e))
      BY <1>3, <3>2, ReadIsThere
    <3> QED
      BY <3>2, <3>3 DEF e
  <2>2. L!FrameOf(base + o) # NONE
    BY <1>3
  <2>3. ASSUME elf.rel[k].type = "JUMP_SLOT"
        PROVE  L!IsSymbol(elf.rel[k].sym) /\ L!IsString(elf.rel[k].name)
    <3>1. k \in L!JumpSlots
      BY <1>1, <2>3 DEF L!JumpSlots
    <3>2. /\ elf.strtab # NONE /\ elf.symtab # NONE
          /\ elf.symtab + elf.rel[k].sym \in L!Read /\ elf.strtab + elf.rel[k].name \in L!Read
          /\ L!SymbolAt(elf.rel[k].sym) = base + (elf.symtab + elf.rel[k].sym)
          /\ L!StringAt(elf.rel[k].name) = base + (elf.strtab + elf.rel[k].name)
      BY <1>0, <3>1, TablesAre
    <3>3. L!Finds(base + (elf.symtab + elf.rel[k].sym), L!FileWord(elf.symtab + elf.rel[k].sym))
      BY <1>3, <3>2, ReadIsThere
    <3>4. L!Finds(base + (elf.strtab + elf.rel[k].name), L!FileWord(elf.strtab + elf.rel[k].name))
      BY <1>3, <3>2, ReadIsThere
    <3> QED
      BY <3>2, <3>3, <3>4 DEF L!IsSymbol, L!IsString
  <2> QED
    BY <2>1, <2>2, <2>3 DEF L!Relocate
<1>5. word \in Words
  BY <1>1 DEF Words
<1>6. \A c : Patches(c, k + 1) = IF o = c /\ known THEN {k} ELSE Patches(c, k)
  BY <1>0, <1>1, PatchesNext
<1>7. \A c : Wanted(c, k + 1) = IF o = c /\ known THEN word ELSE Wanted(c, k)
  <2> SUFFICES ASSUME NEW c PROVE Wanted(c, k + 1) = IF o = c /\ known THEN word ELSE Wanted(c, k)
    OBVIOUS
  <2>1. CASE o = c /\ known
    <3>1. Patches(c, k + 1) = {k}
      BY <1>6, <2>1
    <3>2. Choice({k}) = k
      BY DEF Choice
    <3> QED
      BY <2>1, <3>1, <3>2 DEF Wanted
  <2>2. CASE ~(o = c /\ known)
    <3>1. Patches(c, k + 1) = Patches(c, k)
      BY <1>6, <2>2
    <3> HIDE DEF o, known, word
    <3> QED
      BY <2>2, <3>1 DEF Wanted
  <2> QED
    BY <2>1, <2>2
<1> HIDE DEF o, word, known
<1>8. PhaseInv'
  BY <1>0, <1>1, <1>4 DEF PhaseInv
<1>9. \A m \in L!Loads : Copying(m)' <=> Copying(m)
  BY <1>0, <1>4 DEF Copying
<1>10. /\ FramesInv'
       /\ \A m \in L!Loads : \A c \in L!Segment(m) :
             mem'[map[Pg(c)]][Cell(c)] = IF o = c /\ known THEN word ELSE Held(c)
  <2>1. CASE known
    <3>1. /\ FramesInv'
          /\ \A m \in L!Loads : \A c \in L!Segment(m) : map[Pg(c)] # NONE =>
                mem'[map[Pg(c)]][Cell(c)] = IF c = o THEN word ELSE Held(c)
      BY <1>0, <1>2, <1>3, <1>4, <1>5, <1>9, <2>1, StoreHeld
    <3>2. \A m \in L!Loads : \A c \in L!Segment(m) : map[Pg(c)] # NONE
      BY <1>3, AllWritten
    <3> QED
      BY <2>1, <3>1, <3>2
  <2>2. CASE ~known
    <3>1. /\ L!Loads' = L!Loads /\ FrameType' = FrameType
          /\ \A m : L!PagesOf(L!Segment(m))' = L!PagesOf(L!Segment(m))
      BY <1>0, StaticSame
    <3>2. UNCHANGED <<tlb, mem>>
      BY <1>4, <2>2
    <3>3. FramesInv'
      BY <1>0, <1>9, <3>1, <3>2 DEF FramesInv
    <3> QED
      BY <2>2, <3>2, <3>3 DEF Held
  <2> QED
    BY <2>1, <2>2
<1>11. ContentsInv'
  <2>1. /\ L!Loads' = L!Loads /\ \A m : L!Segment(m)' = L!Segment(m)
        /\ \A c : Pg(c)' = Pg(c) /\ Cell(c)' = Cell(c)
        /\ \A c, u : Wanted(c, u)' = Wanted(c, u)
    BY <1>0, StaticSame
  <2>2. Upto' = k + 1
    BY <1>0, <1>4 DEF Upto
  <2>3. ASSUME NEW m \in L!Loads, NEW c \in L!Segment(m)
        PROVE  map[Pg(c)] # NONE /\ mem'[map[Pg(c)]][Cell(c)] = Wanted(c, k + 1)
    <3>1. map[Pg(c)] # NONE /\ Held(c) = Wanted(c, k)
      BY <1>3, AllWritten
    <3> QED
      BY <1>7, <1>10, <3>1
  <2> QED
    BY <1>0, <2>1, <2>2, <2>3 DEF ContentsInv, Held
<1> QED
  BY <1>0, <1>8, <1>10, <1>11, StaticSame DEF LoadInv

\* The stack's page is none of the image's.
LEMMA EnterStep ==
    ASSUME LoadInv, stack' = stack, L!Enter, loading' # "null"
    PROVE  LoadInv'
<1> DEFINE p == (stack \div PageSize) - 1
<1>0. /\ Given /\ L!WellLaid /\ PhaseInv /\ FramesInv /\ ContentsInv /\ UNCHANGED <<elf, base, tlb>>
      /\ loading = "fixup" /\ loading' = "done" /\ ph' = ph /\ k' = k /\ k > L!Entries
  BY DEF LoadInv, L!Enter
<1>1. (stack - PageSize) % PageSize = 0 /\ (stack - PageSize) \div PageSize = p
  <2>1. PageSize \in Nat \ {0} /\ stack \in Int /\ stack % PageSize = 0
    BY <1>0, AddressAssumption DEF Given, L!WellLaid
  <2> QED
    BY <2>1, PageBefore
<1> HIDE DEF p
<1>2. /\ mem' = Append(mem, [c \in 0..PageSize - 1 |-> L!Junk])
      /\ map' = [map EXCEPT ![p] = Len(mem) + 1]
  <2>1. p \notin PinionPage
    BY <1>0 DEF L!WellLaid, p
  <2> QED
    BY <1>1, <2>1 DEF L!Enter, L!MapFresh, L!IsPinion
<1>3. \A n \in L!Loads : p \notin L!PagesOf(L!Segment(n))
  BY <1>0 DEF L!WellLaid, p
<1>4. \A n \in L!Loads : Copying(n)' <=> Copying(n)
  BY <1>0 DEF Copying
<1>5. /\ FramesInv'
      /\ p \in Page => map'[p] # NONE
      /\ \A q \in Page : map[q] # NONE => map'[q] # NONE
      /\ \A q \in Page : q # p /\ map[q] # NONE =>
            map'[q] = map[q] /\ mem'[map[q]] = mem[map[q]]
  BY <1>0, <1>2, <1>3, <1>4, FreshFrame
<1>6. ContentsInv'
  <2>1. ASSUME NEW n \in L!Loads, NEW a \in L!Segment(n)
        PROVE  /\ Reached(n, a)' => map'[Pg(a)] # NONE
               /\ Written(n, a)' => /\ Written(n, a)
                                    /\ map'[Pg(a)] = map[Pg(a)]
                                    /\ mem'[map[Pg(a)]] = mem[map[Pg(a)]]
    <3>1. Written(n, a) /\ Pg(a) \in Page /\ map[Pg(a)] # NONE
      <4>1. ph = Len(elf.phdr) + 1
        BY <1>0 DEF PhaseInv
      <4> QED
        BY <4>1, AllWritten
    <3>2. Pg(a) # p
      BY <1>0, SegmentPages DEF p
    <3> QED
      BY <1>5, <3>1, <3>2
  <2>2. Upto' = Upto
    BY <1>0 DEF Upto
  <2> QED
    BY <1>0, <2>1, <2>2, ContentsSame
<1>7. PhaseInv'
  <2>1. L!Entries' = L!Entries
    BY <1>0, StaticSame
  <2> QED
    BY <1>0, <2>1 DEF PhaseInv
<1> QED
  BY <1>0, <1>5, <1>6, <1>7, StaticSame DEF LoadInv

\* A translation lost is looked up again.
LEMMA EvictStep ==
    ASSUME LoadInv, stack' = stack, L!Evict
    PROVE  LoadInv'
<1>0. /\ Given /\ PhaseInv /\ FramesInv /\ ContentsInv
      /\ UNCHANGED <<elf, base, map, mem, ph, k, loading>>
  BY DEF LoadInv, L!Evict
<1>1. PICK p \in Page : tlb' = [tlb EXCEPT ![p] = NONE]
  BY DEF L!Evict
<1>2. /\ L!Loads' = L!Loads /\ FrameType' = FrameType /\ L!Entries' = L!Entries
      /\ \A n : L!PagesOf(L!Segment(n))' = L!PagesOf(L!Segment(n))
  BY <1>0, StaticSame
<1>3. \A n : Copying(n)' <=> Copying(n)
  BY <1>0 DEF Copying
<1>4. FramesInv'
  <2>1. DOMAIN tlb' = Page /\ \A q \in Page : tlb'[q] # NONE => tlb[q] # NONE /\ tlb'[q] = tlb[q]
    BY <1>0, <1>1 DEF FramesInv
  <2> QED
    BY <1>0, <1>2, <1>3, <2>1 DEF FramesInv
<1>5. PhaseInv'
  BY <1>0, <1>2 DEF PhaseInv
<1>6. ContentsInv'
  <2>1. Upto' = Upto
    BY <1>0 DEF Upto
  <2>2. ASSUME NEW n \in L!Loads, NEW a \in L!Segment(n)
        PROVE  /\ Reached(n, a)' => map'[Pg(a)] # NONE
               /\ Written(n, a)' => /\ Written(n, a)
                                    /\ map'[Pg(a)] = map[Pg(a)]
                                    /\ mem'[map[Pg(a)]] = mem[map[Pg(a)]]
    <3>1. Vaddr(n)' = Vaddr(n)
      BY <1>0, StaticSame
    <3>2. (Reached(n, a)' <=> Reached(n, a)) /\ (Written(n, a)' <=> Written(n, a))
      BY <1>0, <1>3, <3>1 DEF Reached, Written
    <3>3. Reached(n, a) => map[Pg(a)] # NONE
      BY <1>0 DEF ContentsInv
    <3> QED
      BY <1>0, <3>2, <3>3
  <2> QED
    BY <1>0, <2>1, <2>2, ContentsSame
<1> QED
  BY <1>0, <1>4, <1>5, <1>6, StaticSame DEF LoadInv

LEMMA LoadStep ==
    ASSUME LoadInv, stack' = stack, L!load_kernel \/ L!Evict, loading' # "null"
    PROVE  LoadInv'
BY HeaderStep, MapStep, FillStep, FixupStep, RelocateStep, EnterStep, EvictStep
   DEF L!load_kernel

-----------------------------------------------------------------------------
(* Loading: the theorems.                                                  *)

\* load_kernel starts with nothing mapped.
LEMMA LoadStart ==
    ASSUME Given', map' = [p \in Page |-> NONE], tlb' = [p \in Page |-> NONE], mem' = << >>,
           ph' = 1, k' = 0, loading' = "header", L!WellLaid'
    PROVE  LoadInv'
<1>1. Len(elf'.phdr) \in Nat
  BY DEF Given, Image
<1>2. PhaseInv'
  BY <1>1 DEF PhaseInv
<1>3. FramesInv'
  BY DEF FramesInv
<1>4. ASSUME NEW n \in L!Loads', NEW a PROVE ~Reached(n, a)' /\ ~Written(n, a)'
  <2>1. n \in 1..Len(elf'.phdr)
    BY DEF Given, Image, L!Loads
  <2> QED
    BY <1>1, <2>1 DEF Reached, Written, Copying
<1>5. ContentsInv'
  BY <1>4 DEF ContentsInv
<1> QED
  BY <1>2, <1>3, <1>5 DEF LoadInv

LEMMA LoaderInit == Init => LoaderInv
BY DEF Init, L!Init, LoaderInv

\* The lookups read the items, and the steps that change these are over.
LEMMA LookupSame ==
    ASSUME UNCHANGED <<pconf, item>>, NEW s, NEW p
    PROVE  UNCHANGED <<C!config_read(s, p), C!Found(s, p), C!NullRead(s, p)>>
<1>1. UNCHANGED C!Found(s, p)
  BY SMTT(30) DEF C!Found, C!CString, C!Offset
<1>2. UNCHANGED C!config_read(s, p)
  BY <1>1 DEF C!config_read
<1> QED
  BY <1>1, <1>2 DEF C!NullRead

LEMMA StackSame ==
    ASSUME UNCHANGED <<pconf, item>>
    PROVE  stack' = stack
<1>1. UNCHANGED C!config_read(<<"loader">>, <<"stack">>)
  BY LookupSame
<1>2. ASSUME NEW p PROVE UNCHANGED C!AsNumber(C!CString(p), DefaultStack, Bits)
  BY SMTT(30) DEF C!AsNumber, C!Shifted, C!CString, C!Offset
<1> QED
  BY <1>1, <1>2, Zenon DEF stack, Pointer, C!config_read_as_ptr

LEMMA LoaderFindKernel ==
    ASSUME CursorInv, ObjectInv, ItemInv, LoaderInv, FindKernel
    PROVE  LoaderInv'
<1>1. stage = "kernel" /\ UNCHANGED <<mods, list, pconf, item>>
  BY DEF FindKernel, O!FindKernel, configVars
<1>2. loading = "idle"
  BY <1>1 DEF LoaderInv
<1>3. CASE stage' # "done"
  <2>1. UNCHANGED loaderVars
    BY <1>3 DEF FindKernel
  <2> QED
    BY <1>2, <2>1 DEF LoaderInv, loaderVars
<1>4. CASE stage' = "done"
  <2>1. PICK m \in O!Contents(kernel' - High) : L!StartLoad(m.elf, Pointer("base", DefaultBase))
    BY <1>4 DEF FindKernel
  <2>2. O!IsElf(kernel' - High)
    BY <1>4 DEF FindKernel, O!FindKernel
  <2>3. Image(m.elf)
    <3>1. PICK x \in DOMAIN mods : m = mods[x] /\ mods[x].start = kernel' - High
      BY <2>1 DEF O!Contents
    <3>2. PICK y \in DOMAIN mods : mods[y].kind \in {"elf64", "elf32"} /\ mods[y].start = kernel' - High
      BY <2>2 DEF O!IsElf, O!Contents
    <3>3. x = y
      BY <3>1, <3>2, ModulesFacts
    <3>4. ModuleList(mods)
      BY ModulesAssumption DEF CursorInv
    <3> QED
      BY <3>1, <3>2, <3>3, <3>4 DEF ModuleList
  <2>4. Pointer("base", DefaultBase) \in Nat /\ stack \in Nat
    BY PointerIs, AddressAssumption DEF stack
  <2>5. stack' = stack
    BY <1>1, StackSame
  <2>6. /\ elf' = m.elf /\ base' = Pointer("base", DefaultBase)
        /\ loading' \in {"null", "header"}
        /\ UNCHANGED <<map, tlb, mem, ph, k>>
    BY <2>1 DEF L!StartLoad
  <2>7. Given'
    BY <2>3, <2>4, <2>5, <2>6 DEF Given, Image
  <2>8. L!WellLaid' /\ loading' # "null" => LoadInv'
    BY <1>2, <2>6, <2>7, LoadStart DEF LoaderInv
  <2> QED
    BY <1>4, <2>6, <2>7, <2>8 DEF LoaderInv
<1> QED
  BY <1>3, <1>4

LEMMA LoaderStep == CursorInv /\ ObjectInv /\ ItemInv /\ LoaderInv /\ [Next]_vars => LoaderInv'
<1> SUFFICES ASSUME CursorInv, ObjectInv, ItemInv, LoaderInv, [Next]_vars PROVE LoaderInv'
  OBVIOUS
<1>1. CASE FindKernel
  BY <1>1, LoaderFindKernel
<1>2. CASE (Load \/ Evict) /\ loading = "idle"
  <2>1. CASE Load
    BY <1>2, <2>1 DEF Load, L!load_kernel, L!SkipHeader, L!StartHeader, L!MapPage, L!CopyWord,
       L!ClearWord, L!EndHeader, L!StartFixup, L!Relocate, L!Enter
  <2>2. CASE Evict
    BY <1>2, <2>2 DEF Evict, L!Evict, LoaderInv
  <2> QED
    BY <1>2, <2>1, <2>2
<1>3. CASE (Load \/ Evict) /\ loading # "idle"
  <2>1. /\ Given /\ stage' = stage /\ stage = "done" /\ (L!WellLaid /\ loading # "null" => LoadInv)
        /\ UNCHANGED <<pconf, item>> /\ (L!load_kernel \/ L!Evict)
    BY <1>3 DEF LoaderInv, Load, Evict, objectVars, configVars
  <2>2. /\ UNCHANGED <<elf, base>> /\ loading' # "idle"
        /\ loading = "null" => loading' = "null"
    BY <1>3, <2>1 DEF L!load_kernel, L!SkipHeader, L!StartHeader, L!MapPage, L!CopyWord,
       L!ClearWord, L!EndHeader, L!StartFixup, L!Relocate, L!Enter, L!Evict, L!Astray, L!Misread
  <2>3. stack' = stack
    BY <2>1, StackSame
  <2>4. (Given' <=> Given) /\ (L!WellLaid' <=> L!WellLaid)
    BY <2>2, <2>3, StaticSame
  <2>5. LoadInv /\ loading' # "null" => LoadInv'
    BY <2>1, <2>3, LoadStep
  <2> QED
    BY <2>1, <2>2, <2>4, <2>5 DEF LoaderInv
\* The rest comes before load_kernel goes on.
<1>4. CASE Unfold \/ FindConfig \/ Parse
  <2>1. UNCHANGED loaderVars
    BY <1>4 DEF Unfold, FindConfig, Parse
  <2>2. loading = "idle"
    <3>1. stage # "done"
      <4>1. CASE Unfold
        BY <4>1 DEF Unfold, O!unfold, O!AddObject, O!ListOverrun, O!init_object_list,
           O!load_pinion, O!Relocate
      <4>2. CASE FindConfig
        BY <4>2 DEF FindConfig, O!FindConfig
      <4>3. CASE Parse
        <5>1. ~Resting
          BY <4>3 DEF Parse, C!config_parse, C!LineComment, C!LineEmpty, C!LineEnd, C!LineItem,
             C!Comment, C!SkipBlank, C!EndBefore, C!StartField, C!SkipField, C!EndWithin,
             C!CutField, C!Goto, C!Before, C!Within, C!Field, Resting
        <5> QED
          BY <5>1 DEF ObjectInv, FileInv
      <4> QED
        BY <1>4, <4>1, <4>2, <4>3
    <3> QED
      BY <3>1 DEF LoaderInv
  <2> QED
    BY <2>1, <2>2 DEF LoaderInv, loaderVars
<1>5. CASE UNCHANGED vars
  <2>1. stack' = stack
    BY <1>5, StackSame DEF vars, configVars
  <2>2. UNCHANGED <<elf, base, map, tlb, mem, ph, k, loading, stage>>
    BY <1>5 DEF vars, objectVars, loaderVars
  <2>3. (Given' <=> Given) /\ (L!WellLaid' <=> L!WellLaid)
    BY <2>1, <2>2, StaticSame
  <2>4. ASSUME LoadInv PROVE LoadInv'
    <3>1. PhaseInv'
      <4>1. L!Entries' = L!Entries
        BY <2>1, <2>2, StaticSame
      <4> QED
        BY <2>2, <2>4, <4>1 DEF LoadInv, PhaseInv
    <3>2. \A n : Vaddr(n)' = Vaddr(n)
      BY <2>1, <2>2, StaticSame
    <3> QED
      BY <2>1, <2>2, <2>4, <3>1, <3>2, Quiet DEF Upto, Copying, Reached, Written
  <2> QED
    BY <2>2, <2>3, <2>4 DEF LoaderInv
<1> QED
  BY <1>1, <1>2, <1>3, <1>4, <1>5 DEF Next, Code

LEMMA BootInv == Spec => [](CursorInv /\ ObjectInv /\ ItemInv /\ LoaderInv)
<1> DEFINE Inv == CursorInv /\ ObjectInv /\ ItemInv /\ LoaderInv
<1>1. Init => Inv
  BY CursorInit, ObjectInit, ItemInit, LoaderInit
<1>2. Inv /\ [Next]_vars => Inv'
  BY CursorStep, ObjectStep, ItemStep, LoaderStep
<1> QED
  BY <1>1, <1>2, PTL DEF Spec

\* Loading a well-laid image, whatever its segments, relocations and number of pages,
\* takes no page fault, writes to no memory of pinion's, and reads no relocation,
\* symbol or name from memory that was lost (load.c:188-333).
THEOREM ImagesLoadSafely == Spec => []LoadsSafely
<1>1. LoaderInv => LoadsSafely
  BY DEF LoaderInv, LoadInv, PhaseInv, LoadsSafely, L!LoadsSafely
<1> QED
  BY <1>1, BootInv, PTL

\* When the kernel starts, each word of a well-laid image is what the linker meant,
\* in the frame that is mapped and in the one the TLB may still name
\* (load.c:305-333).
THEOREM ImagesAsLinked == Spec => []ImageAsLinked
<1>1. LoaderInv => ImageAsLinked
  <2> SUFFICES ASSUME LoaderInv, loading = "done", L!WellLaid,
                      NEW n \in L!Loads, NEW a \in L!Segment(n),
                      NEW f \in {map[(base + a) \div PageSize], tlb[(base + a) \div PageSize]} \ {NONE}
               PROVE  mem[f][(base + a) % PageSize] = L!Linked(a)
    BY DEF ImageAsLinked, L!ImageAsLinked
  <2>1. LoadInv
    BY DEF LoaderInv
  <2>2. Pg(a) \in Page /\ Held(a) = Wanted(a, k)
    <3>1. ph = Len(elf.phdr) + 1 /\ Upto = k
      BY <2>1 DEF LoadInv, PhaseInv, Upto
    <3> QED
      BY <2>1, <3>1, AllWritten
  <2>3. f = map[Pg(a)]
    BY <2>1, <2>2 DEF LoadInv, FramesInv, Pg
  <2>4. Wanted(a, k) = L!Linked(a)
    <3> DEFINE S == {x \in 1..L!Entries : elf.rel[x].offset = a
                                          /\ elf.rel[x].type \in {"JUMP_SLOT", "RELATIVE"}}
    <3>1. k \in Nat /\ k > L!Entries /\ L!Entries \in Nat
      BY <2>1 DEF LoadInv, PhaseInv, Given, Image, L!Entries
    <3>2. Patches(a, k) = S
      <4>1. \A x \in 1..L!Entries : x < k
        BY <3>1
      <4> QED
        BY <4>1 DEF Patches
    <3>3. L!Linked(a) = IF S # {} THEN L!Value(elf.rel[CHOOSE x \in S : TRUE])
                        ELSE IF a \in L!Filled THEN L!FileWord(a) ELSE L!Number(0)
      BY DEF L!Linked
    <3> HIDE DEF S
    <3> QED
      BY <3>2, <3>3 DEF Wanted, Choice
  <2> QED
    BY <2>2, <2>3, <2>4 DEF Held, Cell
<1> QED
  BY <1>1, BootInv, PTL

-----------------------------------------------------------------------------
(* What a text means: its lines, and their words.                          *)

\* A text: its last character, and no other, is a NUL.
Text(t, top) ==
    /\ top \in Nat /\ DOMAIN t = 0..top
    /\ t[top] = "NUL" /\ \A x \in 0..top - 1 : t[x] # "NUL"

\* Config's lines and words, of any text.
Starts(t, l) ==
    {n \in l[1] + 1..l[2] - 1 : t[n] \notin C!Blank /\ (n = l[1] + 1 \/ t[n - 1] \in C!Blank)}
Newlines(t, top) == {n \in 0..top : t[n] = "NL"}
Lines(t, top) ==
    {l \in (({-1} \cup Newlines(t, top)) \X Newlines(t, top)) :
        /\ l[1] + 1 < l[2] /\ t[l[1] + 1] # "#"
        /\ \A n \in Newlines(t, top) : n <= l[1] \/ l[2] <= n}
Complete(t, top) ==
    /\ top # 0 => t[top - 1] = "NL"
    /\ \A l \in Lines(t, top) : Cardinality(Starts(t, l)) >= 3

LEMMA LineIs ==
    ASSUME NEW t, NEW top, Text(t, top), NEW l \in Lines(t, top)
    PROVE  /\ l = <<l[1], l[2]>> /\ l[1] \in Int /\ l[2] \in Int
           /\ l[1] >= -1 /\ l[1] + 1 < l[2] /\ l[2] < top
           /\ t[l[2]] = "NL" /\ t[l[1] + 1] # "#"
           /\ l[1] # -1 => l[1] \in 0..top /\ t[l[1]] = "NL"
           /\ \A n \in 0..top : t[n] = "NL" => n <= l[1] \/ l[2] <= n
<1>1. /\ l \in (({-1} \cup Newlines(t, top)) \X Newlines(t, top))
      /\ l[1] + 1 < l[2] /\ t[l[1] + 1] # "#"
      /\ \A n \in Newlines(t, top) : n <= l[1] \/ l[2] <= n
  BY DEF Lines
<1>2. l = <<l[1], l[2]>> /\ l[1] \in {-1} \cup Newlines(t, top) /\ l[2] \in Newlines(t, top)
  BY <1>1
<1>3. top \in Nat /\ l[2] # top
  BY <1>2 DEF Text, Newlines
<1>4. \A n \in 0..top : t[n] = "NL" => n \in Newlines(t, top)
  BY DEF Newlines
<1>5. /\ l[2] \in 0..top /\ t[l[2]] = "NL"
      /\ l[1] = -1 \/ (l[1] \in 0..top /\ t[l[1]] = "NL")
  BY <1>2 DEF Newlines
<1> QED
  BY <1>1, <1>2, <1>3, <1>4, <1>5

\* A line's words lie in it.
LEMMA StartIs ==
    ASSUME NEW t, NEW top, Text(t, top), NEW l \in Lines(t, top)
    PROVE  /\ \A x \in Starts(t, l) : x \in Nat /\ l[1] < x /\ x < l[2]
           /\ \A x \in Starts(t, l) : t[x] \notin C!Blank
           /\ \A x \in Starts(t, l) : x = l[1] + 1 \/ t[x - 1] \in C!Blank
           /\ \A x \in Int : /\ l[1] < x /\ x < l[2] /\ t[x] \notin C!Blank
                             /\ x = l[1] + 1 \/ t[x - 1] \in C!Blank
                             => x \in Starts(t, l)
<1>1. l[1] \in Int /\ l[2] \in Int /\ l[1] >= -1
  BY LineIs
<1> QED
  BY <1>1 DEF Starts

\* Lines do not overlap.
LEMMA LinesApart ==
    ASSUME NEW t, NEW top, Text(t, top), NEW l \in Lines(t, top), NEW m \in Lines(t, top)
    PROVE  /\ l[1] = m[1] => l = m
           /\ l[2] = m[2] => l = m
           /\ l[1] < m[1] => l[2] <= m[1]
           /\ l[2] < m[2] => l[2] <= m[1] /\ l[1] < m[1]
<1>1. /\ l = <<l[1], l[2]>> /\ m = <<m[1], m[2]>>
      /\ l[1] \in Int /\ l[2] \in Int /\ m[1] \in Int /\ m[2] \in Int
      /\ l[1] >= -1 /\ m[1] >= -1 /\ l[1] < l[2] /\ m[1] < m[2]
  BY LineIs
<1>2. /\ l[1] # -1 => l[1] <= m[1] \/ m[2] <= l[1]
      /\ m[1] # -1 => m[1] <= l[1] \/ l[2] <= m[1]
      /\ l[2] <= m[1] \/ m[2] <= l[2]
      /\ m[2] <= l[1] \/ l[2] <= m[2]
  <2>1. /\ l[1] # -1 => l[1] \in 0..top /\ t[l[1]] = "NL"
        /\ m[1] # -1 => m[1] \in 0..top /\ t[m[1]] = "NL"
        /\ l[2] \in 0..top /\ t[l[2]] = "NL" /\ m[2] \in 0..top /\ t[m[2]] = "NL"
    <3>1. /\ l[1] # -1 => l[1] \in 0..top /\ t[l[1]] = "NL"
          /\ t[l[2]] = "NL" /\ l[2] < top
      BY LineIs
    <3>2. /\ m[1] # -1 => m[1] \in 0..top /\ t[m[1]] = "NL"
          /\ t[m[2]] = "NL" /\ m[2] < top
      BY LineIs
    <3>3. top \in Int
      BY DEF Text
    <3>4. l[2] \in 0..top /\ m[2] \in 0..top
      BY <1>1, <3>1, <3>2, <3>3
    <3> QED
      BY <3>1, <3>2, <3>4
  <2>2. /\ \A n \in 0..top : t[n] = "NL" => n <= l[1] \/ l[2] <= n
        /\ \A n \in 0..top : t[n] = "NL" => n <= m[1] \/ m[2] <= n
    BY LineIs
  <2> QED
    BY <2>1, <2>2
<1>3. l[1] = m[1] => l[2] = m[2]
  BY <1>1, <1>2
<1>4. l[2] = m[2] => l[1] = m[1]
  BY <1>1, <1>2
<1>5. l[1] < m[1] => l[2] <= m[1]
  BY <1>1, <1>2
<1>6. l[2] < m[2] => l[2] <= m[1]
  BY <1>1, <1>2
<1> QED
  BY <1>1, <1>3, <1>4, <1>5, <1>6

\* A line has three words.
LEMMA FewWords ==
    ASSUME NEW t, NEW top, Complete(t, top), NEW l \in Lines(t, top), NEW a, NEW b
    PROVE  ~(Starts(t, l) \subseteq {a, b})
<1> SUFFICES ASSUME Starts(t, l) \subseteq {a, b} PROVE FALSE
  OBVIOUS
<1>1. IsFiniteSet({a}) /\ Cardinality({a}) = 1
  BY FS_Singleton
<1>2. {a, b} = {a} \cup {b}
  OBVIOUS
<1>3. IsFiniteSet({a, b}) /\ Cardinality({a, b}) <= 2
  BY <1>1, <1>2, FS_AddElement
<1>4. Starts(t, l) \in SUBSET {a, b}
  OBVIOUS
<1>5. IsFiniteSet(Starts(t, l)) /\ Cardinality(Starts(t, l)) <= Cardinality({a, b})
  BY <1>3, <1>4, FS_Subset
<1>6. Cardinality(Starts(t, l)) \in Nat /\ Cardinality({a, b}) \in Nat
  BY <1>3, <1>5, FS_CardinalityType
<1>7. Cardinality(Starts(t, l)) >= 3
  BY DEF Complete
<1> QED
  BY <1>3, <1>5, <1>6, <1>7

\* Where a text of complete lines goes on, there is a newline.
LEMMA NextNewline ==
    ASSUME NEW t, NEW top, Text(t, top), Complete(t, top), NEW s \in 0..top, s # top
    PROVE  \E e \in 0..top : s <= e /\ t[e] = "NL" /\ \A x \in s..e - 1 : t[x] # "NL"
<1> DEFINE S == {x \in Nat : s <= x /\ x <= top /\ t[x] = "NL"}
<1>0. top \in Nat /\ s \in Nat
  BY DEF Text
<1>1. t[top - 1] = "NL" /\ top - 1 \in Nat /\ s <= top - 1
  BY <1>0 DEF Complete
<1>2. S \in SUBSET Nat /\ top - 1 \in S
  BY <1>0, <1>1
<1>3. PICK e \in S : \A x \in S : e <= x
  <2> HIDE DEF S
  <2> QED
    BY <1>2, SmallestIs
<1>4. ASSUME NEW x \in s..e - 1 PROVE t[x] # "NL"
  <2>1. x \in Nat /\ s <= x /\ ~(e <= x) /\ x <= top
    BY <1>0, <1>3
  <2>2. x \notin S
    <3> HIDE DEF S
    <3> QED
      BY <1>3, <2>1
  <2> QED
    BY <2>1, <2>2
<1>5. e \in 0..top /\ s <= e /\ t[e] = "NL"
  BY <1>0, <1>3
<1> QED
  BY <1>4, <1>5

\* The offset of a line's first character, be it a comment or empty.
Begins(t, top, s) == s \in 0..top /\ (s = 0 \/ t[s - 1] = "NL")

\* Up to the next newline there is one line, if it is neither.
LEMMA LineFrom ==
    ASSUME NEW t, NEW top, Text(t, top), NEW s, Begins(t, top, s), NEW e \in 0..top,
           s <= e, t[e] = "NL", \A x \in s..e - 1 : t[x] # "NL"
    PROVE  /\ s < e /\ t[s] # "#" => <<s - 1, e>> \in Lines(t, top)
           /\ s = e \/ t[s] = "#" =>
                 \A l \in Lines(t, top) : l[2] < s <=> l[2] < e + 1
           /\ e + 1 \in 0..top /\ Begins(t, top, e + 1)
<1>0. top \in Nat /\ s \in Nat /\ e \in Nat /\ s <= top /\ e <= top /\ (s = 0 \/ t[s - 1] = "NL")
  BY DEF Text, Begins
<1>1. \A n \in Newlines(t, top) : n <= s - 1 \/ e <= n
  BY <1>0 DEF Newlines
<1>2. ASSUME s < e, t[s] # "#" PROVE <<s - 1, e>> \in Lines(t, top)
  <2> DEFINE l == <<s - 1, e>>
  <2>1. l[1] = s - 1 /\ l[2] = e /\ (s - 1) + 1 = s
    BY <1>0
  <2>2. s - 1 \in {-1} \cup Newlines(t, top) /\ e \in Newlines(t, top)
    BY <1>0 DEF Newlines
  <2>3. l \in ({-1} \cup Newlines(t, top)) \X Newlines(t, top)
    BY <2>2
  <2> HIDE DEF l
  <2>4. l \in Lines(t, top)
    BY <1>1, <1>2, <2>1, <2>3 DEF Lines
  <2> QED
    BY <2>4 DEF l
<1>3. ASSUME s = e \/ t[s] = "#", NEW l \in Lines(t, top)
      PROVE  l[2] < s <=> l[2] < e + 1
  <2>1. /\ l[1] \in Int /\ l[2] \in Int
        /\ l[1] >= -1 /\ l[1] + 1 < l[2] /\ l[2] < top
        /\ t[l[2]] = "NL" /\ t[l[1] + 1] # "#"
        /\ l[1] # -1 => l[1] \in 0..top /\ t[l[1]] = "NL"
        /\ \A n \in 0..top : t[n] = "NL" => n <= l[1] \/ l[2] <= n
    BY LineIs
  <2>2. l[2] < s => l[2] < e + 1
    BY <1>0, <2>1
  <2> SUFFICES ASSUME l[2] < e + 1, s <= l[2] PROVE FALSE
    BY <1>0, <2>1, <2>2
  <2>3. l[2] = e
    <3>1. l[2] \in s..e - 1 \/ l[2] = e
      BY <1>0, <2>1
    <3> QED
      BY <2>1, <3>1
  <2>4. l[1] < e /\ ~(l[1] \in s..e - 1)
    BY <1>0, <2>1, <2>3
  <2>5. l[1] < s
    BY <1>0, <2>1, <2>4
  <2>6. CASE s = 0
    BY <1>0, <1>3, <2>1, <2>3, <2>5, <2>6
  <2>7. CASE s # 0
    <3>1. s - 1 \in 0..top /\ t[s - 1] = "NL"
      BY <1>0, <2>7
    <3>2. s - 1 <= l[1] \/ l[2] <= s - 1
      BY <2>1, <3>1
    <3>3. l[1] + 1 = s
      BY <1>0, <2>1, <2>3, <2>5, <3>2
    <3> QED
      BY <1>0, <1>3, <2>1, <2>3, <3>3
  <2> QED
    BY <2>6, <2>7
<1>4. e + 1 \in 0..top /\ Begins(t, top, e + 1)
  <2>1. e # top
    BY DEF Text
  <2>2. e + 1 \in 0..top /\ (e + 1) - 1 = e
    BY <1>0, <2>1
  <2> QED
    BY <2>2 DEF Begins
<1> QED
  BY <1>2, <1>3, <1>4

-----------------------------------------------------------------------------
(* Fields, of text t as the parser has changed it to c up to the cursor p. *)

\* A field that was cut behind its last character, and the one in hand.
Closed(t, c, p, s, stop) ==
    \E e \in 0..p - 1 : /\ s <= e /\ t[e] \in stop /\ c[e] = "NUL"
                        /\ \A x \in s..e - 1 : t[x] \notin stop /\ c[x] = t[x]
Open(t, c, p, s, stop) == s <= p /\ \A x \in s..p - 1 : t[x] \notin stop /\ c[x] = t[x]

\* What is behind a cursor stays.
LEMMA ClosedKept ==
    ASSUME NEW t, NEW c, NEW d, NEW p \in Nat, NEW u \in Nat, p <= u,
           \A x \in 0..p - 1 : d[x] = c[x], NEW s \in Nat, NEW stop, Closed(t, c, p, s, stop)
    PROVE  Closed(t, d, u, s, stop)
<1>1. PICK e \in 0..p - 1 : /\ s <= e /\ t[e] \in stop /\ c[e] = "NUL"
                            /\ \A x \in s..e - 1 : t[x] \notin stop /\ c[x] = t[x]
  BY DEF Closed
<1>2. e \in 0..u - 1 /\ d[e] = "NUL"
  BY <1>1
<1>3. \A x \in s..e - 1 : x \in 0..p - 1
  BY <1>1
<1>4. \A x \in s..e - 1 : t[x] \notin stop /\ d[x] = t[x]
  BY <1>1, <1>3
<1> QED
  BY <1>1, <1>2, <1>4 DEF Closed

LEMMA OpenNext ==
    ASSUME NEW t, NEW c, NEW p \in Nat, NEW s \in Nat, NEW stop, Open(t, c, p, s, stop),
           t[p] \notin stop, c[p] = t[p]
    PROVE  Open(t, c, p + 1, s, stop)
<1>1. s <= p /\ \A x \in s..p - 1 : t[x] \notin stop /\ c[x] = t[x]
  BY DEF Open
<1>2. \A x \in s..(p + 1) - 1 : x \in s..p - 1 \/ x = p
  OBVIOUS
<1>3. s <= p + 1
  BY <1>1
<1> QED
  BY <1>1, <1>2, <1>3 DEF Open

LEMMA OpenCut ==
    ASSUME NEW t, NEW c, NEW d, NEW p \in Nat, NEW s \in Nat, NEW all, Open(t, c, p, s, all),
           NEW stop, stop \subseteq all, t[p] \in stop, d[p] = "NUL",
           \A x \in 0..p - 1 : d[x] = c[x]
    PROVE  Closed(t, d, p + 1, s, stop)
<1>1. s <= p /\ \A x \in s..p - 1 : t[x] \notin all /\ c[x] = t[x]
  BY DEF Open
<1>2. \A x \in s..p - 1 : x \in 0..p - 1
  OBVIOUS
<1>3. \A x \in s..p - 1 : t[x] \notin stop /\ d[x] = t[x]
  BY <1>1, <1>2
<1>4. p \in 0..(p + 1) - 1
  OBVIOUS
<1> QED
  BY <1>1, <1>3, <1>4 DEF Closed

\* a, b and v are the first three words of W.
First3(W, a, b, v) ==
    /\ a \in W /\ b \in W /\ v \in W /\ a < b /\ b < v
    /\ \A x \in W : x <= v => x = a \/ x = b \/ x = v

\* Item it is what line l means.
Row(t, c, p, l, it) ==
    /\ First3(Starts(t, l), it.section, it.property, it.value)
    /\ Closed(t, c, p, it.section, C!Blank) /\ Closed(t, c, p, it.property, C!Blank)
    /\ Closed(t, c, p, it.value, {"NL"})

LEMMA RowKept ==
    ASSUME NEW t, NEW top, Text(t, top), NEW l \in Lines(t, top),
           NEW c, NEW d, NEW p \in Nat, NEW u \in Nat, p <= u, \A x \in 0..p - 1 : d[x] = c[x],
           NEW it, Row(t, c, p, l, it)
    PROVE  Row(t, d, u, l, it)
<1>1. it.section \in Nat /\ it.property \in Nat /\ it.value \in Nat
  BY StartIs DEF Row, First3
<1> QED
  BY <1>1, ClosedKept DEF Row

\* The words before the cursor are those of S; it is behind a blank, or at the
\* start of the line.
Seen(W, p, S) == \A x \in W : x < p => x \in S
Gap(t, l, p)  == p = l[1] + 1 \/ t[p - 1] \in C!Blank

\* The fields of line l so far, in loop q.
Fields(q, t, c, p, l, it) ==
    /\ q = "to_section" => Seen(Starts(t, l), p, {}) /\ Gap(t, l, p)
    /\ q # "to_section" => it.section \in Starts(t, l)
    /\ q = "section" => /\ Seen(Starts(t, l), p, {it.section})
                        /\ Open(t, c, p, it.section, C!Stop("section"))
    /\ q \in {"to_property", "property", "to_value", "value"} =>
          Closed(t, c, p, it.section, C!Blank)
    /\ q = "to_property" => Seen(Starts(t, l), p, {it.section}) /\ Gap(t, l, p)
    /\ q \in {"property", "to_value"} =>
          /\ it.property \in Starts(t, l) /\ it.section < it.property
          /\ Seen(Starts(t, l), p, {it.section, it.property})
    /\ q = "property" => Open(t, c, p, it.property, C!Stop("property"))
    /\ q \in {"to_value", "value"} => Closed(t, c, p, it.property, C!Blank)
    /\ q = "to_value" => Gap(t, l, p)
    /\ q = "value" => /\ First3(Starts(t, l), it.section, it.property, it.value)
                      /\ Open(t, c, p, it.value, C!Stop("value"))

\* The cursor in line l, where the text is as it was.
Inside(t, top, c, p, l) ==
    /\ Text(t, top) /\ Complete(t, top) /\ l \in Lines(t, top)
    /\ p \in Nat /\ l[1] < p /\ p <= l[2] /\ c[p] = t[p]

LEMMA InsideIs ==
    ASSUME NEW t, NEW top, NEW c, NEW p, NEW l, Inside(t, top, c, p, l)
    PROVE  /\ l[1] \in Int /\ l[2] \in Nat /\ p \in 0..top /\ p # top /\ p + 1 \in 0..top
           /\ t[p] # "NUL"
           /\ t[p] = "NL" => p = l[2]
           /\ t[p] # "NL" => p < l[2] /\ l[1] < p + 1 /\ p + 1 <= l[2]
<1>1. /\ Text(t, top) /\ l \in Lines(t, top) /\ p \in Nat /\ l[1] < p /\ p <= l[2]
      /\ top \in Nat /\ \A x \in 0..top - 1 : t[x] # "NUL"
  BY DEF Inside, Text
<1>2. /\ l[1] \in Int /\ l[2] \in Int /\ l[1] >= -1 /\ l[1] + 1 < l[2] /\ l[2] < top
      /\ t[l[2]] = "NL" /\ \A n \in 0..top : t[n] = "NL" => n <= l[1] \/ l[2] <= n
  BY <1>1, LineIs
<1>3. l[2] \in Nat /\ p \in 0..top /\ p # top /\ p + 1 \in 0..top
  BY <1>1, <1>2
<1>4. t[p] = "NL" => p = l[2]
  BY <1>1, <1>2, <1>3
<1>5. t[p] # "NL" => p < l[2]
  BY <1>1, <1>2, <1>3
<1>6. t[p] # "NUL"
  BY <1>1, <1>3
<1> QED
  BY <1>1, <1>2, <1>3, <1>4, <1>5, <1>6

\* A character that is a blank, or within a word, starts no word.
LEMMA SeenNext ==
    ASSUME NEW t, NEW top, NEW c, NEW p, NEW l, Inside(t, top, c, p, l),
           NEW S, Seen(Starts(t, l), p, S), p \in Starts(t, l) => p \in S
    PROVE  Seen(Starts(t, l), p + 1, S)
<1>1. \A x \in Starts(t, l) : x \in Nat
  BY StartIs DEF Inside
<1>2. p \in Nat
  BY DEF Inside
<1>3. \A x \in Starts(t, l) : x < p + 1 => x < p \/ x = p
  BY <1>1, <1>2
<1> QED
  BY <1>3 DEF Seen

LEMMA NoStart ==
    ASSUME NEW t, NEW top, NEW c, NEW p, NEW l, Inside(t, top, c, p, l),
           NEW a \in Starts(t, l), NEW stop, C!Blank \subseteq stop, Open(t, c, p, a, stop)
    PROVE  p \in Starts(t, l) => p = a
<1>1. a \in Nat /\ l[1] < a /\ l[1] \in Int /\ p \in Nat
  BY StartIs, LineIs DEF Inside
<1>2. a <= p /\ \A x \in a..p - 1 : t[x] \notin stop
  BY DEF Open
<1> SUFFICES ASSUME p \in Starts(t, l), a < p PROVE FALSE
  BY <1>1, <1>2
<1>3. p = l[1] + 1 \/ t[p - 1] \in C!Blank
  BY StartIs DEF Inside
<1>4. p - 1 \in a..p - 1 /\ p # l[1] + 1
  BY <1>1
<1> QED
  BY <1>2, <1>3, <1>4

-----------------------------------------------------------------------------
(* What each step of the parser makes of the fields.                       *)

LEMMA FieldBlank ==
    ASSUME NEW t, NEW top, NEW c, NEW p, NEW l, Inside(t, top, c, p, l),
           NEW q \in C!Before, NEW it, Fields(q, t, c, p, l, it), t[p] \in C!Blank
    PROVE  p + 1 <= l[2] /\ Fields(q, t, c, p + 1, l, it)
<1> DEFINE W == Starts(t, l)
<1>1. p \in Nat /\ t[p] # "NL" /\ p + 1 <= l[2]
  BY InsideIs DEF Inside, C!Blank
<1>2. p \notin W
  BY StartIs DEF Inside
<1>3. \A S : Seen(W, p, S) => Seen(W, p + 1, S)
  BY <1>2, SeenNext
<1>4. Gap(t, l, p + 1)
  <2>1. (p + 1) - 1 = p
    BY <1>1
  <2> QED
    BY <2>1 DEF Gap
<1>5. \A a \in W : Closed(t, c, p, a, C!Blank) => Closed(t, c, p + 1, a, C!Blank)
  <2>1. \A a \in W : a \in Nat
    BY StartIs DEF Inside
  <2>2. p + 1 \in Nat /\ p <= p + 1
    BY <1>1
  <2> QED
    BY <1>1, <2>1, <2>2, ClosedKept
<1>6. q \in {"to_section", "to_property", "to_value"}
  BY DEF C!Before
<1> HIDE DEF W
<1>7. CASE q = "to_section"
  BY <1>1, <1>3, <1>4, <1>7 DEF Fields, W
<1>8. CASE q = "to_property"
  BY <1>1, <1>3, <1>4, <1>5, <1>8 DEF Fields, W
<1>9. CASE q = "to_value"
  BY <1>1, <1>3, <1>4, <1>5, <1>9 DEF Fields, W
<1> QED
  BY <1>6, <1>7, <1>8, <1>9

\* Before the third word there is no newline.
LEMMA WordsLeft ==
    ASSUME NEW t, NEW top, NEW c, NEW p, NEW l, Inside(t, top, c, p, l),
           NEW a, NEW b, Seen(Starts(t, l), p, {a, b})
    PROVE  t[p] # "NL"
<1> SUFFICES ASSUME t[p] = "NL" PROVE FALSE
  OBVIOUS
<1>1. p = l[2]
  BY InsideIs
<1>2. \A x \in Starts(t, l) : x < p
  BY <1>1, StartIs DEF Inside
<1>3. Starts(t, l) \subseteq {a, b}
  BY <1>2 DEF Seen
<1> QED
  BY <1>3, FewWords DEF Inside

\* A field that begins is empty.
LEMMA OpenNew ==
    ASSUME NEW t, NEW c, NEW p \in Nat, NEW stop
    PROVE  Open(t, c, p, p, stop)
BY DEF Open

LEMMA FieldStart ==
    ASSUME NEW t, NEW top, NEW c, NEW p, NEW l, Inside(t, top, c, p, l),
           NEW q \in C!Before, NEW it, Fields(q, t, c, p, l, it), t[p] \notin C!Blank,
           NEW X, it \in [section : X, property : X, value : X]
    PROVE  Fields(C!Field[q], t, c, p, l, [it EXCEPT ![C!Field[q]] = p])
<1> DEFINE W == Starts(t, l)
           a == it.section
           b == it.property
<1>1. p \in Nat /\ p < p + 1
  BY DEF Inside
<1>2. q \in {"to_section", "to_property", "to_value"}
  BY DEF C!Before
<1>3. ASSUME NEW S, Seen(W, p, S) PROVE Seen(W, p, S \cup {p})
  BY <1>3 DEF Seen
<1>4. ASSUME Gap(t, l, p), NEW u, NEW v, Seen(W, p, {u, v}) PROVE p \in W
  <2>1. t[p] # "NL"
    BY <1>4, WordsLeft
  <2>2. p < l[2] /\ l[1] < p /\ p \in Int
    BY <2>1, InsideIs DEF Inside
  <2>3. p = l[1] + 1 \/ t[p - 1] \in C!Blank
    BY <1>4 DEF Gap
  <2> QED
    BY <2>2, <2>3, StartIs DEF Inside
<1>5. \A x \in W : x \in Nat
  BY StartIs DEF Inside
<1>6. \A stop : Open(t, c, p, p, stop)
  BY <1>1, OpenNew
<1>7. \A x, stop : Closed(t, c, p, x, stop) => x < p \/ x \notin Nat
  BY <1>1 DEF Closed
<1> HIDE DEF W
<1>8. CASE q = "to_section"
  <2>1. C!Field[q] = "section"
    BY <1>8 DEF C!Field
  <2> DEFINE it2 == [it EXCEPT !["section"] = p]
  <2>2. it2.section = p
    OBVIOUS
  <2>3. Seen(W, p, {}) /\ Gap(t, l, p)
    BY <1>8 DEF Fields, W
  <2>4. Seen(W, p, {p, p}) /\ Seen(W, p, {p})
    BY <2>3 DEF Seen
  <2>5. p \in W
    BY <1>4, <2>3, <2>4
  <2> HIDE DEF it2
  <2>6. Fields("section", t, c, p, l, it2)
    BY <1>6, <2>2, <2>4, <2>5 DEF Fields, W
  <2> QED
    BY <2>1, <2>6 DEF it2
<1>9. CASE q = "to_property"
  <2>1. C!Field[q] = "property"
    BY <1>9 DEF C!Field
  <2> DEFINE it2 == [it EXCEPT !["property"] = p]
  <2>2. it2.section = a /\ it2.property = p
    OBVIOUS
  <2>3. a \in W /\ Seen(W, p, {a}) /\ Gap(t, l, p) /\ Closed(t, c, p, a, C!Blank)
    BY <1>9 DEF Fields, W
  <2>4. Seen(W, p, {a, p})
    BY <2>3 DEF Seen
  <2>5. p \in W
    BY <1>4, <2>3, <2>4
  <2>6. a < p
    BY <1>5, <1>7, <2>3
  <2> HIDE DEF it2
  <2>7. Fields("property", t, c, p, l, it2)
    BY <1>6, <2>2, <2>3, <2>4, <2>5, <2>6 DEF Fields, W
  <2> QED
    BY <2>1, <2>7 DEF it2
<1>10. CASE q = "to_value"
  <2>1. C!Field[q] = "value"
    BY <1>10 DEF C!Field
  <2> DEFINE it2 == [it EXCEPT !["value"] = p]
  <2>2. it2.section = a /\ it2.property = b /\ it2.value = p
    OBVIOUS
  <2>3. /\ a \in W /\ b \in W /\ a < b /\ Seen(W, p, {a, b}) /\ Gap(t, l, p)
        /\ Closed(t, c, p, a, C!Blank) /\ Closed(t, c, p, b, C!Blank)
    BY <1>10 DEF Fields, W
  <2>4. p \in W
    BY <1>4, <2>3
  <2>5. b < p
    BY <1>5, <1>7, <2>3
  <2>6. \A x \in W : x <= p => x = a \/ x = b \/ x = p
    <3>1. \A x \in W : x <= p => x < p \/ x = p
      BY <1>1, <1>5
    <3> QED
      BY <2>3, <3>1 DEF Seen
  <2>7. First3(W, a, b, p)
    BY <2>3, <2>4, <2>5, <2>6 DEF First3
  <2> HIDE DEF it2
  <2>8. Fields("value", t, c, p, l, it2)
    BY <1>6, <2>2, <2>3, <2>7 DEF Fields, W
  <2> QED
    BY <2>1, <2>8 DEF it2
<1> QED
  BY <1>2, <1>8, <1>9, <1>10

LEMMA FieldSkip ==
    ASSUME NEW t, NEW top, NEW c, NEW p, NEW l, Inside(t, top, c, p, l),
           NEW q \in C!Within, NEW it, Fields(q, t, c, p, l, it), t[p] \notin C!Stop(q)
    PROVE  p + 1 <= l[2] /\ Fields(q, t, c, p + 1, l, it)
<1> DEFINE W == Starts(t, l)
           a == it.section
           b == it.property
<1>1. q \in {"section", "property", "value"}
  BY DEF C!Within
<1>2. t[p] # "NL"
  BY DEF C!Stop
<1>3. p \in Nat /\ p + 1 <= l[2] /\ p + 1 \in Nat /\ p <= p + 1 /\ c[p] = t[p]
  BY <1>2, InsideIs DEF Inside
<1>4. \A x \in W : x \in Nat
  BY StartIs DEF Inside
<1>5. \A x \in W : Closed(t, c, p, x, C!Blank) => Closed(t, c, p + 1, x, C!Blank)
  BY <1>3, <1>4, ClosedKept
<1>6. \A x \in W : Open(t, c, p, x, C!Stop(q)) => Open(t, c, p + 1, x, C!Stop(q))
  BY <1>3, <1>4, OpenNext
<1>7. q # "value" => C!Blank \subseteq C!Stop(q)
  BY DEF C!Stop
<1>8. ASSUME q # "value", NEW x \in W, Open(t, c, p, x, C!Stop(q)), NEW S, x \in S,
             Seen(W, p, S)
      PROVE  Seen(W, p + 1, S)
  <2>1. p \in W => p = x
    BY <1>7, <1>8, NoStart
  <2> QED
    BY <1>8, <2>1, SeenNext
<1>9. CASE q = "section"
  <2>1. a \in W /\ Seen(W, p, {a}) /\ Open(t, c, p, a, C!Stop("section"))
    BY <1>9 DEF Fields
  <2>2. Seen(W, p + 1, {a})
    BY <1>8, <1>9, <2>1
  <2> HIDE DEF W
  <2> QED
    BY <1>3, <1>6, <1>9, <2>1, <2>2 DEF Fields, W
<1>10. CASE q = "property"
  <2>1. /\ a \in W /\ b \in W /\ a < b /\ Seen(W, p, {a, b}) /\ Closed(t, c, p, a, C!Blank)
        /\ Open(t, c, p, b, C!Stop("property"))
    BY <1>10 DEF Fields
  <2>2. Seen(W, p + 1, {a, b})
    BY <1>8, <1>10, <2>1
  <2> HIDE DEF W
  <2> QED
    BY <1>3, <1>5, <1>6, <1>10, <2>1, <2>2 DEF Fields, W
<1>11. CASE q = "value"
  <2>1. /\ First3(W, a, b, it.value) /\ Open(t, c, p, it.value, C!Stop("value"))
        /\ Closed(t, c, p, a, C!Blank) /\ Closed(t, c, p, b, C!Blank)
    BY <1>11 DEF Fields
  <2>2. a \in W /\ b \in W /\ it.value \in W
    BY <2>1 DEF First3
  <2> HIDE DEF W
  <2> QED
    BY <1>3, <1>5, <1>6, <1>11, <2>1, <2>2 DEF Fields, W
<1> QED
  BY <1>1, <1>9, <1>10, <1>11

\* The parser cuts the first two words at the blank behind them.
LEMMA FieldCut ==
    ASSUME NEW t, NEW top, NEW c, NEW p, NEW l, Inside(t, top, c, p, l),
           NEW q \in {"section", "property"}, NEW it, Fields(q, t, c, p, l, it),
           t[p] \in C!Stop(q), NEW d, d[p] = "NUL", \A x \in 0..p - 1 : d[x] = c[x]
    PROVE  /\ p + 1 <= l[2]
           /\ q = "section" => Fields("to_property", t, d, p + 1, l, it)
           /\ q = "property" => Fields("to_value", t, d, p + 1, l, it)
<1> DEFINE W == Starts(t, l)
           a == it.section
           b == it.property
<1>1. a \in W /\ (q = "property" => b \in W)
      /\ Seen(W, p, {a, b}) /\ (q = "section" => Seen(W, p, {a}))
  BY DEF Fields, Seen
<1>2. t[p] # "NL"
  BY <1>1, WordsLeft
<1>3. t[p] \in C!Blank /\ C!Blank \subseteq C!Stop(q)
  BY <1>2 DEF C!Stop
<1>4. p \in Nat /\ p + 1 <= l[2] /\ p + 1 \in Nat /\ p <= p + 1
  BY <1>2, InsideIs DEF Inside
<1>5. p \notin W
  BY <1>3, StartIs DEF Inside
<1>6. \A S : Seen(W, p, S) => Seen(W, p + 1, S)
  BY <1>5, SeenNext
<1>7. Gap(t, l, p + 1)
  <2>1. (p + 1) - 1 = p
    BY <1>4
  <2> QED
    BY <1>3, <2>1 DEF Gap
<1>8. \A x \in W : x \in Nat
  BY StartIs DEF Inside
<1>9. \A x \in W : Closed(t, c, p, x, C!Blank) => Closed(t, d, p + 1, x, C!Blank)
  BY <1>4, <1>8, ClosedKept
<1>10. \A x \in W : Open(t, c, p, x, C!Stop(q)) => Closed(t, d, p + 1, x, C!Blank)
  BY <1>3, <1>4, <1>8, OpenCut
<1>11. CASE q = "section"
  <2>1. Open(t, c, p, a, C!Stop("section"))
    BY <1>11 DEF Fields
  <2>2. Closed(t, d, p + 1, a, C!Blank) /\ Seen(W, p + 1, {a})
    BY <1>1, <1>6, <1>10, <1>11, <2>1
  <2> HIDE DEF W
  <2> QED
    BY <1>1, <1>4, <1>7, <1>11, <2>2 DEF Fields, W
<1>12. CASE q = "property"
  <2>1. /\ b \in W /\ a < b /\ Closed(t, c, p, a, C!Blank) /\ Open(t, c, p, b, C!Stop("property"))
    BY <1>12 DEF Fields
  <2>2. /\ Closed(t, d, p + 1, a, C!Blank) /\ Closed(t, d, p + 1, b, C!Blank)
        /\ Seen(W, p + 1, {a, b})
    BY <1>1, <1>6, <1>9, <1>10, <1>12, <2>1
  <2> HIDE DEF W
  <2> QED
    BY <1>1, <1>4, <1>7, <1>12, <2>1, <2>2 DEF Fields, W
<1> QED
  BY <1>11, <1>12

\* The value is cut at the end of the line.
LEMMA FieldLast ==
    ASSUME NEW t, NEW top, NEW c, NEW p, NEW l, Inside(t, top, c, p, l),
           NEW it, Fields("value", t, c, p, l, it),
           t[p] \in C!Stop("value"), NEW d, d[p] = "NUL", \A x \in 0..p - 1 : d[x] = c[x]
    PROVE  p = l[2] /\ Row(t, d, p + 1, l, it)
<1> DEFINE W == Starts(t, l)
<1>1. C!Stop("value") = {"NL"} /\ t[p] = "NL"
  BY DEF C!Stop
<1>2. p = l[2] /\ p \in Nat /\ p + 1 \in Nat /\ p <= p + 1
  BY <1>1, InsideIs DEF Inside
<1>3. /\ First3(W, it.section, it.property, it.value) /\ Open(t, c, p, it.value, {"NL"})
      /\ Closed(t, c, p, it.section, C!Blank) /\ Closed(t, c, p, it.property, C!Blank)
  BY <1>1 DEF Fields
<1>4. it.section \in Nat /\ it.property \in Nat /\ it.value \in Nat
  BY <1>3, StartIs DEF First3, Inside
<1>5. Closed(t, d, p + 1, it.value, {"NL"})
  BY <1>1, <1>2, <1>3, <1>4, OpenCut
<1>6. Closed(t, d, p + 1, it.section, C!Blank) /\ Closed(t, d, p + 1, it.property, C!Blank)
  BY <1>2, <1>3, <1>4, ClosedKept
<1> HIDE DEF W
<1> QED
  BY <1>2, <1>3, <1>5, <1>6 DEF Row, W

-----------------------------------------------------------------------------
(* The text lies before the cursor as it was loaded.                       *)

\* The offset of the last NUL.
Top == Cardinality(C!Offset) - 1

LEMMA SpanIs ==
    ASSUME NEW n \in Nat
    PROVE  Cardinality(0..n) - 1 = n
<1>1. Cardinality(0..n) = IF 0 > n THEN 0 ELSE n - 0 + 1
  BY FS_Interval
<1> QED
  BY <1>1

TextInv ==
    /\ Text(file, Top) /\ DOMAIN pconf = 0..Top /\ i \in 0..Top
    /\ \A x \in i..Top : pconf[x] = file[x]

LEMMA TextInit == Init => TextInv
<1> SUFFICES ASSUME Init PROVE TextInv
  OBVIOUS
<1>1. pconf = [n \in {0} |-> "NUL"] /\ file = pconf /\ i = 0
  BY DEF Init, C!Init
<1>2. DOMAIN pconf = 0..0 /\ pconf[0] = "NUL"
  BY <1>1
<1>3. Top = 0
  BY <1>2, SpanIs DEF Top, C!Offset
<1> QED
  BY <1>1, <1>2, <1>3 DEF TextInv, Text

LEMMA TextStep == CursorInv /\ TextInv /\ [Next]_vars => TextInv'
<1> SUFFICES ASSUME CursorInv, TextInv, [Next]_vars PROVE TextInv'
  OBVIOUS
<1>1. CASE UNCHANGED configVars
  <2>1. Top' = Top
    BY <1>1 DEF Top, C!Offset, configVars
  <2> QED
    BY <1>1, <2>1 DEF TextInv, configVars
<1>2. CASE FindConfig
  <2>1. CASE conf' = NONE
    BY <1>1, <1>2, <2>1 DEF FindConfig
  <2>2. CASE conf' # NONE
    <3>1. PICK m \in O!Contents(list[conf'].base - High) : C!StartParse(m.text)
      BY <1>2, <2>2 DEF FindConfig
    <3>2. m.text \in Seq(STRING \ {"NUL"})
      BY <3>1, ModulesAssumption DEF O!Contents, CursorInv, ModuleList
    <3> DEFINE n == Len(m.text)
    <3>3. n \in Nat /\ \A x \in 0..n - 1 : m.text[x + 1] # "NUL"
      BY <3>2
    <3>4. /\ file' = [x \in 0..n |-> IF x = n THEN "NUL" ELSE m.text[x + 1]]
          /\ pconf' = file' /\ i' = 0
      BY <3>1 DEF C!StartParse, CursorInv
    <3> HIDE DEF n
    <3>5. DOMAIN pconf' = 0..n /\ DOMAIN file' = 0..n /\ file'[n] = "NUL"
      BY <3>3, <3>4
    <3>6. Top' = n
      BY <3>3, <3>5, SpanIs DEF Top, C!Offset
    <3>7. \A x \in 0..n - 1 : file'[x] # "NUL"
      <4>1. \A x \in 0..n - 1 : x \in 0..n /\ x # n
        BY <3>3
      <4> QED
        BY <3>3, <3>4, <4>1
    <3> QED
      BY <3>3, <3>4, <3>5, <3>6, <3>7 DEF TextInv, Text
  <2> QED
    BY <2>1, <2>2
<1>3. CASE Parse
  <2>1. file' = file
    BY <1>3 DEF Parse, C!config_parse
  <2>2. DOMAIN pconf' = DOMAIN pconf
    BY <1>3 DEF Parse, C!config_parse, C!LineComment, C!LineEmpty, C!LineEnd, C!LineItem,
       C!Comment, C!SkipBlank, C!EndBefore, C!StartField, C!SkipField, C!EndWithin, C!CutField
  <2>3. Top' = Top
    BY <2>2 DEF Top, C!Offset
  <2>4. Top \in Nat /\ i \in 0..Top /\ pconf[i] = file[i]
    BY DEF TextInv, Text
  <2>5. pconf[i] # "NUL" => i + 1 \in 0..Top
    <3>1. pconf[i] # "NUL" => i # Top
      BY <2>4 DEF TextInv, Text
    <3> QED
      BY <2>4, <3>1
  <2>6. \/ i' = i /\ pconf' = pconf
        \/ i' = i + 1 /\ i + 1 \in 0..Top /\ \A x \in DOMAIN pconf : x # i => pconf'[x] = pconf[x]
    BY <1>3, <2>5 DEF Parse, C!config_parse, C!LineComment, C!LineEmpty, C!LineEnd, C!LineItem,
       C!Comment, C!SkipBlank, C!EndBefore, C!StartField, C!SkipField, C!EndWithin, C!CutField,
       C!At, C!Blank, C!Stop
  <2>7. i' \in 0..Top /\ \A x \in i'..Top : pconf'[x] = file[x]
    <3>1. CASE i' = i /\ pconf' = pconf
      BY <3>1 DEF TextInv
    <3>2. CASE i' = i + 1 /\ i + 1 \in 0..Top /\ \A x \in DOMAIN pconf : x # i => pconf'[x] = pconf[x]
      <4>1. \A x \in i + 1..Top : x \in DOMAIN pconf /\ x # i /\ x \in i..Top
        BY <2>4 DEF TextInv
      <4> QED
        BY <3>2, <4>1 DEF TextInv
    <3> QED
      BY <2>6, <3>1, <3>2
  <2> QED
    BY <2>1, <2>2, <2>3, <2>7 DEF TextInv
<1> QED
  BY <1>1, <1>2, <1>3 DEF Next, Code, Unfold, FindKernel, Load, Evict, vars

-----------------------------------------------------------------------------
(* The items are the lines that the parser has passed.                     *)

Unused(it, n) == \A m \in 0..IndexSize - 1 : m >= n => it[m].section = NONE

\* The lines of ln are those that end before s.
Passed(lines, ln, n, s) == \A l \in lines : l[2] < s <=> \E m \in 0..n - 1 : ln[m] = l

\* The first n items are the lines of ln, in the order of the text.
Rows(t, top, c, p, n, it, ln) ==
    /\ ln \in [0..n - 1 -> Lines(t, top)]
    /\ \A x, y \in 0..n - 1 : x < y => ln[x][1] < ln[y][1]
    /\ \A x \in 0..n - 1 : Row(t, c, p, ln[x], it[x])

AtLine(ln) ==
    parsing = "line" => /\ Begins(file, Top, i)
                        /\ Passed(Lines(file, Top), ln, index, i) /\ Unused(item, index)

InComment(ln) ==
    parsing = "comment" =>
        \E s \in 0..i : /\ Begins(file, Top, s) /\ file[s] = "#"
                        /\ \A x \in s..i - 1 : file[x] # "NL"
                        /\ Passed(Lines(file, Top), ln, index, s) /\ Unused(item, index)

InLine(ln) ==
    parsing \in C!Before \cup C!Within =>
        \E l \in Lines(file, Top) :
            /\ l[1] < i /\ i <= l[2]
            /\ Passed(Lines(file, Top), ln, index, l[1] + 1) /\ Unused(item, index + 1)
            /\ Fields(parsing, file, pconf, i, l, item[index])

AtEnd(ln) ==
    parsing = "done" => /\ Passed(Lines(file, Top), ln, index, i) /\ Unused(item, index)
                        /\ index = IndexSize \/ i = Top

Place(ln) ==
    /\ index \in 0..IndexSize
    /\ Rows(file, Top, pconf, i, index, item, ln)
    /\ AtLine(ln) /\ InComment(ln) /\ InLine(ln) /\ AtEnd(ln)

MeaningInv == parsing # "idle" /\ Complete(file, Top) => \E ln : Place(ln)

\* The parser changes nothing behind its cursor, and no item but the last.
LEMMA RowsKept ==
    ASSUME NEW t, NEW top, Text(t, top), NEW c, NEW d, NEW p \in Nat, NEW u \in Nat, p <= u,
           \A x \in 0..p - 1 : d[x] = c[x],
           NEW n \in Nat, NEW it, NEW jt, \A x \in 0..n - 1 : jt[x] = it[x],
           NEW ln, Rows(t, top, c, p, n, it, ln)
    PROVE  Rows(t, top, d, u, n, jt, ln)
<1>1. /\ ln \in [0..n - 1 -> Lines(t, top)]
      /\ \A x, y \in 0..n - 1 : x < y => ln[x][1] < ln[y][1]
      /\ \A x \in 0..n - 1 : Row(t, c, p, ln[x], it[x])
  BY DEF Rows
<1>2. ASSUME NEW x \in 0..n - 1 PROVE Row(t, d, u, ln[x], jt[x])
  <2>1. ln[x] \in Lines(t, top) /\ Row(t, c, p, ln[x], jt[x])
    BY <1>1
  <2> QED
    BY <2>1, RowKept
<1> QED
  BY <1>1, <1>2 DEF Rows

\* One more line.
LEMMA RowsMore ==
    ASSUME NEW t, NEW top, Text(t, top), NEW c, NEW p \in Nat,
           NEW n \in Nat, NEW it, NEW ln, Rows(t, top, c, p, n, it, ln),
           NEW l \in Lines(t, top), Row(t, c, p, l, it[n]),
           Passed(Lines(t, top), ln, n, l[1] + 1),
           NEW more, more = [x \in 0..n |-> IF x = n THEN l ELSE ln[x]]
    PROVE  /\ Rows(t, top, c, p, n + 1, it, more)
           /\ Passed(Lines(t, top), more, n + 1, l[2] + 1)
<1>1. /\ ln \in [0..n - 1 -> Lines(t, top)]
      /\ \A x, y \in 0..n - 1 : x < y => ln[x][1] < ln[y][1]
      /\ \A x \in 0..n - 1 : Row(t, c, p, ln[x], it[x])
  BY DEF Rows
<1>2. 0..(n + 1) - 1 = 0..n /\ \A x \in 0..n : x = n \/ x \in 0..n - 1
  OBVIOUS
<1>3. more[n] = l /\ \A x \in 0..n - 1 : more[x] = ln[x]
  OBVIOUS
<1>4. more \in [0..n -> Lines(t, top)]
  BY <1>1, <1>2
<1>5. \A x \in 0..n - 1 : ln[x][1] < l[1]
  <2> SUFFICES ASSUME NEW x \in 0..n - 1 PROVE ln[x][1] < l[1]
    OBVIOUS
  <2>1. ln[x] \in Lines(t, top)
    BY <1>1
  <2>2. ln[x][2] < l[1] + 1
    BY <2>1 DEF Passed
  <2>3. ln[x][1] \in Int /\ ln[x][2] \in Int /\ l[1] \in Int /\ ln[x][1] + 1 < ln[x][2]
    BY <2>1, LineIs
  <2> QED
    BY <2>2, <2>3, SMTT(30), ZenonT(40)
<1>6. \A x, y \in 0..n : x < y => more[x][1] < more[y][1]
  <2> SUFFICES ASSUME NEW x \in 0..n, NEW y \in 0..n, x < y PROVE more[x][1] < more[y][1]
    OBVIOUS
  <2>1. x \in 0..n - 1 /\ (y = n \/ y \in 0..n - 1)
    OBVIOUS
  <2> QED
    BY <1>1, <1>3, <1>5, <2>1
<1>7. \A x \in 0..n : Row(t, c, p, more[x], it[x])
  BY <1>1, <1>2, <1>3
<1>8. Passed(Lines(t, top), more, n + 1, l[2] + 1)
  <2> SUFFICES ASSUME NEW m \in Lines(t, top)
               PROVE  m[2] < l[2] + 1 <=> \E x \in 0..n : more[x] = m
    BY <1>2 DEF Passed
  <2>1. /\ l[1] \in Int /\ l[2] \in Int /\ m[2] \in Int /\ l[1] + 1 < l[2]
    BY LineIs
  <2>2. m[2] = l[2] => m = l
    BY LinesApart
  <2>3. m[2] < l[2] => m[2] <= l[1]
    BY LinesApart
  <2>4. m[2] < l[1] + 1 <=> \E x \in 0..n - 1 : ln[x] = m
    BY DEF Passed
  <2>5. m[2] < l[2] + 1 <=> m[2] < l[1] + 1 \/ m = l
    BY <2>1, <2>2, <2>3
  <2>6. (\E x \in 0..n : more[x] = m) <=> m = l \/ \E x \in 0..n - 1 : ln[x] = m
    <3>1. n \in 0..n /\ \A x \in 0..n - 1 : x \in 0..n
      OBVIOUS
    <3> QED
      BY <1>2, <1>3, <3>1
  <2> QED
    BY <2>4, <2>5, <2>6
<1>9. Rows(t, top, c, p, n + 1, it, more)
  BY <1>2, <1>4, <1>6, <1>7 DEF Rows
<1> QED
  BY <1>8, <1>9

\* The start of a text.
LEMMA PlaceStart ==
    ASSUME TextInv', parsing' = "line", i' = 0, index' = 0,
           item' = [n \in 0..IndexSize - 1 |-> C!NoItem]
    PROVE  MeaningInv'
<1> DEFINE ln == [x \in 0..-1 |-> 0]
<1>1. 0..0 - 1 = {} /\ 0..-1 = {}
  OBVIOUS
<1>2. 0 \in 0..IndexSize
  BY SizeAssumption
<1>3. Rows(file', Top', pconf', 0, 0, item', ln)
  BY <1>1 DEF Rows
<1>4. Text(file', Top') /\ Begins(file', Top', 0)
  BY DEF TextInv, Begins, Text
<1>5. Passed(Lines(file', Top'), ln, 0, 0)
  <2> SUFFICES ASSUME NEW l \in Lines(file', Top') PROVE ~(l[2] < 0)
    BY <1>1 DEF Passed
  <2> QED
    BY <1>4, LineIs
<1>6. Unused(item', 0)
  BY DEF Unused, C!NoItem
<1> HIDE DEF ln
<1>7. AtLine(ln)' /\ InComment(ln)' /\ InLine(ln)' /\ AtEnd(ln)'
  BY <1>4, <1>5, <1>6 DEF AtLine, InComment, InLine, AtEnd, C!Before, C!Within
<1>8. Place(ln)'
  BY <1>2, <1>3, <1>7 DEF Place
<1> QED
  BY <1>8 DEF MeaningInv

\* A step of the parser.
Stage(ln) ==
    /\ CursorInv /\ ItemInv /\ TextInv /\ Complete(file, Top) /\ Place(ln)
    /\ ~Resting

LEMMA StageIs ==
    ASSUME NEW ln, Stage(ln), C!config_parse
    PROVE  /\ file' = file /\ Top' = Top /\ DOMAIN pconf = 0..Top
           /\ Text(file, Top) /\ Complete(file, Top)
           /\ Top \in Nat /\ i \in 0..Top /\ pconf[i] = file[i]
           /\ index \in 0..IndexSize - 1 /\ index + 1 \in 0..IndexSize
           /\ Rows(file, Top, pconf, i, index, item, ln)
<1>1. DOMAIN pconf' = DOMAIN pconf
  BY DEF C!config_parse, C!LineComment, C!LineEmpty, C!LineEnd, C!LineItem, C!Comment,
     C!SkipBlank, C!EndBefore, C!StartField, C!SkipField, C!EndWithin, C!CutField
<1>2. Top' = Top
  BY <1>1 DEF Top, C!Offset
<1>3. Top \in Nat /\ i \in 0..Top /\ pconf[i] = file[i]
  BY DEF Stage, TextInv, Text
<1>4. index \in 0..IndexSize - 1 /\ index + 1 \in 0..IndexSize
  BY SizeAssumption DEF Stage, CursorInv
<1> QED
  BY <1>2, <1>3, <1>4 DEF Stage, TextInv, Place, C!config_parse

\* A step that changes no character and no whole item.
LEMMA StageRows ==
    ASSUME NEW ln, Stage(ln), C!config_parse, pconf' = pconf, index' = index,
           \A x \in 0..index - 1 : item'[x] = item[x], i' = i \/ i' = i + 1
    PROVE  index' \in 0..IndexSize /\ Rows(file, Top, pconf, i', index, item', ln)
<1>1. /\ Text(file, Top) /\ Top \in Nat /\ i \in 0..Top
      /\ index \in 0..IndexSize - 1 /\ Rows(file, Top, pconf, i, index, item, ln)
  BY StageIs
<1>2. i \in Nat /\ i' \in Nat /\ i <= i' /\ index \in Nat /\ index \in 0..IndexSize
  BY <1>1, SizeAssumption
<1> QED
  BY <1>1, <1>2, RowsKept

LEMMA PlaceLine ==
    ASSUME NEW ln, Stage(ln), C!config_parse,
           C!LineComment \/ C!LineEmpty \/ C!LineEnd \/ C!LineItem
    PROVE  Place(ln)'
<1>1. /\ file' = file /\ Top' = Top /\ DOMAIN pconf = 0..Top
      /\ Text(file, Top) /\ Complete(file, Top)
      /\ Top \in Nat /\ i \in 0..Top /\ pconf[i] = file[i]
      /\ index \in 0..IndexSize - 1 /\ index + 1 \in 0..IndexSize
  BY StageIs
<1>2. /\ parsing = "line" /\ pconf' = pconf /\ index' = index /\ item' = item
      /\ i' = i \/ i' = i + 1
  BY DEF C!LineComment, C!LineEmpty, C!LineEnd, C!LineItem
<1>3. index' \in 0..IndexSize /\ Rows(file, Top, pconf, i', index, item', ln)
  BY <1>2, StageRows
<1>4. /\ Begins(file, Top, i) /\ Passed(Lines(file, Top), ln, index, i) /\ Unused(item, index)
  BY <1>2 DEF Stage, Place, AtLine
<1>5. C!At = file[i]
  BY <1>1 DEF C!At
<1>6. CASE C!LineComment
  <2>1. parsing' = "comment" /\ file[i] = "#" /\ i' = i
    BY <1>5, <1>6 DEF C!LineComment, C!Goto
  <2>2. i \in 0..i /\ i..i - 1 = {}
    BY <1>1
  <2>3. InComment(ln)'
    BY <1>1, <1>2, <1>4, <2>1, <2>2 DEF InComment
  <2>4. AtLine(ln)' /\ InLine(ln)' /\ AtEnd(ln)'
    BY <2>1 DEF AtLine, InLine, AtEnd, C!Before, C!Within
  <2> QED
    BY <1>1, <1>2, <1>3, <2>3, <2>4 DEF Place
<1>7. CASE C!LineEmpty
  <2>1. parsing' = "line" /\ file[i] = "NL" /\ i' = i + 1
    BY <1>2, <1>5, <1>7 DEF C!LineEmpty
  <2>2. i <= i /\ \A x \in i..i - 1 : file[x] # "NL"
    BY <1>1
  <2>3. /\ \A l \in Lines(file, Top) : l[2] < i <=> l[2] < i + 1
        /\ Begins(file, Top, i + 1)
    BY <1>1, <1>4, <2>1, <2>2, LineFrom
  <2>4. AtLine(ln)'
    BY <1>1, <1>2, <1>4, <2>1, <2>3 DEF AtLine, Passed
  <2>5. InComment(ln)' /\ InLine(ln)' /\ AtEnd(ln)'
    BY <2>1 DEF InComment, InLine, AtEnd, C!Before, C!Within
  <2> QED
    BY <1>1, <1>2, <1>3, <2>4, <2>5 DEF Place
<1>8. CASE C!LineEnd
  <2>1. parsing' = "done" /\ file[i] = "NUL" /\ i' = i
    BY <1>5, <1>8 DEF C!LineEnd, C!Goto
  <2>2. i = Top
    BY <1>1, <2>1 DEF Text
  <2>3. AtEnd(ln)'
    BY <1>1, <1>2, <1>4, <2>1, <2>2 DEF AtEnd
  <2>4. AtLine(ln)' /\ InComment(ln)' /\ InLine(ln)'
    BY <2>1 DEF AtLine, InComment, InLine, C!Before, C!Within
  <2> QED
    BY <1>1, <1>2, <1>3, <2>3, <2>4 DEF Place
<1>9. CASE C!LineItem
  <2>1. parsing' = "to_section" /\ file[i] \notin {"#", "NL", "NUL"} /\ i' = i
    BY <1>5, <1>9 DEF C!LineItem, C!Goto
  <2>2. i # Top
    BY <2>1, <1>1 DEF Text
  <2>3. PICK e \in 0..Top : i <= e /\ file[e] = "NL" /\ \A x \in i..e - 1 : file[x] # "NL"
    BY <1>1, <2>2, NextNewline, SMTT(30), ZenonT(40)
  <2>4. i < e
    BY <1>1, <2>1, <2>3
  <2> DEFINE l == <<i - 1, e>>
  <2>5. l \in Lines(file, Top)
    BY <1>1, <1>4, <2>1, <2>3, <2>4, LineFrom
  <2>6. l[1] < i /\ i <= l[2] /\ l[1] + 1 = i
    BY <1>1, <2>4
  <2> HIDE DEF l
  <2>7. Fields("to_section", file, pconf, i, l, item[index])
    <3>1. l[1] \in Int /\ \A x \in Starts(file, l) : x \in Nat /\ l[1] < x
      BY <1>1, <2>5, StartIs, LineIs
    <3>2. Seen(Starts(file, l), i, {})
      BY <1>1, <2>6, <3>1 DEF Seen
    <3> QED
      BY <2>6, <3>2 DEF Fields, Gap
  <2>8. Unused(item, index + 1)
    BY <1>1, <1>4 DEF Unused
  <2>9. Passed(Lines(file, Top), ln, index, l[1] + 1)
    BY <1>4, <2>6
  <2>10. InLine(ln)'
    BY <1>1, <1>2, <2>1, <2>5, <2>6, <2>7, <2>8, <2>9 DEF InLine
  <2>11. AtLine(ln)' /\ InComment(ln)' /\ AtEnd(ln)'
    BY <2>1 DEF AtLine, InComment, AtEnd
  <2> QED
    BY <1>1, <1>2, <1>3, <2>10, <2>11 DEF Place
<1> QED
  BY <1>6, <1>7, <1>8, <1>9

LEMMA PlaceComment ==
    ASSUME NEW ln, Stage(ln), C!config_parse, C!Comment
    PROVE  Place(ln)'
<1>1. /\ file' = file /\ Top' = Top /\ DOMAIN pconf = 0..Top
      /\ Text(file, Top) /\ Complete(file, Top)
      /\ Top \in Nat /\ i \in 0..Top /\ pconf[i] = file[i]
  BY StageIs
<1>2. /\ parsing = "comment" /\ pconf' = pconf /\ index' = index /\ item' = item
  BY DEF C!Comment
<1>3. PICK s \in 0..i : /\ Begins(file, Top, s) /\ file[s] = "#"
                        /\ \A x \in s..i - 1 : file[x] # "NL"
                        /\ Passed(Lines(file, Top), ln, index, s) /\ Unused(item, index)
  BY <1>2 DEF Stage, Place, InComment
<1>4. C!At = file[i]
  BY <1>1 DEF C!At
<1>5. file[i] # "NUL"
  <2> SUFFICES ASSUME file[i] = "NUL" PROVE FALSE
    OBVIOUS
  <2>1. i = Top /\ s # Top
    BY <1>1, <1>3 DEF Text
  <2>2. Top - 1 \in s..i - 1 /\ Top # 0
    BY <1>1, <1>3, <2>1
  <2> QED
    BY <1>1, <1>3, <2>2 DEF Complete
<1>6. i' = i + 1
  BY <1>4, <1>5 DEF C!Comment
<1>7. index' \in 0..IndexSize /\ Rows(file, Top, pconf, i', index, item', ln)
  BY <1>2, <1>6, StageRows
<1>8. CASE file[i] = "NL"
  <2>1. parsing' = "line"
    BY <1>4, <1>8 DEF C!Comment, C!Goto
  <2>2. s <= i
    BY <1>1
  <2>3. /\ \A l \in Lines(file, Top) : l[2] < s <=> l[2] < i + 1
        /\ Begins(file, Top, i + 1)
    BY <1>1, <1>3, <1>8, <2>2, LineFrom
  <2>4. AtLine(ln)'
    BY <1>1, <1>2, <1>3, <1>6, <2>1, <2>3 DEF AtLine, Passed
  <2>5. InComment(ln)' /\ InLine(ln)' /\ AtEnd(ln)'
    BY <2>1 DEF InComment, InLine, AtEnd, C!Before, C!Within
  <2> QED
    BY <1>1, <1>2, <1>7, <2>4, <2>5 DEF Place
<1>9. CASE file[i] # "NL"
  <2>1. parsing' = "comment"
    BY <1>4, <1>5, <1>9 DEF C!Comment, C!Goto
  <2>2. s \in 0..i + 1 /\ \A x \in s..(i + 1) - 1 : x \in s..i - 1 \/ x = i
    BY <1>1
  <2>3. InComment(ln)'
    BY <1>1, <1>2, <1>3, <1>6, <1>9, <2>1, <2>2 DEF InComment
  <2>4. AtLine(ln)' /\ InLine(ln)' /\ AtEnd(ln)'
    BY <2>1 DEF AtLine, InLine, AtEnd, C!Before, C!Within
  <2> QED
    BY <1>1, <1>2, <1>7, <2>3, <2>4 DEF Place
<1> QED
  BY <1>8, <1>9

\* The line that the cursor is in.
LEMMA LineOf ==
    ASSUME NEW ln, Stage(ln), C!config_parse, parsing \in C!Before \cup C!Within
    PROVE  \E l \in Lines(file, Top) :
              /\ Inside(file, Top, pconf, i, l)
              /\ Passed(Lines(file, Top), ln, index, l[1] + 1) /\ Unused(item, index + 1)
              /\ Fields(parsing, file, pconf, i, l, item[index])
<1>1. /\ Text(file, Top) /\ Complete(file, Top)
      /\ Top \in Nat /\ i \in 0..Top /\ pconf[i] = file[i]
  BY StageIs
<1>2. i \in Nat
  BY <1>1
<1>3. PICK l \in Lines(file, Top) :
          /\ l[1] < i /\ i <= l[2]
          /\ Passed(Lines(file, Top), ln, index, l[1] + 1) /\ Unused(item, index + 1)
          /\ Fields(parsing, file, pconf, i, l, item[index])
  BY DEF Stage, Place, InLine
<1> QED
  BY <1>1, <1>2, <1>3 DEF Inside

LEMMA PlaceField ==
    ASSUME NEW ln, Stage(ln), C!config_parse,
           C!SkipBlank \/ C!EndBefore \/ C!StartField \/ C!SkipField \/ C!EndWithin
    PROVE  Place(ln)'
<1>1. /\ file' = file /\ Top' = Top /\ DOMAIN pconf = 0..Top
      /\ Text(file, Top) /\ Complete(file, Top)
      /\ Top \in Nat /\ i \in 0..Top /\ pconf[i] = file[i]
      /\ index \in 0..IndexSize - 1 /\ index + 1 \in 0..IndexSize
  BY StageIs
<1>2. parsing \in C!Before \cup C!Within /\ pconf' = pconf /\ index' = index
  BY DEF C!SkipBlank, C!EndBefore, C!StartField, C!SkipField, C!EndWithin
<1>3. PICK l \in Lines(file, Top) :
          /\ Inside(file, Top, pconf, i, l)
          /\ Passed(Lines(file, Top), ln, index, l[1] + 1) /\ Unused(item, index + 1)
          /\ Fields(parsing, file, pconf, i, l, item[index])
  BY <1>2, LineOf
<1>4. C!At = file[i] /\ file[i] # "NUL"
  BY <1>1, <1>3, InsideIs DEF C!At
<1>5. ~C!EndBefore /\ ~C!EndWithin
  BY <1>4 DEF C!EndBefore, C!EndWithin
<1>6. /\ l[1] < i /\ i <= l[2] /\ i \in Nat /\ l[1] \in Int
  BY <1>3, InsideIs DEF Inside
<1>7. item \in [0..IndexSize - 1 -> ItemType] /\ item[index] \in ItemType
  BY <1>1 DEF Stage, ItemInv
<1>8. ASSUME \A x \in 0..index - 1 : item'[x] = item[x],
             i' = i \/ i' = i + 1, l[1] < i', i' <= l[2], Unused(item', index + 1),
             parsing' \in C!Before \cup C!Within,
             Fields(parsing', file, pconf, i', l, item'[index])
      PROVE  Place(ln)'
  <2>1. index' \in 0..IndexSize /\ Rows(file, Top, pconf, i', index, item', ln)
    BY <1>2, <1>8, StageRows
  <2>2. InLine(ln)'
    BY <1>1, <1>2, <1>3, <1>8 DEF InLine
  <2>3. AtLine(ln)' /\ InComment(ln)' /\ AtEnd(ln)'
    BY <1>8 DEF AtLine, InComment, AtEnd, C!Before, C!Within
  <2> QED
    BY <1>1, <1>2, <2>1, <2>2, <2>3 DEF Place
<1>9. CASE C!SkipBlank
  <2>1. /\ parsing \in C!Before /\ file[i] \in C!Blank
        /\ i' = i + 1 /\ item' = item /\ parsing' = parsing
    BY <1>4, <1>9 DEF C!SkipBlank
  <2>2. i + 1 <= l[2] /\ Fields(parsing, file, pconf, i + 1, l, item[index])
    BY <1>3, <2>1, FieldBlank
  <2>3. l[1] < i + 1
    BY <1>6
  <2> QED
    BY <1>2, <1>3, <1>8, <2>1, <2>2, <2>3
<1>10. CASE C!SkipField
  <2>1. /\ parsing \in C!Within /\ file[i] \notin C!Stop(parsing)
        /\ i' = i + 1 /\ item' = item /\ parsing' = parsing
    BY <1>4, <1>10 DEF C!SkipField
  <2>2. i + 1 <= l[2] /\ Fields(parsing, file, pconf, i + 1, l, item[index])
    BY <1>3, <2>1, FieldSkip
  <2>3. l[1] < i + 1
    BY <1>6
  <2> QED
    BY <1>2, <1>3, <1>8, <2>1, <2>2, <2>3
<1>11. CASE C!StartField
  <2>1. /\ parsing \in C!Before /\ file[i] \notin C!Blank
        /\ item' = [item EXCEPT ![index][C!Field[parsing]] = i]
        /\ i' = i /\ parsing' = C!Field[parsing]
    BY <1>4, <1>11 DEF C!StartField, C!Goto
  <2> DEFINE it == [item[index] EXCEPT ![C!Field[parsing]] = i]
  <2>2. Fields(C!Field[parsing], file, pconf, i, l, it)
    BY <1>3, <1>7, <2>1, FieldStart DEF ItemType
  <2>3. item' = [item EXCEPT ![index] = it]
    BY <2>1
  <2> HIDE DEF it
  <2>4. item'[index] = it /\ \A x \in 0..IndexSize - 1 : x # index => item'[x] = item[x]
    BY <1>1, <1>7, <2>3
  <2>5. \A x \in 0..index - 1 : item'[x] = item[x]
    <3>1. \A x \in 0..index - 1 : x \in 0..IndexSize - 1 /\ x # index
      BY <1>1, SizeAssumption
    <3> QED
      BY <2>4, <3>1
  <2>6. Unused(item', index + 1)
    <3>1. \A x \in 0..IndexSize - 1 : x >= index + 1 => x # index
      BY <1>1
    <3> QED
      BY <1>3, <2>4, <3>1 DEF Unused
  <2>7. C!Field[parsing] \in C!Within
    BY <2>1 DEF C!Before, C!Field, C!Within
  <2> QED
    BY <1>6, <1>8, <2>1, <2>2, <2>4, <2>5, <2>6, <2>7
<1> QED
  BY <1>5, <1>9, <1>10, <1>11

LEMMA PlaceCut ==
    ASSUME NEW ln, Stage(ln), C!config_parse, C!CutField
    PROVE  \E m : Place(m)'
<1>1. /\ file' = file /\ Top' = Top /\ DOMAIN pconf = 0..Top
      /\ Text(file, Top) /\ Complete(file, Top)
      /\ Top \in Nat /\ i \in 0..Top /\ pconf[i] = file[i]
      /\ index \in 0..IndexSize - 1 /\ index + 1 \in 0..IndexSize
      /\ Rows(file, Top, pconf, i, index, item, ln)
  BY StageIs
<1>2. /\ parsing \in C!Within /\ C!At \in C!Stop(parsing) /\ i' = i + 1 /\ item' = item
      /\ pconf' = [pconf EXCEPT ![i] = "NUL"]
  BY DEF C!CutField
<1>3. PICK l \in Lines(file, Top) :
          /\ Inside(file, Top, pconf, i, l)
          /\ Passed(Lines(file, Top), ln, index, l[1] + 1) /\ Unused(item, index + 1)
          /\ Fields(parsing, file, pconf, i, l, item[index])
  BY <1>2, LineOf
<1>4. C!At = file[i]
  BY <1>1 DEF C!At
<1>5. pconf'[i] = "NUL" /\ \A x \in 0..i - 1 : pconf'[x] = pconf[x]
  <2>1. \A x \in 0..i - 1 : x \in 0..Top /\ x # i
    BY <1>1
  <2> QED
    BY <1>1, <1>2, <2>1
<1>6. i \in Nat /\ i + 1 \in Nat /\ i <= i + 1 /\ index \in Nat /\ l[1] < i /\ l[1] \in Int
  BY <1>1, <1>3, InsideIs DEF Inside
<1>7. Rows(file, Top, pconf', i + 1, index, item, ln)
  BY <1>1, <1>5, <1>6, RowsKept
<1>8. CASE parsing \in {"section", "property"}
  <2> DEFINE q == IF parsing = "section" THEN "to_property" ELSE "to_value"
  <2>1. parsing' = q /\ index' = index
    BY <1>8 DEF C!CutField, C!Goto
  <2>2. i + 1 <= l[2] /\ Fields(q, file, pconf', i + 1, l, item[index])
    <3>1. file[i] \in C!Stop(parsing)
      BY <1>2, <1>4
    <3>2. /\ i + 1 <= l[2]
          /\ parsing = "section" => Fields("to_property", file, pconf', i + 1, l, item[index])
          /\ parsing = "property" => Fields("to_value", file, pconf', i + 1, l, item[index])
      BY <1>3, <1>5, <1>8, <3>1, FieldCut
    <3> QED
      BY <1>8, <3>2
  <2>3. q \in C!Before /\ q \notin {"line", "comment", "done"}
    BY DEF C!Before
  <2> HIDE DEF q
  <2>4. l[1] < i + 1 /\ index \in 0..IndexSize
    BY <1>1, <1>6, SizeAssumption
  <2>5. InLine(ln)'
    BY <1>1, <1>2, <1>3, <2>1, <2>2, <2>3, <2>4 DEF InLine
  <2>6. AtLine(ln)' /\ InComment(ln)' /\ AtEnd(ln)'
    BY <2>1, <2>3 DEF AtLine, InComment, AtEnd
  <2>7. Place(ln)'
    BY <1>1, <1>2, <1>7, <2>1, <2>4, <2>5, <2>6 DEF Place
  <2> QED
    BY <2>7
<1>9. CASE parsing = "value"
  <2>1. parsing' = (IF index + 1 = IndexSize THEN "done" ELSE "line") /\ index' = index + 1
    BY <1>9 DEF C!CutField, C!Goto
  <2>2. i = l[2] /\ Row(file, pconf', i + 1, l, item[index])
    <3>1. file[i] \in C!Stop("value") /\ Fields("value", file, pconf, i, l, item[index])
      BY <1>2, <1>3, <1>4, <1>9
    <3> QED
      BY <1>3, <1>5, <3>1, FieldLast
  <2>9. PICK m : m = [x \in 0..index |-> IF x = index THEN l ELSE ln[x]]
    OBVIOUS
  <2>3. /\ Rows(file, Top, pconf', i + 1, index + 1, item, m)
        /\ Passed(Lines(file, Top), m, index + 1, l[2] + 1)
    <3>1. Text(file, Top) /\ Passed(Lines(file, Top), ln, index, l[1] + 1)
      BY <1>1, <1>3
    <3> QED
      BY <1>6, <1>7, <2>2, <2>9, <3>1, RowsMore, SMTT(30), ZenonT(40)
  <2>4. file[i] = "NL" /\ i + 1 \in 0..Top /\ (i + 1) - 1 = i
    BY <1>2, <1>3, <1>4, <1>6, <1>9, InsideIs DEF C!Stop
  <2>5. Begins(file, Top, i + 1)
    BY <2>4 DEF Begins
  <2>6. AtLine(m)' /\ AtEnd(m)'
    BY <1>1, <1>2, <1>3, <2>1, <2>2, <2>3, <2>5 DEF AtLine, AtEnd
  <2>7. InComment(m)' /\ InLine(m)'
    BY <2>1 DEF InComment, InLine, C!Before, C!Within
  <2>8. Place(m)'
    BY <1>1, <1>2, <2>1, <2>3, <2>6, <2>7 DEF Place
  <2> QED
    BY <2>8
<1> QED
  BY <1>2, <1>8, <1>9 DEF C!Within

LEMMA MeaningStep ==
    CursorInv /\ ItemInv /\ TextInv /\ MeaningInv /\ [Next]_vars => MeaningInv'
<1> SUFFICES ASSUME CursorInv, ItemInv, TextInv, MeaningInv, [Next]_vars PROVE MeaningInv'
  OBVIOUS
<1>1. CASE UNCHANGED configVars
  <2>1. Top' = Top
    BY <1>1 DEF Top, C!Offset, configVars
  <2> QED
    BY <1>1, <2>1 DEF MeaningInv, Place, AtLine, InComment, InLine, AtEnd, configVars
<1>2. CASE FindConfig
  <2>1. CASE conf' = NONE
    BY <1>1, <1>2, <2>1 DEF FindConfig
  <2>2. CASE conf' # NONE
    <3>1. PICK m \in O!Contents(list[conf'].base - High) : C!StartParse(m.text)
      BY <1>2, <2>2 DEF FindConfig
    <3>2. parsing = "idle" /\ parsing' = "line" /\ UNCHANGED <<i, index, item>>
      BY <3>1 DEF C!StartParse
    <3>3. i' = 0 /\ index' = 0 /\ item' = [n \in 0..IndexSize - 1 |-> C!NoItem]
      BY <3>2 DEF CursorInv, ItemInv
    <3>4. TextInv'
      BY TextStep
    <3> QED
      BY <3>2, <3>3, <3>4, PlaceStart
  <2> QED
    BY <2>1, <2>2
<1>3. CASE Parse
  <2>1. C!config_parse
    BY <1>3 DEF Parse
  <2>2. ~Resting
    BY <2>1 DEF C!config_parse, C!LineComment, C!LineEmpty, C!LineEnd, C!LineItem,
       C!Comment, C!SkipBlank, C!EndBefore, C!StartField, C!SkipField, C!EndWithin,
       C!CutField, C!Before, C!Within, Resting
  <2> SUFFICES ASSUME Complete(file, Top)' PROVE \E m : Place(m)'
    BY DEF MeaningInv
  <2>3. file' = file /\ Top' = Top
    <3>1. DOMAIN pconf' = DOMAIN pconf
      BY <2>1 DEF C!config_parse, C!LineComment, C!LineEmpty, C!LineEnd, C!LineItem, C!Comment,
         C!SkipBlank, C!EndBefore, C!StartField, C!SkipField, C!EndWithin, C!CutField
    <3> QED
      BY <2>1, <3>1 DEF Top, C!Offset, C!config_parse
  <2>4. Complete(file, Top)
    BY <2>3
  <2>5. PICK ln : Place(ln)
    BY <2>2, <2>4 DEF MeaningInv, Resting
  <2>6. Stage(ln)
    BY <2>2, <2>4, <2>5 DEF Stage
  <2> QED
    BY <2>1, <2>6, PlaceLine, PlaceComment, PlaceField, PlaceCut DEF C!config_parse
<1> QED
  BY <1>1, <1>2, <1>3 DEF Next, Code, Unfold, FindKernel, Load, Evict, vars

-----------------------------------------------------------------------------
(* Counting.                                                               *)

\* A set that is listed without repetition.
LEMMA CountOf ==
    ASSUME NEW n \in Nat, NEW g, NEW S, \A x \in 0..n - 1 : g[x] \in S,
           \A y \in S : \E x \in 0..n - 1 : g[x] = y,
           \A x, y \in 0..n - 1 : g[x] = g[y] => x = y
    PROVE  IsFiniteSet(S) /\ Cardinality(S) = n
<1> DEFINE D == 0..n - 1
           h == [x \in D |-> g[x]]
<1>1. IsFiniteSet(D) /\ Cardinality(D) = n
  BY FS_Interval
<1>2. h \in [D -> S] /\ (\A x, y \in D : h[x] = h[y] => x = y) /\ \A y \in S : \E x \in D : h[x] = y
  OBVIOUS
<1> HIDE DEF D, h
<1>3. h \in Bijection(D, S)
  BY <1>2, Fun_IsBij
<1>4. ExistsBijection(D, S)
  BY <1>3, Fun_ExistsBij
<1> QED
  BY <1>1, <1>4, FS_Bijection

\* Config counts with its own instance of FiniteSets.
LEMMA SameCount ==
    ASSUME NEW S
    PROVE  C!Cardinality(S) = Cardinality(S)
BY DEF C!Cardinality, Cardinality

UpTo(S, y) == {x \in S : x <= y}

LEMMA NthChosen ==
    ASSUME NEW S, NEW j, NEW m \in S, \A y \in S : Cardinality(UpTo(S, y)) = j <=> y = m
    PROVE  C!Nth(S, j) = m
<1>1. C!Nth(S, j) = CHOOSE n \in S : C!Cardinality({x \in S : x <= n}) = j
  BY DEF C!Nth
<1> QED
  BY <1>1, SameCount DEF UpTo

\* The k-th smallest is the one up to which there are k.
LEMMA NthIs ==
    ASSUME NEW S \in SUBSET Int, IsFiniteSet(S), NEW m \in S,
           NEW j, Cardinality(UpTo(S, m)) = j
    PROVE  C!Nth(S, j) = m
<1>1. ASSUME NEW u \in S, NEW v \in S, u < v PROVE Cardinality(UpTo(S, u)) # Cardinality(UpTo(S, v))
  <2>1. IsFiniteSet(UpTo(S, v))
    <3>1. UpTo(S, v) \in SUBSET S
      BY DEF UpTo
    <3> QED
      BY <3>1, FS_Subset
  <2>2. UpTo(S, u) \in SUBSET UpTo(S, v) /\ v \in UpTo(S, v) /\ v \notin UpTo(S, u)
    <3>1. u \in Int /\ v \in Int /\ ~(v <= u) /\ v <= v
      BY <1>1
    <3>2. \A x \in S : x <= u => x <= v
      BY <1>1, <3>1
    <3> QED
      BY <1>1, <3>1, <3>2 DEF UpTo
  <2> QED
    BY <2>1, <2>2, FS_Subset
<1>2. ASSUME NEW y \in S, Cardinality(UpTo(S, y)) = j PROVE y = m
  <2>1. y < m \/ m < y \/ y = m
    OBVIOUS
  <2>2. Cardinality(UpTo(S, m)) = j
    OBVIOUS
  <2> QED
    BY <1>1, <1>2, <2>1, <2>2
<1>3. \A y \in S : Cardinality(UpTo(S, y)) = j <=> y = m
  <2>1. Cardinality(UpTo(S, m)) = j
    OBVIOUS
  <2> QED
    BY <1>2, <2>1
<1> QED
  BY <1>3, NthChosen, SMTT(30), ZenonT(40)

\* A list in ascending order.
LEMMA NthOf ==
    ASSUME NEW n \in Nat, NEW g, \A x \in 0..n - 1 : g[x] \in Int,
           \A x, y \in 0..n - 1 : x < y => g[x] < g[y],
           NEW S, \A x \in 0..n - 1 : g[x] \in S, \A y \in S : \E x \in 0..n - 1 : g[x] = y,
           NEW j \in 1..n
    PROVE  C!Nth(S, j) = g[j - 1]
<1>1. \A x, y \in 0..n - 1 : g[x] = g[y] => x = y
  <2> SUFFICES ASSUME NEW x \in 0..n - 1, NEW y \in 0..n - 1, g[x] = g[y], x # y PROVE FALSE
    OBVIOUS
  <2>1. x < y \/ y < x
    OBVIOUS
  <2>2. g[x] < g[y] \/ g[y] < g[x]
    BY <2>1
  <2> QED
    BY <2>2
<1>2. IsFiniteSet(S)
  BY <1>1, CountOf
<1>3. S \in SUBSET Int
  OBVIOUS
<1> DEFINE m == g[j - 1]
           T == UpTo(S, m)
<1>4. j \in Nat /\ j - 1 \in 0..n - 1 /\ \A x \in 0..j - 1 : x \in 0..n - 1
  OBVIOUS
<1>5. \A x \in 0..j - 1 : g[x] \in T
  <2> SUFFICES ASSUME NEW x \in 0..j - 1 PROVE g[x] <= m
    BY <1>4 DEF UpTo
  <2>1. x = j - 1 \/ x < j - 1
    OBVIOUS
  <2>2. x \in 0..n - 1 /\ g[x] \in Int /\ m \in Int
    BY <1>4
  <2> QED
    BY <1>4, <2>1, <2>2
<1>6. \A y \in T : \E x \in 0..j - 1 : g[x] = y
  <2> SUFFICES ASSUME NEW y \in T PROVE \E x \in 0..j - 1 : g[x] = y
    OBVIOUS
  <2>1. PICK x \in 0..n - 1 : g[x] = y
    BY DEF UpTo
  <2>2. ~(j - 1 < x)
    <3>1. g[x] <= m /\ g[x] \in Int /\ m \in Int
      BY <1>4, <2>1 DEF UpTo
    <3>2. j - 1 < x => m < g[x]
      BY <1>4
    <3> QED
      BY <3>1, <3>2
  <2>3. x \in 0..j - 1
    BY <2>2
  <2> QED
    BY <2>1, <2>3
<1>7. Cardinality(T) = j
  <2>1. \A x, y \in 0..j - 1 : g[x] = g[y] => x = y
    BY <1>1, <1>4
  <2> HIDE DEF T
  <2> QED
    BY <1>4, <1>5, <1>6, <2>1, CountOf
<1>8. m \in S
  BY <1>4
<1> QED
  BY <1>2, <1>3, <1>7, <1>8, NthIs

\* The first three words.
LEMMA NthWords ==
    ASSUME NEW W \in SUBSET Nat, IsFiniteSet(W), NEW a, NEW b, NEW v, First3(W, a, b, v)
    PROVE  C!Nth(W, 1) = a /\ C!Nth(W, 2) = b /\ C!Nth(W, 3) = v
<1>1. /\ a \in W /\ b \in W /\ v \in W /\ a < b /\ b < v
      /\ \A x \in W : x <= v => x = a \/ x = b \/ x = v
  BY DEF First3
<1>2. a \in Nat /\ b \in Nat /\ v \in Nat /\ W \in SUBSET Int
  BY <1>1
<1>3. /\ UpTo(W, a) = {a} /\ UpTo(W, b) = {a} \cup {b}
      /\ UpTo(W, v) = ({a} \cup {b}) \cup {v}
  <2>1. a <= a /\ a <= b /\ a <= v /\ b <= b /\ b <= v /\ v <= v
        /\ ~(b <= a) /\ ~(v <= a) /\ ~(v <= b)
    BY <1>1, <1>2
  <2>2. \A x \in W : (x <= a => x <= v) /\ (x <= b => x <= v)
    BY <1>1, <1>2
  <2>3. UpTo(W, a) = {a}
    BY <1>1, <2>1, <2>2 DEF UpTo
  <2>4. UpTo(W, b) = {a} \cup {b}
    BY <1>1, <2>1, <2>2 DEF UpTo
  <2>5. UpTo(W, v) = ({a} \cup {b}) \cup {v}
    BY <1>1, <2>1, <2>2 DEF UpTo
  <2> QED
    BY <2>3, <2>4, <2>5
<1>4. IsFiniteSet({a}) /\ Cardinality({a}) = 1
  BY FS_Singleton
<1>5. IsFiniteSet({a} \cup {b}) /\ Cardinality({a} \cup {b}) = 2
  <2> DEFINE A == {a}
  <2>1. IsFiniteSet(A) /\ Cardinality(A) = 1 /\ b \notin A
    BY <1>1, <1>2, <1>4
  <2> HIDE DEF A
  <2>2. IsFiniteSet(A \cup {b}) /\ Cardinality(A \cup {b}) = Cardinality(A) + 1
    BY <2>1, FS_AddElement
  <2>3. Cardinality(A \cup {b}) = 2
    BY <2>1, <2>2
  <2> QED
    BY <2>2, <2>3 DEF A
<1>6. Cardinality(({a} \cup {b}) \cup {v}) = 3
  <2> DEFINE A == {a} \cup {b}
  <2>1. IsFiniteSet(A) /\ Cardinality(A) = 2 /\ v \notin A
    BY <1>1, <1>2, <1>5
  <2> HIDE DEF A
  <2>2. Cardinality(A \cup {v}) = Cardinality(A) + 1
    BY <2>1, FS_AddElement
  <2>3. Cardinality(A \cup {v}) = 3
    BY <2>1, <2>2
  <2> QED
    BY <2>3 DEF A
<1>7. C!Nth(W, 1) = a
  BY <1>1, <1>2, <1>3, <1>4, NthIs
<1>8. C!Nth(W, 2) = b
  BY <1>1, <1>2, <1>3, <1>5, NthIs
<1>9. C!Nth(W, 3) = v
  BY <1>1, <1>2, <1>3, <1>6, NthIs
<1> QED
  BY <1>7, <1>8, <1>9

-----------------------------------------------------------------------------
(* The items are what the text means.                                      *)

\* A field that was cut is the word it was.
LEMMA WordIs ==
    ASSUME TextInv, NEW a \in Nat, NEW stop, "NUL" \notin stop, Closed(file, pconf, i, a, stop)
    PROVE  C!Word(a, stop) = C!CString(a)
<1>1. PICK e \in 0..i - 1 : /\ a <= e /\ file[e] \in stop /\ pconf[e] = "NUL"
                            /\ \A x \in a..e - 1 : file[x] \notin stop /\ pconf[x] = file[x]
  BY DEF Closed
<1>2. /\ Top \in Nat /\ i \in 0..Top /\ C!Offset = 0..Top
      /\ \A x \in 0..Top - 1 : file[x] # "NUL"
  BY DEF TextInv, Text, C!Offset
<1>3. e \in C!Offset /\ e \in Nat /\ e < Top
  BY <1>1, <1>2
<1>4. \A x \in a..e - 1 : pconf[x] # "NUL"
  <2>1. \A x \in a..e - 1 : x \in 0..Top - 1
    BY <1>2, <1>3
  <2> QED
    BY <1>1, <1>2, <2>1
<1> DEFINE End(x) == x >= a /\ file[x] \in stop /\ \A y \in a..x - 1 : file[y] \notin stop
           Nul(x) == x >= a /\ pconf[x] = "NUL" /\ \A y \in a..x - 1 : pconf[y] # "NUL"
<1>5. End(e) /\ Nul(e)
  BY <1>1, <1>3, <1>4
<1>6. \A x \in C!Offset : End(x) => x = e
  <2> SUFFICES ASSUME NEW x \in 0..Top, End(x), x # e PROVE FALSE
    BY <1>2
  <2>1. x \in a..e - 1 \/ e \in a..x - 1
    BY <1>1, <1>3
  <2> QED
    BY <1>1, <2>1
<1>7. \A x \in C!Offset : Nul(x) => x = e
  <2> SUFFICES ASSUME NEW x \in 0..Top, Nul(x), x # e PROVE FALSE
    BY <1>2
  <2>1. x \in a..e - 1 \/ e \in a..x - 1
    BY <1>1, <1>3
  <2> QED
    BY <1>1, <1>4, <2>1
<1> HIDE DEF End, Nul
<1>8. (CHOOSE x \in C!Offset : End(x)) = e /\ (CHOOSE x \in C!Offset : Nul(x)) = e
  BY <1>3, <1>5, <1>6, <1>7
<1>9. C!Word(a, stop) = [x \in 1..(CHOOSE y \in C!Offset : End(y)) - a |-> file[a + x - 1]]
  BY DEF C!Word, End
<1>10. C!CString(a) = [x \in 1..(CHOOSE y \in C!Offset : Nul(y)) - a |-> pconf[a + x - 1]]
  BY DEF C!CString, Nul
<1>11. \A x \in 1..e - a : file[a + x - 1] = pconf[a + x - 1]
  <2>1. \A x \in 1..e - a : a + x - 1 \in a..e - 1
    BY <1>1, <1>3
  <2> QED
    BY <1>1, <2>1
<1> QED
  BY <1>8, <1>9, <1>10, <1>11

LEMMA LinesFinite ==
    ASSUME NEW t, NEW top, Text(t, top)
    PROVE  /\ IsFiniteSet(Lines(t, top))
           /\ \A l \in Lines(t, top) : Starts(t, l) \in SUBSET Nat /\ IsFiniteSet(Starts(t, l))
<1>1. top \in Nat
  BY DEF Text
<1>2. IsFiniteSet((-1)..top) /\ IsFiniteSet(0..top)
  BY <1>1, FS_Interval
<1>3. IsFiniteSet(((-1)..top) \X (0..top))
  BY <1>2, FS_Product
<1>4. Lines(t, top) \in SUBSET (((-1)..top) \X (0..top))
  <2> SUFFICES ASSUME NEW l \in Lines(t, top) PROVE l \in ((-1)..top) \X (0..top)
    OBVIOUS
  <2>1. /\ l = <<l[1], l[2]>> /\ l[1] \in Int /\ l[2] \in Int
        /\ l[1] >= -1 /\ l[1] + 1 < l[2] /\ l[2] < top
    BY LineIs
  <2>2. l[1] \in (-1)..top /\ l[2] \in 0..top
    BY <1>1, <2>1
  <2>3. <<l[1], l[2]>> \in ((-1)..top) \X (0..top)
    BY <2>2
  <2> QED
    BY <2>1, <2>3
<1>5. IsFiniteSet(Lines(t, top))
  BY <1>3, <1>4, FS_Subset
<1>6. ASSUME NEW l \in Lines(t, top) PROVE Starts(t, l) \in SUBSET Nat /\ IsFiniteSet(Starts(t, l))
  <2>1. \A x \in Starts(t, l) : x \in Nat /\ x < l[2]
    BY StartIs
  <2>2. l[2] \in Int /\ l[2] < top
    BY LineIs
  <2>3. \A x \in Starts(t, l) : x \in 0..top
    BY <1>1, <2>1, <2>2
  <2>4. Starts(t, l) \in SUBSET (0..top)
    BY <2>3
  <2> QED
    BY <1>2, <2>1, <2>4, FS_Subset
<1> QED
  BY <1>5, <1>6

\* Config's lines are those of the text.
LEMMA SameLines ==
    ASSUME TextInv
    PROVE  /\ C!ItemLine = Lines(file, Top)
           /\ \A l : C!WordStarts(l) = Starts(file, l)
           /\ C!WellFormed => Complete(file, Top)
<1>1. C!Offset = 0..Top /\ Top \in Nat
  BY DEF TextInv, Text, C!Offset
<1>2. C!Newline = Newlines(file, Top)
  BY <1>1 DEF C!Newline, Newlines
<1>3. C!ItemLine = Lines(file, Top)
  BY <1>2 DEF C!ItemLine, Lines
<1>4. \A l : C!WordStarts(l) = Starts(file, l)
  BY DEF C!WordStarts, Starts
<1>5. ASSUME C!WellFormed PROVE Complete(file, Top)
  <2>1. /\ C!Offset # {0} => file[C!Cardinality(C!Offset) - 2] = "NL"
        /\ \A l \in C!ItemLine : C!Cardinality(C!WordStarts(l)) >= 3
    BY <1>5 DEF C!WellFormed
  <2>2. C!Cardinality(C!Offset) - 2 = Top - 1
    <3>1. C!Cardinality(C!Offset) = Cardinality(0..Top)
      BY <1>1, SameCount
    <3>2. Cardinality(0..Top) = IF 0 > Top THEN 0 ELSE Top - 0 + 1
      BY <1>1, FS_Interval
    <3> QED
      BY <1>1, <3>1, <3>2
  <2>3. Top # 0 => C!Offset # {0}
    BY <1>1
  <2>4. \A l \in Lines(file, Top) : Cardinality(Starts(file, l)) >= 3
    BY <1>3, <1>4, <2>1, SameCount
  <2> QED
    BY <2>1, <2>2, <2>3, <2>4 DEF Complete
<1> QED
  BY <1>3, <1>4, <1>5

\* Distinct rows are distinct lines.
LEMMA RowsApart ==
    ASSUME NEW t, NEW top, Text(t, top), NEW c, NEW p, NEW n \in Nat, NEW it, NEW ln,
           Rows(t, top, c, p, n, it, ln)
    PROVE  /\ \A x \in 0..n - 1 : ln[x] \in Lines(t, top) /\ ln[x][1] \in Int
           /\ \A x, y \in 0..n - 1 : x < y => ln[x][1] < ln[y][1]
           /\ \A x, y \in 0..n - 1 : ln[x][1] = ln[y][1] => x = y
           /\ \A x \in 0..n - 1 : Row(t, c, p, ln[x], it[x])
<1>1. \A x \in 0..n - 1 : ln[x] \in Lines(t, top)
  BY DEF Rows
<1>2. \A x \in 0..n - 1 : ln[x][1] \in Int
  BY <1>1, LineIs
<1>3. \A x, y \in 0..n - 1 : x < y => ln[x][1] < ln[y][1]
  BY DEF Rows
<1>4. ASSUME NEW x \in 0..n - 1, NEW y \in 0..n - 1, ln[x][1] = ln[y][1] PROVE x = y
  <2>1. x < y \/ y < x \/ x = y
    OBVIOUS
  <2>2. ln[x][1] \in Int /\ ln[y][1] \in Int
    BY <1>2
  <2> QED
    BY <1>3, <1>4, <2>1, <2>2
<1> QED
  BY <1>1, <1>2, <1>3, <1>4 DEF Rows

\* The parser is through with a text of complete lines.
Through(ln) ==
    /\ TextInv /\ Complete(file, Top)
    /\ index \in 0..IndexSize
    /\ Rows(file, Top, pconf, i, index, item, ln)
    /\ Passed(Lines(file, Top), ln, index, i) /\ Unused(item, index)
    /\ index = IndexSize \/ i = Top

LEMMA ThroughIs ==
    ASSUME parsing = "done", TextInv, MeaningInv, C!WellFormed
    PROVE  \E ln : Through(ln)
<1>1. Complete(file, Top)
  BY SameLines
<1>2. PICK ln : Place(ln)
  BY <1>1 DEF MeaningInv
<1> QED
  BY <1>1, <1>2 DEF Place, AtEnd, Through

\* The lines that there is room for.
LEMMA FirstLinesAre ==
    ASSUME NEW ln, Through(ln)
    PROVE  C!FirstLines(C!ItemLine) = {ln[x] : x \in 0..index - 1}
<1> DEFINE L2 == Lines(file, Top)
           R == {ln[x] : x \in 0..index - 1}
           B(l) == {x \in L2 : x[1] < l[1]}
<1>1. Text(file, Top) /\ Top \in Nat /\ i \in 0..Top /\ IndexSize \in Nat /\ index \in Nat
  BY SizeAssumption DEF Through, TextInv, Text
<1>2. /\ \A x \in 0..index - 1 : ln[x] \in L2 /\ ln[x][1] \in Int
      /\ \A x, y \in 0..index - 1 : x < y => ln[x][1] < ln[y][1]
      /\ \A x, y \in 0..index - 1 : ln[x][1] = ln[y][1] => x = y
  <2>1. Rows(file, Top, pconf, i, index, item, ln)
    BY DEF Through
  <2>2. /\ \A x \in 0..index - 1 : ln[x] \in Lines(file, Top) /\ ln[x][1] \in Int
        /\ \A x, y \in 0..index - 1 : x < y => ln[x][1] < ln[y][1]
        /\ \A x, y \in 0..index - 1 : ln[x][1] = ln[y][1] => x = y
        /\ \A x \in 0..index - 1 : Row(file, pconf, i, ln[x], item[x])
    BY <1>1, <2>1, RowsApart
  <2> QED
    BY <2>2
<1>3. \A l \in L2 : l[2] < i <=> \E x \in 0..index - 1 : ln[x] = l
  BY DEF Through, Passed
<1>4. \A l \in L2 : l[1] \in Int /\ l[2] \in Int /\ l[1] + 1 < l[2] /\ l[2] < Top
  BY <1>1, LineIs
<1>5. \A l, m \in L2 : (l[1] < m[1] => l[2] <= m[1]) /\ (l[2] < m[2] => l[1] < m[1])
  BY <1>1, LinesApart
<1> HIDE DEF L2
<1>6. \A l : IsFiniteSet(B(l))
  <2>1. IsFiniteSet(L2)
    BY <1>1, LinesFinite DEF L2
  <2>2. \A l : B(l) \in SUBSET L2
    OBVIOUS
  <2> HIDE DEF B
  <2> QED
    BY <2>1, <2>2, FS_Subset
<1>7. ASSUME NEW n \in 0..index - 1 PROVE Cardinality(B(ln[n])) < IndexSize
  <2>1. n \in Nat /\ n < IndexSize /\ \A x \in 0..n - 1 : x \in 0..index - 1 /\ x < n
    BY <1>1 DEF Through
  <2>2. \A x \in 0..n - 1 : ln[x] \in B(ln[n])
    BY <1>2, <2>1
  <2>3. ASSUME NEW m \in B(ln[n]) PROVE \E x \in 0..n - 1 : ln[x] = m
    <3>1. m \in L2 /\ ln[n] \in L2 /\ m[1] < ln[n][1]
      BY <1>2, <2>3
    <3>2. m[2] <= ln[n][1] /\ ln[n][2] < i
      BY <1>3, <1>5, <3>1
    <3>3. m[2] \in Int /\ ln[n][1] \in Int /\ ln[n][2] \in Int /\ ln[n][1] + 1 < ln[n][2] /\ i \in Int
      BY <1>1, <1>4, <3>1
    <3>4. m[2] < i
      BY <3>2, <3>3
    <3>5. PICK x \in 0..index - 1 : ln[x] = m
      BY <1>3, <3>1, <3>4
    <3>6. ~(n < x) /\ x # n
      <4>1. m[1] \in Int
        BY <1>4, <3>1
      <4>2. n < x => ln[n][1] < ln[x][1]
        BY <1>2
      <4> QED
        BY <3>1, <3>3, <3>5, <4>1, <4>2
    <3>7. x \in 0..n - 1
      BY <3>6
    <3> QED
      BY <3>5, <3>7
  <2>4. \A x, y \in 0..n - 1 : ln[x] = ln[y] => x = y
    BY <1>2, <2>1
  <2> HIDE DEF B
  <2>5. Cardinality(B(ln[n])) = n
    BY <2>1, <2>2, <2>3, <2>4, CountOf
  <2> QED
    BY <2>1, <2>5
<1>8. ASSUME NEW l \in L2, l \notin R PROVE ~(Cardinality(B(l)) < IndexSize)
  <2>1. ~(l[2] < i)
    BY <1>3, <1>8
  <2>2. l[2] \in Int /\ l[2] < Top
    BY <1>4
  <2>3. index = IndexSize
    BY <1>1, <2>1, <2>2 DEF Through
  <2>4. \A x \in 0..index - 1 : ln[x] \in B(l)
    <3> SUFFICES ASSUME NEW x \in 0..index - 1 PROVE ln[x] \in B(l)
      OBVIOUS
    <3>1. ln[x] \in L2 /\ ln[x][2] < i
      BY <1>2, <1>3
    <3>2. ln[x][2] \in Int
      BY <1>4, <3>1
    <3>3. ln[x][2] < l[2]
      BY <1>1, <2>1, <2>2, <3>1, <3>2
    <3> QED
      BY <1>5, <3>1, <3>3
  <2>5. R \in SUBSET B(l)
    BY <2>4
  <2>6. Cardinality(R) = index
    <3>1. \A x \in 0..index - 1 : ln[x] \in R
      OBVIOUS
    <3>2. \A y \in R : \E x \in 0..index - 1 : ln[x] = y
      OBVIOUS
    <3>3. \A x, y \in 0..index - 1 : ln[x] = ln[y] => x = y
      BY <1>2
    <3> HIDE DEF R
    <3> QED
      BY <1>1, <3>1, <3>2, <3>3, CountOf
  <2> HIDE DEF B, R
  <2>7. IsFiniteSet(B(l)) /\ Cardinality(R) <= Cardinality(B(l))
    BY <1>6, <2>5, FS_Subset
  <2>8. Cardinality(B(l)) \in Nat
    BY <2>7, FS_CardinalityType
  <2> QED
    BY <1>1, <2>3, <2>6, <2>7, <2>8
<1>9. C!FirstLines(L2) = {l \in L2 : Cardinality(B(l)) < IndexSize}
  <2>1. C!FirstLines(L2) = {l \in L2 : C!Cardinality(B(l)) < IndexSize}
    BY DEF C!FirstLines
  <2>2. \A l : C!Cardinality(B(l)) = Cardinality(B(l))
    BY SameCount
  <2> HIDE DEF B
  <2> QED
    BY <2>1, <2>2
<1>10. \A l \in L2 : Cardinality(B(l)) < IndexSize <=> l \in R
  <2> HIDE DEF B
  <2> QED
    BY <1>7, <1>8
<1>11. R \in SUBSET L2
  BY <1>2
<1> HIDE DEF B, R
<1>12. C!FirstLines(L2) = R
  BY <1>9, <1>10, <1>11
<1>13. C!ItemLine = L2
  BY SameLines DEF Through, L2
<1> QED
  BY <1>12, <1>13 DEF R

\* What a line means, and the line at the j-th of the starts S.
LineMeans(l) ==
    [section  |-> C!Word(C!Nth(C!WordStarts(l), 1), C!Blank),
     property |-> C!Word(C!Nth(C!WordStarts(l), 2), C!Blank),
     value    |-> C!Word(C!Nth(C!WordStarts(l), 3), {"NL"})]
LineAt(lines, S, j) == CHOOSE x \in lines : x[1] = C!Nth(S, j)

\* The strings of an item.
Fielded(it) ==
    [section  |-> C!CString(it.section),
     property |-> C!CString(it.property),
     value    |-> C!CString(it.value)]

LEMMA RowMeans ==
    ASSUME TextInv, NEW l \in Lines(file, Top), NEW it, Row(file, pconf, i, l, it)
    PROVE  LineMeans(l) = Fielded(it)
<1>1. Text(file, Top) /\ C!WordStarts(l) = Starts(file, l)
  BY SameLines DEF TextInv
<1>2. Starts(file, l) \in SUBSET Nat /\ IsFiniteSet(Starts(file, l))
  BY <1>1, LinesFinite
<1>3. /\ First3(Starts(file, l), it.section, it.property, it.value)
      /\ Closed(file, pconf, i, it.section, C!Blank) /\ Closed(file, pconf, i, it.property, C!Blank)
      /\ Closed(file, pconf, i, it.value, {"NL"})
  BY DEF Row
<1>4. /\ C!Nth(C!WordStarts(l), 1) = it.section
      /\ C!Nth(C!WordStarts(l), 2) = it.property
      /\ C!Nth(C!WordStarts(l), 3) = it.value
  BY <1>1, <1>2, <1>3, NthWords
<1>5. it.section \in Nat /\ it.property \in Nat /\ it.value \in Nat
  BY <1>2, <1>3 DEF First3
<1>6. "NUL" \notin C!Blank /\ "NUL" \notin {"NL"}
  BY DEF C!Blank
<1>7. /\ C!Word(it.section, C!Blank) = C!CString(it.section)
      /\ C!Word(it.property, C!Blank) = C!CString(it.property)
      /\ C!Word(it.value, {"NL"}) = C!CString(it.value)
  BY <1>3, <1>5, <1>6, WordIs
<1> QED
  BY <1>4, <1>7 DEF LineMeans, Fielded

LEMMA MeantIs ==
    ASSUME NEW ln, Through(ln)
    PROVE  C!Meant = [x \in 1..index |-> Fielded(item[x - 1])]
<1> DEFINE R == C!FirstLines(C!ItemLine)
           S == {l[1] : l \in R}
<1>1. C!Meant = [x \in 1..C!Cardinality(R) |-> LineMeans(LineAt(R, S, x))]
  BY DEF C!Meant, LineMeans, LineAt
<1>2. R = {ln[x] : x \in 0..index - 1}
  BY FirstLinesAre
<1>3. S = {l[1] : l \in R}
  OBVIOUS
<1> HIDE DEF R, S
<1>4. TextInv /\ Text(file, Top) /\ index \in Nat /\ Rows(file, Top, pconf, i, index, item, ln)
  BY SizeAssumption DEF Through, TextInv
<1>5. /\ \A x \in 0..index - 1 : ln[x] \in Lines(file, Top) /\ ln[x][1] \in Int
      /\ \A x, y \in 0..index - 1 : x < y => ln[x][1] < ln[y][1]
      /\ \A x, y \in 0..index - 1 : ln[x][1] = ln[y][1] => x = y
      /\ \A x \in 0..index - 1 : Row(file, pconf, i, ln[x], item[x])
  BY <1>4, RowsApart
<1>6. C!Cardinality(R) = index
  <2>1. \A x \in 0..index - 1 : ln[x] \in R
    BY <1>2
  <2>2. \A y \in R : \E x \in 0..index - 1 : ln[x] = y
    BY <1>2
  <2>3. \A x, y \in 0..index - 1 : ln[x] = ln[y] => x = y
    BY <1>5
  <2>4. Cardinality(R) = index
    BY <1>4, <2>1, <2>2, <2>3, CountOf
  <2> QED
    BY <2>4, SameCount
<1>7. ASSUME NEW j \in 1..index PROVE LineMeans(LineAt(R, S, j)) = Fielded(item[j - 1])
  <2> DEFINE g == [x \in 0..index - 1 |-> ln[x][1]]
  <2>1. j - 1 \in 0..index - 1
    BY <1>4
  <2>2. C!Nth(S, j) = ln[j - 1][1]
    <3>1. \A x \in 0..index - 1 : g[x] \in Int /\ g[x] = ln[x][1]
      BY <1>5
    <3>2. \A x, y \in 0..index - 1 : x < y => g[x] < g[y]
      BY <1>5
    <3>3. \A x \in 0..index - 1 : g[x] \in S
      BY <1>2, <1>3
    <3>4. \A y \in S : \E x \in 0..index - 1 : g[x] = y
      BY <1>2, <1>3
    <3> HIDE DEF g
    <3>5. (\A x \in 0..index - 1 : g[x] \in Int) /\ index \in Nat
      BY <1>4, <3>1
    <3>6. C!Nth(S, j) = g[j - 1]
      BY <3>2, <3>3, <3>4, <3>5, NthOf
    <3> QED
      BY <2>1, <3>1, <3>6
  <2>3. \A l \in R : l[1] = ln[j - 1][1] <=> l = ln[j - 1]
    <3> SUFFICES ASSUME NEW x \in 0..index - 1, ln[x][1] = ln[j - 1][1] PROVE x = j - 1
      BY <1>2
    <3> QED
      BY <1>5, <2>1
  <2>4. ln[j - 1] \in R
    BY <1>2, <2>1
  <2>5. LineAt(R, S, j) = ln[j - 1]
    BY <2>2, <2>3, <2>4 DEF LineAt
  <2>6. ln[j - 1] \in Lines(file, Top) /\ Row(file, pconf, i, ln[j - 1], item[j - 1])
    BY <1>5, <2>1
  <2> QED
    BY <1>4, <2>5, <2>6, RowMeans
<1> QED
  BY <1>1, <1>6, <1>7

LEMMA MeaningInit == Init => MeaningInv
BY DEF Init, C!Init, MeaningInv

LEMMA ConfigInv == Spec => [](CursorInv /\ ItemInv /\ TextInv /\ MeaningInv)
<1>1. Init => CursorInv /\ ObjectInv /\ ItemInv /\ TextInv /\ MeaningInv
  BY CursorInit, ObjectInit, ItemInit, TextInit, MeaningInit
<1>2. CursorInv /\ ObjectInv /\ ItemInv /\ TextInv /\ MeaningInv /\ [Next]_vars
          => (CursorInv /\ ObjectInv /\ ItemInv /\ TextInv /\ MeaningInv)'
  BY CursorStep, ObjectStep, ItemStep, TextStep, MeaningStep
<1> QED
  BY <1>1, <1>2, PTL DEF Spec

LEMMA ParsedSo == TextInv /\ MeaningInv => ParsedAsMeant
<1> SUFFICES ASSUME TextInv, MeaningInv, parsing = "done", C!WellFormed
             PROVE  C!Meant = [x \in 1..index |-> Fielded(item[x - 1])]
  BY DEF ParsedAsMeant, C!ParsedAsMeant, Fielded
<1>1. PICK ln : Through(ln)
  BY ThroughIs
<1> QED
  BY <1>1, MeantIs

\* Every text of complete lines, however many, and whatever the size of the index,
\* is read as its lines mean: config_parse cuts no field short, and none that it
\* has passed is damaged by a later one (config.c:38-99).
THEOREM ReadAsMeant == Spec => []ParsedAsMeant
BY ConfigInv, ParsedSo, PTL

-----------------------------------------------------------------------------
(* The lookups.                                                            *)

\* The names that no other begins.
FieldNames(items) == Ask \cup {items[x].section : x \in DOMAIN items}
                         \cup {items[x].property : x \in DOMAIN items}

LEMMA NamesApart ==
    ASSUME NEW items, C!NoPrefixes(items), NEW s \in FieldNames(items), NEW p \in FieldNames(items)
    PROVE  C!Matches(s, p) <=> s = p
<1>1. \A x, y \in FieldNames(items) : C!Matches(x, y) => x = y
  BY DEF C!NoPrefixes, FieldNames
<1>2. C!Matches(p, p)
  BY DEF C!Matches
<1> QED
  BY <1>1, <1>2

\* The items before the index have all their fields, and those behind it none.
LEMMA FieldsThere ==
    ASSUME NEW ln, Through(ln)
    PROVE  /\ index \in Nat /\ index <= IndexSize /\ IndexSize \in Nat
           /\ \A x \in 0..index - 1 : /\ item[x].section # NONE
                                      /\ item[x].property # NONE /\ item[x].value # NONE
           /\ \A x \in 0..index - 1 : /\ Closed(file, pconf, i, item[x].value, {"NL"})
                                      /\ item[x].value \in Nat
           /\ \A x \in 0..IndexSize - 1 : x >= index => item[x].section = NONE
<1>1. /\ index \in Nat /\ index <= IndexSize /\ IndexSize \in Nat /\ Text(file, Top)
      /\ Rows(file, Top, pconf, i, index, item, ln)
  BY SizeAssumption DEF Through, TextInv
<1>2. /\ \A x \in 0..index - 1 : ln[x] \in Lines(file, Top) /\ ln[x][1] \in Int
      /\ \A x, y \in 0..index - 1 : x < y => ln[x][1] < ln[y][1]
      /\ \A x, y \in 0..index - 1 : ln[x][1] = ln[y][1] => x = y
      /\ \A x \in 0..index - 1 : Row(file, pconf, i, ln[x], item[x])
  BY <1>1, RowsApart
<1>3. ASSUME NEW x \in 0..index - 1
      PROVE  /\ item[x].section \in Nat /\ item[x].property \in Nat /\ item[x].value \in Nat
             /\ Closed(file, pconf, i, item[x].value, {"NL"})
  <2>1. ln[x] \in Lines(file, Top) /\ Row(file, pconf, i, ln[x], item[x])
    BY <1>2
  <2>2. /\ First3(Starts(file, ln[x]), item[x].section, item[x].property, item[x].value)
        /\ Closed(file, pconf, i, item[x].value, {"NL"})
    BY <2>1 DEF Row
  <2>3. \A y \in Starts(file, ln[x]) : y \in Nat
    BY <1>1, <2>1, StartIs
  <2> QED
    BY <2>2, <2>3 DEF First3
<1>4. \A x \in 0..IndexSize - 1 : x >= index => item[x].section = NONE
  BY DEF Through, Unused
<1> QED
  BY <1>1, <1>3, <1>4, NullAssumption

\* The items of these names.
Named(s, p) == {x \in 0..index - 1 : /\ C!CString(item[x].section) = s
                                     /\ C!CString(item[x].property) = p}

LEMMA FoundNamed ==
    ASSUME NEW ln, Through(ln), C!NoPrefixes(C!Meant),
           NEW s \in FieldNames(C!Meant), NEW p \in FieldNames(C!Meant)
    PROVE  /\ C!Found(s, p) = Named(s, p)
           /\ C!Exactly(C!Meant, s, p) \in SUBSET (1..index)
           /\ \A x \in 1..index : x \in C!Exactly(C!Meant, s, p) <=> x - 1 \in Named(s, p)
<1> DEFINE items == [x \in 1..index |-> Fielded(item[x - 1])]
<1>1. C!Meant = items
  BY MeantIs
<1>2. /\ index \in Nat /\ index <= IndexSize /\ IndexSize \in Nat
      /\ \A x \in 0..index - 1 : /\ item[x].section # NONE
                                 /\ item[x].property # NONE /\ item[x].value # NONE
      /\ \A x \in 0..index - 1 : /\ Closed(file, pconf, i, item[x].value, {"NL"})
                                 /\ item[x].value \in Nat
      /\ \A x \in 0..IndexSize - 1 : x >= index => item[x].section = NONE
  BY FieldsThere
<1>3. /\ DOMAIN items = 1..index
      /\ \A x \in 1..index : /\ items[x].section = C!CString(item[x - 1].section)
                             /\ items[x].property = C!CString(item[x - 1].property)
  BY DEF Fielded
<1> HIDE DEF items
<1>4. ASSUME NEW x \in 0..index - 1
      PROVE  /\ C!Matches(C!CString(item[x].section), s) <=> C!CString(item[x].section) = s
             /\ C!Matches(C!CString(item[x].property), p) <=> C!CString(item[x].property) = p
  <2>1. x + 1 \in 1..index /\ (x + 1) - 1 = x
    BY <1>2
  <2>2. /\ C!CString(item[x].section) = items[x + 1].section
        /\ C!CString(item[x].property) = items[x + 1].property
    BY <1>3, <2>1
  <2>3. /\ C!CString(item[x].section) \in FieldNames(items)
        /\ C!CString(item[x].property) \in FieldNames(items)
    BY <1>3, <2>1, <2>2 DEF FieldNames
  <2> QED
    BY <1>1, <2>3, NamesApart
<1>5. ASSUME NEW x \in 0..IndexSize - 1
      PROVE  (\A y \in 0..x : item[y].section # NONE) <=> x \in 0..index - 1
  <2>1. CASE x >= index
    <3>1. x \in 0..x /\ x \notin 0..index - 1
      BY <1>2, <2>1
    <3> QED
      BY <1>2, <2>1, <3>1
  <2>2. CASE ~(x >= index)
    <3>1. x \in 0..index - 1 /\ \A y \in 0..x : y \in 0..index - 1
      BY <1>2, <2>2
    <3> QED
      BY <1>2, <3>1
  <2> QED
    BY <2>1, <2>2
<1>6. C!Found(s, p) = Named(s, p)
  <2>1. \A x \in 0..index - 1 : x \in 0..IndexSize - 1
    BY <1>2
  <2>2. \A x : x \in C!Found(s, p) <=>
            /\ x \in 0..IndexSize - 1
            /\ \A y \in 0..x : item[y].section # NONE
            /\ C!Matches(C!CString(item[x].section), s)
            /\ item[x].property = NONE \/ C!Matches(C!CString(item[x].property), p)
    BY DEF C!Found
  <2>3. \A x : x \in Named(s, p) <=>
            /\ x \in 0..index - 1
            /\ C!CString(item[x].section) = s /\ C!CString(item[x].property) = p
    BY DEF Named
  <2>4. \A x : x \in C!Found(s, p) <=> x \in Named(s, p)
    BY <1>2, <1>4, <1>5, <2>1, <2>2, <2>3
  <2>5. C!Found(s, p) \subseteq Named(s, p) /\ Named(s, p) \subseteq C!Found(s, p)
    BY <2>4
  <2> QED
    BY <2>5
<1>7. \A x \in 1..index : x \in C!Exactly(items, s, p) <=> x - 1 \in Named(s, p)
  <2>1. \A x \in 1..index : x - 1 \in 0..index - 1
    BY <1>2
  <2> QED
    BY <1>3, <2>1 DEF C!Exactly, Named
<1>8. C!Exactly(items, s, p) \in SUBSET (1..index)
  BY <1>3 DEF C!Exactly
<1> QED
  BY <1>1, <1>6, <1>7, <1>8

\* config_read answers with the first.
LEMMA LookupIs ==
    ASSUME NEW ln, Through(ln), C!NoPrefixes(C!Meant),
           NEW s \in FieldNames(C!Meant), NEW p \in FieldNames(C!Meant)
    PROVE  C!config_read(s, p) = IF C!Exactly(C!Meant, s, p) = {} THEN NONE
                                 ELSE C!Nth(C!Exactly(C!Meant, s, p), 1) - 1
<1> DEFINE E == C!Exactly(C!Meant, s, p)
           F == Named(s, p)
           Least(n) == \A x \in F : n <= x
<1>1. /\ C!Found(s, p) = F /\ E \in SUBSET (1..index)
      /\ \A x \in 1..index : x \in E <=> x - 1 \in F
  BY FoundNamed
<1>2. index \in Nat /\ F \in SUBSET (0..index - 1)
  BY FieldsThere DEF Named
<1>3. C!config_read(s, p) = IF F = {} THEN NONE ELSE CHOOSE n \in F : Least(n)
  BY <1>1 DEF C!config_read
<1> HIDE DEF E, F
<1>4. \A x \in F : x + 1 \in 1..index /\ (x + 1) - 1 = x /\ x + 1 \in E
  BY <1>1, <1>2
<1>5. CASE E = {}
  <2>1. F = {}
    BY <1>4, <1>5
  <2> QED
    BY <1>3, <1>5, <2>1 DEF E
<1>6. CASE E # {}
  <2>1. E \in SUBSET Nat
    BY <1>1
  <2>2. PICK m \in E : \A x \in E : m <= x
    BY <1>6, <2>1, SmallestIs
  <2>3. m \in 1..index /\ m - 1 \in F /\ m - 1 \in Nat
    BY <1>1, <2>2
  <2>4. \A x \in F : m - 1 <= x
    <3> SUFFICES ASSUME NEW x \in F PROVE m - 1 <= x
      OBVIOUS
    <3>1. m <= x + 1 /\ x \in Nat
      BY <1>2, <1>4, <2>2
    <3> QED
      BY <2>3, <3>1
  <2>5. \A n \in F : Least(n) => n = m - 1
    <3> SUFFICES ASSUME NEW n \in F, Least(n) PROVE n = m - 1
      OBVIOUS
    <3>1. n <= m - 1 /\ m - 1 <= n /\ n \in Nat
      BY <1>2, <2>3, <2>4
    <3> QED
      BY <2>3, <3>1
  <2>6. Least(m - 1)
    BY <2>4
  <2> HIDE DEF Least
  <2>7. (CHOOSE n \in F : Least(n)) = m - 1
    BY <2>3, <2>5, <2>6
  <2>8. C!config_read(s, p) = m - 1
    BY <1>3, <2>3, <2>7
  <2>9. C!Nth(E, 1) = m
    <3>1. IsFiniteSet(1..index)
      BY <1>2, FS_Interval
    <3>2. IsFiniteSet(E)
      BY <1>1, <3>1, FS_Subset
    <3>3. UpTo(E, m) = {m}
      <4>1. ASSUME NEW x \in E, x <= m PROVE x = m
        <5>1. m <= x /\ x \in Nat /\ m \in Nat
          BY <2>1, <2>2
        <5> QED
          BY <4>1, <5>1
      <4>2. m <= m
        BY <2>3
      <4> QED
        BY <2>2, <4>1, <4>2 DEF UpTo
    <3>4. Cardinality(UpTo(E, m)) = 1
      BY <3>3, FS_Singleton
    <3>5. E \in SUBSET Int
      BY <2>1
    <3> QED
      BY <2>2, <3>2, <3>4, <3>5, NthIs
  <2> QED
    BY <1>6, <2>8, <2>9 DEF E
<1> QED
  BY <1>5, <1>6

LEMMA LookupSo == TextInv /\ MeaningInv => LookupExact
<1> SUFFICES ASSUME TextInv, MeaningInv, parsing = "done", C!WellFormed, C!NoPrefixes(C!Meant),
                    NEW s \in Ask, NEW p \in Ask
             PROVE  C!config_read(s, p) = IF C!Exactly(C!Meant, s, p) = {} THEN NONE
                                          ELSE C!Nth(C!Exactly(C!Meant, s, p), 1) - 1
  BY DEF LookupExact, C!LookupExact
<1>1. PICK ln : Through(ln)
  BY ThroughIs
<1>2. s \in FieldNames(C!Meant) /\ p \in FieldNames(C!Meant)
  BY DEF FieldNames
<1> QED
  BY <1>1, <1>2, LookupIs

\* From every text of complete lines, config_read returns the value of the first
\* line with exactly the names it is asked for, or none if there is no such line,
\* provided that no name begins another (config.c:12-34).
THEOREM NamesFoundExactly == Spec => []LookupExact
BY ConfigInv, LookupSo, PTL

-----------------------------------------------------------------------------
(* Numbers.                                                                *)

\* A width of eight bits (a name, so that no prover takes w for a number).
IsByte(w) == 2^w = 256

LEMMA Byte == IsByte(8)
<1>1. 2^8 = 256
  OBVIOUS
<1> QED
  BY <1>1 DEF IsByte

LEMMA ByteSum ==
    ASSUME NEW a \in 0..15, NEW b \in 0..15
    PROVE  (0 * 16 + a) % 256 = a /\ (a * 16 + b) % 256 = 16 * a + b
OBVIOUS

\* One more digit.
LEMMA NextSum ==
    ASSUME NEW v, NEW w, IsByte(w), NEW n, NEW h, Sums(h, v, w, n), NEW x \in 0..n
    PROVE  h[x] = IF x = 0 THEN 0 ELSE (h[x - 1] * 16 + C!Hex[v[x]]) % 256
<1> DEFINE term(y) == IF y = 0 THEN 0 ELSE (h[y - 1] * 16 + C!Hex[v[y]]) % 2^w
<1>1. h = [y \in 0..n |-> term(y)]
  BY DEF Sums
<1>2. term(x) = IF x = 0 THEN 0 ELSE (h[x - 1] * 16 + C!Hex[v[x]]) % 256
  BY DEF IsByte
<1> HIDE DEF term
<1>3. h[x] = term(x)
  BY <1>1
<1> QED
  BY <1>2, <1>3

\* One digit, and two.
LEMMA DigitsIs ==
    ASSUME NEW v, NEW w, IsByte(w), Len(v) \in Nat,
           \A x \in 1..Len(v) : v[x] \in DOMAIN C!Hex
    PROVE  /\ Len(v) = 1 => C!Shifted(v, w) = C!Hex[v[1]]
           /\ Len(v) = 2 => C!Shifted(v, w) = 16 * C!Hex[v[1]] + C!Hex[v[2]]
<1> DEFINE len == Len(v)
           a == C!Hex[v[1]]
           b == C!Hex[v[2]]
<1>1. 2^w \in Nat \ {0}
  BY DEF IsByte
<1>2. PICK h \in [0..Len(v) -> Nat] : Sums(h, v, w, Len(v)) /\ C!Shifted(v, w) = h[Len(v)]
  BY <1>1, ShiftedIs
<1>3. \A x \in 0..len : h[x] = IF x = 0 THEN 0 ELSE (h[x - 1] * 16 + C!Hex[v[x]]) % 256
  BY <1>2, NextSum
<1>4. len \in Nat /\ (len >= 1 => a \in 0..15) /\ (len >= 2 => b \in 0..15)
  BY HexIs
<1>5. len >= 1 => h[1] = (h[0] * 16 + a) % 256
  <2>1. len >= 1 => 1 \in 0..len /\ 1 # 0 /\ 1 - 1 = 0
    OBVIOUS
  <2> QED
    BY <1>3, <2>1
<1>6. len >= 2 => h[2] = (h[1] * 16 + b) % 256
  <2>1. len >= 2 => 2 \in 0..len /\ 2 # 0 /\ 2 - 1 = 1
    OBVIOUS
  <2> QED
    BY <1>3, <2>1
<1>7. h[0] = 0
  BY <1>3
<1>8. h[len] = C!Shifted(v, w)
  BY <1>2
<1> HIDE DEF len, a, b
<1>9. len >= 1 => h[1] = a
  BY <1>4, <1>5, <1>7, ByteSum
<1>10. len = 2 => h[2] = 16 * a + b
  <2> SUFFICES ASSUME len = 2 PROVE h[2] = 16 * a + b
    OBVIOUS
  <2>1. a \in 0..15 /\ b \in 0..15
    BY <1>4
  <2>2. (a * 16 + b) % 256 = 16 * a + b
    BY <2>1, ByteSum
  <2>3. h[1] = a /\ h[2] = (h[1] * 16 + b) % 256
    BY <1>6, <1>9
  <2>4. h[2] = (a * 16 + b) % 256
    BY <2>3
  <2> QED
    BY <2>2, <2>4
<1>11. len = 1 => C!Shifted(v, w) = a
  BY <1>8, <1>9
<1>12. len = 2 => C!Shifted(v, w) = 16 * a + b
  BY <1>8, <1>10
<1> QED
  BY <1>11, <1>12 DEF len, a, b

\* The value of the j-th item, as a number.
LEMMA NumberIs ==
    ASSUME NEW ln, Through(ln), C!NoPrefixes(C!Meant), NEW j \in DOMAIN C!Meant, NEW w
    PROVE  LET it == C!Meant[j]
           IN  /\ Len(it.value) \in Nat /\ DOMAIN it.value = 1..Len(it.value)
               /\ j = C!Nth(C!Exactly(C!Meant, it.section, it.property), 1) =>
                     C!config_read_as_ptr(it.section, it.property, -1, w)
                         = C!AsNumber(it.value, -1, w)
<1>1. /\ index \in Nat /\ index <= IndexSize /\ IndexSize \in Nat
      /\ \A x \in 0..index - 1 : /\ item[x].section # NONE
                                 /\ item[x].property # NONE /\ item[x].value # NONE
      /\ \A x \in 0..index - 1 : /\ Closed(file, pconf, i, item[x].value, {"NL"})
                                 /\ item[x].value \in Nat
      /\ \A x \in 0..IndexSize - 1 : x >= index => item[x].section = NONE
  BY FieldsThere
<1>2. C!Meant = [x \in 1..index |-> Fielded(item[x - 1])]
  BY MeantIs
<1> DEFINE it == C!Meant[j]
           n  == j - 1
<1>3. j \in 1..index /\ it = Fielded(item[n])
  BY <1>2
<1>4. n \in 0..index - 1 /\ n # NONE
  <2>1. n \in Nat /\ n \in 0..index - 1
    BY <1>1, <1>3
  <2> QED
    BY <2>1, NullAssumption
<1>5. it.value = C!CString(item[n].value)
  BY <1>3 DEF Fielded
<1>6. j \in C!Exactly(C!Meant, it.section, it.property)
  BY DEF C!Exactly
<1>7. it.section \in FieldNames(C!Meant) /\ it.property \in FieldNames(C!Meant)
  BY DEF FieldNames
<1>8. item[n].value # NONE /\ item[n].value \in Nat /\ Closed(file, pconf, i, item[n].value, {"NL"})
  BY <1>1, <1>4
<1> HIDE DEF it, n
<1>9. /\ Terminated(pconf) /\ Top \in Nat /\ i \in 0..Top /\ DOMAIN pconf = 0..Top
  <2>1. Top \in i..Top /\ Top \in Nat /\ file[Top] = "NUL" /\ DOMAIN pconf = 0..Top /\ i \in 0..Top
    BY DEF Through, TextInv, Text
  <2>2. pconf[Top] = "NUL"
    BY <2>1 DEF Through, TextInv
  <2> QED
    BY <2>1, <2>2 DEF Terminated
<1>10. Len(it.value) \in Nat /\ DOMAIN it.value = 1..Len(it.value)
  <2>1. PICK e \in 0..i - 1 : item[n].value <= e
    BY <1>8 DEF Closed
  <2>2. item[n].value \in DOMAIN pconf
    BY <1>8, <1>9, <2>1
  <2> QED
    BY <1>5, <1>9, <2>2, StringIs
<1>11. ASSUME j = C!Nth(C!Exactly(C!Meant, it.section, it.property), 1)
       PROVE  C!config_read_as_ptr(it.section, it.property, -1, w) = C!AsNumber(it.value, -1, w)
  <2>1. C!config_read(it.section, it.property)
            = IF C!Exactly(C!Meant, it.section, it.property) = {} THEN NONE
              ELSE C!Nth(C!Exactly(C!Meant, it.section, it.property), 1) - 1
    BY <1>7, LookupIs
  <2>2. C!config_read(it.section, it.property) = n
    BY <1>6, <1>11, <2>1 DEF n
  <2> QED
    BY <1>4, <1>5, <1>8, <2>2 DEF C!config_read_as_ptr
<1> QED
  BY <1>10, <1>11 DEF it

LEMMA NumberSo == TextInv /\ MeaningInv => PtrExact
<1> SUFFICES ASSUME TextInv, MeaningInv, parsing = "done", C!WellFormed, C!NoPrefixes(C!Meant),
                    NEW j \in DOMAIN C!Meant
             PROVE  LET it   == C!Meant[j]
                        ptr  == C!config_read_as_ptr(it.section, it.property, -1, 8)
                        good == \A x \in DOMAIN it.value : it.value[x] \in DOMAIN C!Hex
                    IN  j = C!Nth(C!Exactly(C!Meant, it.section, it.property), 1) =>
                            /\ ~good => ptr = -1
                            /\ good /\ Len(it.value) = 1 => ptr = C!Hex[it.value[1]]
                            /\ good /\ Len(it.value) = 2 =>
                                  ptr = 16 * C!Hex[it.value[1]] + C!Hex[it.value[2]]
  BY DEF PtrExact, C!PtrExact
<1> DEFINE it  == C!Meant[j]
           ptr == C!config_read_as_ptr(it.section, it.property, -1, 8)
<1>1. PICK ln : Through(ln)
  BY ThroughIs
<1>2. /\ Len(it.value) \in Nat /\ DOMAIN it.value = 1..Len(it.value)
      /\ j = C!Nth(C!Exactly(C!Meant, it.section, it.property), 1) =>
             ptr = C!AsNumber(it.value, -1, 8)
  BY <1>1, NumberIs
<1> SUFFICES ASSUME ptr = C!AsNumber(it.value, -1, 8)
             PROVE  /\ ~(\A x \in DOMAIN it.value : it.value[x] \in DOMAIN C!Hex) => ptr = -1
                    /\ (\A x \in DOMAIN it.value : it.value[x] \in DOMAIN C!Hex) =>
                          /\ Len(it.value) = 1 => ptr = C!Hex[it.value[1]]
                          /\ Len(it.value) = 2 =>
                                ptr = 16 * C!Hex[it.value[1]] + C!Hex[it.value[2]]
  BY <1>2
<1> HIDE DEF it, ptr
<1>3. ASSUME ~(\A x \in DOMAIN it.value : it.value[x] \in DOMAIN C!Hex) PROVE ptr = -1
  BY <1>3 DEF C!AsNumber
<1>4. ASSUME \A x \in DOMAIN it.value : it.value[x] \in DOMAIN C!Hex
      PROVE  /\ Len(it.value) = 1 => ptr = C!Hex[it.value[1]]
             /\ Len(it.value) = 2 => ptr = 16 * C!Hex[it.value[1]] + C!Hex[it.value[2]]
  <2>1. ptr = C!Shifted(it.value, 8)
    BY <1>4 DEF C!AsNumber
  <2>2. \A x \in 1..Len(it.value) : it.value[x] \in DOMAIN C!Hex
    BY <1>2, <1>4
  <2>3. IsByte(8)
    BY Byte
  <2>4. /\ Len(it.value) = 1 => C!Shifted(it.value, 8) = C!Hex[it.value[1]]
        /\ Len(it.value) = 2 =>
              C!Shifted(it.value, 8) = 16 * C!Hex[it.value[1]] + C!Hex[it.value[2]]
    BY <1>2, <2>2, <2>3, DigitsIs
  <2> QED
    BY <2>1, <2>4
<1> QED
  BY <1>3, <1>4

\* The value that is found is refused as a whole if a character of it is no
\* digit, and is read by the weights of its digits if it has one or two
\* (config.c:110-139).
THEOREM NumbersReadExactly == Spec => []PtrExact
BY ConfigInv, NumberSo, PTL

-----------------------------------------------------------------------------
(* Lookups that read through a null pointer.                               *)

\* A lookup page-faults only after the parser, which changes the items no more.
NullInv ==
    /\ stage = "fault" => Resting /\ null_image
    /\ loading = "null" => Resting /\ stage = "done" /\ (null_base \/ null_stack)

LEMMA NullInit == Init => NullInv
BY DEF Init, O!Init, L!Init, NullInv

LEMMA NullSame ==
    ASSUME UNCHANGED configVars
    PROVE  UNCHANGED <<Resting, null_image, null_base, null_stack>>
<1>1. UNCHANGED <<pconf, item, parsing>>
  BY DEF configVars
<1>2. \A p : UNCHANGED Null(p)
  BY <1>1, LookupSame DEF Null
<1>3. UNCHANGED <<Null("image"), Null("base"), Null("stack")>>
  BY <1>2
<1> QED
  BY <1>1, <1>3 DEF null_image, null_base, null_stack, Resting

LEMMA NullStep ==
    CursorInv /\ ObjectInv /\ LoaderInv /\ NullInv /\ [Next]_vars => NullInv'
<1> SUFFICES ASSUME CursorInv, ObjectInv, LoaderInv, NullInv, [Next]_vars PROVE NullInv'
  OBVIOUS
<1>1. CASE FindKernel
  <2>1. /\ UNCHANGED configVars /\ stage = "kernel" /\ Resting
        /\ stage' = "fault" => null_image
    BY <1>1 DEF FindKernel, O!FindKernel, Resting
  <2>2. loading = "idle"
    BY <2>1 DEF LoaderInv
  <2>3. loading' = "null" => stage' = "done" /\ null_base
    BY <1>1, <2>2 DEF FindKernel, L!StartLoad, loaderVars
  <2> QED
    BY <2>1, <2>3, NullSame DEF NullInv
<1>2. CASE Load
  <2>1. UNCHANGED configVars /\ stage' = stage
    BY <1>2 DEF Load, objectVars
  <2>2. loading # "idle" /\ (loading' = "null" => null_stack)
    BY <1>2 DEF Load, L!load_kernel, L!SkipHeader, L!StartHeader, L!MapPage, L!CopyWord,
       L!ClearWord, L!EndHeader, L!StartFixup, L!Relocate, L!Enter, L!Astray, L!Misread
  <2>3. stage = "done" /\ Resting
    BY <2>2 DEF LoaderInv, ObjectInv, FileInv
  <2> QED
    BY <2>1, <2>2, <2>3, NullSame DEF NullInv
<1>3. CASE Evict \/ UNCHANGED vars
  <2>1. UNCHANGED configVars /\ stage' = stage /\ loading' = loading
    BY <1>3 DEF Evict, L!Evict, vars, objectVars, loaderVars
  <2> QED
    BY <2>1, NullSame DEF NullInv
<1>4. CASE Unfold \/ FindConfig \/ Parse
  <2>1. stage' # "fault" /\ stage # "done" /\ loading' = loading
    <3>1. CASE Unfold
      BY <3>1 DEF Unfold, O!unfold, O!AddObject, O!ListOverrun, O!init_object_list,
         O!load_pinion, O!Relocate, loaderVars
    <3>2. CASE FindConfig
      BY <3>2 DEF FindConfig, O!FindConfig, loaderVars
    <3>3. CASE Parse
      <4>1. ~Resting /\ stage' = stage /\ loading' = loading
        BY <3>3 DEF Parse, C!config_parse, C!LineComment, C!LineEmpty, C!LineEnd, C!LineItem,
           C!Comment, C!SkipBlank, C!EndBefore, C!StartField, C!SkipField, C!EndWithin,
           C!CutField, C!Goto, C!Before, C!Within, C!Field, Resting, objectVars, loaderVars
      <4> QED
        BY <4>1 DEF ObjectInv, FileInv
    <3> QED
      BY <1>4, <3>1, <3>2, <3>3
  <2>2. loading = "idle"
    BY <2>1 DEF LoaderInv
  <2> QED
    BY <2>1, <2>2 DEF NullInv
<1> QED
  BY <1>1, <1>2, <1>3, <1>4 DEF Next, Code

\* A text of complete lines has no item without its property.
LEMMA NoNullRead ==
    ASSUME ObjectInv, TextInv, MeaningInv, Resting, C!WellFormed, NEW s, NEW p
    PROVE  ~C!NullRead(s, p)
<1> DEFINE F == C!Found(s, p)
           n == C!config_read(s, p)
<1>1. CASE F = {}
  BY <1>1 DEF C!NullRead
<1>2. CASE F # {}
  <2>1. parsing = "done"
    <3>1. parsing # "idle"
      BY <1>2, NoFileNoName DEF ObjectInv, FileInv
    <3> QED
      BY <3>1 DEF Resting
  <2>2. PICK ln : Through(ln)
    BY <2>1, ThroughIs
  <2>3. /\ index \in Nat /\ index <= IndexSize /\ IndexSize \in Nat
        /\ \A x \in 0..index - 1 : /\ item[x].section # NONE
                                   /\ item[x].property # NONE /\ item[x].value # NONE
        /\ \A x \in 0..index - 1 : /\ Closed(file, pconf, i, item[x].value, {"NL"})
                                   /\ item[x].value \in Nat
        /\ \A x \in 0..IndexSize - 1 : x >= index => item[x].section = NONE
    BY <2>2, FieldsThere
  <2>4. \A x \in F : x \in 0..IndexSize - 1 /\ \A y \in 0..x : item[y].section # NONE
    BY DEF C!Found
  <2>5. F \in SUBSET Nat
    BY <2>3, <2>4
  <2>6. n = O!Smallest(F)
    BY <1>2 DEF C!config_read, O!Smallest
  <2> HIDE DEF F, n
  <2>7. n \in F /\ n \in Nat
    BY <1>2, <2>5, <2>6, SmallestIs
  <2>8. n \in 0..IndexSize - 1 /\ n \in 0..n
    BY <2>3, <2>4, <2>7
  <2>9. item[n].section # NONE
    BY <2>4, <2>7, <2>8
  <2>10. ~(n >= index)
    BY <2>3, <2>8, <2>9
  <2>11. n \in 0..index - 1
    BY <2>3, <2>7, <2>10
  <2> QED
    BY <2>3, <2>11 DEF C!NullRead, n
<1> QED
  BY <1>1, <1>2

\* Whatever the modules and the text, a lookup of load_kernel reads through a null
\* pointer only if the text has an incomplete line (config.c:71, 106).
THEOREM NullsOnlyFromIncomplete == Spec => []ConfigSafe
<1> DEFINE Inv == /\ CursorInv /\ ObjectInv /\ ItemInv /\ LoaderInv
                  /\ TextInv /\ MeaningInv /\ NullInv
<1>1. Init => Inv
  BY CursorInit, ObjectInit, ItemInit, LoaderInit, TextInit, MeaningInit, NullInit
<1>2. Inv /\ [Next]_vars => Inv'
  BY CursorStep, ObjectStep, ItemStep, LoaderStep, TextStep, MeaningStep, NullStep
<1>3. Inv => ConfigSafe
  <2> SUFFICES ASSUME Inv, stage = "fault" \/ loading = "null", C!WellFormed PROVE FALSE
    BY DEF ConfigSafe
  <2>1. Resting /\ (null_image \/ null_base \/ null_stack)
    BY DEF NullInv
  <2>2. \A p : ~Null(p)
    BY <2>1, NoNullRead DEF Null
  <2> QED
    BY <2>1, <2>2 DEF null_image, null_base, null_stack
<1> QED
  BY <1>1, <1>2, <1>3, PTL DEF Spec
=============================================================================
