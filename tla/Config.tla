------------------------------- MODULE Config -------------------------------
(***************************************************************************)
(* config.c: the parser that cuts the text of pconf into items in place,   *)
(* and the lookups.  One step of the parser handles one character, or the  *)
(* test between two loops.  The text is a function of the byte offset; a   *)
(* pointer into it is an offset, as in the code's &pconf[i].               *)
(***************************************************************************)
EXTENDS Strings, Integers, FiniteSets

CONSTANTS
    IndexSize,  \* CONFIG_INDEX_SIZE
    Ask,        \* the names that config_read is asked for
    NONE        \* the null pointer

Blank == {"SP"}         \* ' ' and '\t'

VARIABLES
    file,       \* the text as it was loaded, NUL-terminated
    pconf,      \* the same memory, as the parser changes it
    i,          \* the cursor
    index,      \* the item being filled
    item,       \* config_index
    parsing     \* the loop that runs

Offset == DOMAIN pconf
NoItem == [section |-> NONE, property |-> NONE, value |-> NONE]

\* Before there is a file, and what config_read finds if there is none.
Init ==
    /\ file = [n \in {0} |-> "NUL"]
    /\ pconf = file
    /\ i = 0
    /\ index = 0
    /\ item = [n \in 0..IndexSize - 1 |-> NoItem]
    /\ parsing = "idle"

\* config_parse is called for a text.
StartParse(t) ==
    /\ parsing = "idle"
    /\ file' = [n \in 0..Len(t) |-> IF n = Len(t) THEN "NUL" ELSE t[n + 1]]
    /\ pconf' = file'
    /\ parsing' = "line"
    /\ UNCHANGED <<i, index, item>>

At == pconf[i]
Goto(p) == parsing' = p

\* The start of a line, or of what is taken for one.
LineComment ==
    /\ parsing = "line" /\ At = "#"
    /\ Goto("comment")
    /\ UNCHANGED <<pconf, i, index, item>>

\* A bug: the newline is not passed.
LineStuck ==
    /\ parsing = "line" /\ At = "NL"
    /\ UNCHANGED <<pconf, i, index, item, parsing>>

LineEmpty ==
    /\ parsing = "line" /\ At = "NL"
    /\ i' = i + 1
    /\ UNCHANGED <<pconf, index, item, parsing>>

LineEnd ==
    /\ parsing = "line" /\ At = "NUL"
    /\ Goto("done")
    /\ UNCHANGED <<pconf, i, index, item>>

LineItem ==
    /\ parsing = "line" /\ At \notin {"#", "NL", "NUL"}
    /\ Goto("to_section")
    /\ UNCHANGED <<pconf, i, index, item>>

\* A bug: the cursor steps over the end of the text.
CommentPastEnd ==
    /\ parsing = "comment"
    /\ i' = i + 1
    /\ Goto(IF At \in {"NL", "NUL"} THEN "line" ELSE "comment")
    /\ UNCHANGED <<pconf, index, item>>

Comment ==
    /\ parsing = "comment"
    /\ i' = IF At = "NUL" THEN i ELSE i + 1
    /\ Goto(IF At \in {"NL", "NUL"} THEN "line" ELSE "comment")
    /\ UNCHANGED <<pconf, index, item>>

\* Blanks before the section, the property and the value.
Before == {"to_section", "to_property", "to_value"}

\* A bug: the property is kept where the value belongs.
FieldMixed == [to_section |-> "section", to_property |-> "value", to_value |-> "value"]
Field == [to_section |-> "section", to_property |-> "property", to_value |-> "value"]

SkipBlank ==
    /\ parsing \in Before /\ At \in Blank
    /\ i' = i + 1
    /\ UNCHANGED <<pconf, index, item, parsing>>

\* The text ends: the item keeps the fields it has.
EndBefore ==
    /\ parsing \in Before /\ At = "NUL"
    /\ Goto("done")
    /\ UNCHANGED <<pconf, i, index, item>>

\* A newline is no blank: the field begins, empty, at it.
StartField ==
    /\ parsing \in Before /\ At \notin Blank \cup {"NUL"}
    /\ item' = [item EXCEPT ![index][Field[parsing]] = i]
    /\ Goto(Field[parsing])
    /\ UNCHANGED <<pconf, i, index>>

\* A bug: a value ends at a blank.
StopBlank(p) == Blank \cup {"NL"}
Stop(p) == IF p = "value" THEN {"NL"} ELSE Blank \cup {"NL"}
Within  == {"section", "property", "value"}

SkipField ==
    /\ parsing \in Within /\ At \notin Stop(parsing) \cup {"NUL"}
    /\ i' = i + 1
    /\ UNCHANGED <<pconf, index, item, parsing>>

\* The text ends within a field: the item is given up.
EndWithin ==
    /\ parsing \in Within /\ At = "NUL"
    /\ item' = [item EXCEPT ![index].section = NONE]
    /\ Goto("done")
    /\ UNCHANGED <<pconf, i, index>>

\* A field ends and becomes a string.
CutField ==
    /\ parsing \in Within /\ At \in Stop(parsing)
    /\ pconf' = [pconf EXCEPT ![i] = "NUL"]
    /\ i' = i + 1
    /\ index' = IF parsing = "value" THEN index + 1 ELSE index
    /\ Goto(CASE parsing = "section" -> "to_property"
              [] parsing = "property" -> "to_value"
              [] parsing = "value" -> IF index + 1 = IndexSize THEN "done" ELSE "line")
    /\ UNCHANGED item

config_parse ==
    /\ UNCHANGED file
    /\ \/ LineComment \/ LineEmpty \/ LineEnd \/ LineItem \/ Comment
       \/ SkipBlank \/ EndBefore \/ StartField
       \/ SkipField \/ EndWithin \/ CutField

-----------------------------------------------------------------------------
(* Lookups.                                                                *)

\* The string at an offset.
CString(p) ==
    LET end == CHOOSE n \in Offset :
                  n >= p /\ pconf[n] = "NUL" /\ \A k \in p..n - 1 : pconf[k] # "NUL"
    IN  [n \in 1..end - p |-> pconf[p + n - 1]]

\* A bug: only the sections are compared.
FoundBySection(s, p) ==
    {n \in 0..IndexSize - 1 :
        /\ \A k \in 0..n : item[k].section # NONE
        /\ Matches(CString(item[n].section), s)}

\* Where config_read's loop can end: at an item with these names, or at one
\* whose property, a null pointer, it compares.
Found(s, p) ==
    {n \in 0..IndexSize - 1 :
        /\ \A k \in 0..n : item[k].section # NONE
        /\ Matches(CString(item[n].section), s)
        /\ item[n].property = NONE \/ Matches(CString(item[n].property), p)}

\* The item whose value config_read returns.
config_read(s, p) ==
    IF Found(s, p) = {} THEN NONE
    ELSE CHOOSE n \in Found(s, p) : \A k \in Found(s, p) : n <= k

\* config_read reads through a null pointer.  Such an item has no value either:
\* where address 0 can be read, the lookup returns null.
NullRead(s, p) ==
    Found(s, p) # {} /\ item[config_read(s, p)].property = NONE

Digits == <<"0", "1", "2", "3", "4", "5", "6", "7", "8", "9", "a", "b", "c", "d", "e", "f">>
Upper  == <<"A", "B", "C", "D", "E", "F">>
Chars(s) == {s[n] : n \in DOMAIN s}
Hex == [c \in Chars(Digits) \cup Chars(Upper) |->
          CHOOSE h \in 0..15 : Digits[h + 1] = c \/ (h > 9 /\ Upper[h - 9] = c)]

\* A number of w bits.
Shifted(v, w) ==
    LET n[k \in 0..Len(v)] == IF k = 0 THEN 0 ELSE (n[k - 1] * 16 + Hex[v[k]]) % 2^w
    IN  n[Len(v)]

\* A bug: a character that is no digit ends the number.
NumberUpTo(v, sentinel, w) ==
    LET good == {k \in 0..Len(v) : \A n \in 1..k : v[n] \in DOMAIN Hex}
    IN  Shifted(SubSeq(v, 1, CHOOSE k \in good : \A n \in good : n <= k), w)

\* All digits, or the sentinel.
AsNumber(v, sentinel, w) ==
    IF \A k \in DOMAIN v : v[k] \in DOMAIN Hex THEN Shifted(v, w) ELSE sentinel

\* The value as a number of w bits, or the sentinel.
config_read_as_ptr(s, p, sentinel, w) ==
    LET n == config_read(s, p)
    IN  IF n = NONE THEN sentinel
        ELSE IF item[n].value = NONE THEN sentinel
        ELSE AsNumber(CString(item[n].value), sentinel, w)

-----------------------------------------------------------------------------
(* Properties.                                                             *)

\* The parser never reads past the NUL, nor writes past the index, whatever the
\* text (config.c:44, 67, 81, 95 and 98).
CursorInText == parsing \notin {"idle", "done"} => i \in Offset /\ index < IndexSize

\* What a file means, line by line.  A line is the offsets of its first
\* character and of its newline; it has an item if it is neither empty nor a
\* comment.
Newline  == {n \in Offset : file[n] = "NL"}
ItemLine ==
    {l \in (({-1} \cup Newline) \X Newline) :
        /\ l[1] + 1 < l[2] /\ file[l[1] + 1] # "#"
        /\ \A n \in Newline : n <= l[1] \/ l[2] <= n}
FirstLines(lines) ==
    {l \in lines : Cardinality({x \in lines : x[1] < l[1]}) < IndexSize}

WordStarts(l) ==
    {n \in l[1] + 1..l[2] - 1 :
        file[n] \notin Blank /\ (n = l[1] + 1 \/ file[n - 1] \in Blank)}

\* The last line ends, and every line with an item has three words.
WellFormed ==
    /\ Offset # {0} => file[Cardinality(Offset) - 2] = "NL"
    /\ \A l \in ItemLine : Cardinality(WordStarts(l)) >= 3

\* The text from offset p up to a character of S.
Word(p, S) ==
    LET end == CHOOSE n \in Offset :
                  n >= p /\ file[n] \in S /\ \A k \in p..n - 1 : file[k] \notin S
    IN  [n \in 1..end - p |-> file[p + n - 1]]

\* The k-th smallest.
Nth(S, k) == CHOOSE n \in S : Cardinality({x \in S : x <= n}) = k

\* The items of the lines there is room for.
Meant ==
    LET lines == FirstLines(ItemLine)
        starts == {l[1] : l \in lines}
    IN  [k \in 1..Cardinality(lines) |->
            LET l == CHOOSE x \in lines : x[1] = Nth(starts, k)
                w == WordStarts(l)
            IN  [section  |-> Word(Nth(w, 1), Blank),
                 property |-> Word(Nth(w, 2), Blank),
                 value    |-> Word(Nth(w, 3), {"NL"})]]

\* A file whose lines are complete is read as it is meant, up to the size of the
\* index: cutting one field never damages another, blank and comment lines take
\* no item (config.c:38-99).
ParsedAsMeant ==
    parsing = "done" /\ WellFormed =>
        Meant = [k \in 1..index |->
                    [section  |-> CString(item[k - 1].section),
                     property |-> CString(item[k - 1].property),
                     value    |-> CString(item[k - 1].value)]]

\* No name of the file and no name asked for is the beginning of another.
NoPrefixes(items) ==
    LET names == Ask \cup {items[k].section : k \in DOMAIN items}
                     \cup {items[k].property : k \in DOMAIN items}
    IN  \A s, t \in names : Matches(s, t) => s = t

Exactly(items, s, p) == {k \in DOMAIN items : items[k].section = s /\ items[k].property = p}

\* config_read returns the value of the first item with exactly these names,
\* provided that no name begins another: strcmp (config.c:25) takes a name for
\* equal to every name it begins.
LookupExact ==
    parsing = "done" /\ WellFormed =>
        \A items \in {Meant} :
            NoPrefixes(items) =>
                \A s, p \in Ask :
                    config_read(s, p) = IF Exactly(items, s, p) = {} THEN NONE
                                        ELSE Nth(Exactly(items, s, p), 1) - 1

\* A value of hexadecimal digits that fits is read by its digits' weights; one
\* with anything else in it, such as a blank at the end of its line, is refused
\* as a whole (config.c:124-139).
PtrExact ==
    parsing = "done" /\ WellFormed =>
        \A items \in {Meant} :
            NoPrefixes(items) =>
                \A k \in DOMAIN items :
                    LET it   == items[k]
                        ptr  == config_read_as_ptr(it.section, it.property, -1, 8)
                        good == \A n \in DOMAIN it.value : it.value[n] \in DOMAIN Hex
                    IN  k = Nth(Exactly(items, it.section, it.property), 1) =>
                            /\ ~good => ptr = -1
                            /\ good /\ Len(it.value) = 1 => ptr = Hex[it.value[1]]
                            /\ good /\ Len(it.value) = 2 =>
                                  ptr = 16 * Hex[it.value[1]] + Hex[it.value[2]]
=============================================================================
