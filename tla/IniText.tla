------------------------------ MODULE IniText ------------------------------
(***************************************************************************)
(* utils/ini_reader.rs: IniReader, as the generators use it.  A base text  *)
(* is parsed, sections are emptied and filled, and the whole is written.   *)
(*                                                                         *)
(* Data: an item is the line to_string() makes of it.  A line the parser   *)
(* read comes out as it was, whether it had a key or was stored under      *)
(* "{NONAME}"; escapes, comments and the filters on sections are left out. *)
(***************************************************************************)
EXTENDS LineConf

\* The line with an '=' after it.
Trail(l) ==
    LET i == Len(l.items) IN
    IF i = 0 THEN l ELSE [l EXCEPT !.items[i][2] = l.items[i][2] \o "="]

Empty == [order |-> <<>>, content |-> [s \in {} |-> <<>>], current |-> "", parsed |-> FALSE]

Section(ini, s) == IF s \in DOMAIN ini.content THEN ini.content[s] ELSE <<>>
SectionPut(ini, s, lines) ==
    [ini EXCEPT !.parsed = TRUE,
                !.order = IF s \in DOMAIN ini.content THEN @ ELSE Append(@, s),
                !.content = [t \in DOMAIN ini.content \cup {s} |->
                                IF t = s THEN lines ELSE ini.content[t]]]

\* A text that is empty, has a line before its first header or a title twice is refused;
\* what was read before is kept.  Titles are their header lines.
Titles(lines) == Those(lines, IsHeader)
Body(lines, title) ==
    LET at == CHOOSE i \in DOMAIN lines : lines[i] = title
        next == {i \in (at + 1)..Len(lines) : IsHeader(lines[i])}
    IN  SubSeq(lines, at + 1, IF next = {} THEN Len(lines)
                              ELSE (CHOOSE i \in next : \A j \in next : i <= j) - 1)
Parse(lines) ==
    IF lines = <<>> \/ ~IsHeader(lines[1]) \/ ~IsInjective(Titles(lines)) THEN Empty
    ELSE [Empty EXCEPT
            !.parsed = TRUE, !.order = [i \in DOMAIN Titles(lines) |-> Titles(lines)[i].name],
            !.content = [s \in {Titles(lines)[i].name : i \in DOMAIN Titles(lines)} |->
                            Body(lines, Line(s, <<>>))]]

SetCurrentSection(ini, s) == [ini EXCEPT !.current = Header(s).name]
EraseSection_Nothing(ini) == ini       \* mutant: what the base holds stays
EraseSection(ini) ==
    IF ini.current \in DOMAIN ini.content THEN [ini EXCEPT !.content[ini.current] = <<>>] ELSE ini

EraseSectionByName(ini, s) ==
    LET title == Header(s).name IN
    IF title \in DOMAIN ini.content THEN [ini EXCEPT !.content[title] = <<>>] ELSE ini

\* set(section, key, value): the section may be "{NONAME}", which is the current one.
SetPair(ini, s, l) ==
    LET title == IF s = "{NONAME}" THEN ini.current ELSE Header(s).name
    IN  IF title = "" THEN ini ELSE SectionPut(ini, title, Append(Section(ini, title), l))

\* One after the other, each a <<section, line>>.
SetPairs(ini, pairs) ==
    LET upto[i \in 0..Len(pairs)] ==
            IF i = 0 THEN ini ELSE SetPair(upto[i - 1], pairs[i][1], pairs[i][2])
    IN  upto[Len(pairs)]

\* set("{NONAME}", <the line>, ""): the line is the key, so "=" and no value follow it.
LinePair(l) == <<"{NONAME}", Trail(l)>>
SetLines(ini, lines) == SetPairs(ini, [i \in DOMAIN lines |-> LinePair(lines[i])])

ToText(ini) ==
    FlattenSeq([i \in DOMAIN ini.order |->
        <<Line(ini.order[i], <<>>)>> \o ini.content[ini.order[i]]])
=============================================================================
