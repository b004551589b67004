----------------------------- MODULE CsvImport -----------------------------
\* The table's CSV export, the column template, and the import view, which
\* shares ISE with the registrations.  Text is a sequence of tokens: a
\* character that matters to the format, or a word (a column name, a device).
EXTENDS OfflineQueue, SequencesExt

CONSTANTS Groups,        \* groups an endpoint can be in
          Descriptions,  \* descriptions, as texts
          TemplateFiles, \* header lines of template files
          SimpleFiles    \* texts written by hand in the simple format

VARIABLES template,  \* localStorage: the columns of an export
          file,      \* the text in the import view
          parsed,    \* the previewed rows
          bulk       \* the import request that is out
\* Each of the three also carries, as history, what ISE held when its text
\* was exported ("of").

csvVars == <<template, file, parsed, bulk>>

Quote == "\""
Apostrophe == "'"
Comma == ","
Space == " "
LF == "\n"
NoGroup == ""
Handmade == [m \in Macs |-> Absent]
NoFile == [text |-> <<>>, of |-> Handmade]
NoRows == [rows |-> <<>>, of |-> Handmade]
NoBulk == [items |-> <<>>, of |-> Handmade, overwrite |-> FALSE, st |-> "none"]
\* The tokens.
Word == Groups \union Macs \union
    {"MACAddress", "IdentityGroup", "Description", "StaticGroupAssignment", "StaticAssignment",
     "Vendor", "true", "false", "x", "mac", Quote, Apostrophe, Comma, Space, LF}
ASSUME TextAssumption ==
    /\ Descriptions \subseteq Seq(Word)
    /\ TemplateFiles \subseteq Seq(Word) /\ SimpleFiles \subseteq Seq(Word)
    /\ (Groups \union Macs) \cap {Quote, Apostrophe, Comma, Space, LF} = {}

Entry == [group : Groups \union {NoGroup}, desc : Descriptions, static : BOOLEAN]

ASSUME EntryAssumption == IsFiniteSet(Macs) /\ Entries \subseteq Entry

DefaultTemplate == <<"MACAddress", "IdentityGroup", "Description", "StaticGroupAssignment">>

----------------------------------------------------------------------------
\* csv.js

\* Variant: quotes inside a cell are not doubled.
csvQuoteOnce(cell) == <<Quote>> \o cell \o <<Quote>>

csvQuote(cell) ==
    <<Quote>> \o FlattenSeq([i \in DOMAIN cell |->
                    IF cell[i] = Quote THEN <<Quote, Quote>> ELSE <<cell[i]>>]) \o <<Quote>>

Join(seqs, sep) ==
    FlattenSeq([i \in DOMAIN seqs |-> IF i = 1 THEN seqs[i] ELSE <<sep>> \o seqs[i]])

\* A cell for each column of the template, empty for one the portal does not fill;
\* of a column named twice the last is filled.
CellOf(m, e, i) ==
    LET c == template[i]
        filled == \A j \in DOMAIN template : j > i => template[j] # c
    IN CASE filled /\ c = "MACAddress" -> <<m>>
         [] filled /\ c = "IdentityGroup" /\ e.group # NoGroup -> <<e.group>>
         [] filled /\ c = "Description" -> e.desc
         [] filled /\ c \in {"StaticAssignment", "StaticGroupAssignment"} ->
                <<IF e.static THEN "true" ELSE "false">>
         [] OTHER -> <<>>

toIseCsv(rows) ==
    LET header == Join([i \in DOMAIN template |-> csvQuote(<<template[i]>>)], Comma)
        line(m) == Join([i \in DOMAIN template |-> csvQuote(CellOf(m, ise[m], i))], Comma)
    IN Join(<<header>> \o [k \in DOMAIN rows |-> line(rows[k])], LF)

\* Characters of a set removed at both ends.
trim(s) ==
    LET kept == {i \in DOMAIN s : s[i] \notin {Space, LF}} IN
    IF kept = {} THEN <<>>
    ELSE SubSeq(s, Min(kept), Max(kept))

stripQuotes(s) ==
    IF Len(s) >= 2 /\ s[1] = Apostrophe /\ s[Len(s)] = Apostrophe
    THEN SubSeq(s, 2, Len(s) - 1) ELSE s

Split(text, sep) ==
    FoldLeft(LAMBDA acc, c : IF c = sep THEN Append(acc, <<>>)
                             ELSE [acc EXCEPT ![Len(acc)] = Append(@, c)],
             <<<<>>>>, text)

\* One character of a line: a field starts, runs on plainly or in quotes, or
\* a quote in quotes is either doubled or the end.
ReadChar(p, c) ==
    LET start(fs) == IF c = Quote THEN [mode |-> "quoted", val |-> <<>>, fields |-> fs]
                     ELSE IF c = Comma THEN [mode |-> "start", val |-> <<>>, fields |-> Append(fs, <<>>)]
                     ELSE [mode |-> "plain", val |-> <<c>>, fields |-> fs]
    IN CASE p.mode = "start" -> start(p.fields)
         [] p.mode = "plain" ->
                IF c = Comma THEN [mode |-> "start", val |-> <<>>, fields |-> Append(p.fields, p.val)]
                ELSE [p EXCEPT !.val = Append(@, c)]
         [] p.mode = "quoted" ->
                IF c = Quote THEN [p EXCEPT !.mode = "quote"] ELSE [p EXCEPT !.val = Append(@, c)]
         [] p.mode = "quote" ->
                IF c = Quote THEN [p EXCEPT !.mode = "quoted", !.val = Append(@, Quote)]
                ELSE IF c = Comma THEN [mode |-> "start", val |-> <<>>, fields |-> Append(p.fields, p.val)]
                ELSE start(Append(p.fields, p.val))

\* After a field in quotes at the end of the line comes one more, empty.
parseRow(line) ==
    LET p == FoldLeft(ReadChar, [mode |-> "start", val |-> <<>>, fields |-> <<>>], line)
    IN CASE p.mode = "start" -> Append(p.fields, <<>>)
         [] p.mode = "plain" -> Append(p.fields, p.val)
         [] OTHER -> p.fields \o <<p.val, <<>>>>

\* What is at some of the places of a sequence.
Kept(s, places) == FlattenSeq([i \in DOMAIN s |-> IF i \in places THEN <<s[i]>> ELSE <<>>])

Lines(text) ==
    LET ls == Split(text, LF) IN Kept(ls, {i \in DOMAIN ls : trim(ls[i]) # <<>>})

\* The last column of a name counts; a cell that is not there is empty.
Column(header, names) ==
    LET at(n) == {i \in DOMAIN header : header[i] = <<n>>}
        named == {k \in DOMAIN names : at(names[k]) # {}}
    IN IF named = {} THEN 0 ELSE Max(at(names[Min(named)]))
Field(fields, i) == IF i \in DOMAIN fields THEN trim(fields[i]) ELSE <<>>

parseBoolCell(cell) ==
    LET v == stripQuotes(trim(cell)) IN
    IF v = <<"true">> THEN "true" ELSE IF v = <<"false">> THEN "false" ELSE "null"

IseItem(header, fields) ==
    [mac |-> Field(fields, Column(header, <<"MACAddress">>)),
     group |-> stripQuotes(Field(fields, Column(header, <<"IdentityGroup">>))),
     desc |-> stripQuotes(Field(fields, Column(header, <<"Description">>))),
     static |-> parseBoolCell(Field(fields,
                    Column(header, <<"StaticGroupAssignment", "StaticAssignment">>)))]

SimpleItem(fields) ==
    [mac |-> Field(fields, 1), group |-> Field(fields, 2), desc |-> Field(fields, 3), static |-> "null"]

parseCsv(text) ==
    LET rows == [i \in DOMAIN Lines(text) |-> parseRow(Lines(text)[i])]
        header == IF rows = <<>> THEN <<>> ELSE [i \in DOMAIN rows[1] |-> trim(rows[1][i])]
        named(n) == \E i \in DOMAIN header : header[i] = <<n>>
    IN IF rows = <<>> THEN <<>>
       ELSE IF named("MACAddress")
       THEN LET items == [i \in 1..(Len(rows) - 1) |-> IseItem(header, rows[i + 1])]
            IN Kept(items, {i \in DOMAIN items : items[i].mac # <<>>})
       ELSE LET first == IF named("mac") THEN 2 ELSE 1 IN
            [i \in 1..(Len(rows) - first + 1) |-> SimpleItem(rows[i + first - 1])]

parseTemplateHeader(text) ==
    IF Lines(text) = <<>> THEN <<>>
    ELSE LET cells == parseRow(Lines(text)[1])
             names == [i \in DOMAIN cells |-> trim(stripQuotes(trim(cells[i])))]
         IN Kept(names, {i \in DOMAIN names : names[i] # <<>>})

extendTemplateWithPortalColumns(columns) ==
    columns \o Kept(DefaultTemplate, {k \in DOMAIN DefaultTemplate :
                                         \A i \in DOMAIN columns : columns[i] # DefaultTemplate[k]})

----------------------------------------------------------------------------
CsvInit == /\ template = DefaultTemplate
           /\ file = NoFile /\ parsed = NoRows /\ bulk = NoBulk

ImportTemplate ==
    /\ \E text \in TemplateFiles :
          LET columns == parseTemplateHeader(text) IN
          /\ columns # <<>>
          /\ template' = extendTemplateWithPortalColumns([i \in DOMAIN columns |-> columns[i][1]])
    /\ UNCHANGED <<file, parsed, bulk, queueVars>>

ResetTemplate == /\ template' = DefaultTemplate
                 /\ UNCHANGED <<file, parsed, bulk, queueVars>>

\* The table's rows are saved, and the file is chosen in the import view.
ExportCsv ==
    LET held == {m \in Macs : ise[m] # Absent} IN
    /\ held # {}
    /\ file' = [text |-> toIseCsv(SetToSeq(held)), of |-> ise]
    /\ UNCHANGED <<template, parsed, bulk, queueVars>>

PasteFile ==
    /\ \E text \in SimpleFiles : file' = [text |-> text, of |-> Handmade]
    /\ UNCHANGED <<template, parsed, bulk, queueVars>>

Preview ==
    /\ parsed' = [rows |-> parseCsv(file.text), of |-> file.of]
    /\ UNCHANGED <<template, file, bulk, queueVars>>

Valid(item) == \E m \in Macs : item.mac = <<m>>
\* An empty or unknown group becomes the one chosen for that case; none is
\* known when the list of groups could not be read.
GroupOf(name, fallback, known) ==
    IF name # <<>> /\ name[1] \in known THEN name[1] ELSE fallback

\* One request at a time.
Import(overwrite) ==
    LET rows == Kept(parsed.rows, {i \in DOMAIN parsed.rows : Valid(parsed.rows[i])}) IN
    /\ bulk = NoBulk /\ rows # <<>>
    /\ \E known \in {{}, Groups} : \E fallback \in IF known = {} THEN {NoGroup} ELSE known :
          bulk' = [items |-> [i \in DOMAIN rows |->
                      [mac |-> rows[i].mac[1], desc |-> rows[i].desc, static |-> rows[i].static,
                       group |-> GroupOf(rows[i].group, fallback, known)]],
                   of |-> parsed.of, overwrite |-> overwrite, st |-> "out"]
    /\ UNCHANGED <<template, file, parsed, queueVars>>

\* What the backend makes of one row: an endpoint, or an update of the one
\* there is.  Without a value the assignment is static.
Stored(item, old, overwrite) ==
    CASE old = Absent -> [group |-> item.group, desc |-> item.desc, static |-> item.static # "false"]
      [] old # Absent /\ ~overwrite -> old
      [] old # Absent /\ overwrite ->
            [group |-> IF item.group = NoGroup THEN old.group ELSE item.group,
             desc |-> item.desc,
             static |-> IF item.static = "null" THEN item.group # NoGroup ELSE item.static = "true"]

\* Each row by itself, and any of them may fail.
ServeBulk ==
    /\ bulk.st = "out" /\ online
    /\ \E done \in SUBSET DOMAIN bulk.items :
          ise' = FoldLeft(LAMBDA held, i :
                    IF i \in done
                    THEN [held EXCEPT ![bulk.items[i].mac] = Stored(bulk.items[i], @, bulk.overwrite)]
                    ELSE held, ise, [i \in DOMAIN bulk.items |-> i])
    /\ bulk' = [bulk EXCEPT !.st = "answered"]
    /\ UNCHANGED <<template, file, parsed, online, faults, regs, macOf, queue, todo,
                   sent, origin, calls, made, refused, ready, banner>>

\* The result is listed, or an error when the request failed.
BulkAnswered ==
    /\ bulk.st = "answered" \/ (bulk.st = "out" /\ ~online)
    /\ bulk' = NoBulk
    /\ UNCHANGED <<template, file, parsed, queueVars>>
=============================================================================
