----------------------------- MODULE TableNames -----------------------------
(***************************************************************************)
(* Names (entries.rs): what is read from a COPY statement, the names that  *)
(* `table ls` prints, and how `table read` finds an entry by name.  "a"    *)
(* stands for the characters of plain identifiers, "B" for those that only *)
(* want quotes; the rest have a meaning in names or in the statement.      *)
(***************************************************************************)
EXTENDS Naturals, Sequences, FiniteSets, SequencesExt

CONSTANT Catalogs   \* the table entries of a dump: sequences of tables

NameChar == {"a", "B", "quote", "dot", "comma", "space", "open", "close"}

Name == Seq(NameChar) \ {<<>>}

ASSUME NamesAssumption ==
    \A c \in Catalogs : \A i, j \in DOMAIN c :
        /\ c[i].namespace \in Name /\ c[i].tag \in Name
        /\ c[i].columns \in Seq(Name)
        /\ i # j => <<c[i].namespace, c[i].tag>> # <<c[j].namespace, c[j].tag>>

VARIABLES
    catalog,
    asked,    \* the name given to `table read`
    meant,    \* history: the entry the user meant, and how the name was had
    answer,   \* <<>>, then <<the positions of the entries that match>>
    header    \* the column names for the output

nameVars == <<catalog, asked, meant, answer, header>>

-----------------------------------------------------------------------------
Doubled(s) ==
    FlattenSeq([k \in DOMAIN s |-> IF s[k] = "quote" THEN <<"quote", "quote">> ELSE <<s[k]>>])

Quoted(s) == <<"quote">> \o Doubled(s) \o <<"quote">>

(* pg_dump (external) quotes the identifiers that need it.                 *)
FmtId(s) == IF ToSet(s) \subseteq {"a"} THEN s ELSE Quoted(s)

Joined(parts, separator) ==
    FlattenSeq([n \in DOMAIN parts |-> (IF n = 1 THEN <<>> ELSE separator) \o parts[n]])

(* The part of the statement between "COPY " and " FROM stdin;".           *)
Statement(t) ==
    FmtId(t.namespace) \o <<"dot">> \o FmtId(t.tag) \o <<"space", "open">>
    \o Joined([k \in DOMAIN t.columns |-> FmtId(t.columns[k])], <<"comma", "space">>)
    \o <<"close">>

-----------------------------------------------------------------------------
SplitAt(parts, x, c) ==
    IF x = c THEN Append(parts, <<>>)
    ELSE Append(Front(parts), Append(Last(parts), x))

Split(s, c) ==
    LET parts[n \in 0 .. Len(s)] ==
            IF n = 0 THEN <<<<>>>> ELSE SplitAt(parts[n - 1], s[n], c)
    IN parts[Len(s)]

(* trim_matches: without the characters c at either end.                   *)
Trimmed(s, c) ==
    LET others == {k \in DOMAIN s : s[k] # c}
        first == CHOOSE k \in others : \A m \in others : k <= m
        last == CHOOSE k \in others : \A m \in others : m <= k
    IN IF others = {} THEN <<>> ELSE SubSeq(s, first, last)

(* Faulty variant: what has quotes is quoted again.                        *)
QuoteAlways(s) == Quoted(s)

(* quote_identifier, and the same code in normalize_table_name.            *)
QuoteIdentifier(s) ==
    IF Len(s) >= 2 /\ s[1] = "quote" /\ s[Len(s)] = "quote" THEN s ELSE Quoted(s)

Normalized(s) ==
    LET parts == Split(s, "dot")
    IN Joined([n \in DOMAIN parts |-> QuoteIdentifier(Trimmed(parts[n], "space"))], <<"dot">>)

(* parse_copy_statement: the lazy first group ends before the first "(",   *)
(* the greedy second one before the last ")".                              *)
FirstOpen(s) == SelectInSeq(s, LAMBDA c : c = "open")

CopiedTable(t) ==
    LET s == Statement(t) IN Normalized(SubSeq(s, 1, FirstOpen(s) - 1))

ColumnList(t) ==
    LET s == Statement(t) IN SubSeq(s, FirstOpen(s) + 1, Len(s) - 1)

(* Faulty variant: the names keep the space before them, and so a quote.   *)
CopiedColumnsUntrimmed(t) ==
    LET parts == Split(ColumnList(t), "comma")
    IN [n \in DOMAIN parts |-> Trimmed(parts[n], "quote")]

CopiedColumns(t) ==
    LET parts == Split(ColumnList(t), "comma")
    IN [n \in DOMAIN parts |-> Trimmed(Trimmed(parts[n], "space"), "quote")]

(* qualified_name: what `table ls` prints.                                 *)
QualifiedName(t) == Quoted(t.namespace) \o <<"dot">> \o Quoted(t.tag)

(* What a user types for a name that has no quotes in it.                  *)
Typed(t) == t.namespace \o <<"dot">> \o t.tag

Unquoted(t) == "quote" \notin ToSet(Typed(t))

-----------------------------------------------------------------------------
NamesInit ==
    /\ catalog \in Catalogs
    /\ asked = <<>> /\ meant = <<0, "none">>
    /\ answer = <<>> /\ header = <<>>

Ask(name, i, how) ==
    /\ asked = <<>>
    /\ asked' = name
    /\ meant' = <<i, how>>
    /\ UNCHANGED <<catalog, answer, header>>

(* The statement of a table without columns has no list, and is not parsed.*)
Parses(t) == t.columns # <<>>

Matches(name) ==
    {i \in DOMAIN catalog : /\ Parses(catalog[i])
                            /\ CopiedTable(catalog[i]) = Normalized(name)}

(* find_table_entry: an error unless exactly one entry matches.  The       *)
(* columns of that entry are parsed once more by TsvStream::new.           *)
Find ==
    /\ asked # <<>> /\ answer = <<>>
    /\ LET found == Matches(asked) IN
       /\ answer' = <<found>>
       /\ header' \in IF Cardinality(found) = 1
                     THEN {CopiedColumns(catalog[i]) : i \in found} ELSE {<<>>}
    /\ UNCHANGED <<catalog, asked, meant>>

(* A name printed for a table is asked for, or one typed without quotes.   *)
AskForTable ==
    \E i \in DOMAIN catalog :
        \/ Ask(QualifiedName(catalog[i]), i, "listed")
        \/ Unquoted(catalog[i]) /\ Ask(Typed(catalog[i]), i, "typed")

-----------------------------------------------------------------------------
(* A name copied from `table ls`, or typed without quotes, never selects   *)
(* another table than the one it was printed or typed for, also when names *)
(* contain the quotes and dots at which both sides are split; a listed one *)
(* selects its table unless that has no columns, or a name with a space at *)
(* a dot makes it ambiguous.                                               *)
NameFindsTable ==
    answer # <<>> =>
        /\ Cardinality(answer[1]) = 1 => answer[1] = {meant[1]}
        /\ meant[2] = "listed" /\ Parses(catalog[meant[1]]) => meant[1] \in answer[1]
        /\ (\A i \in DOMAIN catalog : "space" \notin ToSet(Typed(catalog[i]))) =>
               Cardinality(answer[1]) <= 1

(* Format::TsvRaw: "It contains a header row with column names".  The      *)
(* names parsed from the statement, which become the header, are the names *)
(* of the columns.                                                         *)
HeaderIsColumns == header # <<>> => header = catalog[meant[1]].columns
=============================================================================
