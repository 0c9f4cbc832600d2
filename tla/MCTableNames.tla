---------------------------- MODULE MCTableNames ----------------------------
(***************************************************************************)
(* Small instances of ReadTable: names of up to three characters.          *)
(***************************************************************************)
EXTENDS ReadTable

Names(chars, n) == SeqOf(chars, n) \ {<<>>}

Table(n, t, columns) == [namespace |-> n, tag |-> t, columns |-> columns]

(* Two tables, one of them in schema "a", with quotes or dots in names.  A *)
(* table with both in its names could be taken for another: ."." for .. in *)
(* one schema, and table .B in schema "a for table B" in schema a. (quotes *)
(* and dots belong to these names).                                        *)
QuotedNames == Names({"a", "quote"}, 3) \cup Names({"a", "dot"}, 3) \cup {<<"B">>}

TwoTables ==
    {<<Table(<<"a">>, t, <<<<"a">>>>), Table(n, u, <<<<"a">>>>)>> :
        t, u \in QuotedNames, n \in {<<"a">>, <<"quote">>, <<"a", "dot">>}}

TwoNamed == {c \in TwoTables : <<c[1].namespace, c[1].tag>> # <<c[2].namespace, c[2].tag>>}

(* Two columns of names without quotes or commas.                          *)
PlainColumns ==
    {<<Table(<<"a">>, <<"B">>, <<c, d>>)>> :
        c \in Names({"a", "B", "open", "close"}, 2), d \in Names({"a", "space", "dot", "close"}, 2)}

FewColumns == {c \in PlainColumns : c[1].columns[2] = <<"a">>}

(* Two columns of names that may have commas in them.                      *)
CommaColumns ==
    {<<Table(<<"a">>, <<"a">>, <<c, d>>)>> : c, d \in Names({"a", "comma"}, 2)}

(* "a .a" and "a. a" cannot be told apart; a table may have no columns.    *)
SpacedTables ==
    {<<Table(<<"a">>, <<"a", "space", "dot", "a">>, <<<<"a">>>>),
       Table(<<"a">>, <<"a", "dot", "space", "a">>, <<<<"a">>>>)>>}

NoColumns == {<<Table(<<"a">>, <<"B">>, <<<<"a">>>>), Table(<<"a">>, <<"a">>, <<>>)>>}

SmallCatalogs == TwoNamed \cup PlainColumns \cup SpacedTables \cup NoColumns

(* One request of most catalogs, and every request of a few.               *)
Outputs == {"stdout", "csv", "CSV", "tsv", "parquet", "gz", "none"}

OneRequest == {[given |-> "none", output |-> "csv"]}

AllRequests == [given : Formats \cup {"none"}, output : Outputs]

SmallRequests(c) ==
    IF c \in SpacedTables \cup NoColumns \cup FewColumns THEN AllRequests ELSE OneRequest
=============================================================================
