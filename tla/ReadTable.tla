------------------------------ MODULE ReadTable ------------------------------
(***************************************************************************)
(* `table read` (read_table in table_read/mod.rs, with open_reader): the   *)
(* format is settled, the dump opened, the table found, and read_entry     *)
(* called, which is taken as what Export promises.  An earlier output may  *)
(* be at the path given.                                                   *)
(***************************************************************************)
EXTENDS TableNames

CONSTANT Requests(_)   \* the requests made of a catalog

(* An output is stdout or the extension of its path, "none" if it has none.*)
Formats == {"tsv-raw", "csv", "parquet"}

ASSUME RequestsAssumption ==
    \A c \in Catalogs : Requests(c) \subseteq [given : Formats \cup {"none"}, output : STRING]

VARIABLES
    request,
    pc,            \* "format", "open", "find", "read", then "done"
    format,        \* "none" until it is settled
    out, result,   \* the call of read_entry, as in Export
    file           \* what the output holds: "old", "partial" or <<entry, format>>

requestVars == <<request, pc, format, out, result, file>>
allVars == <<nameVars, requestVars>>

X == INSTANCE Export

RequestInit ==
    /\ NamesInit /\ request \in Requests(catalog)
    /\ pc = "format" /\ format = "none"
    /\ X!Init /\ file = <<"old">>

(* infer_format_from_path, which lowers the letters of the extension.      *)
NamedBy == [csv |-> "csv", CSV |-> "csv", tsv |-> "tsv-raw", TSV |-> "tsv-raw",
            parquet |-> "parquet"]

(* The format of a request, in a set that is empty if there is none.       *)
Inferred(r) ==
    IF r.output = "stdout" THEN {"tsv-raw"}
    ELSE {NamedBy[e] : e \in DOMAIN NamedBy \cap {r.output}}

(* Faulty variant: the extension goes before --format.                     *)
SettledByName(r) ==
    IF Inferred(r) # {} THEN Inferred(r) ELSE {r.given} \ {"none"}

Settled(r) == IF r.given # "none" THEN {r.given} ELSE Inferred(r)

Refuse == result' = "err" /\ pc' = "done"

-----------------------------------------------------------------------------
Asked ==
    /\ AskForTable
    /\ UNCHANGED requestVars

Infer ==
    /\ asked # <<>> /\ pc = "format"
    /\ \/ format' \in Settled(request) /\ pc' = "open" /\ UNCHANGED result
       \/ Settled(request) = {} /\ Refuse /\ UNCHANGED format
    /\ UNCHANGED <<nameVars, request, out, file>>

(* open_reader: a path is opened at once, a URL with the first read of the *)
(* table of contents, and either may fail.                                 *)
Open ==
    /\ pc = "open"
    /\ \/ pc' = "find" /\ UNCHANGED result
       \/ Refuse
    /\ UNCHANGED <<nameVars, request, format, out, file>>

(* Faulty variant: of several matches one is taken.                        *)
TakeOne ==
    /\ pc = "find" /\ Find
    /\ IF answer'[1] # {} THEN pc' = "read" /\ UNCHANGED result ELSE Refuse
    /\ UNCHANGED <<request, format, out, file>>

Take ==
    /\ pc = "find" /\ Find
    /\ IF Cardinality(answer'[1]) = 1 THEN pc' = "read" /\ UNCHANGED result ELSE Refuse
    /\ UNCHANGED <<request, format, out, file>>

(* csv and parquet are refused on stdout, before anything is written.      *)
Writable == format = "tsv-raw" \/ request.output # "stdout"

Content(i) ==
    CASE out' = "untouched" -> file
      [] out' = "partial" -> <<"partial">>
      [] out' = "whole" -> <<"whole", i, format>>

Read ==
    /\ pc = "read"
    /\ IF Writable THEN X!Next ELSE result' = "err" /\ UNCHANGED out
    /\ \E i \in answer[1] : file' = Content(i)
    /\ pc' = IF result' = "none" THEN "read" ELSE "done"
    /\ UNCHANGED <<nameVars, request, format>>

RequestNext == Asked \/ Infer \/ Open \/ Take \/ Read

RequestSpec == RequestInit /\ [][RequestNext]_allVars

-----------------------------------------------------------------------------
(* ReadTableOptions: "If `None`, it is inferred from the output file       *)
(* extension".  After Ok the output is the whole table that was meant, in  *)
(* the format given, or else the one its extension names; stdout gets tsv. *)
OkMeansAsked ==
    result = "ok" =>
        /\ file[1] = "whole" /\ file[2] = meant[1]
        /\ request.given # "none" => file[3] = request.given
        /\ request.given = "none" => request.output \in (DOMAIN NamedBy \cup {"stdout"})
        /\ request.given = "none" /\ request.output # "stdout" =>
               file[3] = NamedBy[request.output]
        /\ request.output = "stdout" => file[3] = "tsv-raw"

(* The output of an earlier run is given up for nothing but the one table  *)
(* that was meant: not for a name that matches no table or several, nor    *)
(* for a format nobody named.                                              *)
RefusedKeepsOutput ==
    file # <<"old">> =>
        /\ answer = <<{meant[1]}>>
        /\ request.given # "none" \/ request.output \in (DOMAIN NamedBy \cup {"stdout"})

-----------------------------------------------------------------------------
(* The inductive invariant.  From the search on the format is one that was *)
(* settled, and from the call of read_entry on there is one match; what    *)
(* the output holds follows the state of the call.                         *)
Found == answer = <<answer[1]>> /\ Cardinality(answer[1]) = 1

Progress ==
    /\ catalog \in Catalogs /\ request \in Requests(catalog)
    /\ pc \in {"format", "open", "find", "read", "done"}
    /\ result \in {"none", "ok", "err"} /\ (result = "none" <=> pc # "done")
    /\ pc \in {"open", "find", "read"} => format \in Settled(request)
    /\ pc \in {"format", "open", "find"} => out = "untouched"
    /\ pc = "read" => Found

Delivered ==
    /\ out \in {"untouched", "partial", "whole"}
    /\ out = "untouched" => file = <<"old">>
    /\ out = "partial" => file = <<"partial">>
    /\ out = "whole" => \E i \in answer[1] : file = <<"whole", i, format>>
    /\ out # "untouched" => Found /\ Writable /\ format \in Settled(request)
    /\ result = "ok" => out = "whole"

RequestInv == Progress /\ Delivered
=============================================================================
