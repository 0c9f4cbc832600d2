----------------------------- MODULE MCUnpackAll -----------------------------
(***************************************************************************)
(* Small instances of UnpackAll.                                           *)
(***************************************************************************)
EXTENDS UnpackAll

Table(n, t, columns) ==
    [id |-> n, tag |-> t, set |-> TRUE, dumper |-> TRUE, columns |-> columns]

Schema(n, t) == [Table(n, t, FALSE) EXCEPT !.dumper = FALSE]

(* Two schemas have a table "t", "v" has no data; the second dump lacks    *)
(* one table and has one more, which has no columns.                       *)
TwoDumps == <<
    << Schema(3, "t"), Table(7, "t", TRUE), Table(5, "t", TRUE),
       [Table(9, "v", TRUE) EXCEPT !.set = FALSE] >>,
    << Schema(4, "u"), Table(5, "u", TRUE), Table(8, "w", FALSE) >> >>

(* A table without columns: its statement is "COPY public.e  FROM stdin;". *)
NoColumns == << << Table(7, "t", TRUE), Table(8, "e", FALSE) >> >>
=============================================================================
