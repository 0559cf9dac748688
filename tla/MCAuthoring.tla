----------------------------- MODULE MCAuthoring -----------------------------
(***************************************************************************)
(* Two authors; two CSV Files in UTF-8 that differ in what one column      *)
(* shows, of which the older can also be read as fixed-width, one in       *)
(* EBCDIC, and an Excel File of two sheets; and the ways an author starts. *)
(***************************************************************************)
EXTENDS Authoring

CONSTANTS a1, a2   \* model values

MCColumn(name, kind) == [name |-> name, kind |-> kind]

MCHeader ==
    [s \in Sample |->
        CASE s = "old.csv" -> [l \in {"csv", "fixed_width"} |->
                                  <<MCColumn("id", "ints"), MCColumn("amt", "holes")>>]
          [] s = "new.csv" -> [l \in {"csv"} |->
                                  <<MCColumn("id", "ints"), MCColumn("amt", "mixed")>>]
          [] s = "ebcdic.csv" -> [l \in {"csv"} |-> <<MCColumn("id", "text")>>]
          [] s = "book.xlsx" -> [l \in Worksheet |->
                                  <<MCColumn("id", IF l = "jan" THEN "holes" ELSE "mixed")>>]]

MCEncoding == [s \in Sample |-> IF s = "ebcdic.csv" THEN "cp500" ELSE "utf-8"]

MCSlug == [t \in Table |-> IF t = "items" THEN "items" ELSE "orders"]

Call(file, layout, encoding, table, out) ==
    [file |-> file, layout |-> layout, encoding |-> encoding,
     dest_table |-> table, out |-> out]

MCCommand ==
    {Call("old.csv", "csv", "utf-8", "Orders", NoTable),
     Call("book.xlsx", "jan", "utf-8", "orders", "items")}

MCEncoded == {Call("ebcdic.csv", "csv", "cp500", "items", NoTable)}

MCCdcChoice == {<<{"id"}, "amt">>}

\* An empty workspace; one with a Pipeline that was authored and then changed
\* by hand.
MCWorkspace ==
    {<<>>,
     "orders" :> [config |-> [ToConfig(FromSample("Orders", "ebcdic.csv", "csv"))
                                  EXCEPT !.connector = "bigquery",
                                         !.encoding = "cp500", !.other = "set"],
                  runbook |-> "ebcdic.csv"]}

MCEmpty == {<<>>}

AuthorSymmetry == Permutations(Author)
=============================================================================
