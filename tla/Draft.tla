-------------------------------- MODULE Draft --------------------------------
(***************************************************************************)
(* The Pipeline Config Draft of Pipeline Authoring and what is computed    *)
(* from it (src/filedge/authoring_draft.py, authoring_validation.py,       *)
(* inferrer.py, config.py): Schema Inference over a sample File, the       *)
(* pipeline.yaml a draft becomes and is read from again, Authoring         *)
(* Validation, and the edits.  No state: Authoring keeps it.               *)
(*                                                                         *)
(* A sample is what it shows of each column, one of                        *)
(*   "ints"   integers          "holes"  integers and empty values         *)
(*   "text"   no number         "mixed"  some numbers, some not            *)
(* Parse details, dates and floats add no other case.  hash: blocks, which *)
(* constrain nothing, and the positions of a Fixed-Width Layout are left   *)
(* out.                                                                    *)
(***************************************************************************)
EXTENDS Integers, Sequences, FiniteSets, Functions

CONSTANTS
    Name,          \* column names, of sources and destinations
    NoName,        \* the empty CDC sequence column
    Sample,        \* sample Files
    NoSample,      \* no sample File is recorded
    Worksheet,     \* sheets of Excel Files
    Header,        \* Header[s][l]: the columns of s when read in layout l
    EncodingOf,    \* the encoding a sample is written in
    Table,         \* destination tables; also what --out is given
    Connector,     \* the Connector Registry
    NeedsSetting   \* the connectors with a required setting without default

\* A format and, for excel, the sheet.
Layout == {"csv", "fixed_width"} \cup Worksheet
Kind == {"ints", "holes", "text", "mixed"}
Encoding == {"utf-8", "cp500"}

\* A row maps a name to one value, so a name shows one kind of values.
OneKindPerName(h) ==
    \A i, j \in DOMAIN h : h[i].name = h[j].name => h[i].kind = h[j].kind

ASSUME DraftAssumption ==
    /\ NoName \notin Name /\ NoSample \notin Sample
    /\ \A s \in Sample : /\ DOMAIN Header[s] \subseteq Layout
                         /\ \A l \in DOMAIN Header[s] :
                                /\ Header[s][l] \in Seq([name : Name, kind : Kind])
                                /\ OneKindPerName(Header[s][l])
    /\ EncodingOf \in [Sample -> Encoding]
    /\ Table # {}
    /\ "sqlite" \in Connector /\ NeedsSetting \subseteq Connector \ {"sqlite"}

Type == {"integer", "string"}
Tier == {"high", "low", "ambiguous", "manual", "loaded"}
RiskyTier == {"low", "ambiguous"}

\* The authored fields of a column, and with the evidence for them.
Mapping == [source : Name, dest : Name, type : Type, required : BOOLEAN,
            encrypt : BOOLEAN]
Column == [source : Name, dest : Name, type : Type, required : BOOLEAN,
           encrypt : BOOLEAN, tier : Tier, evidence : Kind \cup {"none"}]

Drafts == [dest_table : Table, columns : Seq(Column), layout : Layout,
           write_mode : {"append", "truncate", "cdc"},
           keys : SUBSET Name, sequence_by : Name \cup {NoName},
           connector : Connector, ready : BOOLEAN]

\* A pipeline.yaml.  "other" are the settings that a draft has no field for.
Configs == [dest_table : Table, columns : Seq(Mapping), layout : Layout,
            write_mode : {"append", "truncate", "cdc"},
            keys : SUBSET Name, sequence_by : Name \cup {NoName},
            connector : Connector, ready : BOOLEAN,
            encoding : Encoding, other : {"default", "set"}]

-----------------------------------------------------------------------------
(***************************************************************************)
(* Reading a sample.                                                       *)
(***************************************************************************)
\* Text is decoded; an Excel File is not.
Readable(s, l, encoding) ==
    /\ s \in Sample
    /\ l \in DOMAIN Header[s]
    /\ l \notin Worksheet => EncodingOf[s] = encoding

Shows(s, l, n) == {h.kind : h \in {g \in Range(Header[s][l]) : g.name = n}}

InferredType(k) == IF k \in {"ints", "holes"} THEN "integer" ELSE "string"

InferredTier(k) == CASE k = "holes" -> "low"
                     [] k = "mixed" -> "ambiguous"
                     [] OTHER -> "high"

InferredColumn(h) ==
    [source |-> h.name, dest |-> h.name, type |-> InferredType(h.kind),
     required |-> TRUE, encrypt |-> FALSE,
     tier |-> InferredTier(h.kind), evidence |-> h.kind]

ManualColumn(h, t, required) ==
    [source |-> h.name, dest |-> h.name, type |-> t, required |-> required,
     encrypt |-> FALSE, tier |-> "manual", evidence |-> "none"]

\* A new draft with the columns cols.
NewDraft(t, cols, l) ==
    [dest_table |-> t, columns |-> cols, layout |-> l, write_mode |-> "append",
     keys |-> {}, sequence_by |-> NoName, connector |-> "sqlite", ready |-> TRUE]

FromSample(t, s, l) ==
    LET h == Header[s][l]
    IN  NewDraft(t, [i \in DOMAIN h |-> InferredColumn(h[i])], l)

\* A Fixed-Width Layout entered by hand for s, its columns all alike.
FromLayout(t, s, type, required) ==
    LET h == Header[s]["fixed_width"]
    IN  NewDraft(t, [i \in DOMAIN h |-> ManualColumn(h[i], type, required)],
                 "fixed_width")

-----------------------------------------------------------------------------
(***************************************************************************)
(* pipeline.yaml: written from a draft, read back into one.                *)
(***************************************************************************)
Authored(col) == [f \in {"source", "dest", "type", "required", "encrypt"} |-> col[f]]

ToConfig(d) ==
    [dest_table |-> d.dest_table,
     columns |-> [i \in DOMAIN d.columns |-> Authored(d.columns[i])],
     layout |-> d.layout, write_mode |-> d.write_mode,
     keys |-> IF d.write_mode = "cdc" THEN d.keys ELSE {},
     sequence_by |-> IF d.write_mode = "cdc" THEN d.sequence_by ELSE NoName,
     connector |-> d.connector, ready |-> d.ready,
     encoding |-> "utf-8", other |-> "default"]

\* config_from_dict accepts the mapping.
Loads(c) ==
    LET declared == {c.columns[i].source : i \in DOMAIN c.columns}
    IN  /\ \A i \in DOMAIN c.columns :
               c.columns[i].encrypt => c.columns[i].type = "string"
        /\ c.keys \subseteq declared
        /\ c.sequence_by \in declared \cup {NoName}

LoadedColumn(m) ==
    [source |-> m.source, dest |-> m.dest, type |-> m.type,
     required |-> m.required, encrypt |-> m.encrypt,
     tier |-> "loaded", evidence |-> "none"]

FromConfig(c) ==
    [dest_table |-> c.dest_table,
     columns |-> [i \in DOMAIN c.columns |-> LoadedColumn(c.columns[i])],
     layout |-> c.layout, write_mode |-> c.write_mode, keys |-> c.keys,
     sequence_by |-> c.sequence_by, connector |-> c.connector, ready |-> c.ready]

-----------------------------------------------------------------------------
(***************************************************************************)
(* Authoring Validation of a config that loads.                            *)
(***************************************************************************)
\* Column Tolerance and Strict Mode, for one column.
Tolerated(s, l, m) == m.required => Shows(s, l, m.source) # {}

Coerces(s, l, m) ==
    LET kinds == Shows(s, l, m.source)
    IN  /\ m.required => "holes" \notin kinds
        /\ m.type = "integer" => kinds \subseteq {"ints", "holes"}

WriteModeSettled(c) ==
    c.write_mode = "cdc" => c.keys # {} /\ c.sequence_by # NoName

Judge(c, s, encoding) ==
    IF /\ Readable(s, c.layout, encoding)
       /\ \A i \in DOMAIN c.columns : /\ Tolerated(s, c.layout, c.columns[i])
                                     /\ Coerces(s, c.layout, c.columns[i])
       /\ WriteModeSettled(c)
    THEN "green" ELSE "red"

-----------------------------------------------------------------------------
(***************************************************************************)
(* Edits.                                                                  *)
(***************************************************************************)
IsFirst(cols, f, v, i) ==
    /\ i \in DOMAIN cols /\ cols[i][f] = v
    /\ \A j \in 1..(i - 1) : cols[j][f] # v

\* The column that a source or a dest names: the first one that has it.
FirstWith(cols, f, v) == CHOOSE i \in DOMAIN cols : IsFirst(cols, f, v, i)

EditColumn(d, source, f, v) ==
    [d EXCEPT !.columns[FirstWith(d.columns, "source", source)][f] = v]

\* encrypt: is declared on, or cleared from, a destination column.
SetEncryption(d, dest, on) ==
    [d EXCEPT !.columns[FirstWith(d.columns, "dest", dest)].encrypt = on]

CanDuplicate(d, new_dest) == \A i \in DOMAIN d.columns : d.columns[i].dest # new_dest

DuplicateColumn(d, dest, new_dest) ==
    LET col == d.columns[FirstWith(d.columns, "dest", dest)]
    IN  [d EXCEPT !.columns =
            Append(@, [col EXCEPT !.dest = new_dest, !.encrypt = FALSE])]

ChooseConnector(d, c) == [d EXCEPT !.connector = c, !.ready = c \notin NeedsSetting]

\* Variant: what a column shows is taken for how sure its type is.
WithRawEvidenceOf(d, s) ==
    [d EXCEPT !.columns = [i \in DOMAIN d.columns |->
        LET col == d.columns[i]
            kinds == Shows(s, d.layout, col.source)
        IN  IF kinds = {} THEN col
            ELSE LET k == CHOOSE k \in kinds : TRUE
                 IN  [col EXCEPT !.tier = k, !.evidence = k]]]

\* The evidence, and nothing else, is that of a fresh sample.
WithEvidenceOf(d, s) ==
    [d EXCEPT !.columns = [i \in DOMAIN d.columns |->
        LET col == d.columns[i]
            kinds == Shows(s, d.layout, col.source)
        IN  IF kinds = {} THEN col
            ELSE LET k == CHOOSE k \in kinds : TRUE
                 IN  [col EXCEPT !.tier = InferredTier(k), !.evidence = k]]]

Risky(d) == {d.columns[i] : i \in {j \in DOMAIN d.columns : d.columns[j].tier \in RiskyTier}}
=============================================================================
