-------------------------- MODULE Authoring_proofs --------------------------
(***************************************************************************)
(* The theorems of Authoring: what a workflow relies on when it generates, *)
(* and what the folder and the registry show, for any samples, workspaces, *)
(* authors and bounds.                                                     *)
(***************************************************************************)
EXTENDS Authoring, FiniteSetTheorems, SequenceTheorems, TLAPS

LEMMA LeastNatural ==
    ASSUME NEW S \in SUBSET Nat, S # {}
    PROVE  \E n \in S : \A m \in S : n <= m
<1> DEFINE R == OpToRel(<, Nat)
<1>1. IsWellFoundedOn(R, Nat)
  BY NatLessThanWellFounded
<1> HIDE DEF R
<1>2. PICK n \in S : \A m \in S : <<m, n>> \notin R
  BY <1>1, WFMin
<1>3. \A m \in S : ~(m < n)
  BY <1>2 DEF R, OpToRel
<1> QED
  BY <1>3

LEMMA Elements ==
    ASSUME NEW S, NEW q \in Seq(S)
    PROVE  (\A i \in DOMAIN q : q[i] \in S) /\ Range(q) \subseteq S
BY DEF Range

-----------------------------------------------------------------------------
(***************************************************************************)
(* Drafts and configs.                                                     *)
(***************************************************************************)
LEMMA FromSampleTypes ==
    ASSUME NEW t \in Table, NEW s \in Sample, NEW l \in DOMAIN Header[s]
    PROVE  FromSample(t, s, l) \in Drafts
<1>1. Header[s][l] \in Seq([name : Name, kind : Kind]) /\ l \in Layout
  BY DraftAssumption
<1>2. \A h \in [name : Name, kind : Kind] : InferredColumn(h) \in Column
  BY DEF InferredColumn, InferredType, InferredTier, Column, Type, Tier, Kind
<1>3. [i \in DOMAIN Header[s][l] |-> InferredColumn(Header[s][l][i])] \in Seq(Column)
  <2>1. ASSUME NEW i \in DOMAIN Header[s][l] PROVE InferredColumn(Header[s][l][i]) \in Column
    <3>1. Header[s][l][i] \in [name : Name, kind : Kind]
      BY <1>1, Elements
    <3> QED
      BY <1>2, <3>1
  <2> QED
    BY <1>1, <2>1
<1> QED
  BY <1>1, <1>3, DraftAssumption DEF FromSample, NewDraft, Drafts

LEMMA SeededTypes ==
    ASSUME NEW t \in Table, NEW s \in Sample, NEW l \in Layout, NEW encoding,
           CanSeed(s, l, encoding)
    PROVE  /\ Seeded(t, s, l) \in Drafts \cup {NoDraft}
           /\ Seeded(t, s, l) # NoDraft => Seeded(t, s, l).layout = l
<1>1. CASE l = "fixed_width"
  BY <1>1 DEF Seeded
<1>2. CASE l # "fixed_width"
  <2>1. l \in DOMAIN Header[s] /\ Seeded(t, s, l) = FromSample(t, s, l)
    BY <1>2 DEF CanSeed, Readable, Seeded
  <2>2. FromSample(t, s, l).layout = l
    BY DEF FromSample, NewDraft
  <2> QED
    BY <2>1, <2>2, FromSampleTypes
<1> QED
  BY <1>1, <1>2

LEMMA FromLayoutTypes ==
    ASSUME NEW t \in Table, NEW s \in Sample, "fixed_width" \in DOMAIN Header[s],
           NEW type \in Type, NEW required \in BOOLEAN
    PROVE  FromLayout(t, s, type, required) \in Drafts
<1> DEFINE h == Header[s]["fixed_width"]
<1>1. h \in Seq([name : Name, kind : Kind]) /\ "fixed_width" \in Layout
  BY DraftAssumption
<1>2. \A g \in [name : Name, kind : Kind] : ManualColumn(g, type, required) \in Column
  BY DEF ManualColumn, Column, Tier
<1>3. [i \in DOMAIN h |-> ManualColumn(h[i], type, required)] \in Seq(Column)
  <2>1. ASSUME NEW i \in DOMAIN h PROVE ManualColumn(h[i], type, required) \in Column
    <3>1. h[i] \in [name : Name, kind : Kind]
      BY <1>1, Elements
    <3> QED
      BY <1>2, <3>1
  <2> QED
    BY <1>1, <2>1
<1> QED
  BY <1>1, <1>3, DraftAssumption DEF FromLayout, NewDraft, Drafts

LEMMA ToConfigTypes ==
    ASSUME NEW d \in Drafts
    PROVE  ToConfig(d) \in Configs
<1>1. d.columns \in Seq(Column)
  BY DEF Drafts
<1>2. \A c \in Column : Authored(c) \in Mapping
  BY DEF Authored, Column, Mapping
<1>3. [i \in DOMAIN d.columns |-> Authored(d.columns[i])] \in Seq(Mapping)
  <2>1. \A i \in DOMAIN d.columns : Authored(d.columns[i]) \in Mapping
    BY <1>1, <1>2
  <2> QED
    BY <1>1, <2>1
<1>4. /\ d.dest_table \in Table /\ d.layout \in Layout
      /\ d.write_mode \in {"append", "truncate", "cdc"}
      /\ d.keys \in SUBSET Name /\ d.sequence_by \in Name \cup {NoName}
      /\ d.connector \in Connector /\ d.ready \in BOOLEAN
  BY DEF Drafts
<1> QED
  BY <1>3, <1>4 DEF ToConfig, Configs, Encoding

LEMMA FromConfigTypes ==
    ASSUME NEW c \in Configs
    PROVE  FromConfig(c) \in Drafts
<1>1. c.columns \in Seq(Mapping)
  BY DEF Configs
<1>2. \A m \in Mapping : LoadedColumn(m) \in Column
  BY DEF LoadedColumn, Column, Mapping, Tier
<1>3. [i \in DOMAIN c.columns |-> LoadedColumn(c.columns[i])] \in Seq(Column)
  <2>1. \A i \in DOMAIN c.columns : LoadedColumn(c.columns[i]) \in Column
    BY <1>1, <1>2
  <2> QED
    BY <1>1, <2>1
<1>4. /\ c.dest_table \in Table /\ c.layout \in Layout
      /\ c.write_mode \in {"append", "truncate", "cdc"}
      /\ c.keys \in SUBSET Name /\ c.sequence_by \in Name \cup {NoName}
      /\ c.connector \in Connector /\ c.ready \in BOOLEAN
  BY DEF Configs
<1> QED
  BY <1>3, <1>4 DEF FromConfig, Drafts

\* The column that an edit finds is there, if any column has what it looks for.
LEMMA FirstIsThere ==
    ASSUME NEW S, NEW cols \in Seq(S), NEW f, NEW v, NEW k \in DOMAIN cols, cols[k][f] = v
    PROVE  IsFirst(cols, f, v, FirstWith(cols, f, v))
<1> DEFINE W == {i \in DOMAIN cols : cols[i][f] = v}
<1>1. DOMAIN cols \subseteq Nat /\ \A i \in DOMAIN cols : 1..(i - 1) \subseteq DOMAIN cols
  OBVIOUS
<1>2. PICK i \in W : \A j \in W : i <= j
  <2>1. W \subseteq Nat /\ k \in W
    BY <1>1
  <2> QED
    BY <2>1, LeastNatural
<1>3. IsFirst(cols, f, v, i)
  BY <1>1, <1>2 DEF IsFirst
<1>4. i \in DOMAIN cols
  BY <1>2
<1> QED
  BY <1>3, <1>4 DEF FirstWith

\* The edits keep the types of a draft.
LEMMA SetColumnTypes ==
    ASSUME NEW d \in Drafts, NEW k \in DOMAIN d.columns, NEW col \in Column
    PROVE  /\ [d EXCEPT !.columns = [d.columns EXCEPT ![k] = col]] \in Drafts
           /\ [d EXCEPT !.columns = [d.columns EXCEPT ![k] = col]].layout = d.layout
<1>1. [d.columns EXCEPT ![k] = col] \in Seq(Column)
  BY DEF Drafts
<1> QED
  BY <1>1 DEF Drafts

LEMMA EditTypes ==
    ASSUME NEW d \in Drafts, NEW source, NEW f, NEW v,
           \E i \in DOMAIN d.columns : d.columns[i].source = source,
           \/ f \in {"source", "dest"} /\ v \in Name
           \/ f = "type" /\ v \in Type
           \/ f = "required" /\ v \in BOOLEAN
    PROVE  EditColumn(d, source, f, v) \in Drafts /\ EditColumn(d, source, f, v).layout = d.layout
<1> DEFINE k == FirstWith(d.columns, "source", source)
<1>1. d.columns \in Seq(Column)
  BY DEF Drafts
<1>2. k \in DOMAIN d.columns
  BY <1>1, FirstIsThere DEF IsFirst
<1> HIDE DEF k
<1>3. d.columns[k] \in Column
  BY <1>1, <1>2
<1>4. [d.columns[k] EXCEPT ![f] = v] \in Column
  <2>1. CASE f = "source" /\ v \in Name
    BY <1>3, <2>1 DEF Column
  <2>2. CASE f = "dest" /\ v \in Name
    BY <1>3, <2>2 DEF Column
  <2>3. CASE f = "type" /\ v \in Type
    BY <1>3, <2>3 DEF Column
  <2>4. CASE f = "required" /\ v \in BOOLEAN
    BY <1>3, <2>4 DEF Column
  <2> QED
    BY <2>1, <2>2, <2>3, <2>4
<1>5. EditColumn(d, source, f, v)
          = [d EXCEPT !.columns = [d.columns EXCEPT ![k] = [d.columns[k] EXCEPT ![f] = v]]]
  BY DEF EditColumn, k, Drafts
<1> QED
  BY <1>2, <1>4, <1>5, SetColumnTypes

LEMMA EncryptTypes ==
    ASSUME NEW d \in Drafts, NEW dest, NEW on \in BOOLEAN,
           \E i \in DOMAIN d.columns : d.columns[i].dest = dest
    PROVE  SetEncryption(d, dest, on) \in Drafts /\ SetEncryption(d, dest, on).layout = d.layout
<1> DEFINE k == FirstWith(d.columns, "dest", dest)
<1>1. d.columns \in Seq(Column)
  BY DEF Drafts
<1>2. k \in DOMAIN d.columns
  BY <1>1, FirstIsThere DEF IsFirst
<1> HIDE DEF k
<1>3. d.columns[k] \in Column
  BY <1>1, <1>2
<1>4. [d.columns[k] EXCEPT !.encrypt = on] \in Column
  BY <1>3 DEF Column
<1>5. SetEncryption(d, dest, on)
          = [d EXCEPT !.columns = [d.columns EXCEPT ![k] = [d.columns[k] EXCEPT !.encrypt = on]]]
  BY DEF SetEncryption, k, Drafts
<1> QED
  BY <1>2, <1>4, <1>5, SetColumnTypes

LEMMA DuplicateTypes ==
    ASSUME NEW d \in Drafts, NEW dest, NEW new_dest \in Name,
           \E i \in DOMAIN d.columns : d.columns[i].dest = dest
    PROVE  DuplicateColumn(d, dest, new_dest) \in Drafts /\ DuplicateColumn(d, dest, new_dest).layout = d.layout
<1> DEFINE k == FirstWith(d.columns, "dest", dest)
           col == [d.columns[k] EXCEPT !.dest = new_dest, !.encrypt = FALSE]
<1>1. d.columns \in Seq(Column)
  BY DEF Drafts
<1>2. k \in DOMAIN d.columns
  BY <1>1, FirstIsThere DEF IsFirst
<1>3. d.columns[k] \in Column
  <2> HIDE DEF k
  <2> QED
    BY <1>1, <1>2
<1>4. col \in Column
  <2> HIDE DEF k
  <2> QED
    BY <1>3 DEF Column
<1>5. DuplicateColumn(d, dest, new_dest) = [d EXCEPT !.columns = Append(d.columns, col)]
  BY DEF DuplicateColumn
<1> HIDE DEF col
<1>6. Append(d.columns, col) \in Seq(Column)
  BY <1>1, <1>4
<1> QED
  BY <1>5, <1>6 DEF Drafts

LEMMA EvidenceTypes ==
    ASSUME NEW d \in Drafts, NEW s \in Sample, d.layout \in DOMAIN Header[s]
    PROVE  WithEvidenceOf(d, s) \in Drafts /\ WithEvidenceOf(d, s).layout = d.layout
<1> DEFINE New(col) ==
               LET kinds == Shows(s, d.layout, col.source)
               IN  IF kinds = {} THEN col
                   ELSE LET k == CHOOSE k \in kinds : TRUE
                        IN  [col EXCEPT !.tier = InferredTier(k), !.evidence = k]
<1>1. d.columns \in Seq(Column)
  BY DEF Drafts
<1>2. ASSUME NEW col \in Column PROVE New(col) \in Column
  <2> DEFINE kinds == Shows(s, d.layout, col.source)
             k == CHOOSE k \in kinds : TRUE
  <2>1. kinds \subseteq Kind
    <3>1. Header[s][d.layout] \in Seq([name : Name, kind : Kind])
      BY DraftAssumption
    <3>2. \A x \in DOMAIN Header[s][d.layout] : Header[s][d.layout][x] \in [name : Name, kind : Kind]
      BY <3>1, Elements
    <3>3. \A g \in Range(Header[s][d.layout]) : g.kind \in Kind
      BY <3>2 DEF Range
    <3> QED
      BY <3>3 DEF Shows
  <2>2. kinds # {} => k \in Kind
    BY <2>1
  <2>3. kinds = {} => New(col) = col
    OBVIOUS
  <2>4. kinds # {} => New(col) = [col EXCEPT !.tier = InferredTier(k), !.evidence = k]
    OBVIOUS
  <2> HIDE DEF kinds, k, New
  <2>5. CASE kinds # {}
    <3>1. InferredTier(k) \in Tier
      BY DEF InferredTier, Tier
    <3> QED
      BY <2>2, <2>4, <2>5, <3>1 DEF Column
  <2> QED
    BY <2>3, <2>5
<1>3. WithEvidenceOf(d, s)
          = [d EXCEPT !.columns = [i \in DOMAIN d.columns |-> New(d.columns[i])]]
  BY DEF WithEvidenceOf
<1> HIDE DEF New
<1>4. [i \in DOMAIN d.columns |-> New(d.columns[i])] \in Seq(Column)
  BY <1>1, <1>2
<1> QED
  BY <1>3, <1>4 DEF Drafts

-----------------------------------------------------------------------------
(***************************************************************************)
(* The types.  An author that writes has a draft, and a draft is read in   *)
(* the layout of its workflow.                                             *)
(***************************************************************************)
DraftInv ==
    \A a \in Author :
        /\ pc[a] \in Writing => HasDraft(a)
        /\ HasDraft(a) => workflow[a].draft.layout = workflow[a].layout

TypeInv == TypeOK /\ DraftInv

LEMMA DraftOf ==
    ASSUME TypeInv, NEW a \in Author
    PROVE  /\ workflow[a] \in Workflows
           /\ HasDraft(a) => workflow[a].draft \in Drafts
BY DEF TypeInv, TypeOK, HasDraft, Workflows

LEMMA IdOf ==
    ASSUME TypeInv, NEW a \in Author
    PROVE  PipelineId(workflow[a]) \in Id
<1>1. /\ workflow[a].entry \in Id \cup {NoId} /\ workflow[a].dest_table \in Table
      /\ workflow[a].out \in Table \cup {NoTable}
  BY DraftOf DEF Workflows
<1> QED
  BY <1>1, AuthoringAssumption DEF PipelineId

\* A step of one author.
LEMMA AuthorTypes ==
    ASSUME TypeInv, NEW a \in Author, NEW w \in Workflows,
           NEW p \in {"closed", "editing"} \cup Writing,
           workflow' = [workflow EXCEPT ![a] = w], pc' = [pc EXCEPT ![a] = p],
           p \in Writing => w.draft # NoDraft,
           w.draft # NoDraft => w.draft.layout = w.layout,
           existed' \in [Author -> BOOLEAN], seen' \in [Author -> Seq(Id)],
           folders' \in [Id -> FolderState], registry' \in Seq(Id) \cup {Missing, Torn},
           sessions' \in 0..MaxSessions, edits' \in 0..MaxEdits,
           crashes' \in 0..MaxCrashes,
           opened' \in [Author -> Id \cup {NoId}], moved' \in [Author -> BOOLEAN]
    PROVE  TypeInv'
<1>1. workflow' \in [Author -> Workflows]
  BY DEF TypeInv, TypeOK
<1>2. pc' \in [Author -> {"closed", "editing"} \cup Writing]
  BY DEF TypeInv, TypeOK
<1>3. DraftInv'
  <2> SUFFICES ASSUME NEW b \in Author
               PROVE  /\ pc'[b] \in Writing => workflow'[b].draft # NoDraft
                      /\ workflow'[b].draft # NoDraft =>
                             workflow'[b].draft.layout = workflow'[b].layout
    BY DEF DraftInv, HasDraft
  <2>1. CASE b = a
    BY <2>1 DEF TypeInv, TypeOK
  <2>2. CASE b # a
    BY <2>2 DEF TypeInv, TypeOK, DraftInv, HasDraft
  <2> QED
    BY <2>1, <2>2
<1> QED
  BY <1>1, <1>2, <1>3 DEF TypeInv, TypeOK

\* One that edits: nothing but its workflow changes.
LEMMA EditingTypes ==
    ASSUME TypeInv, NEW a \in Author, NEW w \in Workflows,
           workflow' = [workflow EXCEPT ![a] = w], pc[a] = "editing",
           w.draft # NoDraft => w.draft.layout = w.layout,
           UNCHANGED <<pc, local_vars, disk_vars, count_vars, opened>>,
           edits' \in {edits, edits + 1}, edits' = edits \/ edits < MaxEdits,
           moved' \in [Author -> BOOLEAN]
    PROVE  TypeInv'
<1>1. pc' = [pc EXCEPT ![a] = "editing"] /\ "editing" \notin Writing
  BY DEF TypeInv, TypeOK, Writing
<1>2. edits' \in 0..MaxEdits
  BY AuthoringAssumption DEF TypeInv, TypeOK
<1> QED
  BY <1>1, <1>2, AuthorTypes DEF local_vars, disk_vars, count_vars, TypeInv, TypeOK

LEMMA MutateTypes ==
    ASSUME TypeInv, NEW a \in Author, NEW d \in Drafts, Mutate(a, d), HasDraft(a),
           d.layout = workflow[a].draft.layout, moved' \in [Author -> BOOLEAN]
    PROVE  TypeInv'
<1> DEFINE w == [workflow[a] EXCEPT !.draft = d, !.report = "none"]
<1>1. workflow[a] \in Workflows
  BY DraftOf
<1>2. w \in Workflows
  BY <1>1 DEF Workflows
<1>3. workflow' = [workflow EXCEPT ![a] = w]
  BY DEF Mutate, TypeInv, TypeOK
<1>5. w.draft.layout = w.layout
  BY <1>1 DEF TypeInv, DraftInv, Workflows
<1> HIDE DEF w
<1>4. /\ UNCHANGED <<pc, local_vars, disk_vars, count_vars, opened>> /\ pc[a] = "editing"
      /\ edits' \in {edits, edits + 1} /\ edits < MaxEdits
  BY DEF Mutate
<1> QED
  BY <1>2, <1>3, <1>4, <1>5, EditingTypes

LEMMA ReviewTypes ==
    ASSUME TypeInv, NEW a \in Author, Review(a)
    PROVE  TypeInv'
<1> DEFINE w == workflow[a]
<1>1. w \in Workflows /\ (HasDraft(a) => w.draft \in Drafts)
  BY DraftOf
<1>2. moved \in [Author -> BOOLEAN] /\ [moved EXCEPT ![a] = TRUE] \in [Author -> BOOLEAN]
      /\ [moved EXCEPT ![a] = FALSE] \in [Author -> BOOLEAN]
  BY DEF TypeInv, TypeOK
<1>3. ASSUME NEW f, NEW v, Edit(a, f, v),
             \/ f \in {"source", "dest"} /\ v \in Name
             \/ f = "type" /\ v \in Type
             \/ f = "required" /\ v \in BOOLEAN
      PROVE  TypeInv'
  <2>1. PICK i \in DOMAIN w.draft.columns :
                 Mutate(a, EditColumn(w.draft, w.draft.columns[i].source, f, v))
    BY <1>3 DEF Edit
  <2>2. w.draft \in Drafts
    BY <1>1, <1>3 DEF Edit
  <2>3. /\ EditColumn(w.draft, w.draft.columns[i].source, f, v) \in Drafts
        /\ EditColumn(w.draft, w.draft.columns[i].source, f, v).layout = w.draft.layout
    BY <1>3, <2>2, EditTypes
  <2>4. moved' \in [Author -> BOOLEAN]
    <3>1. moved' = [moved EXCEPT ![a] = (moved[a] \/ f = "source")]
      BY <1>3 DEF Edit
    <3>2. (moved[a] \/ f = "source") \in BOOLEAN
      OBVIOUS
    <3> QED
      BY <1>2, <3>1, <3>2
  <2> QED
    BY <1>3, <2>1, <2>3, <2>4, MutateTypes DEF Edit
<1>4. CASE EditAny(a)
  BY <1>3, <1>4 DEF EditAny
<1>5. ASSUME NEW n \in Name, NEW on \in BOOLEAN, Encrypt(a, n, on) PROVE TypeInv'
  <2>1. SetEncryption(w.draft, n, on) \in Drafts /\ SetEncryption(w.draft, n, on).layout = w.draft.layout
    BY <1>1, <1>5, EncryptTypes DEF Encrypt
  <2> QED
    BY <1>2, <1>5, <2>1, MutateTypes DEF Encrypt
<1>6. ASSUME NEW n \in Name, NEW m \in Name, Duplicate(a, n, m) PROVE TypeInv'
  <2>1. DuplicateColumn(w.draft, n, m) \in Drafts /\ DuplicateColumn(w.draft, n, m).layout = w.draft.layout
    BY <1>1, <1>6, DuplicateTypes DEF Duplicate
  <2> QED
    BY <1>2, <1>6, <2>1, MutateTypes DEF Duplicate
<1>7. ASSUME NEW mode \in {"append", "truncate", "cdc"}, ChooseWriteMode(a, mode)
      PROVE  TypeInv'
  <2>1. [w.draft EXCEPT !.write_mode = mode] \in Drafts /\ [w.draft EXCEPT !.write_mode = mode].layout = w.draft.layout
    BY <1>1, <1>7 DEF ChooseWriteMode, Drafts
  <2> QED
    BY <1>2, <1>7, <2>1, MutateTypes DEF ChooseWriteMode
<1>8. ASSUME NEW c \in CdcChoice, NEW given, SetCdcSettings(a, given, c[1], c[2])
      PROVE  TypeInv'
  <2> DEFINE d == [w.draft EXCEPT
                       !.keys = IF "keys" \in given THEN c[1] ELSE @,
                       !.sequence_by = IF "sequence" \in given THEN c[2] ELSE @]
  <2>1. c[1] \in SUBSET Name /\ c[2] \in Name \cup {NoName}
    BY AuthoringAssumption
  <2>2. d \in Drafts /\ d.layout = w.draft.layout
    BY <1>1, <1>8, <2>1 DEF SetCdcSettings, Drafts
  <2>3. Mutate(a, d) /\ UNCHANGED moved /\ HasDraft(a)
    BY <1>8 DEF SetCdcSettings
  <2> HIDE DEF d
  <2> QED
    BY <1>2, <2>2, <2>3, MutateTypes
<1>9. ASSUME NEW c \in Connector, SelectConnector(a, c) PROVE TypeInv'
  <2>1. ChooseConnector(w.draft, c) \in Drafts /\ ChooseConnector(w.draft, c).layout = w.draft.layout
    BY <1>1, <1>9 DEF SelectConnector, ChooseConnector, Drafts
  <2> QED
    BY <1>2, <1>9, <2>1, MutateTypes DEF SelectConnector
<1>10. ASSUME NEW given \in BOOLEAN, SetConnectorSetting(a, given) PROVE TypeInv'
  <2>1. [w.draft EXCEPT !.ready = given] \in Drafts /\ [w.draft EXCEPT !.ready = given].layout = w.draft.layout
    BY <1>1, <1>10 DEF SetConnectorSetting, Drafts
  <2> QED
    BY <1>2, <1>10, <2>1, MutateTypes DEF SetConnectorSetting
<1>11. ASSUME NEW s \in Sample, RefreshSample(a, s) PROVE TypeInv'
  <2> DEFINE d == WithEvidenceOf(w.draft, s)
             v == [w EXCEPT !.draft = d, !.file = s,
                            !.report = IF Loads(ToConfig(d)) THEN "none" ELSE @]
  <2>1. /\ UNCHANGED <<pc, local_vars, disk_vars, count_vars, opened>> /\ pc[a] = "editing"
        /\ edits' \in {edits, edits + 1} /\ edits < MaxEdits
        /\ workflow' = [workflow EXCEPT ![a] = v] /\ moved' = [moved EXCEPT ![a] = TRUE]
    BY <1>11 DEF RefreshSample
  <2>2. HasDraft(a) /\ w.layout \in DOMAIN Header[s]
    BY <1>11 DEF RefreshSample, Readable
  <2>3. d \in Drafts /\ d.layout = w.layout
    <3>1. w.draft.layout = w.layout
      BY <2>2 DEF TypeInv, DraftInv
    <3> QED
      BY <1>1, <2>2, <3>1, EvidenceTypes
  <2> HIDE DEF d
  <2>4. v \in Workflows /\ v.draft.layout = v.layout
    BY <1>1, <2>3 DEF Workflows
  <2> HIDE DEF v
  <2> QED
    BY <1>2, <2>1, <2>4, EditingTypes
<1>12. ASSUME NEW l \in Layout, Reseed(a, l) PROVE TypeInv'
  <2> DEFINE d == Seeded(w.dest_table, w.file, l)
             v == [w EXCEPT !.layout = l, !.draft = d, !.report = "none", !.acks = NoAcks]
  <2>1. /\ UNCHANGED <<pc, local_vars, disk_vars, count_vars, opened>> /\ pc[a] = "editing"
        /\ edits' \in {edits, edits + 1} /\ edits < MaxEdits
        /\ workflow' = [workflow EXCEPT ![a] = v] /\ moved' = [moved EXCEPT ![a] = FALSE]
        /\ CanSeed(w.file, l, w.encoding) /\ w.file # NoSample
    BY <1>12 DEF Reseed
  <2>2. w.file \in Sample /\ w.dest_table \in Table
    BY <1>1, <2>1 DEF Workflows
  <2>3. d \in Drafts \cup {NoDraft} /\ (d # NoDraft => d.layout = l)
    BY <2>1, <2>2, SeededTypes
  <2>4. NoAcks \in [Name -> Kind \cup {"none"}]
    BY DEF NoAcks
  <2> HIDE DEF d
  <2>5. v \in Workflows /\ (v.draft # NoDraft => v.draft.layout = v.layout)
    BY <1>1, <2>3, <2>4 DEF Workflows
  <2> HIDE DEF v
  <2> QED
    BY <1>2, <2>1, <2>5, EditingTypes
<1>13. ASSUME NEW s \in Sample, NEW t \in Type, NEW b \in BOOLEAN, SetFixedWidthLayout(a, s, t, b)
       PROVE  TypeInv'
  <2> DEFINE d == FromLayout(w.dest_table, s, t, b)
             e == IF Readable(w.file, w.layout, w.encoding) THEN NoAcks ELSE w.acks
             v == [w EXCEPT !.draft = d, !.acks = e]
  <2>1. /\ UNCHANGED <<pc, local_vars, disk_vars, count_vars, history_vars>>
        /\ pc[a] = "editing" /\ edits' \in {edits, edits + 1} /\ edits < MaxEdits
        /\ workflow' = [workflow EXCEPT ![a] = v]
        /\ w.layout = "fixed_width" /\ w.layout \in DOMAIN Header[s]
    BY <1>13 DEF SetFixedWidthLayout
  <2>2. d \in Drafts /\ d.layout = w.layout
    <3>1. d.layout = "fixed_width"
      BY DEF FromLayout, NewDraft
    <3>2. w.dest_table \in Table
      BY <1>1 DEF Workflows
    <3> QED
      BY <2>1, <3>1, <3>2, FromLayoutTypes
  <2>3. e \in [Name -> Kind \cup {"none"}]
    BY <1>1 DEF NoAcks, Workflows
  <2> HIDE DEF d, e
  <2>4. v \in Workflows /\ v.draft.layout = v.layout
    BY <1>1, <2>2, <2>3 DEF Workflows
  <2> HIDE DEF v
  <2> QED
    BY <1>2, <2>1, <2>4, EditingTypes DEF history_vars
<1>14. ASSUME NEW n \in Name, Acknowledge(a, n) PROVE TypeInv'
  <2>1. PICK i \in DOMAIN w.draft.columns :
                 workflow' = [workflow EXCEPT ![a].acks[n] = w.draft.columns[i].evidence]
    BY <1>14 DEF Acknowledge
  <2>2. /\ UNCHANGED <<pc, local_vars, disk_vars, count_vars, history_vars, edits>>
        /\ pc[a] = "editing" /\ HasDraft(a)
    BY <1>14 DEF Acknowledge
  <2> DEFINE e == w.draft.columns[i].evidence
             v == [w EXCEPT !.acks = [w.acks EXCEPT ![n] = e]]
  <2>3. e \in Kind \cup {"none"}
    <3>1. w.draft.columns \in Seq(Column)
      BY <1>1, <2>2 DEF Drafts
    <3>2. w.draft.columns[i] \in Column
      BY <3>1, Elements
    <3> QED
      BY <3>2 DEF Column
  <2>4. workflow' = [workflow EXCEPT ![a] = v]
    BY <1>1, <2>1 DEF Workflows
  <2> HIDE DEF e
  <2>5. v \in Workflows /\ v.draft = w.draft /\ v.layout = w.layout
    BY <1>1, <2>3 DEF Workflows
  <2> HIDE DEF v
  <2>6. w.draft.layout = w.layout
    BY <2>2 DEF TypeInv, DraftInv
  <2> QED
    BY <1>2, <2>2, <2>4, <2>5, <2>6, EditingTypes DEF history_vars
<1>15. CASE Validate(a)
  <2> DEFINE v == [w EXCEPT !.report = Fresh(w)]
  <2>1. /\ UNCHANGED <<pc, local_vars, disk_vars, count_vars, history_vars, edits>>
        /\ pc[a] = "editing" /\ HasDraft(a)
        /\ workflow' = [workflow EXCEPT ![a].report = Fresh(w)]
    BY <1>15 DEF Validate
  <2>2. workflow' = [workflow EXCEPT ![a] = v]
    BY <2>1
  <2>3. Fresh(w) \in {"green", "red"}
    BY DEF Fresh, Judge
  <2>4. v \in Workflows /\ v.draft = w.draft /\ v.layout = w.layout
    BY <1>1, <2>3 DEF Workflows
  <2> HIDE DEF v
  <2>5. w.draft.layout = w.layout
    BY <2>1 DEF TypeInv, DraftInv
  <2> QED
    BY <1>2, <2>1, <2>2, <2>4, <2>5, EditingTypes DEF history_vars
<1>16. ASSUME NEW c \in CdcChoice, NEW given \in SUBSET {"keys", "sequence"} \ {{}},
              SetCdcSettings(a, given, c[1], c[2])
       PROVE  TypeInv'
  BY <1>8, <1>16
<1> QED
  BY <1>4, <1>5, <1>6, <1>7, <1>9, <1>10, <1>11, <1>12, <1>13, <1>14, <1>15, <1>16
  DEF Review

LEMMA OpenTypes ==
    ASSUME TypeInv, NEW a \in Author, NEW w \in Workflows, NEW i \in Id \cup {NoId},
           Open(a, w, i), w.draft # NoDraft => w.draft.layout = w.layout
    PROVE  TypeInv'
<1>1. /\ workflow' = [workflow EXCEPT ![a] = w] /\ pc' = [pc EXCEPT ![a] = "editing"]
      /\ UNCHANGED <<local_vars, disk_vars, crashes, edits>>
      /\ "editing" \notin Writing
  BY DEF Open, Writing
<1>2. sessions' \in 0..MaxSessions
  BY AuthoringAssumption DEF Open, TypeInv, TypeOK
<1>3. opened' \in [Author -> Id \cup {NoId}] /\ moved' \in [Author -> BOOLEAN]
  BY DEF Open, TypeInv, TypeOK
<1> QED
  BY <1>1, <1>2, <1>3, AuthorTypes DEF local_vars, disk_vars, TypeInv, TypeOK

LEMMA Starts ==
    ASSUME NEW a \in Author, NEW c \in Command, Start(a, c)
    PROVE  \E w \in Workflows :
               /\ Open(a, w, NoId)
               /\ w.draft = Seeded(c.dest_table, c.file, c.layout)
               /\ w.draft # NoDraft => w.draft.layout = w.layout
               /\ w.report = "none" /\ w.acks = NoAcks /\ w.entry = NoId
<1> DEFINE d == Seeded(c.dest_table, c.file, c.layout)
           w == [file |-> c.file, layout |-> c.layout, encoding |-> c.encoding,
                 dest_table |-> c.dest_table, out |-> c.out,
                 reauthor |-> FALSE, entry |-> NoId, draft |-> d,
                 report |-> "none", acks |-> NoAcks]
<1>1. /\ c.file \in Sample /\ c.layout \in DOMAIN Header[c.file] /\ c.layout \in Layout
      /\ c.encoding \in Encoding /\ c.dest_table \in Table /\ c.out \in Table \cup {NoTable}
  BY AuthoringAssumption, DraftAssumption
<1>2. d \in Drafts \cup {NoDraft} /\ (d # NoDraft => d.layout = c.layout)
  BY <1>1, SeededTypes DEF Start
<1>3. NoAcks \in [Name -> Kind \cup {"none"}]
  BY DEF NoAcks
<1>4. Open(a, w, NoId)
  BY DEF Start
<1> HIDE DEF d
<1>5. /\ w \in Workflows /\ (w.draft # NoDraft => w.draft.layout = w.layout)
      /\ w.draft = d /\ w.report = "none" /\ w.acks = NoAcks /\ w.entry = NoId
  BY <1>1, <1>2, <1>3 DEF Workflows
<1> HIDE DEF w
<1> QED
  BY <1>4, <1>5 DEF d

LEMMA WholeConfig ==
    ASSUME TypeInv, NEW i \in Id, IsWhole(folders[i].config)
    PROVE  folders[i].config \in Configs
BY DEF TypeInv, TypeOK, FolderState, IsWhole

LEMMA OpensFolder ==
    ASSUME TypeInv, NEW a \in Author, NEW i \in Id, OpenFolder(a, i)
    PROVE  \E w \in Workflows :
               /\ Open(a, w, i)
               /\ w.draft = FromConfig(folders[i].config)
               /\ w.draft.layout = w.layout
               /\ w.report = "none" /\ w.acks = NoAcks
               /\ w.reauthor /\ w.entry \in {i, NoId}
<1> DEFINE c == folders[i].config
           d == FromConfig(c)
           f == IF folders[i].runbook = Missing THEN NoSample ELSE folders[i].runbook
           w == [file |-> f, layout |-> c.layout, encoding |-> c.encoding,
                 dest_table |-> c.dest_table, out |-> NoTable, reauthor |-> TRUE,
                 entry |-> IF i \in Registered THEN i ELSE NoId,
                 draft |-> d, report |-> "none", acks |-> NoAcks]
<1>1. c \in Configs
  BY WholeConfig DEF OpenFolder
<1>2. c.layout \in Layout /\ c.encoding \in Encoding /\ c.dest_table \in Table
  BY <1>1 DEF Configs
<1>3. f \in Sample \cup {NoSample}
  BY DEF TypeInv, TypeOK, FolderState
<1>4. d \in Drafts /\ d.layout = c.layout
  BY <1>1, FromConfigTypes DEF FromConfig
<1>5. NoAcks \in [Name -> Kind \cup {"none"}]
  BY DEF NoAcks
<1>6. Open(a, w, i)
  BY DEF OpenFolder
<1> HIDE DEF c, d, f
<1>7. /\ w \in Workflows /\ w.draft.layout = w.layout /\ w.draft = d
      /\ w.report = "none" /\ w.acks = NoAcks /\ w.reauthor /\ w.entry \in {i, NoId}
  BY <1>2, <1>3, <1>4, <1>5 DEF Workflows
<1> HIDE DEF w
<1> QED
  BY <1>6, <1>7 DEF d, c

\* A step of generate, that writes the folder or the registry.
LEMMA WriteTypes ==
    ASSUME TypeInv, NEW a \in Author, NEW from \in Writing,
           NEW to \in {"editing"} \cup Writing, Write(a, from, to),
           UNCHANGED <<workflow, existed, count_vars, edits, history_vars>>,
           seen' \in [Author -> Seq(Id)],
           folders' \in [Id -> FolderState], registry' \in Seq(Id) \cup {Missing, Torn}
    PROVE  TypeInv'
<1>1. workflow[a] \in Workflows /\ HasDraft(a)
  BY DraftOf DEF Write, TypeInv, DraftInv
<1>2. workflow' = [workflow EXCEPT ![a] = workflow[a]] /\ pc' = [pc EXCEPT ![a] = to]
  BY DEF Write, TypeInv, TypeOK
<1>3. workflow[a].draft # NoDraft /\ workflow[a].draft.layout = workflow[a].layout
  BY <1>1 DEF TypeInv, DraftInv, HasDraft
<1> QED
  BY <1>1, <1>2, <1>3, AuthorTypes DEF count_vars, history_vars, TypeInv, TypeOK

LEMMA SaveTypes ==
    ASSUME TypeInv, NEW a \in Author, Save(a)
    PROVE  TypeInv'
<1> DEFINE w == workflow[a]
           i == PipelineId(w)
<1>1. w \in Workflows /\ (HasDraft(a) => w.draft \in Drafts) /\ i \in Id
  BY DraftOf, IdOf
<1>2. /\ seen \in [Author -> Seq(Id)] /\ folders \in [Id -> FolderState]
      /\ registry \in Seq(Id) \cup {Missing, Torn}
      /\ Missing \notin Configs \cup Sample \cup {NoSample} /\ Missing # Torn
  BY AuthoringAssumption DEF TypeInv, TypeOK
<1>3. /\ "editing" \in {"editing"} \cup Writing
      /\ Writing = {"target", "emptied", "configured", "blanked", "registering", "read", "torn"}
  BY DEF Writing
<1> HIDE DEF i
<1>4. CASE Generate(a)
  <2> DEFINE r == IF w.report = "none" THEN Fresh(w) ELSE w.report
             v == [w EXCEPT !.report = r]
             there == folders[PipelineId(w)] # NoFolder
  <2>1. /\ HasDraft(a) /\ r = "green"
        /\ workflow' = [workflow EXCEPT ![a].report = r]
        /\ existed' = [existed EXCEPT ![a] = there]
        /\ pc' = [pc EXCEPT ![a] = "target"]
        /\ UNCHANGED <<seen, disk_vars, count_vars, edits, history_vars>>
    BY <1>4 DEF Generate
  <2>2. workflow' = [workflow EXCEPT ![a] = v]
    BY <2>1
  <2> HIDE DEF r
  <2>3. v \in Workflows /\ v.draft = w.draft /\ v.layout = w.layout
    BY <1>1, <2>1 DEF Workflows
  <2>4. existed' \in [Author -> BOOLEAN]
    BY <2>1 DEF TypeInv, TypeOK
  <2> HIDE DEF v
  <2>5. w.draft # NoDraft /\ w.draft.layout = w.layout
    BY <2>1 DEF TypeInv, DraftInv, HasDraft
  <2>6. v.draft # NoDraft /\ v.draft.layout = v.layout
    BY <2>3, <2>5
  <2>7. /\ seen' \in [Author -> Seq(Id)]
        /\ folders' \in [Id -> FolderState] /\ registry' \in Seq(Id) \cup {Missing, Torn}
        /\ sessions' \in 0..MaxSessions /\ edits' \in 0..MaxEdits
        /\ crashes' \in 0..MaxCrashes
        /\ opened' \in [Author -> Id \cup {NoId}] /\ moved' \in [Author -> BOOLEAN]
    BY <2>1 DEF disk_vars, count_vars, history_vars, TypeInv, TypeOK
  <2>8. "target" \in {"closed", "editing"} \cup Writing /\ v \in Workflows
    BY <1>3, <2>3
  <2> QED
    BY <2>1, <2>2, <2>4, <2>6, <2>7, <2>8, AuthorTypes
<1>5. CASE EmptyConfig(a)
  <2>1. folders' = [folders EXCEPT ![i].config = Torn]
    BY <1>5 DEF EmptyConfig, i
  <2>2. [folders[i] EXCEPT !.config = Torn] \in FolderState
    BY <1>1, <1>2 DEF FolderState
  <2>3. folders' \in [Id -> FolderState]
    BY <1>1, <1>2, <2>1, <2>2
  <2> QED
    BY <1>2, <1>3, <1>5, <2>3, WriteTypes DEF EmptyConfig, local_vars
<1>6. CASE WriteConfig(a)
  <2>1. folders' = [folders EXCEPT ![i].config = ToConfig(w.draft)]
    BY <1>6 DEF WriteConfig, i
  <2>2. ToConfig(w.draft) \in Configs
    BY <1>1, <1>3, <1>6, ToConfigTypes DEF WriteConfig, Write, TypeInv, DraftInv
  <2>3. [folders[i] EXCEPT !.config = ToConfig(w.draft)] \in FolderState
    BY <1>1, <1>2, <2>2 DEF FolderState
  <2>4. folders' \in [Id -> FolderState]
    BY <1>1, <1>2, <2>1, <2>3
  <2> QED
    BY <1>2, <1>3, <1>6, <2>4, WriteTypes DEF WriteConfig, local_vars
<1>7. CASE WriteRunbook(a)
  <2>1. folders' = [folders EXCEPT ![i].runbook = w.file]
    BY <1>7 DEF WriteRunbook, i
  <2>2. w.file \in Sample \cup {NoSample}
    BY <1>1 DEF Workflows
  <2>3. [folders[i] EXCEPT !.runbook = w.file] \in FolderState
    BY <1>1, <1>2, <2>2 DEF FolderState
  <2>4. folders' \in [Id -> FolderState]
    BY <1>1, <1>2, <2>1, <2>3
  <2>5. (IF existed[a] THEN "editing" ELSE "registering") \in {"editing"} \cup Writing
    BY <1>3
  <2> QED
    BY <1>2, <1>3, <1>7, <2>4, <2>5, WriteTypes DEF WriteRunbook, local_vars
<1>11. CASE EmptyRunbook(a)
  <2>1. folders' = [folders EXCEPT ![i].runbook = NoSample]
    BY <1>11 DEF EmptyRunbook, i
  <2>2. [folders[i] EXCEPT !.runbook = NoSample] \in FolderState
    BY <1>1, <1>2 DEF FolderState
  <2>3. folders' \in [Id -> FolderState]
    BY <1>1, <1>2, <2>1, <2>2
  <2> QED
    BY <1>2, <1>3, <1>11, <2>3, WriteTypes DEF EmptyRunbook, local_vars
<1>8. CASE ReadRegistry(a)
  <2>1. PICK to \in {"editing", "read"} : Write(a, "registering", to)
    BY <1>8 DEF ReadRegistry
  <2>2. /\ seen' = [seen EXCEPT ![a] = IF IsWhole(registry) THEN registry ELSE <<>>]
        /\ UNCHANGED <<workflow, existed, disk_vars, count_vars, edits, history_vars>>
    BY <1>8 DEF ReadRegistry
  <2>3. (IF IsWhole(registry) THEN registry ELSE <<>>) \in Seq(Id)
    BY <1>2 DEF IsWhole
  <2>4. seen' \in [Author -> Seq(Id)]
    BY <1>2, <2>2, <2>3
  <2> QED
    BY <1>2, <1>3, <2>1, <2>2, <2>4, WriteTypes DEF disk_vars
<1>9. CASE EmptyRegistry(a)
  BY <1>2, <1>3, <1>9, WriteTypes DEF EmptyRegistry, local_vars
<1>10. CASE WriteRegistry(a)
  <2>1. Append(seen[a], i) \in Seq(Id)
    BY <1>1, <1>2
  <2>2. registry' = Append(seen[a], i)
    BY <1>10 DEF WriteRegistry, i
  <2> QED
    BY <1>2, <1>3, <1>10, <2>1, <2>2, WriteTypes DEF WriteRegistry, local_vars
<1> QED
  BY <1>4, <1>5, <1>6, <1>7, <1>8, <1>9, <1>10, <1>11 DEF Save

LEMMA NoWorkflowTypes == NoWorkflow \in Workflows
<1>1. (CHOOSE t \in Table : TRUE) \in Table
  BY DraftAssumption
<1>2. NoAcks \in [Name -> Kind \cup {"none"}]
  BY DEF NoAcks
<1> QED
  BY <1>1, <1>2 DEF NoWorkflow, Workflows, Layout, Encoding

LEMMA LeaveTypes ==
    ASSUME TypeInv, NEW a \in Author, Quit(a) \/ Crash(a)
    PROVE  TypeInv'
<1>1. Leave(a) /\ crashes' \in 0..MaxCrashes
  BY AuthoringAssumption DEF Quit, Crash, TypeInv, TypeOK
<1>2. /\ workflow' = [workflow EXCEPT ![a] = NoWorkflow]
      /\ pc' = [pc EXCEPT ![a] = "closed"] /\ "closed" \notin Writing
      /\ UNCHANGED <<disk_vars, sessions, edits>>
  BY <1>1 DEF Leave, Writing
<1>3. /\ existed' \in [Author -> BOOLEAN] /\ seen' \in [Author -> Seq(Id)]
      /\ opened' \in [Author -> Id \cup {NoId}] /\ moved' \in [Author -> BOOLEAN]
  BY <1>1 DEF Leave, TypeInv, TypeOK
<1>4. NoWorkflow.draft = NoDraft
  BY DEF NoWorkflow
<1> QED
  BY <1>1, <1>2, <1>3, <1>4, NoWorkflowTypes, AuthorTypes DEF disk_vars, TypeInv, TypeOK

LEMMA HandEditTypes ==
    ASSUME TypeInv, NEW i \in Id, NEW e \in Encoding, HandEdit(i, e)
    PROVE  TypeInv'
<1> DEFINE c == [folders[i].config EXCEPT !.other = "set", !.encoding = e]
           f == [folders[i] EXCEPT !.config = c]
<1>1. /\ UNCHANGED <<pc, workflow, local_vars, registry, count_vars, history_vars>>
      /\ edits' = edits + 1 /\ edits < MaxEdits
  BY DEF HandEdit
<1>2. folders' = [folders EXCEPT ![i] = f]
  BY DEF HandEdit, TypeInv, TypeOK, FolderState
<1>3. folders[i].config \in Configs
  BY WholeConfig DEF HandEdit
<1>4. c \in Configs
  BY <1>3 DEF Configs
<1> HIDE DEF c
<1>5. f \in FolderState
  BY <1>4 DEF TypeInv, TypeOK, FolderState
<1> HIDE DEF f
<1>6. folders' \in [Id -> FolderState] /\ edits' \in 0..MaxEdits
  BY <1>1, <1>2, <1>5, AuthoringAssumption DEF TypeInv, TypeOK
<1> QED
  BY <1>1, <1>6 DEF local_vars, count_vars, history_vars, TypeInv, TypeOK, DraftInv, HasDraft

LEMMA TypeStep == TypeInv /\ [Next]_vars => TypeInv'
<1> SUFFICES ASSUME TypeInv, [Next]_vars PROVE TypeInv'
  OBVIOUS
<1>1. CASE UNCHANGED vars
  BY <1>1 DEF vars, local_vars, disk_vars, count_vars, history_vars, TypeInv, TypeOK,
                 DraftInv, HasDraft
<1>2. ASSUME NEW a \in Author, NEW c \in Command, Start(a, c) PROVE TypeInv'
  BY <1>2, Starts, OpenTypes
<1>3. ASSUME NEW a \in Author, NEW i \in Id, OpenFolder(a, i) PROVE TypeInv'
  BY <1>3, OpensFolder, OpenTypes
<1>4. CASE Next
  BY <1>2, <1>3, <1>4, ReviewTypes, SaveTypes, LeaveTypes, HandEditTypes DEF Next
<1> QED
  BY <1>1, <1>4

\* SequencesExt: the elements of a finite set, in some order.
LEMMA SetToSeqElements ==
    ASSUME NEW S, IsFiniteSet(S)
    PROVE  SetToSeq(S) \in Seq(S)
<1>1. Cardinality(S) \in Nat /\ \E f \in [1..Cardinality(S) -> S] : IsInjective(f)
  BY FS_CardinalityType DEF ExistsBijection, Bijection, Injection
<1>2. SetToSeq(S) \in [1..Cardinality(S) -> S]
  BY <1>1 DEF SetToSeq
<1> QED
  BY <1>1, <1>2

LEMMA TypeInit == Init => TypeInv
<1> SUFFICES ASSUME Init PROVE TypeInv
  OBVIOUS
<1>1. PICK ws \in Workspace :
          /\ folders = [i \in Id |-> IF i \in DOMAIN ws THEN ws[i] ELSE NoFolder]
          /\ registry = IF ws = <<>> THEN Missing ELSE SetToSeq(DOMAIN ws)
  BY DEF Init
<1>2. folders \in [Id -> FolderState]
  <2>1. NoFolder \in FolderState
    BY DEF NoFolder, FolderState
  <2>2. ASSUME NEW i \in DOMAIN ws PROVE ws[i] \in FolderState
    <3>1. ws[i] \in [config : Configs, runbook : Sample]
      BY AuthoringAssumption
    <3> QED
      BY <3>1 DEF FolderState
  <2> QED
    BY <1>1, <2>1, <2>2
<1>3. registry \in Seq(Id) \cup {Missing, Torn}
  <2>1. DOMAIN ws \subseteq Id /\ IsFiniteSet(DOMAIN ws)
    BY AuthoringAssumption
  <2>2. SetToSeq(DOMAIN ws) \in Seq(Id)
    BY <2>1, SetToSeqElements, SeqMonotonic
  <2> QED
    BY <1>1, <2>2
<1>4. workflow \in [Author -> Workflows]
  BY NoWorkflowTypes DEF Init
<1>5. /\ seen \in [Author -> Seq(Id)] /\ 0 \in 0..MaxSessions /\ 0 \in 0..MaxEdits
      /\ 0 \in 0..MaxCrashes
  <2>1. <<>> \in Seq(Id)
    OBVIOUS
  <2> QED
    BY <2>1, AuthoringAssumption DEF Init
<1>6. DraftInv
  BY DEF Init, DraftInv, HasDraft, NoWorkflow, Writing
<1>7. /\ pc \in [Author -> {"closed", "editing"} \cup Writing]
      /\ existed \in [Author -> BOOLEAN] /\ opened \in [Author -> Id \cup {NoId}]
      /\ moved \in [Author -> BOOLEAN] /\ sessions = 0 /\ edits = 0 /\ crashes = 0
  BY DEF Init
<1> QED
  BY <1>2, <1>3, <1>4, <1>5, <1>6, <1>7 DEF TypeInv, TypeOK

LEMMA TypeInvariant == Spec => []TypeInv
  BY TypeInit, TypeStep, PTL DEF Spec

\* The variables keep their types: what is edited stays a draft, what is written
\* a config.
THEOREM AuthoringTypes == Spec => []TypeOK
<1>1. TypeInv => TypeOK
  BY DEF TypeInv
<1> QED
  BY <1>1, TypeInvariant, PTL

-----------------------------------------------------------------------------
(***************************************************************************)
(* The report.  A fresh sample changes evidence only, so it cannot make a  *)
(* draft that loads into one that does not, and a report is never kept.    *)
(***************************************************************************)
Reported(w) ==
    w.report # "none" =>
        /\ w.draft # NoDraft
        /\ w.layout # "fixed_width" => Loads(ToConfig(w.draft)) /\ w.report = Fresh(w)

ReportInv == \A a \in Author : Reported(workflow[a])

LEMMA EvidenceKeepsConfig ==
    ASSUME NEW d \in Drafts, NEW s \in Sample
    PROVE  ToConfig(WithEvidenceOf(d, s)) = ToConfig(d)
<1> DEFINE New(col) ==
               LET kinds == Shows(s, d.layout, col.source)
               IN  IF kinds = {} THEN col
                   ELSE LET k == CHOOSE k \in kinds : TRUE
                        IN  [col EXCEPT !.tier = InferredTier(k), !.evidence = k]
           e == WithEvidenceOf(d, s)
<1>1. d.columns \in Seq(Column)
  BY DEF Drafts
<1>2. ASSUME NEW col \in Column PROVE Authored(New(col)) = Authored(col)
  <2> DEFINE kinds == Shows(s, d.layout, col.source)
             k == CHOOSE k \in kinds : TRUE
  <2>1. New(col) = col \/ New(col) = [col EXCEPT !.tier = InferredTier(k), !.evidence = k]
    OBVIOUS
  <2> HIDE DEF k, New
  <2> QED
    BY <2>1 DEF Authored, Column
<1>3. e = [d EXCEPT !.columns = [i \in DOMAIN d.columns |-> New(d.columns[i])]]
  BY DEF WithEvidenceOf
<1> HIDE DEF New, e
<1>4. /\ e.columns = [i \in DOMAIN d.columns |-> New(d.columns[i])]
      /\ e.dest_table = d.dest_table /\ e.layout = d.layout /\ e.write_mode = d.write_mode
      /\ e.keys = d.keys /\ e.sequence_by = d.sequence_by /\ e.connector = d.connector
      /\ e.ready = d.ready
  BY <1>3 DEF Drafts
<1>5. [i \in DOMAIN e.columns |-> Authored(e.columns[i])]
          = [i \in DOMAIN d.columns |-> Authored(d.columns[i])]
  <2>1. \A i \in DOMAIN d.columns : d.columns[i] \in Column
    BY <1>1, Elements
  <2> QED
    BY <1>2, <1>4, <2>1
<1>6. ToConfig(e) = ToConfig(d)
  BY <1>4, <1>5 DEF ToConfig
<1> QED
  BY <1>6 DEF e

LEMMA ReportOfOne ==
    ASSUME TypeInv, ReportInv, NEW a \in Author, NEW w, Reported(w),
           workflow' = [workflow EXCEPT ![a] = w]
    PROVE  ReportInv'
<1>1. \A b \in Author : workflow'[b] = IF b = a THEN w ELSE workflow[b]
  BY DEF TypeInv, TypeOK
<1>2. \A b \in Author : Reported(workflow'[b])
  BY <1>1 DEF ReportInv
<1>3. \A v : Reported(v)' <=> Reported(v)
  BY DEF Reported, Fresh
<1> QED
  BY <1>2 DEF ReportInv, Reported, Fresh

LEMMA NoReport ==
    ASSUME NEW w, w.report = "none"
    PROVE  Reported(w)
BY DEF Reported

LEMMA FreshReport ==
    ASSUME NEW w \in Workflows, w.draft # NoDraft, Loads(ToConfig(w.draft))
    PROVE  Reported([w EXCEPT !.report = Fresh(w)])
<1> DEFINE v == [w EXCEPT !.report = Fresh(w)]
<1>1. /\ v.report = Fresh(w) /\ v.draft = w.draft /\ v.layout = w.layout
      /\ v.file = w.file /\ v.encoding = w.encoding
  BY DEF Workflows
<1> HIDE DEF v
<1>2. Fresh(v) = Fresh(w)
  BY <1>1 DEF Fresh
<1>3. Reported(v)
  BY <1>1, <1>2 DEF Reported
<1> QED
  BY <1>3 DEF v

LEMMA MutateReport ==
    ASSUME TypeInv, ReportInv, NEW a \in Author, NEW d, Mutate(a, d)
    PROVE  ReportInv'
<1> DEFINE w == [workflow[a] EXCEPT !.draft = d, !.report = "none"]
<1>1. workflow' = [workflow EXCEPT ![a] = w]
  BY DEF Mutate, TypeInv, TypeOK
<1>2. w.report = "none"
  BY DraftOf DEF Workflows
<1> HIDE DEF w
<1> QED
  BY <1>1, <1>2, NoReport, ReportOfOne

LEMMA ReviewReport ==
    ASSUME TypeInv, ReportInv, NEW a \in Author, Review(a)
    PROVE  ReportInv'
<1> DEFINE w == workflow[a]
<1>1. w \in Workflows /\ (HasDraft(a) => w.draft \in Drafts) /\ Reported(w)
  BY DraftOf DEF ReportInv
<1>2. ASSUME NEW d, Mutate(a, d) PROVE ReportInv'
  BY <1>2, MutateReport
<1>3. CASE \/ EditAny(a)
           \/ \E n \in Name, on \in BOOLEAN : Encrypt(a, n, on)
           \/ \E n, m \in Name : Duplicate(a, n, m)
           \/ \E mode \in {"append", "truncate", "cdc"} : ChooseWriteMode(a, mode)
  BY <1>2, <1>3 DEF EditAny, Edit, Encrypt, Duplicate, ChooseWriteMode
<1>4. CASE \/ \E c \in CdcChoice, given \in SUBSET {"keys", "sequence"} \ {{}} :
                  SetCdcSettings(a, given, c[1], c[2])
           \/ \E c \in Connector : SelectConnector(a, c)
           \/ \E given \in BOOLEAN : SetConnectorSetting(a, given)
  BY <1>2, <1>4 DEF SetCdcSettings, SelectConnector, SetConnectorSetting
<1>5. ASSUME NEW s \in Sample, RefreshSample(a, s) PROVE ReportInv'
  <2> DEFINE d == WithEvidenceOf(w.draft, s)
             r == IF Loads(ToConfig(d)) THEN "none" ELSE w.report
             v == [w EXCEPT !.draft = d, !.file = s, !.report = r]
  <2>1. workflow' = [workflow EXCEPT ![a] = v] /\ HasDraft(a) /\ w.layout # "fixed_width"
    BY <1>5 DEF RefreshSample
  <2>2. ToConfig(d) = ToConfig(w.draft)
    BY <1>1, <2>1, EvidenceKeepsConfig
  <2>3. w.report # "none" => Loads(ToConfig(w.draft))
    BY <1>1, <2>1 DEF Reported
  <2>4. r = "none"
    BY <2>2, <2>3
  <2> HIDE DEF d, r
  <2>5. v.report = "none"
    BY <1>1, <2>4 DEF Workflows
  <2> HIDE DEF v
  <2> QED
    BY <2>1, <2>5, NoReport, ReportOfOne
<1>6. ASSUME NEW l \in Layout, Reseed(a, l) PROVE ReportInv'
  <2> DEFINE d == Seeded(w.dest_table, w.file, l)
             v == [w EXCEPT !.layout = l, !.draft = d, !.report = "none", !.acks = NoAcks]
  <2>1. workflow' = [workflow EXCEPT ![a] = v]
    BY <1>6 DEF Reseed
  <2> HIDE DEF d
  <2>2. v.report = "none"
    BY <1>1 DEF Workflows
  <2> HIDE DEF v
  <2> QED
    BY <2>1, <2>2, NoReport, ReportOfOne
<1>7. ASSUME NEW s \in Sample, NEW t \in Type, NEW b \in BOOLEAN, SetFixedWidthLayout(a, s, t, b)
      PROVE  ReportInv'
  <2> DEFINE d == FromLayout(w.dest_table, s, t, b)
             e == IF Readable(w.file, w.layout, w.encoding) THEN NoAcks ELSE w.acks
             v == [w EXCEPT !.draft = d, !.acks = e]
  <2>1. /\ workflow' = [workflow EXCEPT ![a] = v] /\ w.layout = "fixed_width"
        /\ "fixed_width" \in DOMAIN Header[s]
    BY <1>7 DEF SetFixedWidthLayout
  <2>2. d # NoDraft
    <3>1. w.dest_table \in Table
      BY <1>1 DEF Workflows
    <3> QED
      BY <2>1, <3>1, FromLayoutTypes, AuthoringAssumption
  <2> HIDE DEF d, e
  <2>3. v.draft = d /\ v.layout = "fixed_width"
    BY <1>1, <2>1 DEF Workflows
  <2> HIDE DEF v
  <2>4. Reported(v)
    BY <2>2, <2>3 DEF Reported
  <2> QED
    BY <2>1, <2>4, ReportOfOne
<1>8. ASSUME NEW n \in Name, Acknowledge(a, n) PROVE ReportInv'
  <2>1. PICK i \in DOMAIN w.draft.columns :
                 workflow' = [workflow EXCEPT ![a].acks[n] = w.draft.columns[i].evidence]
    BY <1>8 DEF Acknowledge
  <2> DEFINE e == w.draft.columns[i].evidence
             v == [w EXCEPT !.acks = [w.acks EXCEPT ![n] = e]]
  <2>2. workflow' = [workflow EXCEPT ![a] = v]
    BY <1>1, <2>1 DEF Workflows
  <2> HIDE DEF e
  <2>3. /\ v.report = w.report /\ v.draft = w.draft /\ v.layout = w.layout
        /\ v.file = w.file /\ v.encoding = w.encoding
    BY <1>1 DEF Workflows
  <2> HIDE DEF v
  <2>4. Reported(v)
    BY <1>1, <2>3 DEF Reported, Fresh
  <2> QED
    BY <2>2, <2>4, ReportOfOne
<1>9. CASE Validate(a)
  <2> DEFINE v == [w EXCEPT !.report = Fresh(w)]
  <2>1. HasDraft(a) /\ Loads(ToConfig(w.draft)) /\ workflow' = [workflow EXCEPT ![a] = v]
    BY <1>9 DEF Validate
  <2>2. Reported(v)
    BY <1>1, <2>1, FreshReport DEF HasDraft
  <2> HIDE DEF v
  <2> QED
    BY <2>1, <2>2, ReportOfOne
<1> QED
  BY <1>3, <1>4, <1>5, <1>6, <1>7, <1>8, <1>9 DEF Review

LEMMA ReportStep == TypeInv /\ ReportInv /\ [Next]_vars => ReportInv'
<1> SUFFICES ASSUME TypeInv, ReportInv, [Next]_vars PROVE ReportInv'
  OBVIOUS
<1>1. ASSUME UNCHANGED workflow PROVE ReportInv'
  BY <1>1 DEF ReportInv, Reported, Fresh
<1>2. ASSUME NEW a \in Author, NEW c \in Command, Start(a, c) PROVE ReportInv'
  <2>1. PICK w : w.report = "none" /\ workflow' = [workflow EXCEPT ![a] = w]
    BY <1>2, Starts DEF Open
  <2> QED
    BY <2>1, NoReport, ReportOfOne
<1>3. ASSUME NEW a \in Author, NEW i \in Id, OpenFolder(a, i) PROVE ReportInv'
  <2>1. PICK w : w.report = "none" /\ workflow' = [workflow EXCEPT ![a] = w]
    BY <1>3, OpensFolder DEF Open
  <2> QED
    BY <2>1, NoReport, ReportOfOne
<1>4. ASSUME NEW a \in Author, Review(a) PROVE ReportInv'
  BY <1>4, ReviewReport
<1>5. ASSUME NEW a \in Author, Generate(a) PROVE ReportInv'
  <2> DEFINE w == workflow[a]
             r == IF w.report = "none" THEN Fresh(w) ELSE w.report
             v == [w EXCEPT !.report = r]
  <2>1. HasDraft(a) /\ Loads(ToConfig(w.draft)) /\ workflow' = [workflow EXCEPT ![a] = v]
    BY <1>5 DEF Generate
  <2>2. w \in Workflows /\ Reported(w)
    BY DraftOf DEF ReportInv
  <2>3. Reported(v)
    <3>1. CASE w.report = "none"
      BY <2>1, <2>2, <3>1, FreshReport DEF HasDraft
    <3>2. CASE w.report # "none"
      <4>1. v = w
        BY <2>2, <3>2 DEF Workflows
      <4> QED
        BY <2>2, <4>1
    <3> QED
      BY <3>1, <3>2
  <2> HIDE DEF v
  <2> QED
    BY <2>1, <2>3, ReportOfOne
<1>6. ASSUME NEW a \in Author,
             \/ EmptyConfig(a) \/ WriteConfig(a) \/ EmptyRunbook(a) \/ WriteRunbook(a)
             \/ ReadRegistry(a) \/ EmptyRegistry(a) \/ WriteRegistry(a)
      PROVE  ReportInv'
  BY <1>1, <1>6
  DEF EmptyConfig, WriteConfig, EmptyRunbook, WriteRunbook, ReadRegistry, EmptyRegistry,
      WriteRegistry
<1>7. ASSUME NEW a \in Author, Quit(a) \/ Crash(a) PROVE ReportInv'
  <2>1. workflow' = [workflow EXCEPT ![a] = NoWorkflow]
    BY <1>7 DEF Quit, Crash, Leave
  <2>2. NoWorkflow.report = "none"
    BY DEF NoWorkflow
  <2> QED
    BY <2>1, <2>2, NoReport, ReportOfOne
<1>8. ASSUME NEW i \in Id, NEW e \in Encoding, HandEdit(i, e) PROVE ReportInv'
  BY <1>1, <1>8 DEF HandEdit
<1>9. CASE UNCHANGED vars
  BY <1>1, <1>9 DEF vars
<1> QED
  BY <1>2, <1>3, <1>4, <1>5, <1>6, <1>7, <1>8, <1>9 DEF Next, Save

\* What generate relies on is what Authoring Validation would say now.
THEOREM ReportStaysFresh == Spec => []ReportIsFresh
<1>1. Init => ReportInv
  BY DEF Init, ReportInv, Reported, NoWorkflow
<1>2. TypeInv /\ ReportInv /\ [Next]_vars => ReportInv'
  BY ReportStep
<1>3. ReportInv => ReportIsFresh
  BY DEF ReportInv, Reported, ReportIsFresh
<1> QED
  BY <1>1, <1>2, <1>3, TypeInvariant, PTL DEF Spec

-----------------------------------------------------------------------------
(***************************************************************************)
(* Acknowledgements.  They are kept by source name, so that they are of    *)
(* the evidence of a column only while columns with one source have one    *)
(* evidence.                                                               *)
(***************************************************************************)
Agrees(cols, acks) ==
    /\ \A i, j \in DOMAIN cols :
           cols[i].source = cols[j].source => cols[i].evidence = cols[j].evidence
    /\ \A i \in DOMAIN cols :
           cols[i].tier \in RiskyTier => acks[cols[i].source] \in {"none", cols[i].evidence}

AckInv ==
    \A a \in Author :
        HasDraft(a) /\ ~moved[a] => Agrees(workflow[a].draft.columns, workflow[a].acks)

LEMMA NothingAcknowledged ==
    ASSUME NEW cols \in Seq(Column),
           \A i, j \in DOMAIN cols :
               cols[i].source = cols[j].source => cols[i].evidence = cols[j].evidence
    PROVE  Agrees(cols, NoAcks)
<1>1. ASSUME NEW i \in DOMAIN cols PROVE cols[i].source \in Name
  <2>1. cols[i] \in Column
    BY Elements
  <2> QED
    BY <2>1 DEF Column
<1> QED
  BY <1>1 DEF Agrees, NoAcks

LEMMA SeededAgrees ==
    ASSUME NEW t \in Table, NEW s \in Sample, NEW l \in Layout, NEW encoding,
           CanSeed(s, l, encoding), Seeded(t, s, l) # NoDraft
    PROVE  Agrees(Seeded(t, s, l).columns, NoAcks)
<1> DEFINE h == Header[s][l]
           cols == [i \in DOMAIN h |-> InferredColumn(h[i])]
<1>1. l \in DOMAIN Header[s] /\ Seeded(t, s, l) = FromSample(t, s, l)
  BY DEF CanSeed, Readable, Seeded
<1>2. FromSample(t, s, l).columns = cols /\ cols \in Seq(Column)
  <2>1. FromSample(t, s, l).columns = cols
    BY DEF FromSample, NewDraft
  <2> HIDE DEF cols
  <2> QED
    BY <1>1, <2>1, FromSampleTypes DEF Drafts
<1>3. OneKindPerName(h)
  BY <1>1, DraftAssumption
<1>4. ASSUME NEW i \in DOMAIN cols, NEW j \in DOMAIN cols, cols[i].source = cols[j].source
      PROVE  cols[i].evidence = cols[j].evidence
  BY <1>3, <1>4 DEF InferredColumn, OneKindPerName
<1> HIDE DEF cols
<1> QED
  BY <1>1, <1>2, <1>4, NothingAcknowledged

LEMMA LayoutAgrees ==
    ASSUME NEW t \in Table, NEW s \in Sample, "fixed_width" \in DOMAIN Header[s],
           NEW type \in Type, NEW required \in BOOLEAN, NEW acks
    PROVE  Agrees(FromLayout(t, s, type, required).columns, acks)
<1> DEFINE h == Header[s]["fixed_width"]
           cols == [i \in DOMAIN h |-> ManualColumn(h[i], type, required)]
<1>1. FromLayout(t, s, type, required).columns = cols /\ cols \in Seq(Column)
  <2>1. FromLayout(t, s, type, required).columns = cols
    BY DEF FromLayout, NewDraft
  <2> HIDE DEF cols
  <2> QED
    BY <2>1, FromLayoutTypes DEF Drafts
<1>2. \A i \in DOMAIN cols : cols[i].evidence = "none" /\ cols[i].tier \notin RiskyTier
  BY DEF ManualColumn, RiskyTier
<1> HIDE DEF cols
<1> QED
  BY <1>1, <1>2 DEF Agrees

LEMMA ConfigAgrees ==
    ASSUME NEW c \in Configs
    PROVE  Agrees(FromConfig(c).columns, NoAcks)
<1> DEFINE cols == [i \in DOMAIN c.columns |-> LoadedColumn(c.columns[i])]
<1>1. FromConfig(c).columns = cols /\ cols \in Seq(Column)
  <2>1. FromConfig(c).columns = cols
    BY DEF FromConfig
  <2> HIDE DEF cols
  <2> QED
    BY <2>1, FromConfigTypes DEF Drafts
<1>2. \A i \in DOMAIN cols : cols[i].evidence = "none"
  BY DEF LoadedColumn
<1> HIDE DEF cols
<1> QED
  BY <1>1, <1>2, NothingAcknowledged

\* Any edit but a new source leaves the sources, the evidence and the tiers.
LEMMA EditAgrees ==
    ASSUME NEW cols, NEW acks, NEW new, Agrees(cols, acks), DOMAIN new = DOMAIN cols,
           \A i \in DOMAIN cols : /\ new[i].source = cols[i].source
                                  /\ new[i].evidence = cols[i].evidence
                                  /\ new[i].tier = cols[i].tier
    PROVE  Agrees(new, acks)
BY DEF Agrees

\* One column with the source and the evidence of another is added.
LEMMA AppendAgrees ==
    ASSUME NEW cols \in Seq(Column), NEW acks, Agrees(cols, acks),
           NEW k \in DOMAIN cols, NEW col \in Column,
           col.source = cols[k].source, col.evidence = cols[k].evidence,
           col.tier = cols[k].tier
    PROVE  Agrees(Append(cols, col), acks)
<1> DEFINE new == Append(cols, col)
<1>1. /\ new \in Seq(Column) /\ Len(new) = Len(cols) + 1 /\ Len(cols) \in Nat
      /\ \A i \in 1..Len(cols) : new[i] = cols[i]
      /\ new[Len(cols) + 1] = col
  BY AppendProperties, LenProperties
<1> HIDE DEF new
<1>2. DOMAIN new = 1..(Len(cols) + 1) /\ DOMAIN cols = 1..Len(cols)
  BY <1>1
<1>3. \A i \in DOMAIN new : \E j \in DOMAIN cols :
          /\ new[i].source = cols[j].source /\ new[i].evidence = cols[j].evidence
          /\ new[i].tier = cols[j].tier
  BY <1>1, <1>2
<1>4. \A i \in DOMAIN new :
          new[i].tier \in RiskyTier => acks[new[i].source] \in {"none", new[i].evidence}
  BY <1>3 DEF Agrees
<1>5. \A i, j \in DOMAIN new :
          new[i].source = new[j].source => new[i].evidence = new[j].evidence
  BY <1>3 DEF Agrees
<1> QED
  BY <1>4, <1>5 DEF Agrees, new

LEMMA EditKeeps ==
    ASSUME NEW d \in Drafts, NEW source, NEW f, NEW v,
           \E i \in DOMAIN d.columns : d.columns[i].source = source,
           \/ f = "dest" /\ v \in Name
           \/ f = "type" /\ v \in Type
           \/ f = "required" /\ v \in BOOLEAN
    PROVE  LET new == EditColumn(d, source, f, v).columns
           IN  /\ DOMAIN new = DOMAIN d.columns
               /\ \A i \in DOMAIN d.columns : /\ new[i].source = d.columns[i].source
                                              /\ new[i].evidence = d.columns[i].evidence
                                              /\ new[i].tier = d.columns[i].tier
<1> DEFINE k == FirstWith(d.columns, "source", source)
           col == [d.columns[k] EXCEPT ![f] = v]
<1>1. d.columns \in Seq(Column)
  BY DEF Drafts
<1>2. k \in DOMAIN d.columns
  BY <1>1, FirstIsThere DEF IsFirst
<1>3. EditColumn(d, source, f, v).columns = [d.columns EXCEPT ![k] = col]
  BY DEF EditColumn, Drafts
<1> HIDE DEF k
<1>4. d.columns[k] \in Column
  BY <1>1, <1>2
<1>5. /\ col.source = d.columns[k].source /\ col.evidence = d.columns[k].evidence
      /\ col.tier = d.columns[k].tier
  <2>1. CASE f = "dest"
    BY <1>4, <2>1 DEF Column
  <2>2. CASE f = "type"
    BY <1>4, <2>2 DEF Column
  <2>3. CASE f = "required"
    BY <1>4, <2>3 DEF Column
  <2> QED
    BY <2>1, <2>2, <2>3
<1> HIDE DEF col
<1> QED
  BY <1>1, <1>2, <1>3, <1>5

LEMMA EncryptKeeps ==
    ASSUME NEW d \in Drafts, NEW dest, NEW on \in BOOLEAN,
           \E i \in DOMAIN d.columns : d.columns[i].dest = dest
    PROVE  LET new == SetEncryption(d, dest, on).columns
           IN  /\ DOMAIN new = DOMAIN d.columns
               /\ \A i \in DOMAIN d.columns : /\ new[i].source = d.columns[i].source
                                              /\ new[i].evidence = d.columns[i].evidence
                                              /\ new[i].tier = d.columns[i].tier
<1> DEFINE k == FirstWith(d.columns, "dest", dest)
           col == [d.columns[k] EXCEPT !.encrypt = on]
<1>1. d.columns \in Seq(Column)
  BY DEF Drafts
<1>2. k \in DOMAIN d.columns
  BY <1>1, FirstIsThere DEF IsFirst
<1>3. SetEncryption(d, dest, on).columns = [d.columns EXCEPT ![k] = col]
  BY DEF SetEncryption, Drafts
<1> HIDE DEF k
<1>4. d.columns[k] \in Column
  BY <1>1, <1>2
<1>5. /\ col.source = d.columns[k].source /\ col.evidence = d.columns[k].evidence
      /\ col.tier = d.columns[k].tier
  BY <1>4 DEF Column
<1> HIDE DEF col
<1> QED
  BY <1>1, <1>2, <1>3, <1>5

LEMMA DuplicateAgrees ==
    ASSUME NEW d \in Drafts, NEW dest, NEW new_dest \in Name, NEW acks,
           \E i \in DOMAIN d.columns : d.columns[i].dest = dest, Agrees(d.columns, acks)
    PROVE  Agrees(DuplicateColumn(d, dest, new_dest).columns, acks)
<1> DEFINE k == FirstWith(d.columns, "dest", dest)
           col == [d.columns[k] EXCEPT !.dest = new_dest, !.encrypt = FALSE]
<1>1. d.columns \in Seq(Column)
  BY DEF Drafts
<1>2. k \in DOMAIN d.columns
  BY <1>1, FirstIsThere DEF IsFirst
<1>3. DuplicateColumn(d, dest, new_dest).columns = Append(d.columns, col)
  BY DEF DuplicateColumn, Drafts
<1> HIDE DEF k
<1>4. d.columns[k] \in Column
  BY <1>1, <1>2
<1>5. /\ col \in Column
      /\ col.source = d.columns[k].source /\ col.evidence = d.columns[k].evidence
      /\ col.tier = d.columns[k].tier
  BY <1>4 DEF Column
<1> HIDE DEF col
<1> QED
  BY <1>1, <1>2, <1>3, <1>5, AppendAgrees

LEMMA AckOfOne ==
    ASSUME TypeInv, AckInv, NEW a \in Author, NEW w, NEW m,
           workflow' = [workflow EXCEPT ![a] = w], moved' = [moved EXCEPT ![a] = m],
           w.draft # NoDraft /\ ~m => Agrees(w.draft.columns, w.acks)
    PROVE  AckInv'
<1> SUFFICES ASSUME NEW b \in Author, workflow'[b].draft # NoDraft, ~moved'[b]
             PROVE  Agrees(workflow'[b].draft.columns, workflow'[b].acks)
  BY DEF AckInv, HasDraft, Agrees
<1>1. CASE b = a
  BY <1>1 DEF TypeInv, TypeOK
<1>2. CASE b # a
  BY <1>2 DEF TypeInv, TypeOK, AckInv, HasDraft
<1> QED
  BY <1>1, <1>2

LEMMA MutateAcks ==
    ASSUME TypeInv, AckInv, NEW a \in Author, NEW d, Mutate(a, d), NEW m,
           moved' = [moved EXCEPT ![a] = m],
           ~m => Agrees(d.columns, workflow[a].acks)
    PROVE  AckInv'
<1> DEFINE w == [workflow[a] EXCEPT !.draft = d, !.report = "none"]
<1>1. workflow' = [workflow EXCEPT ![a] = w]
  BY DEF Mutate, TypeInv, TypeOK
<1>2. w.draft = d /\ w.acks = workflow[a].acks
  BY DraftOf DEF Workflows
<1> HIDE DEF w
<1> QED
  BY <1>1, <1>2, AckOfOne

LEMMA ReviewAcks ==
    ASSUME TypeInv, AckInv, NEW a \in Author, Review(a)
    PROVE  AckInv'
<1> DEFINE w == workflow[a]
<1>1. w \in Workflows /\ (HasDraft(a) => w.draft \in Drafts)
  BY DraftOf
<1>2. HasDraft(a) /\ ~moved[a] => Agrees(w.draft.columns, w.acks)
  BY DEF AckInv
<1>3. UNCHANGED moved => moved' = [moved EXCEPT ![a] = moved[a]]
  BY DEF TypeInv, TypeOK
<1>4. ASSUME NEW d, Mutate(a, d), UNCHANGED moved, HasDraft(a),
             DOMAIN d.columns = DOMAIN w.draft.columns,
             \A i \in DOMAIN w.draft.columns :
                 /\ d.columns[i].source = w.draft.columns[i].source
                 /\ d.columns[i].evidence = w.draft.columns[i].evidence
                 /\ d.columns[i].tier = w.draft.columns[i].tier
      PROVE  AckInv'
  <2>1. ~moved[a] => Agrees(d.columns, w.acks)
    BY <1>2, <1>4, EditAgrees
  <2> QED
    BY <1>3, <1>4, <2>1, MutateAcks
<1>5. ASSUME NEW f, NEW v, Edit(a, f, v),
             \/ f \in {"source", "dest"} /\ v \in Name
             \/ f = "type" /\ v \in Type
             \/ f = "required" /\ v \in BOOLEAN
      PROVE  AckInv'
  <2>1. PICK i \in DOMAIN w.draft.columns :
                 Mutate(a, EditColumn(w.draft, w.draft.columns[i].source, f, v))
    BY <1>5 DEF Edit
  <2>2. HasDraft(a) /\ moved' = [moved EXCEPT ![a] = (moved[a] \/ f = "source")]
    BY <1>5 DEF Edit
  <2>3. CASE f = "source"
    BY <2>1, <2>2, <2>3, MutateAcks
  <2>4. CASE f # "source"
    <3> DEFINE d == EditColumn(w.draft, w.draft.columns[i].source, f, v)
    <3>1. /\ DOMAIN d.columns = DOMAIN w.draft.columns
          /\ \A j \in DOMAIN w.draft.columns :
                 /\ d.columns[j].source = w.draft.columns[j].source
                 /\ d.columns[j].evidence = w.draft.columns[j].evidence
                 /\ d.columns[j].tier = w.draft.columns[j].tier
      BY <1>1, <1>5, <2>2, <2>4, EditKeeps
    <3>2. UNCHANGED moved
      BY <2>2, <2>4 DEF TypeInv, TypeOK
    <3>3. Mutate(a, d)
      BY <2>1
    <3> HIDE DEF d
    <3> QED
      BY <1>4, <2>2, <3>1, <3>2, <3>3
  <2> QED
    BY <2>3, <2>4
<1>6. CASE EditAny(a)
  BY <1>5, <1>6 DEF EditAny
<1>7. ASSUME NEW n \in Name, NEW on \in BOOLEAN, Encrypt(a, n, on) PROVE AckInv'
  <2> DEFINE d == SetEncryption(w.draft, n, on)
  <2>1. /\ DOMAIN d.columns = DOMAIN w.draft.columns
        /\ \A j \in DOMAIN w.draft.columns :
               /\ d.columns[j].source = w.draft.columns[j].source
               /\ d.columns[j].evidence = w.draft.columns[j].evidence
               /\ d.columns[j].tier = w.draft.columns[j].tier
    BY <1>1, <1>7, EncryptKeeps DEF Encrypt
  <2>2. Mutate(a, d) /\ UNCHANGED moved /\ HasDraft(a)
    BY <1>7 DEF Encrypt
  <2> HIDE DEF d
  <2> QED
    BY <1>4, <2>1, <2>2
<1>8. ASSUME NEW n \in Name, NEW m \in Name, Duplicate(a, n, m) PROVE AckInv'
  <2>1. ~moved[a] => Agrees(DuplicateColumn(w.draft, n, m).columns, w.acks)
    BY <1>1, <1>2, <1>8, DuplicateAgrees DEF Duplicate
  <2> QED
    BY <1>3, <1>8, <2>1, MutateAcks DEF Duplicate
<1>9. ASSUME NEW d, Mutate(a, d), UNCHANGED moved, HasDraft(a), d.columns = w.draft.columns
      PROVE  AckInv'
  BY <1>4, <1>9
<1>10. CASE \/ \E mode \in {"append", "truncate", "cdc"} : ChooseWriteMode(a, mode)
            \/ \E given \in BOOLEAN : SetConnectorSetting(a, given)
            \/ \E c \in Connector : SelectConnector(a, c)
  <2>1. ASSUME NEW mode, ChooseWriteMode(a, mode) PROVE AckInv'
    <3>1. [w.draft EXCEPT !.write_mode = mode].columns = w.draft.columns
      BY <1>1, <2>1 DEF ChooseWriteMode, Drafts
    <3> QED
      BY <1>9, <2>1, <3>1 DEF ChooseWriteMode
  <2>2. ASSUME NEW given, SetConnectorSetting(a, given) PROVE AckInv'
    <3>1. [w.draft EXCEPT !.ready = given].columns = w.draft.columns
      BY <1>1, <2>2 DEF SetConnectorSetting, Drafts
    <3> QED
      BY <1>9, <2>2, <3>1 DEF SetConnectorSetting
  <2>3. ASSUME NEW c, SelectConnector(a, c) PROVE AckInv'
    <3>1. ChooseConnector(w.draft, c).columns = w.draft.columns
      BY <1>1, <2>3 DEF SelectConnector, ChooseConnector, Drafts
    <3> QED
      BY <1>9, <2>3, <3>1 DEF SelectConnector
  <2> QED
    BY <1>10, <2>1, <2>2, <2>3
<1>11. ASSUME NEW c \in CdcChoice, NEW given, SetCdcSettings(a, given, c[1], c[2])
      PROVE  AckInv'
  <2> DEFINE d == [w.draft EXCEPT
                       !.keys = IF "keys" \in given THEN c[1] ELSE @,
                       !.sequence_by = IF "sequence" \in given THEN c[2] ELSE @]
  <2>1. Mutate(a, d) /\ UNCHANGED moved /\ HasDraft(a)
    BY <1>11 DEF SetCdcSettings
  <2>2. d.columns = w.draft.columns
    BY <1>1, <2>1 DEF Drafts
  <2> HIDE DEF d
  <2> QED
    BY <1>9, <2>1, <2>2
<1>12. ASSUME NEW s \in Sample, RefreshSample(a, s) PROVE AckInv'
  <2>1. PICK v : workflow' = [workflow EXCEPT ![a] = v] /\ moved' = [moved EXCEPT ![a] = TRUE]
    BY <1>12 DEF RefreshSample
  <2> QED
    BY <2>1, AckOfOne
<1>13. ASSUME NEW l \in Layout, Reseed(a, l) PROVE AckInv'
  <2> DEFINE d == Seeded(w.dest_table, w.file, l)
             v == [w EXCEPT !.layout = l, !.draft = d, !.report = "none", !.acks = NoAcks]
  <2>1. /\ workflow' = [workflow EXCEPT ![a] = v] /\ moved' = [moved EXCEPT ![a] = FALSE]
        /\ CanSeed(w.file, l, w.encoding) /\ w.file # NoSample
    BY <1>13 DEF Reseed
  <2>2. w.file \in Sample /\ w.dest_table \in Table
    BY <1>1, <2>1 DEF Workflows
  <2>3. d # NoDraft => Agrees(d.columns, NoAcks)
    BY <2>1, <2>2, SeededAgrees
  <2> HIDE DEF d
  <2>4. v.draft = d /\ v.acks = NoAcks
    BY <1>1 DEF Workflows
  <2> HIDE DEF v
  <2> QED
    BY <2>1, <2>3, <2>4, AckOfOne
<1>14. ASSUME NEW s \in Sample, NEW t \in Type, NEW b \in BOOLEAN, SetFixedWidthLayout(a, s, t, b)
       PROVE  AckInv'
  <2> DEFINE d == FromLayout(w.dest_table, s, t, b)
             e == IF Readable(w.file, w.layout, w.encoding) THEN NoAcks ELSE w.acks
             v == [w EXCEPT !.draft = d, !.acks = e]
  <2>1. /\ workflow' = [workflow EXCEPT ![a] = v] /\ UNCHANGED moved
        /\ "fixed_width" \in DOMAIN Header[s]
    BY <1>14 DEF SetFixedWidthLayout, history_vars
  <2>2. Agrees(d.columns, e)
    <3>1. w.dest_table \in Table
      BY <1>1 DEF Workflows
    <3> QED
      BY <2>1, <3>1, LayoutAgrees
  <2> HIDE DEF d, e
  <2>3. v.draft = d /\ v.acks = e
    BY <1>1 DEF Workflows
  <2> HIDE DEF v
  <2> QED
    BY <1>3, <2>1, <2>2, <2>3, AckOfOne
<1>15. ASSUME NEW n \in Name, Acknowledge(a, n) PROVE AckInv'
  <2>1. PICK i \in DOMAIN w.draft.columns :
            /\ w.draft.columns[i].source = n
            /\ workflow' = [workflow EXCEPT ![a].acks[n] = w.draft.columns[i].evidence]
    BY <1>15 DEF Acknowledge
  <2> DEFINE e == w.draft.columns[i].evidence
             acks == [w.acks EXCEPT ![n] = e]
             v == [w EXCEPT !.acks = acks]
  <2>2. HasDraft(a) /\ UNCHANGED moved
    BY <1>15 DEF Acknowledge, history_vars
  <2>3. workflow' = [workflow EXCEPT ![a] = v]
    BY <1>1, <2>1 DEF Workflows
  <2>4. ~moved[a] => Agrees(w.draft.columns, acks)
    <3> SUFFICES ASSUME ~moved[a] PROVE Agrees(w.draft.columns, acks)
      OBVIOUS
    <3>1. Agrees(w.draft.columns, w.acks)
      BY <1>2, <2>2
    <3>2. w.acks \in [Name -> Kind \cup {"none"}]
      BY <1>1 DEF Workflows
    <3>3. \A j \in DOMAIN w.draft.columns :
              w.draft.columns[j].source = n => w.draft.columns[j].evidence = e
      BY <2>1, <3>1 DEF Agrees
    <3> HIDE DEF e
    <3>4. \A j \in DOMAIN w.draft.columns :
              w.draft.columns[j].tier \in RiskyTier =>
                  acks[w.draft.columns[j].source] \in {"none", w.draft.columns[j].evidence}
      BY <3>1, <3>2, <3>3 DEF Agrees
    <3> HIDE DEF acks
    <3> QED
      BY <3>1, <3>4 DEF Agrees
  <2> HIDE DEF acks
  <2>5. v.draft = w.draft /\ v.acks = acks
    BY <1>1 DEF Workflows
  <2> HIDE DEF v
  <2> QED
    BY <1>3, <2>2, <2>3, <2>4, <2>5, AckOfOne
<1>16. CASE Validate(a)
  <2> DEFINE v == [w EXCEPT !.report = Fresh(w)]
  <2>1. HasDraft(a) /\ workflow' = [workflow EXCEPT ![a] = v] /\ UNCHANGED moved
    BY <1>16 DEF Validate, history_vars
  <2>2. v.draft = w.draft /\ v.acks = w.acks
    BY <1>1 DEF Workflows
  <2> HIDE DEF v
  <2> QED
    BY <1>2, <1>3, <2>1, <2>2, AckOfOne
<1> QED
  BY <1>6, <1>7, <1>8, <1>10, <1>11, <1>12, <1>13, <1>14, <1>15, <1>16 DEF Review

LEMMA AckStep == TypeInv /\ AckInv /\ [Next]_vars => AckInv'
<1> SUFFICES ASSUME TypeInv, AckInv, [Next]_vars PROVE AckInv'
  OBVIOUS
<1>1. ASSUME UNCHANGED <<workflow, moved>> PROVE AckInv'
  BY <1>1 DEF AckInv, HasDraft, Agrees
<1>2. ASSUME NEW a \in Author, NEW c \in Command, Start(a, c) PROVE AckInv'
  <2>1. PICK w \in Workflows :
            /\ w.draft = Seeded(c.dest_table, c.file, c.layout) /\ w.acks = NoAcks
            /\ workflow' = [workflow EXCEPT ![a] = w] /\ moved' = [moved EXCEPT ![a] = FALSE]
    BY <1>2, Starts DEF Open
  <2>2. c.dest_table \in Table /\ c.file \in Sample /\ c.layout \in Layout
    BY AuthoringAssumption, DraftAssumption
  <2>3. w.draft # NoDraft => Agrees(w.draft.columns, w.acks)
    BY <1>2, <2>1, <2>2, SeededAgrees DEF Start
  <2> QED
    BY <2>1, <2>3, AckOfOne
<1>3. ASSUME NEW a \in Author, NEW i \in Id, OpenFolder(a, i) PROVE AckInv'
  <2>1. PICK w \in Workflows :
            /\ w.draft = FromConfig(folders[i].config) /\ w.acks = NoAcks
            /\ workflow' = [workflow EXCEPT ![a] = w] /\ moved' = [moved EXCEPT ![a] = FALSE]
    BY <1>3, OpensFolder DEF Open
  <2>2. folders[i].config \in Configs
    BY <1>3, WholeConfig DEF OpenFolder
  <2>3. Agrees(w.draft.columns, w.acks)
    BY <2>1, <2>2, ConfigAgrees
  <2> QED
    BY <2>1, <2>3, AckOfOne
<1>4. ASSUME NEW a \in Author, Review(a) PROVE AckInv'
  BY <1>4, ReviewAcks
<1>5. ASSUME NEW a \in Author, Generate(a) PROVE AckInv'
  <2> DEFINE w == workflow[a]
             r == IF w.report = "none" THEN Fresh(w) ELSE w.report
             v == [w EXCEPT !.report = r]
  <2>1. HasDraft(a) /\ workflow' = [workflow EXCEPT ![a] = v] /\ UNCHANGED moved
    BY <1>5 DEF Generate, history_vars
  <2> HIDE DEF r
  <2>2. v.draft = w.draft /\ v.acks = w.acks
    BY DraftOf DEF Workflows
  <2>3. moved' = [moved EXCEPT ![a] = moved[a]]
    BY <2>1 DEF TypeInv, TypeOK
  <2> HIDE DEF v
  <2>4. ~moved[a] => Agrees(v.draft.columns, v.acks)
    BY <2>1, <2>2 DEF AckInv
  <2> QED
    BY <2>1, <2>3, <2>4, AckOfOne
<1>6. ASSUME NEW a \in Author,
             \/ EmptyConfig(a) \/ WriteConfig(a) \/ EmptyRunbook(a) \/ WriteRunbook(a)
             \/ ReadRegistry(a) \/ EmptyRegistry(a) \/ WriteRegistry(a)
      PROVE  AckInv'
  BY <1>1, <1>6
  DEF EmptyConfig, WriteConfig, EmptyRunbook, WriteRunbook, ReadRegistry, EmptyRegistry,
      WriteRegistry, history_vars
<1>7. ASSUME NEW a \in Author, Quit(a) \/ Crash(a) PROVE AckInv'
  <2>1. workflow' = [workflow EXCEPT ![a] = NoWorkflow] /\ moved' = [moved EXCEPT ![a] = FALSE]
    BY <1>7 DEF Quit, Crash, Leave
  <2>2. NoWorkflow.draft = NoDraft
    BY DEF NoWorkflow
  <2> QED
    BY <2>1, <2>2, AckOfOne
<1>8. ASSUME NEW i \in Id, NEW e \in Encoding, HandEdit(i, e) PROVE AckInv'
  BY <1>1, <1>8 DEF HandEdit, history_vars
<1>9. CASE UNCHANGED vars
  BY <1>1, <1>9 DEF vars, history_vars
<1> QED
  BY <1>2, <1>3, <1>4, <1>5, <1>6, <1>7, <1>8, <1>9 DEF Next, Save

\* An acknowledgement is of the evidence the column has, unless a column was
\* renamed or the sample refreshed since the draft was made.
THEOREM AcknowledgedAsSeen == Spec => []AcksAreOfThisSample
<1>1. Init => AckInv
  BY DEF Init, AckInv, HasDraft, NoWorkflow
<1>2. TypeInv /\ AckInv /\ [Next]_vars => AckInv'
  BY AckStep
<1>3. AckInv => AcksAreOfThisSample
  BY DEF AckInv, AcksAreOfThisSample, Risky, Agrees
<1> QED
  BY <1>1, <1>2, <1>3, TypeInvariant, PTL DEF Spec
-----------------------------------------------------------------------------
(***************************************************************************)
(* The registry.  Until an author appends its entry, the folder it wrote   *)
(* and those of the entries it read stay there: no step deletes a file.    *)
(***************************************************************************)
There(f) == Missing \notin {f.config, f.runbook}

ThereInv ==
    /\ \A i \in Registered : There(folders[i])
    /\ \A a \in Author :
           /\ pc[a] \in {"emptied", "configured", "blanked"} =>
                  folders[PipelineId(workflow[a])].config # Missing
           /\ pc[a] \in {"registering", "read", "torn"} => There(folders[PipelineId(workflow[a])])
           /\ pc[a] \in {"read", "torn"} => \A i \in Range(seen[a]) : There(folders[i])

LEMMA ReviewKeeps ==
    ASSUME TypeInv, NEW a \in Author, Review(a)
    PROVE  /\ pc[a] = "editing" /\ UNCHANGED <<pc, local_vars, disk_vars, opened>>
           /\ \E v : /\ workflow' = [workflow EXCEPT ![a] = v]
                     /\ v.entry = workflow[a].entry /\ v.reauthor = workflow[a].reauthor
<1> DEFINE w == workflow[a]
           Keeps == /\ pc[a] = "editing"
                    /\ UNCHANGED <<pc, local_vars, disk_vars, opened>>
                    /\ \E v : /\ workflow' = [workflow EXCEPT ![a] = v]
                              /\ v.entry = w.entry /\ v.reauthor = w.reauthor
<1> SUFFICES Keeps
  OBVIOUS
<1>1. w \in Workflows
  BY DraftOf
<1>2. ASSUME NEW d, Mutate(a, d) PROVE Keeps
  <2> DEFINE v == [w EXCEPT !.draft = d, !.report = "none"]
  <2>1. workflow' = [workflow EXCEPT ![a] = v]
    BY <1>2 DEF Mutate, TypeInv, TypeOK
  <2>2. v.entry = w.entry /\ v.reauthor = w.reauthor
    BY <1>1 DEF Workflows
  <2> HIDE DEF v
  <2>3. \E u : /\ workflow' = [workflow EXCEPT ![a] = u]
               /\ u.entry = w.entry /\ u.reauthor = w.reauthor
    BY <2>1, <2>2
  <2> QED
    BY <1>2, <2>3 DEF Mutate
<1>3. ASSUME NEW s, RefreshSample(a, s) PROVE Keeps
  <2> DEFINE d == WithEvidenceOf(w.draft, s)
             r == IF Loads(ToConfig(d)) THEN "none" ELSE w.report
             v == [w EXCEPT !.draft = d, !.file = s, !.report = r]
  <2>1. /\ workflow' = [workflow EXCEPT ![a] = v]
        /\ pc[a] = "editing" /\ UNCHANGED <<pc, local_vars, disk_vars, opened>>
    BY <1>3 DEF RefreshSample
  <2> HIDE DEF d, r
  <2>2. v.entry = w.entry /\ v.reauthor = w.reauthor
    BY <1>1 DEF Workflows
  <2> HIDE DEF v
  <2> QED
    BY <2>1, <2>2
<1>4. ASSUME NEW l, Reseed(a, l) PROVE Keeps
  <2> DEFINE d == Seeded(w.dest_table, w.file, l)
             v == [w EXCEPT !.layout = l, !.draft = d, !.report = "none", !.acks = NoAcks]
  <2>1. /\ workflow' = [workflow EXCEPT ![a] = v]
        /\ pc[a] = "editing" /\ UNCHANGED <<pc, local_vars, disk_vars, opened>>
    BY <1>4 DEF Reseed
  <2> HIDE DEF d
  <2>2. v.entry = w.entry /\ v.reauthor = w.reauthor
    BY <1>1 DEF Workflows
  <2> HIDE DEF v
  <2> QED
    BY <2>1, <2>2
<1>5. ASSUME NEW s, NEW t, NEW b, SetFixedWidthLayout(a, s, t, b) PROVE Keeps
  <2> DEFINE d == FromLayout(w.dest_table, s, t, b)
             e == IF Readable(w.file, w.layout, w.encoding) THEN NoAcks ELSE w.acks
             v == [w EXCEPT !.draft = d, !.acks = e]
  <2>1. /\ workflow' = [workflow EXCEPT ![a] = v]
        /\ pc[a] = "editing" /\ UNCHANGED <<pc, local_vars, disk_vars, opened>>
    BY <1>5 DEF SetFixedWidthLayout, history_vars
  <2> HIDE DEF d, e
  <2>2. v.entry = w.entry /\ v.reauthor = w.reauthor
    BY <1>1 DEF Workflows
  <2> HIDE DEF v
  <2> QED
    BY <2>1, <2>2
<1>6. ASSUME NEW n, Acknowledge(a, n) PROVE Keeps
  <2>1. PICK e : workflow' = [workflow EXCEPT ![a].acks[n] = e]
    BY <1>6 DEF Acknowledge
  <2> DEFINE v == [w EXCEPT !.acks = [w.acks EXCEPT ![n] = e]]
  <2>2. workflow' = [workflow EXCEPT ![a] = v]
    BY <1>1, <2>1 DEF Workflows
  <2>3. v.entry = w.entry /\ v.reauthor = w.reauthor
    BY <1>1 DEF Workflows
  <2> HIDE DEF v
  <2> QED
    BY <1>6, <2>2, <2>3 DEF Acknowledge, history_vars
<1>7. CASE Validate(a)
  <2> DEFINE v == [w EXCEPT !.report = Fresh(w)]
  <2>1. /\ workflow' = [workflow EXCEPT ![a] = v]
        /\ pc[a] = "editing" /\ UNCHANGED <<pc, local_vars, disk_vars, opened>>
    BY <1>7 DEF Validate, history_vars
  <2>2. v.entry = w.entry /\ v.reauthor = w.reauthor
    BY <1>1 DEF Workflows
  <2> HIDE DEF v
  <2> QED
    BY <2>1, <2>2
<1>8. ASSUME NEW f, NEW v, Edit(a, f, v) PROVE Keeps
  <2>1. \E d : Mutate(a, d)
    BY <1>8 DEF Edit
  <2> HIDE DEF Keeps
  <2> QED
    BY <1>2, <2>1
<1> HIDE DEF Keeps
<1>9. CASE EditAny(a)
  BY <1>8, <1>9 DEF EditAny
<1>10. CASE \/ \E n \in Name, on \in BOOLEAN : Encrypt(a, n, on)
            \/ \E n, m \in Name : Duplicate(a, n, m)
            \/ \E mode \in {"append", "truncate", "cdc"} : ChooseWriteMode(a, mode)
  BY <1>2, <1>10 DEF Encrypt, Duplicate, ChooseWriteMode
<1>11. CASE \/ \E c \in CdcChoice, given \in SUBSET {"keys", "sequence"} \ {{}} :
                   SetCdcSettings(a, given, c[1], c[2])
            \/ \E c \in Connector : SelectConnector(a, c)
            \/ \E given \in BOOLEAN : SetConnectorSetting(a, given)
  BY <1>2, <1>11 DEF SetCdcSettings, SelectConnector, SetConnectorSetting
<1> QED
  BY <1>3, <1>4, <1>5, <1>6, <1>7, <1>9, <1>10, <1>11 DEF Review

\* A file of a folder, once it is there, stays.
LEMMA FoldersStay ==
    ASSUME TypeInv, [Next]_vars, NEW i \in Id
    PROVE  /\ folders[i].config # Missing => folders'[i].config # Missing
           /\ folders[i].runbook # Missing => folders'[i].runbook # Missing
<1> DEFINE Stay == /\ folders[i].config # Missing => folders'[i].config # Missing
                   /\ folders[i].runbook # Missing => folders'[i].runbook # Missing
<1>1. /\ folders \in [Id -> FolderState]
      /\ Missing \notin Configs \cup Sample \cup {NoSample} /\ Missing # Torn
  BY AuthoringAssumption DEF TypeInv, TypeOK
<1>2. ASSUME UNCHANGED folders PROVE Stay
  BY <1>2
<1>3. ASSUME NEW j, NEW c, c # Missing, folders' = [folders EXCEPT ![j].config = c]
      PROVE  Stay
  BY <1>1, <1>3 DEF FolderState
<1>4. ASSUME NEW j, NEW c, c # Missing, folders' = [folders EXCEPT ![j].runbook = c]
      PROVE  Stay
  BY <1>1, <1>4 DEF FolderState
<1> HIDE DEF Stay
<1>5. ASSUME NEW a \in Author, EmptyConfig(a) PROVE Stay
  BY <1>1, <1>3, <1>5 DEF EmptyConfig
<1>6. ASSUME NEW a \in Author, WriteConfig(a) PROVE Stay
  <2>1. ToConfig(workflow[a].draft) \in Configs
    BY <1>6, DraftOf, ToConfigTypes DEF WriteConfig, Write, TypeInv, DraftInv, Writing
  <2> QED
    BY <1>1, <1>3, <1>6, <2>1 DEF WriteConfig
<1>7. ASSUME NEW a \in Author, WriteRunbook(a) PROVE Stay
  <2>1. workflow[a].file \in Sample \cup {NoSample}
    BY DraftOf DEF Workflows
  <2> QED
    BY <1>1, <1>4, <1>7, <2>1 DEF WriteRunbook
<1>13. ASSUME NEW a \in Author, EmptyRunbook(a) PROVE Stay
  BY <1>1, <1>4, <1>13 DEF EmptyRunbook
<1>8. ASSUME NEW j \in Id, NEW e \in Encoding, HandEdit(j, e) PROVE Stay
  <2> DEFINE c == [folders[j].config EXCEPT !.other = "set", !.encoding = e]
  <2>1. folders[j].config \in Configs
    BY <1>8, WholeConfig DEF HandEdit
  <2>2. c \in Configs
    BY <2>1 DEF Configs
  <2>3. folders' = [folders EXCEPT ![j].config = c]
    BY <1>1, <1>8 DEF HandEdit, FolderState
  <2> HIDE DEF c
  <2> QED
    BY <1>1, <1>3, <2>2, <2>3
<1>9. ASSUME NEW a \in Author, Review(a) PROVE Stay
  BY <1>2, <1>9, ReviewKeeps DEF disk_vars
<1>10. ASSUME NEW a \in Author,
              \/ Generate(a) \/ ReadRegistry(a) \/ EmptyRegistry(a) \/ WriteRegistry(a)
              \/ Quit(a) \/ Crash(a)
       PROVE  Stay
  BY <1>2, <1>10
  DEF Generate, ReadRegistry, EmptyRegistry, WriteRegistry, Quit, Crash, Leave, disk_vars
<1>11. ASSUME NEW a \in Author, (\E c \in Command : Start(a, c)) \/ (\E j \in Id : OpenFolder(a, j))
       PROVE  Stay
  BY <1>2, <1>11 DEF Start, OpenFolder, Open, disk_vars
<1>12. CASE UNCHANGED vars
  BY <1>2, <1>12 DEF vars, disk_vars
<1> QED
  BY <1>5, <1>6, <1>7, <1>8, <1>9, <1>10, <1>11, <1>12, <1>13 DEF Next, Save, Stay

LEMMA RegisteredIds ==
    ASSUME TypeInv
    PROVE  Registered \subseteq Id /\ \A a \in Author : Range(seen[a]) \subseteq Id
<1>1. registry \in Seq(Id) \cup {Missing, Torn} /\ \A a \in Author : seen[a] \in Seq(Id)
  BY DEF TypeInv, TypeOK
<1> QED
  BY <1>1, Elements DEF Registered, IsWhole

LEMMA ThereStays ==
    ASSUME TypeInv, [Next]_vars
    PROVE  \A i \in Id : There(folders[i]) => There(folders'[i])
BY FoldersStay DEF There

\* A step of one author: what holds of the others goes on to hold.
LEMMA ThereOfOne ==
    ASSUME TypeInv, ThereInv, [Next]_vars, NEW a \in Author,
           \A b \in Author \ {a} : /\ pc'[b] = pc[b] /\ workflow'[b] = workflow[b]
                                   /\ seen'[b] = seen[b],
           \A i \in Registered' : There(folders'[i]),
           pc'[a] \in {"emptied", "configured", "blanked"} =>
               folders'[PipelineId(workflow'[a])].config # Missing,
           pc'[a] \in {"registering", "read", "torn"} => There(folders'[PipelineId(workflow'[a])]),
           pc'[a] \in {"read", "torn"} => \A i \in Range(seen'[a]) : There(folders'[i])
    PROVE  ThereInv'
<1> SUFFICES ASSUME NEW b \in Author
             PROVE  /\ pc'[b] \in {"emptied", "configured", "blanked"} =>
                           folders'[PipelineId(workflow'[b])].config # Missing
                    /\ pc'[b] \in {"registering", "read", "torn"} =>
                           There(folders'[PipelineId(workflow'[b])])
                    /\ pc'[b] \in {"read", "torn"} => \A i \in Range(seen'[b]) : There(folders'[i])
  BY DEF ThereInv, There, PipelineId
<1>1. CASE b = a
  BY <1>1
<1>2. CASE b # a
  <2> DEFINE j == PipelineId(workflow[b])
  <2>1. PipelineId(workflow'[b]) = j /\ j \in Id /\ Range(seen[b]) \subseteq Id
    BY <1>2, IdOf, RegisteredIds DEF PipelineId
  <2>2. folders[j].config # Missing => folders'[j].config # Missing
    BY <2>1, FoldersStay
  <2>3. There(folders[j]) => There(folders'[j])
    BY <2>1, ThereStays DEF There
  <2>4. \A i \in Range(seen[b]) : There(folders[i]) => There(folders'[i])
    BY <2>1, ThereStays
  <2>5. /\ pc[b] \in {"emptied", "configured", "blanked"} => folders[j].config # Missing
        /\ pc[b] \in {"registering", "read", "torn"} => There(folders[j])
        /\ pc[b] \in {"read", "torn"} => \A i \in Range(seen[b]) : There(folders[i])
    BY DEF ThereInv
  <2> HIDE DEF j
  <2>6. There(folders'[PipelineId(workflow'[b])]) = There(folders'[j])
    BY <2>1 DEF There
  <2> QED
    BY <1>2, <2>1, <2>2, <2>3, <2>4, <2>5, <2>6
<1> QED
  BY <1>1, <1>2

\* A step that leaves the registry, and after which its author writes nothing.
LEMMA ThereOfReader ==
    ASSUME TypeInv, ThereInv, [Next]_vars, NEW a \in Author, UNCHANGED registry,
           \A b \in Author \ {a} : /\ pc'[b] = pc[b] /\ workflow'[b] = workflow[b]
                                   /\ seen'[b] = seen[b],
           pc'[a] \in {"closed", "editing", "target"}
    PROVE  ThereInv'
<1>1. \A i \in Registered' : There(folders'[i])
  BY ThereStays, RegisteredIds DEF ThereInv, Registered
<1> QED
  BY <1>1, ThereOfOne

LEMMA ThereStep == TypeInv /\ ThereInv /\ [Next]_vars => ThereInv'
<1> SUFFICES ASSUME TypeInv, ThereInv, [Next]_vars PROVE ThereInv'
  OBVIOUS
<1>1. /\ pc \in [Author -> {"closed", "editing"} \cup Writing]
      /\ workflow \in [Author -> Workflows] /\ seen \in [Author -> Seq(Id)]
      /\ folders \in [Id -> FolderState]
      /\ Missing \notin Configs \cup Sample \cup {NoSample} /\ Missing # Torn
  BY AuthoringAssumption DEF TypeInv, TypeOK
<1>2. ASSUME UNCHANGED registry PROVE \A i \in Registered' : There(folders'[i])
  BY <1>2, ThereStays, RegisteredIds DEF ThereInv, Registered
<1>3. ASSUME NEW a \in Author,
             \/ (\E c \in Command : Start(a, c)) \/ (\E i \in Id : OpenFolder(a, i))
             \/ Generate(a) \/ Quit(a) \/ Crash(a)
      PROVE  ThereInv'
  BY <1>1, <1>3, ThereOfReader
  DEF Start, OpenFolder, Open, Generate, Quit, Crash, Leave, disk_vars, local_vars
<1>4. ASSUME NEW a \in Author, Review(a) PROVE ThereInv'
  BY <1>1, <1>4, ReviewKeeps, ThereOfReader DEF disk_vars, local_vars
<1>5. ASSUME NEW a \in Author, EmptyConfig(a) PROVE ThereInv'
  <2> DEFINE i == PipelineId(workflow[a])
  <2>1. /\ pc' = [pc EXCEPT ![a] = "emptied"] /\ UNCHANGED <<workflow, seen, registry>>
        /\ folders' = [folders EXCEPT ![i].config = Torn]
    BY <1>5 DEF EmptyConfig, Write, local_vars
  <2>2. i \in Id /\ PipelineId(workflow'[a]) = i
    BY <2>1, IdOf
  <2> HIDE DEF i
  <2>3. folders'[i].config = Torn
    BY <1>1, <2>1, <2>2 DEF FolderState
  <2> QED
    BY <1>1, <1>2, <2>1, <2>2, <2>3, ThereOfOne
<1>6. ASSUME NEW a \in Author, WriteConfig(a) PROVE ThereInv'
  <2> DEFINE i == PipelineId(workflow[a])
  <2>1. /\ pc[a] = "emptied" /\ pc' = [pc EXCEPT ![a] = "configured"]
        /\ UNCHANGED <<workflow, seen, registry>>
    BY <1>6 DEF WriteConfig, Write, local_vars
  <2>2. i \in Id /\ PipelineId(workflow'[a]) = i
    BY <2>1, IdOf
  <2>3. folders[i].config # Missing
    BY <2>1 DEF ThereInv
  <2>4. folders'[i].config # Missing
    BY <2>2, <2>3, FoldersStay
  <2> HIDE DEF i
  <2> QED
    BY <1>1, <1>2, <2>1, <2>2, <2>4, ThereOfOne
<1>14. ASSUME NEW a \in Author, EmptyRunbook(a) PROVE ThereInv'
  <2> DEFINE i == PipelineId(workflow[a])
  <2>1. /\ pc[a] = "configured" /\ pc' = [pc EXCEPT ![a] = "blanked"]
        /\ UNCHANGED <<workflow, seen, registry>>
    BY <1>14 DEF EmptyRunbook, Write, local_vars
  <2>2. i \in Id /\ PipelineId(workflow'[a]) = i
    BY <2>1, IdOf
  <2>3. folders[i].config # Missing
    BY <2>1 DEF ThereInv
  <2>4. folders'[i].config # Missing
    BY <2>2, <2>3, FoldersStay
  <2> HIDE DEF i
  <2> QED
    BY <1>1, <1>2, <2>1, <2>2, <2>4, ThereOfOne
<1>7. ASSUME NEW a \in Author, WriteRunbook(a) PROVE ThereInv'
  <2> DEFINE i == PipelineId(workflow[a])
  <2>1. /\ pc[a] = "blanked" /\ UNCHANGED <<workflow, seen, registry>>
        /\ pc' = [pc EXCEPT ![a] = IF existed[a] THEN "editing" ELSE "registering"]
        /\ folders' = [folders EXCEPT ![i].runbook = workflow[a].file]
    BY <1>7 DEF WriteRunbook, Write, local_vars
  <2>2. i \in Id /\ PipelineId(workflow'[a]) = i
    BY <2>1, IdOf
  <2>3. folders[i].config # Missing
    BY <2>1 DEF ThereInv
  <2>4. workflow[a].file # Missing
    BY <1>1 DEF Workflows
  <2> HIDE DEF i
  <2>5. There(folders'[i])
    BY <1>1, <2>1, <2>2, <2>3, <2>4 DEF There, FolderState
  <2>6. pc'[a] \in {"editing", "registering"}
    BY <1>1, <2>1
  <2> QED
    BY <1>1, <1>2, <2>1, <2>2, <2>5, <2>6, ThereOfOne
<1>8. ASSUME NEW a \in Author, ReadRegistry(a) PROVE ThereInv'
  <2> DEFINE i == PipelineId(workflow[a])
  <2>1. PICK to \in {"editing", "read"} :
            pc[a] = "registering" /\ pc' = [pc EXCEPT ![a] = to]
    BY <1>8 DEF ReadRegistry, Write
  <2>2. /\ seen' = [seen EXCEPT ![a] = IF IsWhole(registry) THEN registry ELSE <<>>]
        /\ UNCHANGED <<workflow, folders, registry>>
    BY <1>8 DEF ReadRegistry, disk_vars
  <2>3. i \in Id /\ PipelineId(workflow'[a]) = i
    BY <2>2, IdOf
  <2>4. There(folders'[i])
    BY <2>1, <2>2 DEF ThereInv
  <2>5. Range(seen'[a]) \subseteq Registered
    <3>1. seen'[a] = IF IsWhole(registry) THEN registry ELSE <<>>
      BY <1>1, <2>2
    <3> QED
      BY <3>1 DEF Registered, Range
  <2>6. \A j \in Range(seen'[a]) : There(folders'[j])
    BY <2>2, <2>5 DEF ThereInv
  <2> HIDE DEF i
  <2> QED
    BY <1>1, <1>2, <2>1, <2>2, <2>3, <2>4, <2>6, ThereOfOne
<1>9. ASSUME NEW a \in Author, EmptyRegistry(a) PROVE ThereInv'
  <2> DEFINE i == PipelineId(workflow[a])
  <2>1. /\ pc[a] = "read" /\ pc' = [pc EXCEPT ![a] = "torn"] /\ registry' = Torn
        /\ UNCHANGED <<workflow, seen, folders>>
    BY <1>9 DEF EmptyRegistry, Write, local_vars
  <2>2. Registered' = {}
    BY <2>1 DEF Registered, IsWhole
  <2>3. There(folders'[PipelineId(workflow'[a])]) /\ \A j \in Range(seen'[a]) : There(folders'[j])
    BY <2>1 DEF ThereInv
  <2> QED
    BY <1>1, <2>1, <2>2, <2>3, ThereOfOne
<1>10. ASSUME NEW a \in Author, WriteRegistry(a) PROVE ThereInv'
  <2> DEFINE i == PipelineId(workflow[a])
  <2>1. /\ pc[a] = "torn" /\ pc' = [pc EXCEPT ![a] = "editing"]
        /\ registry' = Append(seen[a], i) /\ UNCHANGED <<workflow, seen, folders>>
    BY <1>10 DEF WriteRegistry, Write, local_vars
  <2>2. There(folders[i]) /\ \A j \in Range(seen[a]) : There(folders[j])
    BY <2>1 DEF ThereInv
  <2>3. i \in Id /\ seen[a] \in Seq(Id)
    BY <1>1, IdOf
  <2> HIDE DEF i
  <2>4. Range(Append(seen[a], i)) \subseteq Range(seen[a]) \cup {i}
    BY <2>3 DEF Range
  <2>5. Registered' \subseteq Range(seen[a]) \cup {i}
    BY <2>1, <2>4 DEF Registered
  <2>6. \A j \in Registered' : There(folders'[j])
    BY <2>1, <2>2, <2>5
  <2> QED
    BY <1>1, <2>1, <2>6, ThereOfOne
<1>11. ASSUME UNCHANGED <<pc, workflow, seen, registry>> PROVE ThereInv'
  <2>1. ASSUME NEW a \in Author
        PROVE  /\ pc[a] \in {"emptied", "configured", "blanked"} =>
                      folders'[PipelineId(workflow[a])].config # Missing
               /\ pc[a] \in {"registering", "read", "torn"} =>
                      There(folders'[PipelineId(workflow[a])])
               /\ pc[a] \in {"read", "torn"} => \A i \in Range(seen[a]) : There(folders'[i])
    BY IdOf, RegisteredIds, FoldersStay, ThereStays DEF ThereInv
  <2> QED
    BY <1>2, <1>11, <2>1 DEF ThereInv
<1>12. ASSUME NEW i \in Id, NEW e \in Encoding, HandEdit(i, e) PROVE ThereInv'
  BY <1>11, <1>12 DEF HandEdit, local_vars
<1>13. CASE UNCHANGED vars
  BY <1>11, <1>13 DEF vars, local_vars, disk_vars
<1> QED
  BY <1>3, <1>4, <1>5, <1>6, <1>7, <1>8, <1>9, <1>10, <1>12, <1>13, <1>14 DEF Next, Save

LEMMA ThereInit == Init => ThereInv
<1> SUFFICES ASSUME Init PROVE ThereInv
  OBVIOUS
<1>1. PICK ws \in Workspace :
          /\ folders = [i \in Id |-> IF i \in DOMAIN ws THEN ws[i] ELSE NoFolder]
          /\ registry = IF ws = <<>> THEN Missing ELSE SetToSeq(DOMAIN ws)
  BY DEF Init
<1>2. /\ DOMAIN ws \subseteq Id /\ IsFiniteSet(DOMAIN ws)
      /\ \A i \in DOMAIN ws : ws[i] \in [config : Configs, runbook : Sample]
      /\ Missing \notin Configs \cup Sample
  BY AuthoringAssumption
<1>3. Registered \subseteq DOMAIN ws
  <2>1. SetToSeq(DOMAIN ws) \in Seq(DOMAIN ws)
    BY <1>2, SetToSeqElements
  <2>2. Range(SetToSeq(DOMAIN ws)) \subseteq DOMAIN ws
    BY <2>1, Elements
  <2> QED
    BY <1>1, <2>2 DEF Registered, IsWhole
<1>4. \A i \in DOMAIN ws : There(folders[i])
  BY <1>1, <1>2 DEF There
<1> QED
  BY <1>3, <1>4 DEF ThereInv, Init

\* What the registry names is on disk, whatever other authors write and
\* wherever a crash stops them.
THEOREM RegisteredStaysThere == Spec => []RegisteredIsThere
<1>1. Init => ThereInv
  BY ThereInit
<1>2. TypeInv /\ ThereInv /\ [Next]_vars => ThereInv'
  BY ThereStep
<1>3. ThereInv => RegisteredIsThere
  BY DEF ThereInv, There, RegisteredIsThere
<1> QED
  BY <1>1, <1>2, <1>3, TypeInvariant, PTL DEF Spec

-----------------------------------------------------------------------------
(***************************************************************************)
(* Re-authoring.  The entry that a workflow found in the registry is of    *)
(* the folder it opened, which is there: generate finds it in its way, and *)
(* so leaves the registry alone.                                           *)
(***************************************************************************)
EntryInv ==
    \A a \in Author :
        workflow[a].entry # NoId =>
            /\ workflow[a].reauthor /\ workflow[a].entry = opened[a]
            /\ folders[opened[a]].config # Missing
            /\ pc[a] \in Writing => existed[a]
            /\ pc[a] \notin {"registering", "read", "torn"}

LEMMA EntryOf ==
    ASSUME TypeInv, EntryInv, NEW a \in Author, workflow[a].entry # NoId
    PROVE  opened[a] \in Id /\ PipelineId(workflow[a]) = opened[a]
<1>1. workflow[a].entry \in Id
  BY DraftOf DEF Workflows
<1> QED
  BY <1>1 DEF EntryInv, PipelineId

\* A step of one author, w being its workflow after the step.
LEMMA EntryOfOne ==
    ASSUME TypeInv, EntryInv, [Next]_vars, NEW a \in Author, NEW w,
           workflow' = [workflow EXCEPT ![a] = w],
           \A b \in Author \ {a} : /\ pc'[b] = pc[b] /\ existed'[b] = existed[b]
                                   /\ opened'[b] = opened[b],
           w.entry # NoId =>
               /\ w.reauthor /\ w.entry = opened'[a]
               /\ folders'[opened'[a]].config # Missing
               /\ pc'[a] \in Writing => existed'[a]
               /\ pc'[a] \notin {"registering", "read", "torn"}
    PROVE  EntryInv'
<1> SUFFICES ASSUME NEW b \in Author, workflow'[b].entry # NoId
             PROVE  /\ workflow'[b].reauthor /\ workflow'[b].entry = opened'[b]
                    /\ folders'[opened'[b]].config # Missing
                    /\ pc'[b] \in Writing => existed'[b]
                    /\ pc'[b] \notin {"registering", "read", "torn"}
  BY DEF EntryInv
<1>1. workflow \in [Author -> Workflows]
  BY DEF TypeInv, TypeOK
<1>2. CASE b = a
  BY <1>1, <1>2
<1>3. CASE b # a
  <2>1. workflow'[b] = workflow[b]
    BY <1>1, <1>3
  <2>2. opened[b] \in Id
    BY <2>1, EntryOf
  <2>3. folders'[opened[b]].config # Missing
    BY <2>1, <2>2, FoldersStay DEF EntryInv
  <2> QED
    BY <1>3, <2>1, <2>3 DEF EntryInv
<1> QED
  BY <1>2, <1>3

\* One that leaves the workflow.
LEMMA EntryOfWriter ==
    ASSUME TypeInv, EntryInv, [Next]_vars, NEW a \in Author, NEW to,
           UNCHANGED <<workflow, existed, opened>>, pc' = [pc EXCEPT ![a] = to],
           workflow[a].entry # NoId =>
               /\ to \in Writing => pc[a] \in Writing
               /\ to \notin {"registering", "read", "torn"}
    PROVE  EntryInv'
<1>1. workflow' = [workflow EXCEPT ![a] = workflow[a]] /\ pc'[a] = to
      /\ \A b \in Author \ {a} : pc'[b] = pc[b]
  BY DEF TypeInv, TypeOK
<1>2. workflow[a].entry # NoId =>
          opened[a] \in Id /\ folders'[opened[a]].config # Missing
  BY EntryOf, FoldersStay DEF EntryInv
<1>3. workflow[a].entry # NoId =>
          /\ workflow[a].reauthor /\ workflow[a].entry = opened[a]
          /\ pc[a] \in Writing => existed[a]
  BY DEF EntryInv
<1> QED
  BY <1>1, <1>2, <1>3, EntryOfOne

LEMMA EntryStep == TypeInv /\ EntryInv /\ [Next]_vars => EntryInv'
<1> SUFFICES ASSUME TypeInv, EntryInv, [Next]_vars PROVE EntryInv'
  OBVIOUS
<1>1. /\ pc \in [Author -> {"closed", "editing"} \cup Writing]
      /\ workflow \in [Author -> Workflows] /\ existed \in [Author -> BOOLEAN]
      /\ opened \in [Author -> Id \cup {NoId}]
      /\ NoId \notin Id /\ "editing" \notin Writing
  BY AuthoringAssumption DEF TypeInv, TypeOK, Writing
<1>2. ASSUME NEW a \in Author, NEW c \in Command, Start(a, c) PROVE EntryInv'
  <2>1. PICK w \in Workflows : Open(a, w, NoId) /\ w.entry = NoId
    BY <1>2, Starts
  <2> QED
    BY <1>1, <2>1, EntryOfOne DEF Open, local_vars
<1>3. ASSUME NEW a \in Author, NEW i \in Id, OpenFolder(a, i) PROVE EntryInv'
  <2>1. PICK w \in Workflows : Open(a, w, i) /\ w.reauthor /\ w.entry \in {i, NoId}
    BY <1>3, OpensFolder
  <2>2. folders[i].config # Missing
    BY <1>3 DEF OpenFolder, IsWhole
  <2>3. folders'[i].config # Missing
    BY <2>2, FoldersStay
  <2>4. opened'[a] = i /\ pc'[a] = "editing"
    BY <1>1, <2>1 DEF Open
  <2> QED
    BY <1>1, <2>1, <2>3, <2>4, EntryOfOne DEF Open, local_vars
<1>4. ASSUME NEW a \in Author, Review(a) PROVE EntryInv'
  <2>1. PICK v : /\ workflow' = [workflow EXCEPT ![a] = v]
                 /\ v.entry = workflow[a].entry /\ v.reauthor = workflow[a].reauthor
    BY <1>4, ReviewKeeps
  <2>2. pc[a] = "editing" /\ UNCHANGED <<pc, existed, folders, opened>>
    BY <1>4, ReviewKeeps DEF local_vars, disk_vars
  <2>3. v.entry # NoId => /\ v.reauthor /\ v.entry = opened[a]
                          /\ folders[opened[a]].config # Missing
    BY <2>1 DEF EntryInv
  <2> QED
    BY <1>1, <2>1, <2>2, <2>3, EntryOfOne
<1>5. ASSUME NEW a \in Author, Generate(a) PROVE EntryInv'
  <2> DEFINE r == IF workflow[a].report = "none" THEN Fresh(workflow[a]) ELSE workflow[a].report
             w == [workflow[a] EXCEPT !.report = r]
  <2>1. /\ workflow' = [workflow EXCEPT ![a] = w]
        /\ existed' = [existed EXCEPT ![a] = folders[PipelineId(workflow[a])] # NoFolder]
        /\ pc' = [pc EXCEPT ![a] = "target"] /\ UNCHANGED <<folders, opened>>
    BY <1>5 DEF Generate, disk_vars, history_vars
  <2> HIDE DEF r
  <2>2. w.entry = workflow[a].entry /\ w.reauthor = workflow[a].reauthor
    BY <1>1 DEF Workflows
  <2> HIDE DEF w
  <2>3. ASSUME w.entry # NoId
        PROVE  /\ w.reauthor /\ w.entry = opened[a]
               /\ folders[opened[a]].config # Missing /\ existed'[a]
    <3>1. PipelineId(workflow[a]) = opened[a] /\ folders[opened[a]].config # Missing
      BY <2>2, <2>3, EntryOf DEF EntryInv
    <3>2. folders[opened[a]] # NoFolder
      BY <3>1 DEF NoFolder
    <3>3. existed'[a] = (folders[PipelineId(workflow[a])] # NoFolder)
      BY <1>1, <2>1
    <3> QED
      BY <2>2, <2>3, <3>1, <3>2, <3>3 DEF EntryInv
  <2> QED
    BY <1>1, <2>1, <2>3, EntryOfOne
<1>6. ASSUME NEW a \in Author, NEW from, NEW to, Write(a, from, to), from \in Writing,
             UNCHANGED <<workflow, existed, opened>>,
             workflow[a].entry # NoId => to \notin {"registering", "read", "torn"}
      PROVE  EntryInv'
  BY <1>6, EntryOfWriter DEF Write
<1>7. /\ "target" \in Writing /\ "emptied" \in Writing /\ "configured" \in Writing
      /\ "blanked" \in Writing
      /\ "registering" \in Writing /\ "read" \in Writing /\ "torn" \in Writing
  BY DEF Writing
<1>8. ASSUME NEW a \in Author, EmptyConfig(a) \/ WriteConfig(a) \/ EmptyRunbook(a)
      PROVE  EntryInv'
  BY <1>6, <1>7, <1>8 DEF EmptyConfig, WriteConfig, EmptyRunbook, local_vars, history_vars
<1>9. ASSUME NEW a \in Author, WriteRunbook(a) PROVE EntryInv'
  <2>1. /\ pc[a] = "blanked"
        /\ Write(a, "blanked", IF existed[a] THEN "editing" ELSE "registering")
        /\ UNCHANGED <<workflow, existed, opened>>
    BY <1>9 DEF WriteRunbook, Write, local_vars, history_vars
  <2>2. workflow[a].entry # NoId => existed[a]
    BY <1>7, <2>1 DEF EntryInv
  <2> QED
    BY <1>6, <1>7, <2>1, <2>2
<1>10. ASSUME NEW a \in Author, ReadRegistry(a) \/ EmptyRegistry(a) \/ WriteRegistry(a)
       PROVE  EntryInv'
  <2>1. /\ pc[a] \in {"registering", "read", "torn"}
        /\ UNCHANGED <<workflow, existed, opened>>
        /\ \E to : pc' = [pc EXCEPT ![a] = to]
    BY <1>10
    DEF ReadRegistry, EmptyRegistry, WriteRegistry, Write, local_vars, history_vars
  <2>2. workflow[a].entry = NoId
    BY <2>1 DEF EntryInv
  <2> QED
    BY <2>1, <2>2, EntryOfWriter
<1>11. ASSUME NEW a \in Author, Quit(a) \/ Crash(a) PROVE EntryInv'
  <2>1. NoWorkflow.entry = NoId
    BY DEF NoWorkflow
  <2> QED
    BY <1>1, <1>11, <2>1, EntryOfOne DEF Quit, Crash, Leave
<1>12. ASSUME UNCHANGED <<pc, workflow, existed, opened>> PROVE EntryInv'
  BY <1>12, EntryOf, FoldersStay DEF EntryInv
<1>13. ASSUME NEW i \in Id, NEW e \in Encoding, HandEdit(i, e) PROVE EntryInv'
  BY <1>12, <1>13 DEF HandEdit, local_vars, history_vars
<1>14. CASE UNCHANGED vars
  BY <1>12, <1>14 DEF vars, local_vars, history_vars
<1> QED
  BY <1>2, <1>3, <1>4, <1>5, <1>8, <1>9, <1>10, <1>11, <1>13, <1>14 DEF Next, Save

\* Saving a registered Pipeline that is re-authored writes to the folder that
\* was opened and leaves the registry as it is.
THEOREM ReauthorsInPlace == Spec => ReauthorInPlace
<1> DEFINE InPlace ==
               \A a \in Author :
                   pc[a] \in Writing /\ pc'[a] # pc[a] /\ workflow[a].entry # NoId =>
                       /\ \A i \in Id \ {opened[a]} : folders'[i] = folders[i]
                       /\ registry' = registry
<1>1. Init => EntryInv
  BY DEF Init, EntryInv, NoWorkflow
<1>2. TypeInv /\ EntryInv /\ [Next]_vars => EntryInv'
  BY EntryStep
<1>3. TypeInv /\ EntryInv /\ [Next]_vars => [InPlace]_vars
  <2> SUFFICES ASSUME TypeInv, EntryInv, Next,
                      NEW a \in Author, pc[a] \in Writing, pc'[a] # pc[a],
                      workflow[a].entry # NoId
               PROVE  /\ \A i \in Id \ {opened[a]} : folders'[i] = folders[i]
                      /\ registry' = registry
    BY DEF InPlace
  <2>1. /\ pc \in [Author -> {"closed", "editing"} \cup Writing]
        /\ folders \in [Id -> FolderState]
        /\ "editing" \notin Writing /\ "closed" \notin Writing
    BY DEF TypeInv, TypeOK, Writing
  <2>2. PipelineId(workflow[a]) = opened[a] /\ pc[a] \notin {"registering", "read", "torn"}
    BY EntryOf DEF EntryInv
  <2>3. \A b \in Author : Review(b) => UNCHANGED pc
    BY ReviewKeeps
  <2>4. \A i \in Id, e \in Encoding : HandEdit(i, e) => UNCHANGED pc
    BY DEF HandEdit
  <2>5. PICK b \in Author : \/ \E c \in Command : Start(b, c)
                            \/ \E i \in Id : OpenFolder(b, i)
                            \/ Save(b) \/ Quit(b) \/ Crash(b)
    BY <2>3, <2>4 DEF Next
  <2>6. b = a
    BY <2>1, <2>5
    DEF Start, OpenFolder, Open, Save, Generate, EmptyConfig, WriteConfig, EmptyRunbook,
          WriteRunbook, ReadRegistry, EmptyRegistry, WriteRegistry, Write, Quit, Crash, Leave
  <2>7. CASE EmptyConfig(a) \/ WriteConfig(a) \/ EmptyRunbook(a) \/ WriteRunbook(a)
    BY <2>1, <2>2, <2>7 DEF EmptyConfig, WriteConfig, EmptyRunbook, WriteRunbook
  <2>8. CASE Crash(a)
    BY <2>8 DEF Crash, Leave, disk_vars
  <2>9. CASE \/ \E c \in Command : Start(a, c)
             \/ \E i \in Id : OpenFolder(a, i)
             \/ Generate(a) \/ Quit(a)
    BY <2>1, <2>9 DEF Start, OpenFolder, Open, Generate, Quit
  <2>10. CASE ReadRegistry(a) \/ EmptyRegistry(a) \/ WriteRegistry(a)
    BY <2>2, <2>10 DEF ReadRegistry, EmptyRegistry, WriteRegistry, Write
  <2> QED
    BY <2>5, <2>6, <2>7, <2>8, <2>9, <2>10 DEF Save
<1> QED
  BY <1>1, <1>2, <1>3, TypeInvariant, PTL DEF Spec, ReauthorInPlace

-----------------------------------------------------------------------------
(***************************************************************************)
(* What only several authors can break.                                    *)
(***************************************************************************)
ReaderInv == \A a \in Author : pc[a] = "read" => Registered \subseteq Range(seen[a])

\* An author that is alone never drops an entry of the registry: what it writes
\* back is what it read and one more, though nothing locks the file in between.
THEOREM LoneAuthorKeepsRegistry ==
    ASSUME \A a, b \in Author : a = b
    PROVE  Spec => RegistryGrows
<1> DEFINE Grows == \A a \in Author :
                        pc[a] = "read" /\ pc'[a] = "torn" => Registered \subseteq Range(seen[a])
<1>1. Init => ReaderInv
  BY DEF Init, ReaderInv
<1>2. TypeInv /\ ReaderInv /\ [Next]_vars => ReaderInv'
  <2> SUFFICES ASSUME TypeInv, ReaderInv, [Next]_vars, NEW a \in Author, pc'[a] = "read"
               PROVE  Registered' \subseteq Range(seen'[a])
    BY DEF ReaderInv
  <2>1. pc \in [Author -> {"closed", "editing"} \cup Writing] /\ seen \in [Author -> Seq(Id)]
    BY DEF TypeInv, TypeOK
  <2>2. ASSUME UNCHANGED <<pc, seen, registry>>
        PROVE  Registered' \subseteq Range(seen'[a])
    BY <2>2 DEF ReaderInv, Registered, IsWhole
  <2>3. CASE ReadRegistry(a)
    <3>1. seen'[a] = IF IsWhole(registry) THEN registry ELSE <<>>
      BY <2>1, <2>3 DEF ReadRegistry
    <3>2. registry' = registry
      BY <2>3 DEF ReadRegistry, disk_vars
    <3> QED
      BY <3>1, <3>2 DEF Registered, IsWhole
  <2>4. CASE Review(a)
    BY <2>2, <2>4, ReviewKeeps DEF local_vars, disk_vars
  <2>5. CASE \E i \in Id, e \in Encoding : HandEdit(i, e)
    BY <2>2, <2>5 DEF HandEdit, local_vars
  <2>6. CASE UNCHANGED vars
    BY <2>2, <2>6 DEF vars, local_vars, disk_vars
  <2>7. CASE \/ \E c \in Command : Start(a, c)
             \/ \E i \in Id : OpenFolder(a, i)
             \/ Generate(a) \/ EmptyConfig(a) \/ WriteConfig(a)
             \/ EmptyRunbook(a) \/ WriteRunbook(a)
             \/ EmptyRegistry(a) \/ WriteRegistry(a) \/ Quit(a) \/ Crash(a)
    <3>1. pc'[a] # "read"
      BY <2>1, <2>7
      DEF Start, OpenFolder, Open, Generate, EmptyConfig, WriteConfig, EmptyRunbook,
          WriteRunbook, EmptyRegistry, WriteRegistry, Write, Quit, Crash, Leave
    <3> QED
      BY <3>1
  <2> QED
    BY <2>3, <2>4, <2>5, <2>6, <2>7 DEF Next, Save
<1>3. ReaderInv => Grows
  BY DEF ReaderInv
<1>4. ReaderInv => [Grows]_vars
  BY <1>3
<1> QED
  BY <1>1, <1>2, <1>4, TypeInvariant, PTL DEF Spec, RegistryGrows

(***************************************************************************)
(* A green draft was read from its sample, which is the sample that the    *)
(* runbook names when the folder is whole.                                 *)
(***************************************************************************)
Judged(w) == w.report = "green" =>
                 w.draft # NoDraft /\ Readable(w.file, w.draft.layout, w.encoding)

JudgedInv == \A a \in Author : Judged(workflow[a]) /\
                               (pc[a] \in Writing => workflow[a].report = "green")

\* What is on disk of a Pipeline, where no setting was changed by hand.
Sound(f) == IsWhole(f.config) /\ f.config.other = "default" =>
                Readable(f.runbook, f.config.layout, f.config.encoding)

OfDraft(c, d) == IsWhole(c) /\ c.other = "default" =>
                     c.layout = d.layout /\ c.encoding = "utf-8"

Half == {"configured", "blanked"}

\* Until its runbook is written a folder has the new config and the old runbook or
\* an empty one.
FolderInv ==
    /\ \A i \in Id : \/ Sound(folders[i])
                     \/ \E a \in Author : pc[a] \in Half /\ PipelineId(workflow[a]) = i
    /\ \A a \in Author :
           pc[a] \in Half =>
               OfDraft(folders[PipelineId(workflow[a])].config, workflow[a].draft)

LEMMA FreshIsJudged ==
    ASSUME NEW w, w.draft # NoDraft, Fresh(w) = "green"
    PROVE  Readable(w.file, w.draft.layout, w.encoding)
BY DEF Fresh, Judge, ToConfig

LEMMA ReviewJudges ==
    ASSUME TypeInv, ReportInv, JudgedInv, NEW a \in Author, Review(a)
    PROVE  \E v : workflow' = [workflow EXCEPT ![a] = v] /\ Judged(v)
<1> DEFINE w == workflow[a]
           Goal == \E v : workflow' = [workflow EXCEPT ![a] = v] /\ Judged(v)
<1> SUFFICES Goal
  OBVIOUS
<1>1. w \in Workflows /\ (HasDraft(a) => w.draft \in Drafts) /\ Reported(w) /\ Judged(w)
  BY DraftOf DEF ReportInv, JudgedInv
<1>2. ASSUME NEW v, workflow' = [workflow EXCEPT ![a] = v], v.report = "none" PROVE Goal
  BY <1>2 DEF Judged
<1>3. ASSUME NEW d, Mutate(a, d) PROVE Goal
  <2> DEFINE v == [w EXCEPT !.draft = d, !.report = "none"]
  <2>1. workflow' = [workflow EXCEPT ![a] = v]
    BY <1>3 DEF Mutate, TypeInv, TypeOK
  <2>2. v.report = "none"
    BY <1>1 DEF Workflows
  <2> HIDE DEF v
  <2> QED
    BY <1>2, <2>1, <2>2
<1>4. ASSUME NEW s \in Sample, RefreshSample(a, s) PROVE Goal
  <2> DEFINE d == WithEvidenceOf(w.draft, s)
             r == IF Loads(ToConfig(d)) THEN "none" ELSE w.report
             v == [w EXCEPT !.draft = d, !.file = s, !.report = r]
  <2>1. workflow' = [workflow EXCEPT ![a] = v] /\ HasDraft(a) /\ w.layout # "fixed_width"
    BY <1>4 DEF RefreshSample
  <2>2. ToConfig(d) = ToConfig(w.draft)
    BY <1>1, <2>1, EvidenceKeepsConfig
  <2>3. w.report # "none" => Loads(ToConfig(w.draft))
    BY <1>1, <2>1 DEF Reported
  <2>4. r = "none"
    BY <2>2, <2>3
  <2> HIDE DEF d, r
  <2>5. v.report = "none"
    BY <1>1, <2>4 DEF Workflows
  <2> HIDE DEF v
  <2> QED
    BY <1>2, <2>1, <2>5
<1>5. ASSUME NEW l \in Layout, Reseed(a, l) PROVE Goal
  <2> DEFINE d == Seeded(w.dest_table, w.file, l)
             v == [w EXCEPT !.layout = l, !.draft = d, !.report = "none", !.acks = NoAcks]
  <2>1. workflow' = [workflow EXCEPT ![a] = v]
    BY <1>5 DEF Reseed
  <2> HIDE DEF d
  <2>2. v.report = "none"
    BY <1>1 DEF Workflows
  <2> HIDE DEF v
  <2> QED
    BY <1>2, <2>1, <2>2
<1>6. ASSUME NEW s \in Sample, NEW t \in Type, NEW b \in BOOLEAN, SetFixedWidthLayout(a, s, t, b) PROVE Goal
  <2> DEFINE d == FromLayout(w.dest_table, s, t, b)
             e == IF Readable(w.file, w.layout, w.encoding) THEN NoAcks ELSE w.acks
             v == [w EXCEPT !.draft = d, !.acks = e]
  <2>1. /\ workflow' = [workflow EXCEPT ![a] = v] /\ w.layout = "fixed_width"
        /\ "fixed_width" \in DOMAIN Header[s]
    BY <1>6 DEF SetFixedWidthLayout
  <2>2. d # NoDraft
    <3>1. w.dest_table \in Table
      BY <1>1 DEF Workflows
    <3> QED
      BY <2>1, <3>1, FromLayoutTypes, AuthoringAssumption
  <2>3. d.layout = "fixed_width"
    BY DEF FromLayout, NewDraft
  <2> HIDE DEF d, e
  <2>4. v.draft = d /\ v.file = w.file /\ v.encoding = w.encoding /\ v.report = w.report
    BY <1>1 DEF Workflows
  <2>5. w.report = "green" => Readable(w.file, "fixed_width", w.encoding)
    BY <1>1, <2>1 DEF Judged, TypeInv, DraftInv, HasDraft
  <2> HIDE DEF v
  <2> QED
    BY <2>1, <2>2, <2>3, <2>4, <2>5 DEF Judged
<1>7. ASSUME NEW n \in Name, Acknowledge(a, n) PROVE Goal
  <2>1. PICK i \in DOMAIN w.draft.columns :
                 workflow' = [workflow EXCEPT ![a].acks[n] = w.draft.columns[i].evidence]
    BY <1>7 DEF Acknowledge
  <2> DEFINE e == w.draft.columns[i].evidence
             v == [w EXCEPT !.acks = [w.acks EXCEPT ![n] = e]]
  <2>2. workflow' = [workflow EXCEPT ![a] = v]
    BY <1>1, <2>1 DEF Workflows
  <2> HIDE DEF e
  <2>3. /\ v.report = w.report /\ v.draft = w.draft
        /\ v.file = w.file /\ v.encoding = w.encoding
    BY <1>1 DEF Workflows
  <2> HIDE DEF v
  <2> QED
    BY <1>1, <2>2, <2>3 DEF Judged
<1>8. CASE Validate(a)
  <2> DEFINE r == Fresh(w)
             v == [w EXCEPT !.report = r]
  <2>1. HasDraft(a) /\ workflow' = [workflow EXCEPT ![a] = v]
    BY <1>8 DEF Validate
  <2>2. r = "green" => Readable(w.file, w.draft.layout, w.encoding)
    BY <2>1, FreshIsJudged DEF HasDraft
  <2> HIDE DEF r
  <2>3. /\ v.report = r /\ v.draft = w.draft
        /\ v.file = w.file /\ v.encoding = w.encoding
    BY <1>1 DEF Workflows
  <2> HIDE DEF v
  <2> QED
    BY <2>1, <2>2, <2>3 DEF Judged, HasDraft
<1>9. CASE \/ EditAny(a)
           \/ \E n \in Name, on \in BOOLEAN : Encrypt(a, n, on)
           \/ \E n, m \in Name : Duplicate(a, n, m)
           \/ \E mode \in {"append", "truncate", "cdc"} : ChooseWriteMode(a, mode)
  BY <1>3, <1>9 DEF EditAny, Edit, Encrypt, Duplicate, ChooseWriteMode
<1>10. CASE \/ \E c \in CdcChoice, given \in SUBSET {"keys", "sequence"} \ {{}} :
                  SetCdcSettings(a, given, c[1], c[2])
            \/ \E c \in Connector : SelectConnector(a, c)
            \/ \E given \in BOOLEAN : SetConnectorSetting(a, given)
  BY <1>3, <1>10 DEF SetCdcSettings, SelectConnector, SetConnectorSetting
<1> QED
  BY <1>4, <1>5, <1>6, <1>7, <1>8, <1>9, <1>10 DEF Review

\* A step of one author, v being its workflow after the step.
LEMMA JudgedOfOne ==
    ASSUME TypeInv, JudgedInv, NEW a \in Author, NEW v, Judged(v),
           workflow' = [workflow EXCEPT ![a] = v],
           \A b \in Author \ {a} : pc'[b] = pc[b],
           pc'[a] \in Writing => v.report = "green"
    PROVE  JudgedInv'
<1>1. \A b \in Author : workflow'[b] = IF b = a THEN v ELSE workflow[b]
  BY DEF TypeInv, TypeOK
<1>2. \A b \in Author : Judged(workflow'[b]) /\ (pc'[b] \in Writing => workflow'[b].report = "green")
  BY <1>1 DEF JudgedInv
<1> QED
  BY <1>2 DEF JudgedInv, Judged

LEMMA JudgedStep == TypeInv /\ ReportInv /\ JudgedInv /\ [Next]_vars => JudgedInv'
<1> SUFFICES ASSUME TypeInv, ReportInv, JudgedInv, [Next]_vars PROVE JudgedInv'
  OBVIOUS
<1>1. /\ pc \in [Author -> {"closed", "editing"} \cup Writing]
      /\ workflow \in [Author -> Workflows]
      /\ "editing" \notin Writing /\ "closed" \notin Writing
  BY DEF TypeInv, TypeOK, Writing
<1>2. ASSUME NEW a \in Author, NEW c \in Command, Start(a, c) PROVE JudgedInv'
  <2>1. PICK w : w.report = "none" /\ Open(a, w, NoId)
    BY <1>2, Starts
  <2> QED
    BY <1>1, <2>1, JudgedOfOne DEF Open, Judged
<1>3. ASSUME NEW a \in Author, NEW i \in Id, OpenFolder(a, i) PROVE JudgedInv'
  <2>1. PICK w : w.report = "none" /\ Open(a, w, i)
    BY <1>3, OpensFolder
  <2> QED
    BY <1>1, <2>1, JudgedOfOne DEF Open, Judged
<1>4. ASSUME NEW a \in Author, Review(a) PROVE JudgedInv'
  <2>1. PICK v : workflow' = [workflow EXCEPT ![a] = v] /\ Judged(v)
    BY <1>4, ReviewJudges
  <2>2. pc' = pc /\ pc[a] = "editing"
    BY <1>4, ReviewKeeps
  <2> QED
    BY <1>1, <2>1, <2>2, JudgedOfOne
<1>5. ASSUME NEW a \in Author, Generate(a) PROVE JudgedInv'
  <2> DEFINE w == workflow[a]
             v == [w EXCEPT !.report = "green"]
  <2>1. /\ workflow' = [workflow EXCEPT ![a] = v] /\ HasDraft(a)
        /\ w.report = "none" => Fresh(w) = "green"
        /\ w.report # "none" => w.report = "green"
        /\ pc' = [pc EXCEPT ![a] = "target"]
    BY <1>5 DEF Generate
  <2>2. w.draft # NoDraft /\ Readable(w.file, w.draft.layout, w.encoding)
    BY <2>1, FreshIsJudged DEF JudgedInv, Judged, HasDraft
  <2>3. /\ v.report = "green" /\ v.draft = w.draft
        /\ v.file = w.file /\ v.encoding = w.encoding
    BY <1>1 DEF Workflows
  <2> HIDE DEF v
  <2> QED
    BY <1>1, <2>1, <2>2, <2>3, JudgedOfOne DEF Judged
<1>6. ASSUME NEW a \in Author, NEW from, NEW to, Write(a, from, to), from \in Writing,
             UNCHANGED workflow
      PROVE  JudgedInv'
  <2>1. workflow' = [workflow EXCEPT ![a] = workflow[a]]
    BY <1>1, <1>6
  <2>2. Judged(workflow[a]) /\ workflow[a].report = "green"
    BY <1>6 DEF JudgedInv, Write
  <2> QED
    BY <1>1, <1>6, <2>1, <2>2, JudgedOfOne DEF Write
<1>7. /\ "target" \in Writing /\ "emptied" \in Writing /\ "configured" \in Writing
      /\ "blanked" \in Writing
      /\ "registering" \in Writing /\ "read" \in Writing /\ "torn" \in Writing
  BY DEF Writing
<1>8. ASSUME NEW a \in Author,
             \/ EmptyConfig(a) \/ WriteConfig(a) \/ EmptyRunbook(a) \/ WriteRunbook(a)
             \/ ReadRegistry(a) \/ EmptyRegistry(a) \/ WriteRegistry(a)
      PROVE  JudgedInv'
  BY <1>6, <1>7, <1>8
  DEF EmptyConfig, WriteConfig, EmptyRunbook, WriteRunbook, ReadRegistry, EmptyRegistry,
      WriteRegistry
<1>9. ASSUME NEW a \in Author, Quit(a) \/ Crash(a) PROVE JudgedInv'
  <2>1. NoWorkflow.report = "none"
    BY DEF NoWorkflow
  <2> QED
    BY <1>1, <1>9, <2>1, JudgedOfOne DEF Quit, Crash, Leave, Judged
<1>10. ASSUME UNCHANGED <<pc, workflow>> PROVE JudgedInv'
  BY <1>10 DEF JudgedInv, Judged
<1>11. ASSUME NEW i \in Id, NEW e \in Encoding, HandEdit(i, e) PROVE JudgedInv'
  BY <1>10, <1>11 DEF HandEdit
<1>12. CASE UNCHANGED vars
  BY <1>10, <1>12 DEF vars
<1> QED
  BY <1>2, <1>3, <1>4, <1>5, <1>8, <1>9, <1>11, <1>12 DEF Next, Save

LEMMA FolderStep ==
    ASSUME \A a, b \in Author : a = b,
           \A s \in Sample : EncodingOf[s] = "utf-8",
           TypeInv, JudgedInv, FolderInv, [Next]_vars, crashes' = crashes
    PROVE  FolderInv'
<1>1. /\ pc \in [Author -> {"closed", "editing"} \cup Writing]
      /\ workflow \in [Author -> Workflows] /\ folders \in [Id -> FolderState]
      /\ Missing # Torn /\ crashes \in Nat
  BY AuthoringAssumption DEF TypeInv, TypeOK
<1>2. ASSUME NEW a \in Author, pc[a] \notin Half, pc'[a] \notin Half,
             \A i \in Id : folders'[i] = folders[i] \/ ~IsWhole(folders'[i].config)
      PROVE  FolderInv'
  <2>1. \A b \in Author : b = a
    OBVIOUS
  <2>2. \A i \in Id : Sound(folders[i])
    BY <1>2, <2>1 DEF FolderInv
  <2>3. \A i \in Id : Sound(folders'[i])
    BY <1>2, <2>2 DEF Sound
  <2> QED
    BY <1>2, <2>1, <2>3 DEF FolderInv, Sound, IsWhole
<1>3. ASSUME UNCHANGED <<pc, workflow, folders>> PROVE FolderInv'
  BY <1>3 DEF FolderInv, Sound, IsWhole, OfDraft, PipelineId
<1>4. ASSUME NEW a \in Author,
             \/ \E c \in Command : Start(a, c)
             \/ \E i \in Id : OpenFolder(a, i)
             \/ Generate(a) \/ ReadRegistry(a) \/ EmptyRegistry(a) \/ WriteRegistry(a)
             \/ Quit(a)
      PROVE  FolderInv'
  <2>1. pc[a] \notin Half /\ pc'[a] \notin Half /\ folders' = folders
    BY <1>1, <1>4
    DEF Start, OpenFolder, Open, Generate, ReadRegistry, EmptyRegistry, WriteRegistry,
        Write, Quit, Leave, disk_vars, Half, Writing
  <2> QED
    BY <1>2, <2>1
<1>5. ASSUME NEW a \in Author, Review(a) PROVE FolderInv'
  <2>1. pc[a] = "editing" /\ pc' = pc /\ folders' = folders
    BY <1>5, ReviewKeeps DEF disk_vars
  <2> QED
    BY <1>2, <2>1 DEF Half
<1>6. ASSUME NEW a \in Author, EmptyConfig(a) PROVE FolderInv'
  <2> DEFINE j == PipelineId(workflow[a])
  <2>1. /\ pc[a] = "target" /\ pc'[a] = "emptied"
        /\ folders' = [folders EXCEPT ![j].config = Torn]
    BY <1>1, <1>6 DEF EmptyConfig, Write
  <2>2. j \in Id
    BY IdOf
  <2> HIDE DEF j
  <2>3. \A i \in Id : folders'[i] = folders[i] \/ ~IsWhole(folders'[i].config)
    BY <1>1, <2>1, <2>2 DEF IsWhole, FolderState
  <2> QED
    BY <1>2, <2>1, <2>3 DEF Half
<1>7. ASSUME NEW a \in Author, WriteConfig(a) PROVE FolderInv'
  <2> DEFINE j == PipelineId(workflow[a])
             d == workflow[a].draft
             c == ToConfig(d)
  <2>1. /\ pc[a] = "emptied" /\ pc'[a] = "configured" /\ workflow' = workflow
        /\ folders' = [folders EXCEPT ![j].config = c]
    BY <1>1, <1>7 DEF WriteConfig, Write
  <2>2. j \in Id /\ PipelineId(workflow'[a]) = j
    BY <2>1, IdOf DEF PipelineId
  <2>3. c.layout = d.layout /\ c.encoding = "utf-8"
    BY DEF ToConfig
  <2> HIDE DEF j, c
  <2>4. \A i \in Id : Sound(folders[i])
    BY <2>1 DEF FolderInv, Half
  <2>5. folders'[j].config = c /\ \A i \in Id \ {j} : folders'[i] = folders[i]
    BY <1>1, <2>1, <2>2 DEF FolderState
  <2>6. \A i \in Id \ {j} : Sound(folders'[i])
    BY <2>4, <2>5 DEF Sound
  <2>7. OfDraft(folders'[j].config, d)
    BY <2>3, <2>5 DEF OfDraft
  <2>8. \A i \in Id : \/ Sound(folders'[i])
                      \/ \E b \in Author : pc'[b] \in Half /\ PipelineId(workflow'[b]) = i
    BY <2>1, <2>2, <2>6 DEF Half
  <2>9. \A b \in Author : OfDraft(folders'[PipelineId(workflow'[b])].config, workflow'[b].draft)
    <3>1. \A b \in Author : b = a
      OBVIOUS
    <3>2. OfDraft(folders'[PipelineId(workflow'[a])].config, workflow'[a].draft)
      BY <2>1, <2>2, <2>7
    <3> QED
      BY <3>1, <3>2
  <2> QED
    BY <2>8, <2>9 DEF FolderInv, Sound, OfDraft, IsWhole, PipelineId
<1>8. ASSUME NEW a \in Author, WriteRunbook(a) PROVE FolderInv'
  <2> DEFINE w == workflow[a]
             j == PipelineId(w)
  <2>1. /\ pc[a] = "blanked" /\ pc'[a] \notin Half
        /\ folders' = [folders EXCEPT ![j].runbook = w.file]
    BY <1>1, <1>8 DEF WriteRunbook, Write, Half
  <2>2. j \in Id /\ OfDraft(folders[j].config, w.draft)
    BY <2>1, IdOf DEF FolderInv, Half
  <2>3. Readable(w.file, w.draft.layout, w.encoding)
    BY <2>1 DEF JudgedInv, Judged, Writing
  <2>4. Readable(w.file, w.draft.layout, "utf-8")
    BY <2>3 DEF Readable
  <2>5. \A i \in Id \ {j} : Sound(folders[i])
    <3>1. \A b \in Author : b = a
      OBVIOUS
    <3> QED
      BY <3>1 DEF FolderInv
  <2> HIDE DEF w, j
  <2>6. /\ folders'[j].config = folders[j].config /\ folders'[j].runbook = w.file
        /\ \A i \in Id \ {j} : folders'[i] = folders[i]
    BY <1>1, <2>1, <2>2 DEF FolderState
  <2>7. Sound(folders'[j])
    BY <2>2, <2>4, <2>6 DEF Sound, OfDraft
  <2>8. \A i \in Id : Sound(folders'[i])
    BY <2>5, <2>6, <2>7 DEF Sound
  <2>9. \A b \in Author : pc'[b] \notin Half
    <3>1. \A b \in Author : b = a
      OBVIOUS
    <3> QED
      BY <2>1, <3>1
  <2> QED
    BY <2>8, <2>9 DEF FolderInv, Sound, IsWhole
<1>12. ASSUME NEW a \in Author, EmptyRunbook(a) PROVE FolderInv'
  <2> DEFINE j == PipelineId(workflow[a])
             d == workflow[a].draft
  <2>1. /\ pc[a] = "configured" /\ pc'[a] = "blanked" /\ workflow' = workflow
        /\ folders' = [folders EXCEPT ![j].runbook = NoSample]
    BY <1>1, <1>12 DEF EmptyRunbook, Write, local_vars
  <2>2. j \in Id /\ PipelineId(workflow'[a]) = j
    BY <2>1, IdOf DEF PipelineId
  <2>3. OfDraft(folders[j].config, d)
    BY <2>1 DEF FolderInv, Half
  <2>4. \A b \in Author : b = a
    OBVIOUS
  <2> HIDE DEF j
  <2>5. /\ folders'[j].config = folders[j].config
        /\ \A i \in Id \ {j} : folders'[i] = folders[i]
    BY <1>1, <2>1, <2>2 DEF FolderState
  <2>6. \A i \in Id \ {j} : Sound(folders'[i])
    BY <2>4, <2>5 DEF FolderInv, Sound, j
  <2>7. OfDraft(folders'[j].config, d)
    BY <2>3, <2>5 DEF OfDraft
  <2>8. \A i \in Id : \/ Sound(folders'[i])
                      \/ \E b \in Author : pc'[b] \in Half /\ PipelineId(workflow'[b]) = i
    BY <2>1, <2>2, <2>6 DEF Half
  <2>9. \A b \in Author : OfDraft(folders'[PipelineId(workflow'[b])].config, workflow'[b].draft)
    <3>1. OfDraft(folders'[PipelineId(workflow'[a])].config, workflow'[a].draft)
      BY <2>1, <2>2, <2>7
    <3> QED
      BY <2>4, <3>1
  <2> QED
    BY <2>8, <2>9 DEF FolderInv, Sound, OfDraft, IsWhole, PipelineId
<1>9. ASSUME NEW i \in Id, NEW e \in Encoding, HandEdit(i, e) PROVE FolderInv'
  <2> DEFINE c == [folders[i].config EXCEPT !.other = "set", !.encoding = e]
  <2>1. folders[i].config \in Configs
    BY <1>9, WholeConfig DEF HandEdit
  <2>2. folders' = [folders EXCEPT ![i].config = c] /\ pc' = pc /\ workflow' = workflow
    BY <1>1, <1>9 DEF HandEdit, FolderState
  <2>3. c.other = "set"
    BY <2>1 DEF Configs
  <2> HIDE DEF c
  <2>4. /\ folders'[i].config.other = "set"
        /\ \A j \in Id \ {i} : folders'[j] = folders[j]
    BY <1>1, <2>2, <2>3 DEF FolderState
  <2>5. \A j \in Id : Sound(folders[j]) => Sound(folders'[j])
    BY <2>4 DEF Sound
  <2>6. \A j \in Id : \A d : OfDraft(folders[j].config, d) => OfDraft(folders'[j].config, d)
    BY <2>4 DEF OfDraft
  <2>7. \A b \in Author : /\ PipelineId(workflow'[b]) = PipelineId(workflow[b])
                          /\ PipelineId(workflow[b]) \in Id
    BY <2>2, IdOf DEF PipelineId
  <2>8. \A j \in Id : \/ Sound(folders'[j])
                      \/ \E b \in Author : pc'[b] \in Half /\ PipelineId(workflow'[b]) = j
    BY <2>2, <2>5, <2>7 DEF FolderInv
  <2>9. \A b \in Author :
            pc'[b] \in Half =>
                OfDraft(folders'[PipelineId(workflow'[b])].config, workflow'[b].draft)
    BY <2>2, <2>6, <2>7 DEF FolderInv
  <2> QED
    BY <2>8, <2>9 DEF FolderInv, Sound, OfDraft, IsWhole, PipelineId
<1>10. \A a \in Author : ~Crash(a)
  BY <1>1 DEF Crash
<1>11. CASE UNCHANGED vars
  BY <1>3, <1>11 DEF vars, disk_vars
<1> QED
  BY <1>4, <1>5, <1>6, <1>7, <1>8, <1>9, <1>10, <1>11, <1>12 DEF Next, Save

\* filedge run can read the sample of every Pipeline that was generated, as
\* Authoring Validation could, if every File is in UTF-8, one author alone works
\* on the workspace, and it has not died while it wrote.
THEOREM GreenIsLoadable ==
    ASSUME \A a, b \in Author : a = b,
           \A s \in Sample : EncodingOf[s] = "utf-8",
           \A ws \in Workspace : \A i \in DOMAIN ws :
               ws[i].config.other = "default" =>
                   Readable(ws[i].runbook, ws[i].config.layout, ws[i].config.encoding)
    PROVE  Spec => [](crashes = 0 => GreenMeansLoadable)
<1> DEFINE Inv == JudgedInv /\ (crashes = 0 => FolderInv)
<1>1. Init => Inv
  <2> SUFFICES ASSUME Init PROVE Inv
    OBVIOUS
  <2>1. pc = [a \in Author |-> "closed"] /\ workflow = [a \in Author |-> NoWorkflow]
    BY DEF Init
  <2>2. JudgedInv
    BY <2>1 DEF JudgedInv, Judged, NoWorkflow, Writing
  <2>3. PICK ws \in Workspace :
            folders = [i \in Id |-> IF i \in DOMAIN ws THEN ws[i] ELSE NoFolder]
    BY DEF Init
  <2>4. \A i \in Id : Sound(folders[i])
    BY <2>3 DEF Sound, NoFolder, IsWhole
  <2>5. FolderInv
    BY <2>1, <2>4 DEF FolderInv, Half
  <2> QED
    BY <2>2, <2>5
<1>2. TypeInv /\ ReportInv /\ Inv /\ [Next]_vars => Inv'
  <2> SUFFICES ASSUME TypeInv, ReportInv, Inv, [Next]_vars, crashes' = 0
               PROVE  FolderInv'
    BY JudgedStep
  <2>1. crashes \in Nat
    BY AuthoringAssumption DEF TypeInv, TypeOK
  <2>2. crashes' \in {crashes, crashes + 1}
    <3>1. \A a \in Author : Review(a) => crashes' = crashes
      <4> SUFFICES ASSUME NEW a \in Author, Review(a) PROVE crashes' = crashes
        OBVIOUS
      <4>1. \A d : Mutate(a, d) => crashes' = crashes
        BY DEF Mutate, count_vars
      <4>2. CASE \/ EditAny(a)
                 \/ \E n \in Name, on \in BOOLEAN : Encrypt(a, n, on)
                 \/ \E n, m \in Name : Duplicate(a, n, m)
                 \/ \E mode \in {"append", "truncate", "cdc"} : ChooseWriteMode(a, mode)
        BY <4>1, <4>2 DEF EditAny, Edit, Encrypt, Duplicate, ChooseWriteMode
      <4>3. CASE \/ \E c \in CdcChoice, given \in SUBSET {"keys", "sequence"} \ {{}} :
                        SetCdcSettings(a, given, c[1], c[2])
                 \/ \E c \in Connector : SelectConnector(a, c)
                 \/ \E given \in BOOLEAN : SetConnectorSetting(a, given)
        BY <4>1, <4>3 DEF SetCdcSettings, SelectConnector, SetConnectorSetting
      <4>4. CASE \/ \E s \in Sample : RefreshSample(a, s)
                 \/ \E l \in Layout : Reseed(a, l)
                 \/ \E s \in Sample, t \in Type, b \in BOOLEAN : SetFixedWidthLayout(a, s, t, b)
                 \/ \E n \in Name : Acknowledge(a, n)
                 \/ Validate(a)
        BY <4>4 DEF RefreshSample, Reseed, SetFixedWidthLayout, Acknowledge, Validate,
                    count_vars
      <4> QED
        BY <4>2, <4>3, <4>4 DEF Review
    <3>2. \A a \in Author : Save(a) \/ Quit(a) => crashes' = crashes
      BY DEF Save, Generate, EmptyConfig, WriteConfig, EmptyRunbook, WriteRunbook,
             ReadRegistry, EmptyRegistry, WriteRegistry, Quit, count_vars
    <3>3. \A a \in Author : (\E c \in Command : Start(a, c)) \/ (\E i \in Id : OpenFolder(a, i))
              => crashes' = crashes
      BY DEF Start, OpenFolder, Open
    <3>4. \A a \in Author : Crash(a) => crashes' = crashes + 1
      BY DEF Crash
    <3>5. \A i \in Id, e \in Encoding : HandEdit(i, e) => crashes' = crashes
      BY DEF HandEdit, count_vars
    <3>6. UNCHANGED vars => crashes' = crashes
      BY DEF vars, count_vars
    <3> QED
      BY <3>1, <3>2, <3>3, <3>4, <3>5, <3>6 DEF Next
  <2>3. crashes = 0
    BY <2>1, <2>2
  <2> QED
    BY <2>3, FolderStep
<1>3. Inv => (crashes = 0 => GreenMeansLoadable)
  BY DEF FolderInv, Half, Sound, GreenMeansLoadable, Writing
<1>4. Init => ReportInv
  BY DEF Init, ReportInv, Reported, NoWorkflow
<1>5. TypeInv /\ ReportInv /\ [Next]_vars => ReportInv'
  BY ReportStep
<1> QED
  BY <1>1, <1>2, <1>3, <1>4, <1>5, TypeInvariant, PTL DEF Spec
=============================================================================
