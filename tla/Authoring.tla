------------------------------ MODULE Authoring ------------------------------
(***************************************************************************)
(* Pipeline Authoring (src/filedge/authoring_workflow.py): what one        *)
(* AuthoringWorkflow does to its draft, and how it writes the Pipeline     *)
(* Folder and the Pipeline Registry (pipeline_folder.py,                   *)
(* pipeline_registry.py), which the authors of a workspace share and       *)
(* nothing locks.  An author is one `filedge author`, or one program that  *)
(* uses the workflow without the interface.  A method that raises before   *)
(* it changes anything is no step; one that raises after Authoring         *)
(* Validation has run is the step Validate.                                *)
(***************************************************************************)
EXTENDS Draft, SequencesExt

CONSTANTS
    Author,
    Id,            \* Pipeline ids, also the names of the folders
    Slug,          \* slugify_pipeline_id
    Command,       \* the ways `filedge author <sample>` is called
    CdcChoice,     \* the pairs <<keys, sequence_by>> to consider
    Workspace,     \* the workspaces to begin with: Pipeline Folders by id
    NoId, NoTable, NoDraft,
    Missing, Torn, \* a file that is not there; that open(..., "w") has emptied
    MaxSessions,   \* bound: starts of a workflow
    MaxEdits,      \* bound: changes of drafts, and of pipeline.yaml by hand
    MaxCrashes     \* bound: authors that die while they write

ASSUME AuthoringAssumption ==
    /\ NoId \notin Id /\ NoTable \notin Table /\ NoDraft \notin Drafts
    /\ Missing # Torn
    /\ {Missing, Torn} \cap (Configs \cup Seq(Id) \cup Sample \cup {NoSample}) = {}
    /\ Slug \in [Table -> Id]
    /\ \A c \in Command :
           /\ c.file \in Sample /\ c.layout \in DOMAIN Header[c.file]
           /\ c.encoding \in Encoding
           /\ c.dest_table \in Table /\ c.out \in Table \cup {NoTable}
    /\ CdcChoice \subseteq (SUBSET Name) \X (Name \cup {NoName})
    /\ \A ws \in Workspace : /\ DOMAIN ws \subseteq Id /\ IsFiniteSet(DOMAIN ws)
                              /\ \A i \in DOMAIN ws :
                                     ws[i] \in [config : Configs, runbook : Sample]
    /\ MaxSessions \in Nat /\ MaxEdits \in Nat /\ MaxCrashes \in Nat

VARIABLES
    pc,          \* where an author is
    workflow,    \* its AuthoringWorkflow
    existed,     \* generate: folder_exists
    seen,        \* generate: the registry as it was read
    folders,     \* pipelines/<id>: pipeline.yaml and RUNBOOK.md
    registry,    \* pipeline-registry.yaml
    sessions, edits, crashes,
    opened,      \* history: the folder that is re-authored
    moved        \* history: a column was renamed, or the sample refreshed

disk_vars == <<folders, registry>>
local_vars == <<existed, seen>>
count_vars == <<sessions, crashes>>
history_vars == <<opened, moved>>
vars == <<pc, workflow, local_vars, disk_vars, count_vars, edits, history_vars>>

-----------------------------------------------------------------------------
NoAcks == [n \in Name |-> "none"]

Workflows == [file : Sample \cup {NoSample}, layout : Layout, encoding : Encoding,
              dest_table : Table, out : Table \cup {NoTable},
              reauthor : BOOLEAN, entry : Id \cup {NoId},
              draft : Drafts \cup {NoDraft}, report : {"none", "green", "red"},
              acks : [Name -> Kind \cup {"none"}]]

NoWorkflow == [file |-> NoSample, layout |-> "csv", encoding |-> "utf-8",
               dest_table |-> CHOOSE t \in Table : TRUE, out |-> NoTable,
               reauthor |-> FALSE, entry |-> NoId,
               draft |-> NoDraft, report |-> "none", acks |-> NoAcks]

\* A runbook is the sample File that it names, or NoSample if it names none.
NoFolder == [config |-> Missing, runbook |-> Missing]
FolderState == [config : Configs \cup {Missing, Torn},
                runbook : Sample \cup {NoSample, Missing}]

Writing == {"target", "emptied", "configured", "blanked", "registering", "read", "torn"}

IsWhole(f) == f \notin {Missing, Torn}

Registered == IF IsWhole(registry) THEN Range(registry) ELSE {}

Init ==
    /\ pc = [a \in Author |-> "closed"]
    /\ workflow = [a \in Author |-> NoWorkflow]
    /\ existed = [a \in Author |-> FALSE]
    /\ seen = [a \in Author |-> <<>>]
    /\ \E ws \in Workspace :
           /\ folders = [i \in Id |-> IF i \in DOMAIN ws THEN ws[i] ELSE NoFolder]
           /\ registry = IF ws = <<>> THEN Missing ELSE SetToSeq(DOMAIN ws)
    /\ sessions = 0 /\ edits = 0 /\ crashes = 0
    /\ opened = [a \in Author |-> NoId]
    /\ moved = [a \in Author |-> FALSE]

-----------------------------------------------------------------------------
(***************************************************************************)
(* Start: from a sample File, or from a Pipeline Folder.                   *)
(***************************************************************************)
Open(a, w, i) ==
    /\ pc[a] = "closed" /\ sessions < MaxSessions
    /\ sessions' = sessions + 1
    /\ pc' = [pc EXCEPT ![a] = "editing"]
    /\ workflow' = [workflow EXCEPT ![a] = w]
    /\ opened' = [opened EXCEPT ![a] = i]
    /\ moved' = [moved EXCEPT ![a] = FALSE]
    /\ UNCHANGED <<local_vars, disk_vars, crashes, edits>>

\* A Fixed-Width Layout is not inferred: there is no draft yet.
CanSeed(s, l, encoding) == l = "fixed_width" \/ Readable(s, l, encoding)
Seeded(t, s, l) == IF l = "fixed_width" THEN NoDraft ELSE FromSample(t, s, l)

Start(a, c) ==
    /\ CanSeed(c.file, c.layout, c.encoding)
    /\ Open(a, [file |-> c.file, layout |-> c.layout, encoding |-> c.encoding,
                dest_table |-> c.dest_table, out |-> c.out,
                reauthor |-> FALSE, entry |-> NoId,
                draft |-> Seeded(c.dest_table, c.file, c.layout),
                report |-> "none", acks |-> NoAcks], NoId)

\* load_registry: the file is there, and every folder it names has a config.
RegistryLoads ==
    /\ IsWhole(registry)
    /\ \A i \in Registered : folders[i].config # Missing

OpenFolder(a, i) ==
    LET c == folders[i].config
    IN  /\ IsWhole(c) /\ Loads(c)
        /\ RegistryLoads
        /\ Open(a, [file |-> IF folders[i].runbook = Missing THEN NoSample
                             ELSE folders[i].runbook,
                    layout |-> c.layout, encoding |-> c.encoding,
                    dest_table |-> c.dest_table, out |-> NoTable,
                    reauthor |-> TRUE,
                    entry |-> IF i \in Registered THEN i ELSE NoId,
                    draft |-> FromConfig(c), report |-> "none",
                    acks |-> NoAcks], i)

-----------------------------------------------------------------------------
(***************************************************************************)
(* Review: edits, acknowledgements, Authoring Validation.                  *)
(***************************************************************************)
\* Variant: the report outlives the edit.
MutateKeepsReport(a, d) ==
    /\ pc[a] = "editing" /\ edits < MaxEdits
    /\ edits' = edits + 1
    /\ workflow' = [workflow EXCEPT ![a].draft = d]
    /\ UNCHANGED <<pc, local_vars, disk_vars, count_vars, opened>>

\* A mutator: it ends in _mutated.
Mutate(a, d) ==
    /\ pc[a] = "editing" /\ edits < MaxEdits
    /\ edits' = edits + 1
    /\ workflow' = [workflow EXCEPT ![a].draft = d, ![a].report = "none"]
    /\ UNCHANGED <<pc, local_vars, disk_vars, count_vars, opened>>

HasDraft(a) == workflow[a].draft # NoDraft

\* The interface edits the row at the cursor and passes on its source.
Edit(a, f, v) ==
    /\ HasDraft(a)
    /\ LET d == workflow[a].draft
       IN  \E i \in DOMAIN d.columns : Mutate(a, EditColumn(d, d.columns[i].source, f, v))
    /\ moved' = [moved EXCEPT ![a] = @ \/ f = "source"]

EditAny(a) ==
    \/ \E n \in Name : Edit(a, "source", n) \/ Edit(a, "dest", n)
    \/ \E t \in Type : Edit(a, "type", t)
    \/ \E b \in BOOLEAN : Edit(a, "required", b)

Encrypt(a, n, on) ==
    /\ HasDraft(a)
    /\ \E i \in DOMAIN workflow[a].draft.columns : workflow[a].draft.columns[i].dest = n
    /\ Mutate(a, SetEncryption(workflow[a].draft, n, on))
    /\ UNCHANGED moved

Duplicate(a, n, new_dest) ==
    /\ HasDraft(a)
    /\ \E i \in DOMAIN workflow[a].draft.columns : workflow[a].draft.columns[i].dest = n
    /\ CanDuplicate(workflow[a].draft, new_dest)
    /\ Mutate(a, DuplicateColumn(workflow[a].draft, n, new_dest))
    /\ UNCHANGED moved

ChooseWriteMode(a, mode) ==
    /\ HasDraft(a)
    /\ Mutate(a, [workflow[a].draft EXCEPT !.write_mode = mode])
    /\ UNCHANGED moved

\* Either setting, or both; the other one is left as it is.
SetCdcSettings(a, given, keys, sequence_by) ==
    /\ HasDraft(a)
    /\ Mutate(a, [workflow[a].draft EXCEPT
           !.keys = IF "keys" \in given THEN keys ELSE @,
           !.sequence_by = IF "sequence" \in given THEN sequence_by ELSE @])
    /\ UNCHANGED moved

SelectConnector(a, c) ==
    /\ HasDraft(a)
    /\ Mutate(a, ChooseConnector(workflow[a].draft, c))
    /\ UNCHANGED moved

\* The required setting is given, or set to nothing.
SetConnectorSetting(a, given) ==
    /\ HasDraft(a) /\ workflow[a].draft.connector \in NeedsSetting
    /\ Mutate(a, [workflow[a].draft EXCEPT !.ready = given])
    /\ UNCHANGED moved

\* After the evidence and the file are replaced, the preview raises if the
\* draft does not load, and _mutated is not reached.
RefreshSample(a, s) ==
    LET w == workflow[a]
        d == WithEvidenceOf(w.draft, s)
    IN  /\ pc[a] = "editing" /\ edits < MaxEdits
        /\ HasDraft(a) /\ w.layout # "fixed_width"
        /\ Readable(s, w.layout, w.encoding)
        /\ edits' = edits + 1
        /\ workflow' = [workflow EXCEPT ![a] =
               [w EXCEPT !.draft = d, !.file = s,
                         !.report = IF Loads(ToConfig(d)) THEN "none" ELSE @]]
        /\ moved' = [moved EXCEPT ![a] = TRUE]
        /\ UNCHANGED <<pc, local_vars, disk_vars, count_vars, opened>>

\* Variant: acknowledgements outlive the draft.
ReseedKeepsAcks(a, l) ==
    LET w == workflow[a]
    IN  /\ pc[a] = "editing" /\ edits < MaxEdits
        /\ CanSeed(w.file, l, w.encoding) /\ w.file # NoSample
        /\ edits' = edits + 1
        /\ workflow' = [workflow EXCEPT ![a] =
               [w EXCEPT !.layout = l, !.draft = Seeded(w.dest_table, w.file, l),
                         !.report = "none"]]
        /\ moved' = [moved EXCEPT ![a] = FALSE]
        /\ UNCHANGED <<pc, local_vars, disk_vars, count_vars, opened>>

\* choose_format, choose_sheet: everything that came from the sample starts over.
Reseed(a, l) ==
    LET w == workflow[a]
    IN  /\ pc[a] = "editing" /\ edits < MaxEdits
        /\ CanSeed(w.file, l, w.encoding) /\ w.file # NoSample
        /\ edits' = edits + 1
        /\ workflow' = [workflow EXCEPT ![a] =
               [w EXCEPT !.layout = l, !.draft = Seeded(w.dest_table, w.file, l),
                         !.report = "none", !.acks = NoAcks]]
        /\ moved' = [moved EXCEPT ![a] = FALSE]
        /\ UNCHANGED <<pc, local_vars, disk_vars, count_vars, opened>>

\* set_fixed_width_layout, not through _mutated.  A layout of s is entered; s is the
\* sample, if that can be read.  If not, the preview raises when the draft has been
\* replaced, and the acknowledgements stay.
SetFixedWidthLayout(a, s, type, required) ==
    LET w == workflow[a]
        readable == Readable(w.file, w.layout, w.encoding)
    IN  /\ pc[a] = "editing" /\ edits < MaxEdits
        /\ w.layout = "fixed_width"
        /\ "fixed_width" \in DOMAIN Header[s] /\ (readable => s = w.file)
        /\ edits' = edits + 1
        /\ workflow' = [workflow EXCEPT ![a] =
               [w EXCEPT !.draft = FromLayout(w.dest_table, s, type, required),
                         !.acks = IF readable THEN NoAcks ELSE @]]
        /\ UNCHANGED <<pc, local_vars, disk_vars, count_vars, history_vars>>

\* Acknowledges the first risky column with the source.
Acknowledge(a, n) ==
    /\ pc[a] = "editing" /\ HasDraft(a)
    /\ LET cols == workflow[a].draft.columns
           risky == {i \in DOMAIN cols : cols[i].source = n /\ cols[i].tier \in RiskyTier}
       IN  \E i \in risky :
               /\ \A j \in risky : i <= j
               /\ workflow' = [workflow EXCEPT ![a].acks[n] = cols[i].evidence]
    /\ UNCHANGED <<pc, local_vars, disk_vars, count_vars, edits, history_vars>>

\* The report on the draft as it is; to_config raises if it does not load.
Fresh(w) == Judge(ToConfig(w.draft), w.file, w.encoding)

Validate(a) ==
    /\ pc[a] = "editing" /\ HasDraft(a) /\ Loads(ToConfig(workflow[a].draft))
    /\ workflow' = [workflow EXCEPT ![a].report = Fresh(workflow[a])]
    /\ UNCHANGED <<pc, local_vars, disk_vars, count_vars, edits, history_vars>>

-----------------------------------------------------------------------------
(***************************************************************************)
(* Generate: the folder, then the registry.                                *)
(***************************************************************************)
\* Variant: the id is always derived, also of a registered Pipeline.
PipelineIdDerived(w) == Slug[IF w.out # NoTable THEN w.out ELSE w.dest_table]

PipelineId(w) ==
    IF w.reauthor /\ w.entry # NoId THEN w.entry
    ELSE Slug[IF w.out # NoTable THEN w.out ELSE w.dest_table]

Acknowledged(w) == \A c \in Risky(w.draft) : w.acks[c.source] # "none"

\* A red draft, or a folder in the way, ends generate after its validation.
Generate(a) ==
    LET w == workflow[a]
        report == IF w.report = "none" THEN Fresh(w) ELSE w.report
        there == folders[PipelineId(w)] # NoFolder
    IN  /\ pc[a] = "editing" /\ HasDraft(a)
        /\ w.draft.ready /\ Acknowledged(w)
        /\ Loads(ToConfig(w.draft))
        /\ report = "green" /\ (there => w.reauthor)
        /\ workflow' = [workflow EXCEPT ![a].report = report]
        /\ existed' = [existed EXCEPT ![a] = there]
        /\ pc' = [pc EXCEPT ![a] = "target"]
        /\ UNCHANGED <<seen, disk_vars, count_vars, edits, history_vars>>

Write(a, from, to) == pc[a] = from /\ pc' = [pc EXCEPT ![a] = to]

\* makedirs, and open("w") of pipeline.yaml.
EmptyConfig(a) ==
    /\ Write(a, "target", "emptied")
    /\ folders' = [folders EXCEPT ![PipelineId(workflow[a])].config = Torn]
    /\ UNCHANGED <<workflow, local_vars, registry, count_vars, edits, history_vars>>

\* Variant: the Pipeline is registered without its runbook.
WriteConfigOnly(a) ==
    /\ Write(a, "emptied", IF existed[a] THEN "editing" ELSE "registering")
    /\ folders' = [folders EXCEPT ![PipelineId(workflow[a])].config =
                       ToConfig(workflow[a].draft)]
    /\ UNCHANGED <<workflow, local_vars, registry, count_vars, edits, history_vars>>

WriteConfig(a) ==
    /\ Write(a, "emptied", "configured")
    /\ folders' = [folders EXCEPT ![PipelineId(workflow[a])].config =
                       ToConfig(workflow[a].draft)]
    /\ UNCHANGED <<workflow, local_vars, registry, count_vars, edits, history_vars>>

\* open("w") of RUNBOOK.md, in which no sample is recorded until it is written.
EmptyRunbook(a) ==
    /\ Write(a, "configured", "blanked")
    /\ folders' = [folders EXCEPT ![PipelineId(workflow[a])].runbook = NoSample]
    /\ UNCHANGED <<workflow, local_vars, registry, count_vars, edits, history_vars>>

WriteRunbook(a) ==
    /\ Write(a, "blanked", IF existed[a] THEN "editing" ELSE "registering")
    /\ folders' = [folders EXCEPT ![PipelineId(workflow[a])].runbook = workflow[a].file]
    /\ UNCHANGED <<workflow, local_vars, registry, count_vars, edits, history_vars>>

\* add_entry: the registry is read and checked with the new entry.
ReadRegistry(a) ==
    LET i == PipelineId(workflow[a])
        rejected == \/ registry # Missing /\ (~RegistryLoads \/ i \in Registered)
                    \/ folders[i].config = Missing
    IN  /\ Write(a, "registering", IF rejected THEN "editing" ELSE "read")
        /\ seen' = [seen EXCEPT ![a] = IF IsWhole(registry) THEN registry ELSE <<>>]
        /\ UNCHANGED <<workflow, existed, disk_vars, count_vars, edits, history_vars>>

EmptyRegistry(a) ==
    /\ Write(a, "read", "torn")
    /\ registry' = Torn
    /\ UNCHANGED <<workflow, local_vars, folders, count_vars, edits, history_vars>>

WriteRegistry(a) ==
    /\ Write(a, "torn", "editing")
    /\ registry' = Append(seen[a], PipelineId(workflow[a]))
    /\ UNCHANGED <<workflow, local_vars, folders, count_vars, edits, history_vars>>

-----------------------------------------------------------------------------
(***************************************************************************)
(* Around it: an author quits or dies, and a pipeline.yaml is edited by    *)
(* hand.                                                                   *)
(***************************************************************************)
Leave(a) ==
    /\ pc' = [pc EXCEPT ![a] = "closed"]
    /\ workflow' = [workflow EXCEPT ![a] = NoWorkflow]
    /\ existed' = [existed EXCEPT ![a] = FALSE]
    /\ seen' = [seen EXCEPT ![a] = <<>>]
    /\ opened' = [opened EXCEPT ![a] = NoId]
    /\ moved' = [moved EXCEPT ![a] = FALSE]
    /\ UNCHANGED <<disk_vars, sessions, edits>>

Quit(a) == pc[a] = "editing" /\ Leave(a) /\ UNCHANGED crashes

Crash(a) ==
    /\ pc[a] \in Writing /\ crashes < MaxCrashes
    /\ crashes' = crashes + 1
    /\ Leave(a)

HandEdit(i, encoding) ==
    /\ IsWhole(folders[i].config) /\ edits < MaxEdits
    /\ edits' = edits + 1
    /\ folders' = [folders EXCEPT ![i].config.other = "set",
                                  ![i].config.encoding = encoding]
    /\ UNCHANGED <<pc, workflow, local_vars, registry, count_vars, history_vars>>

Review(a) ==
    \/ EditAny(a)
    \/ \E n \in Name, on \in BOOLEAN : Encrypt(a, n, on)
    \/ \E n, m \in Name : Duplicate(a, n, m)
    \/ \E mode \in {"append", "truncate", "cdc"} : ChooseWriteMode(a, mode)
    \/ \E c \in CdcChoice, given \in SUBSET {"keys", "sequence"} \ {{}} :
           SetCdcSettings(a, given, c[1], c[2])
    \/ \E c \in Connector : SelectConnector(a, c)
    \/ \E given \in BOOLEAN : SetConnectorSetting(a, given)
    \/ \E s \in Sample : RefreshSample(a, s)
    \/ \E l \in Layout : Reseed(a, l)
    \/ \E s \in Sample, t \in Type, b \in BOOLEAN : SetFixedWidthLayout(a, s, t, b)
    \/ \E n \in Name : Acknowledge(a, n)
    \/ Validate(a)

Save(a) ==
    \/ Generate(a) \/ EmptyConfig(a) \/ WriteConfig(a)
    \/ EmptyRunbook(a) \/ WriteRunbook(a)
    \/ ReadRegistry(a) \/ EmptyRegistry(a) \/ WriteRegistry(a)

Next ==
    \/ \E a \in Author : \/ \E c \in Command : Start(a, c)
                         \/ \E i \in Id : OpenFolder(a, i)
                         \/ Review(a) \/ Save(a) \/ Quit(a) \/ Crash(a)
    \/ \E i \in Id, e \in Encoding : HandEdit(i, e)

Spec == Init /\ [][Next]_vars

-----------------------------------------------------------------------------
(***************************************************************************)
(* Properties.                                                             *)
(***************************************************************************)
TypeOK ==
    /\ pc \in [Author -> {"closed", "editing"} \cup Writing]
    /\ workflow \in [Author -> Workflows]
    /\ existed \in [Author -> BOOLEAN] /\ seen \in [Author -> Seq(Id)]
    /\ folders \in [Id -> FolderState]
    /\ registry \in Seq(Id) \cup {Missing, Torn}
    /\ sessions \in 0..MaxSessions /\ edits \in 0..MaxEdits
    /\ crashes \in 0..MaxCrashes
    /\ opened \in [Author -> Id \cup {NoId}] /\ moved \in [Author -> BOOLEAN]

\* The report that generate relies on is the one that validation would give for
\* the draft and the sample at this moment.  (Not for a Fixed-Width Layout:
\* set_fixed_width_layout keeps the report on the draft it replaces.)
ReportIsFresh ==
    \A a \in Author :
        LET w == workflow[a]
        IN  w.report # "none" /\ w.layout # "fixed_width" =>
                Loads(ToConfig(w.draft)) /\ w.report = Fresh(w)

\* An acknowledgement is of the evidence that the column has now and that the
\* runbook will record.  (Not if a column was renamed or the sample refreshed:
\* acknowledgements are kept by source name.)
AcksAreOfThisSample ==
    \A a \in Author :
        HasDraft(a) /\ ~moved[a] =>
            \A c \in Risky(workflow[a].draft) :
                workflow[a].acks[c.source] \in {"none", c.evidence}

\* What the registry names is on disk: a crash or another author may leave a
\* folder without an entry, and never an entry without its folder.
RegisteredIsThere ==
    \A i \in Registered : Missing \notin {folders[i].config, folders[i].runbook}

\* Saving a re-authored Pipeline that is registered writes to its own folder,
\* and not to the registry.
ReauthorInPlace ==
    [][\A a \in Author :
          pc[a] \in Writing /\ pc'[a] # pc[a] /\ workflow[a].entry # NoId =>
              /\ \A i \in Id \ {opened[a]} : folders'[i] = folders[i]
              /\ registry' = registry]_vars

-----------------------------------------------------------------------------
(***************************************************************************)
(* What does not hold.                                                     *)
(***************************************************************************)
\* A workspace that only generate has written to, when it has ended: filedge run
\* can read the sample File of each Pipeline, as Authoring Validation could.
GreenMeansLoadable ==
    (\A a \in Author : pc[a] \notin Writing) =>
        \A i \in Id :
            LET f == folders[i]
            IN  IsWhole(f.config) /\ f.config.other = "default" =>
                    Readable(f.runbook, f.config.layout, f.config.encoding)

\* An edit of the row at the cursor changes that row.
FocusedIsEdited ==
    \A a \in Author :
        HasDraft(a) =>
            LET cols == workflow[a].draft.columns
            IN  \A i \in DOMAIN cols : FirstWith(cols, "source", cols[i].source) = i

\* A risky column counts as acknowledged only with the evidence it has.
RiskyWasReviewed ==
    \A a \in Author :
        HasDraft(a) => \A c \in Risky(workflow[a].draft) :
                           workflow[a].acks[c.source] \in {"none", c.evidence}

\* Re-authoring keeps the settings that it does not show.
SaveKeepsTheRest ==
    \A a \in Author :
        pc[a] = "editing" /\ opened[a] # NoId /\ IsWhole(folders[opened[a]].config) =>
            ToConfig(FromConfig(folders[opened[a]].config)) = folders[opened[a]].config

\* A re-author writes to no folder but its own, registered or not.
ReauthorOwnFolder ==
    [][\A a \in Author :
          pc[a] \in Writing /\ pc'[a] # pc[a] /\ workflow[a].reauthor =>
              \A i \in Id \ {opened[a]} : folders'[i] = folders[i]]_vars

\* What an author writes to the registry contains what it replaces.
RegistryGrows ==
    [][\A a \in Author :
          pc[a] = "read" /\ pc'[a] = "torn" => Registered \subseteq Range(seen[a])]_vars
=============================================================================
