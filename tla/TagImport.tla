----------------------------- MODULE TagImport -----------------------------
(***************************************************************************)
(* Importing names into the tag table (core/tag_import.py): by the web     *)
(* form (web/routes/tags.py) and by the command line (service/cli.py), a   *)
(* second process on the same database.  Either imports a data block or a  *)
(* symbol table.                                                           *)
(*                                                                         *)
(* The web handler parses, plans and applies without an await, so other    *)
(* web handlers do not come between; the command line does, and the web    *)
(* comes between its plan and each of its rows.  Every row is a commit of  *)
(* its own.  Parsing touches nothing shared, so the data block is read     *)
(* before anything else happens.  One connection, whose deletion takes its *)
(* tags along; either importer may find it gone after having looked it up. *)
(***************************************************************************)
EXTENDS SymbolTable

CONSTANTS
    SymbolFiles,    \* the rows of the symbol tables an importer may be given
    TagPrefixes,    \* the prefixes it may be given, sequences of at most a name
    DbNumbers,      \* what it is told the block's number is, 0 for nothing
    MaxImportTags,  \* 5000 in the code
    MaxReadChunk,   \* 8192 in the code
    MaxEdits,       \* bound of the model on the edits by hand
    MaxShared       \* bound of the model: symbol tables, the command line and
                    \* the edits come beside blocks of at most so many lines

ASSUME TagImportAssumption ==
    /\ \A rows \in SymbolFiles :
          /\ Len(rows) \in Nat /\ DOMAIN rows = 1 .. Len(rows)
          /\ \A i \in DOMAIN rows : ARow(rows[i])
    /\ \A p \in TagPrefixes : p \in Seq(Texts) /\ Len(p) <= 1
    /\ DbNumbers \subseteq Nat
    /\ MaxImportTags \in Nat /\ MaxReadChunk \in Nat \ {0} /\ MaxEdits \in Nat
    /\ MaxShared \in Nat

VARIABLES
    connected,  \* does the connection's row exist?
    tags,       \* the tag table: what each id holds
    lastId,     \* AUTOINCREMENT
    edits,      \* edits by hand so far
    imports     \* what each importer is doing

importVars == <<connected, tags, lastId, edits, imports>>
vars == <<layoutVars, importVars>>

Importers == {"web", "cli"}

Idle == [pc |-> "idle", plan |-> <<>>, at |-> 0, overwrite |-> FALSE,
         rows |-> 0, skipped |-> 0, alone |-> TRUE, cut |-> FALSE]

Actions == {"create", "update", "skip", "identical", "reject"}

\* A row of a plan, and an importer at work.  The rest of ImportPlan is the
\* report; alone and cut are for the properties: has nobody else written since
\* the plan, and did a prefix come after the check for duplicates?
Item == [entry : Entry, action : Actions, id : Nat]

Work == [pc : {"idle", "nothing", "refused", "applying", "done"}, plan : Seq(Item),
         at : Nat, overwrite : BOOLEAN, rows : Nat, skipped : Nat,
         alone : BOOLEAN, cut : BOOLEAN]

Writes(plan) == Cardinality({i \in DOMAIN plan : plan[i].action \in {"create", "update"}})

(***************************************************************************)
(* plan_import.  Names are compared in lower case; of two tags that differ *)
(* only in case the dictionary keeps the last by name.                     *)
(***************************************************************************)
Homonyms(name) == {id \in DOMAIN tags : Lower(tags[id].name) = Lower(name)}

Existing(name) ==
    IF \E id \in Homonyms(name) : tags[id].name = Lower(name)
      THEN CHOOSE id \in Homonyms(name) : tags[id].name = Lower(name)
      ELSE CHOOSE id \in Homonyms(name) : TRUE

\* Mutant: the bit is not compared.
SameByte(t, e) ==
    /\ t.area = e.area /\ t.db = e.db /\ t.byte = e.byte
    /\ t.data_type = e.data_type /\ t.length = e.length

SameAddress(t, e) ==
    /\ t.area = e.area /\ t.db = e.db /\ t.byte = e.byte /\ t.bit = e.bit
    /\ t.data_type = e.data_type /\ t.length = e.length

\* Mutant: the rules of the web form are not applied.
DecisionUnchecked(e, claimed, overwrite) ==
    CASE Lower(e.name) \in claimed -> "reject"
      [] OTHER -> IF Homonyms(e.name) = {} THEN "create"
                  ELSE IF ~overwrite THEN "skip"
                  ELSE IF SameAddress(tags[Existing(e.name)], e) THEN "identical"
                  ELSE "update"

Decision(e, claimed, overwrite) ==
    CASE ~ValidTag(e)                           -> "reject"
      [] ValidTag(e) /\ Lower(e.name) \in claimed -> "reject"
      [] OTHER -> IF Homonyms(e.name) = {} THEN "create"
                  ELSE IF ~overwrite THEN "skip"
                  ELSE IF SameAddress(tags[Existing(e.name)], e) THEN "identical"
                  ELSE "update"

\* Only a row that will write claims its name.
Claims(claimed, e, overwrite) ==
    claimed \cup IF Decision(e, claimed, overwrite) \in {"create", "update"}
                   THEN {Lower(e.name)} ELSE {}

PlannedTag(e, action) ==
    [entry |-> e, action |-> action,
     id |-> IF action \in {"skip", "identical", "update"} THEN Existing(e.name) ELSE 0]

Planned(entries, overwrite) ==
    LET claimed[i \in 0 .. Len(entries)] ==
            IF i = 0 THEN {} ELSE Claims(claimed[i - 1], entries[i], overwrite)
    IN  [i \in DOMAIN entries |->
            PlannedTag(entries[i], Decision(entries[i], claimed[i - 1], overwrite))]

\* With nothing to write the import is over, with too much it is refused.
Begin(who, file, rows, prefix, overwrite) ==
    LET plan == Planned(file.entries, overwrite)
    IN  imports' = [imports EXCEPT ![who] =
            [pc |-> CASE Writes(plan) = 0             -> "nothing"
                      [] Writes(plan) > MaxImportTags -> "refused"
                      [] OTHER                        -> "applying",
             plan |-> plan, at |-> 1, overwrite |-> overwrite,
             rows |-> rows, skipped |-> file.skipped,
             alone |-> TRUE, cut |-> prefix # <<>>]]

\* A data block, already laid out; the sanitiser sees the prefix.
ImportBlock(who, number, prefix, overwrite) ==
    /\ phase = "laid" /\ (who = "cli" => lines <= MaxShared)
    /\ imports[who].pc = "idle"
    /\ Begin(who, BlockSymbols(number, prefix), IF number = 0 THEN 0 ELSE Len(members),
             <<>>, overwrite)
    /\ UNCHANGED <<layoutVars, connected, tags, lastId, edits>>

\* A symbol table; the prefix comes after the sanitiser.
ImportSymbols(who, rows, prefix, overwrite) ==
    /\ phase # "reading" /\ lines <= MaxShared
    /\ imports[who].pc = "idle"
    /\ Begin(who, Prefixed(Collect(rows), prefix), Len(rows), prefix, overwrite)
    /\ UNCHANGED <<layoutVars, connected, tags, lastId, edits>>

(***************************************************************************)
(* apply_import, a row at a time.  INSERT fails on a name that is there to *)
(* the letter or on a connection that is not; UPDATE of a row that is gone *)
(* changes nothing and is no error.                                        *)
(***************************************************************************)
NameTaken(name, id) == \E other \in DOMAIN tags \ {id} : tags[other].name = name

Refused(item) ==
    IF item.action = "create" THEN ~connected \/ NameTaken(item.entry.name, 0)
    ELSE item.id \in DOMAIN tags /\ NameTaken(item.entry.name, item.id)

\* A new row gets the next id.
Inserted(tag) ==
    [id \in DOMAIN tags \cup {lastId + 1} |-> IF id \in DOMAIN tags THEN tags[id] ELSE tag]

Written(item) ==
    IF item.action = "create" THEN Inserted(item.entry)
    ELSE IF item.id \in DOMAIN tags THEN [tags EXCEPT ![item.id] = item.entry]
    ELSE tags

\* A write by anyone else since an importer's plan, for the properties.
Disturbs(who, state) ==
    [i \in Importers |-> IF i # who THEN [state[i] EXCEPT !.alone = FALSE] ELSE state[i]]

Next1(work) ==
    [work EXCEPT !.at = @ + 1, !.pc = IF work.at = Len(work.plan) THEN "done" ELSE @]

ApplyRow(who) ==
    LET work == imports[who]
        item == work.plan[work.at]
    IN  /\ work.pc = "applying"
        /\ IF item.action \notin {"create", "update"}
             THEN /\ imports' = [imports EXCEPT ![who] = Next1(work)]
                  /\ UNCHANGED <<tags, lastId>>
           ELSE IF Refused(item)
             THEN /\ imports' = [imports EXCEPT ![who] =
                        Next1([work EXCEPT !.plan[work.at].action = "reject"])]
                  /\ UNCHANGED <<tags, lastId>>
             ELSE /\ tags' = Written(item)
                  /\ lastId' = IF item.action = "create" THEN lastId + 1 ELSE lastId
                  /\ imports' = Disturbs(who, [imports EXCEPT ![who] = Next1(work)])
        /\ UNCHANGED <<layoutVars, connected, edits>>

(***************************************************************************)
(* The other handlers on tags, between web imports.                        *)
(***************************************************************************)
Edits ==
    /\ phase # "reading" /\ lines <= MaxShared /\ imports["web"].pc # "applying"
    /\ edits < MaxEdits /\ edits' = edits + 1
    /\ imports' = Disturbs("editor", imports)
    /\ UNCHANGED layoutVars

CreateTag(row) ==
    LET tag == RowEntry(row, {})
    IN  /\ Edits /\ connected
        /\ Usable(row) /\ ValidTag(tag) /\ Homonyms(tag.name) = {}
        /\ tags' = Inserted(tag) /\ lastId' = lastId + 1
        /\ UNCHANGED connected

DeleteTag(id) ==
    /\ Edits /\ tags' = [other \in DOMAIN tags \ {id} |-> tags[other]]
    /\ UNCHANGED <<connected, lastId>>

DeleteConnection ==
    /\ Edits /\ connected /\ connected' = FALSE /\ tags' = <<>>
    /\ UNCHANGED lastId

Init ==
    /\ LayoutInit
    /\ connected = TRUE /\ tags = <<>> /\ lastId = 0 /\ edits = 0
    /\ imports = [who \in Importers |-> Idle]

Next ==
    \/ LayoutStep /\ UNCHANGED importVars
    \/ \E who \in Importers, number \in DbNumbers,
          prefix \in TagPrefixes, overwrite \in BOOLEAN :
          ImportBlock(who, number, prefix, overwrite)
    \/ \E who \in Importers, rows \in SymbolFiles,
          prefix \in TagPrefixes, overwrite \in BOOLEAN :
          ImportSymbols(who, rows, prefix, overwrite)
    \/ \E who \in Importers : ApplyRow(who)
    \/ \E rows \in SymbolFiles : \E i \in DOMAIN rows : CreateTag(rows[i])
    \/ \E id \in DOMAIN tags : DeleteTag(id)
    \/ DeleteConnection

Spec == Init /\ [][Next]_vars

(***************************************************************************)
(* The Test Read tool on a tag: read_area in chunks, each answered in full *)
(* or not at all, and decode from the first byte of what came back.  The   *)
(* value is known by the byte addresses it was made from.                  *)
(***************************************************************************)
Round(r) ==
    LET chunk == Min({r.remaining, MaxReadChunk})
    IN  [out |-> r.out \o [k \in 1 .. chunk |-> r.cursor + k - 1],
         cursor |-> r.cursor + chunk, remaining |-> r.remaining - chunk]

\* Every round reads at least a byte, so after size of them nothing remains.
ReadArea(start, size) ==
    LET read[i \in 0 .. size] ==
            IF i = 0 THEN [out |-> <<>>, cursor |-> start, remaining |-> size]
            ELSE IF read[i - 1].remaining > 0 THEN Round(read[i - 1]) ELSE read[i - 1]
    IN  read[size].out

Decoded(raw, type, length) == SubSeq(raw, 1, SizeOf(type, length))

(***************************************************************************)
(* Properties.                                                             *)
(***************************************************************************)
\* What the tables hold, and that an import cannot introduce a row the web
\* form would have rejected, whoever wrote meanwhile (tag_import.py:7-9).
TypeOK ==
    /\ LayoutTypeOK /\ connected \in BOOLEAN /\ lastId \in Nat
    /\ edits \in 0 .. MaxEdits
    /\ tags \in [DOMAIN tags -> Entry] /\ DOMAIN tags \subseteq 1 .. lastId
    /\ \A id \in DOMAIN tags : ValidTag(tags[id]) /\ tags[id].source <= Len(members)
    /\ ~connected => tags = <<>>
    /\ imports \in [Importers -> Work]

\* A tag imported from a block's declaration reads that member and nothing
\* else: the bytes the Test Read decodes are those the layout rules give the
\* member, through the type mapping, the entry, the plan, the table and the
\* chunked read (layout_to_symbols, apply_import, read_area, decode).
ReadsItsMember ==
    \A id \in DOMAIN tags : tags[id].source # 0 =>
        LET tag    == tags[id]
            member == members[tag.source]
            raw    == ReadArea(tag.byte, SizeOf(tag.data_type, tag.length))
        IN  /\ Decoded(raw, tag.data_type, tag.length)
                 = [k \in 1 .. member.size |-> member.byte + k - 1]
            /\ tag.data_type = "BOOL" => tag.bit = member.bit

Reported(item) ==
    /\ item.action = "create" => \E id \in DOMAIN tags : tags[id] = item.entry
    /\ item.action = "update" => tags[item.id] = item.entry
    /\ item.action = "identical" =>
          [tags[item.id] EXCEPT !.name = item.entry.name, !.source = item.entry.source]
             = item.entry
    /\ item.action = "skip" => item.id \in DOMAIN tags

\* A prefix put in front of the finished names may make two of them one: the
\* row that found the tag as it is claims no name, and the other updates it.
Overtaken(work, i) ==
    /\ work.plan[i].action = "identical"
    /\ \E j \in DOMAIN work.plan :
          j < work.at /\ work.plan[j].action = "update" /\ work.plan[j].id = work.plan[i].id

\* After an import nobody disturbed, the report is what the table holds: each
\* row of the file is accounted for once, what is reported created, updated or
\* identical reads back as in the file, what is skipped is there
\* (tag_import.py:198-200).  The one exception is a row of a symbol table with
\* a prefix, reported identical, whose tag another row of the file updated.
ReportMatches ==
    \A who \in Importers :
        LET work == imports[who]
        IN  work.pc = "done" /\ work.alone =>
              /\ Len(work.plan) + work.skipped = work.rows
              /\ \A i \in DOMAIN work.plan :
                    Reported(work.plan[i]) \/ (work.cut /\ Overtaken(work, i))

(***************************************************************************)
(* Why this holds.                                                         *)
(***************************************************************************)
\* What an entry takes over from the member it came from.
ReadsAs(e, m) ==
    /\ e.byte = m.byte /\ e.bit = m.bit
    /\ e.data_type = m.data_type /\ e.length = m.length

Sourced(e) ==
    e.source # 0 => e.source \in DOMAIN members /\ ReadsAs(e, members[e.source])

\* Nothing is imported while the block is still laid out, and what came from a
\* member agrees with it, in the table and in every plan.
SourceInv ==
    /\ phase = "reading" => tags = <<>> /\ \A who \in Importers : imports[who].plan = <<>>
    /\ \A id \in DOMAIN tags : Sourced(tags[id])
    /\ \A who \in Importers : \A i \in DOMAIN imports[who].plan :
          Sourced(imports[who].plan[i].entry)

Holds(table, id, name) ==
    id \in DOMAIN table /\ Lower(table[id].name) = Lower(name)

\* What a row of a plan nobody disturbed says of the table, before and after
\* its turn.
Accounted(table, item, turned) ==
    /\ item.action \in {"skip", "identical", "update"} =>
          Holds(table, item.id, item.entry.name)
    /\ item.action = "update" /\ turned => table[item.id] = item.entry
    /\ item.action = "create" /\ turned => \E id \in DOMAIN table : table[id] = item.entry

\* No two rows that will write have the same name; and unless a prefix came
\* too late, no other row has the name of one that will.
Apart(plan, cut) ==
    \A i, j \in DOMAIN plan :
        /\ i # j /\ Lower(plan[i].entry.name) = Lower(plan[j].entry.name)
        /\ plan[i].action \in {"create", "update"}
        => cut /\ plan[j].action \notin {"create", "update"}

\* What a row found identical is so until another updates its tag.
Unchanged(table, work, i) ==
    work.plan[i].action = "identical" =>
        SameAddress(table[work.plan[i].id], work.plan[i].entry) \/ Overtaken(work, i)

\* A row that will write has passed the rules, and a row's turn disturbs no
\* other but one found identical.
PlanInv(table, work) ==
    /\ \A i \in DOMAIN work.plan :
          work.plan[i].action \in {"create", "update"} => ValidTag(work.plan[i].entry)
    /\ work.pc = "applying" => work.at \in DOMAIN work.plan
    /\ work.pc = "done" => work.at = Len(work.plan) + 1
    /\ work.pc # "idle" => Len(work.plan) + work.skipped = work.rows
    /\ Apart(work.plan, work.cut)
    /\ work.alone => \A i \in DOMAIN work.plan :
          /\ Accounted(table, work.plan[i], i < work.at)
          /\ Unchanged(table, work, i)

ImportInv ==
    /\ LayoutInv /\ ValueInv /\ TypeOK /\ SourceInv
    /\ \A who \in Importers : PlanInv(tags, imports[who])
=============================================================================
