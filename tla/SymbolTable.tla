---------------------------- MODULE SymbolTable ----------------------------
(***************************************************************************)
(* From the rows of an export, or the members of a data block, to entries  *)
(* of the tag table: addresses (plc/addressing.py), rows and names         *)
(* (plc/symbols.py), the block's members as symbols (plc/db_layout.py),    *)
(* and the rules every tag has to meet (core/validation.py).               *)
(*                                                                         *)
(* How a file spells its rows is left out: an address is a record of what  *)
(* its text names, a name a sequence of path parts and the number that     *)
(* tells it from an earlier one.                                           *)
(***************************************************************************)
EXTENDS BlockLayout, FiniteSets, FiniteSetsExt

CONSTANTS
    Texts,          \* the texts a name or a prefix may be, Names among them
    Clean,          \* what sanitize_name makes of a name's text
    Fold,           \* a name's text in lower case
    Long,           \* the names that leave no room for a prefix
    NoBit,          \* an address without a bit number
    NoType,         \* an export without a data-type column
    MaxDbNumber,    \* 65535 in the code
    MaxByteOffset   \* 8 MiB in the code

ASSUME SymbolTableAssumption ==
    /\ Names \subseteq Texts
    /\ Clean \in [Texts -> Texts] /\ Fold \in [Texts -> Texts]
    /\ \A n \in Texts : Clean[Clean[n]] = Clean[n]
    /\ Long \subseteq Texts /\ NoBit \notin Nat
    /\ MaxDbNumber \in Nat \ {0} /\ MaxByteOffset \in Nat

(***************************************************************************)
(* Names.                                                                  *)
(***************************************************************************)
TagName == [stem : Seq(Texts), tail : Nat]

Each(f, s) == [i \in DOMAIN s |-> f[s[i]]]

Lower(name) == [name EXCEPT !.stem = Each(Fold, @)]

\* The suffix sanitize_name gives a name that an earlier row has taken.
Suffix(stem, taken) ==
    Min({k \in {0} \cup 2 .. Cardinality(taken) + 2 :
            Lower([stem |-> stem, tail |-> k]) \notin taken})

Sanitize(text, taken) ==
    [stem |-> Each(Clean, text), tail |-> Suffix(Each(Clean, text), taken)]

Legal(name) == \A i \in DOMAIN name.stem : Clean[name.stem[i]] = name.stem[i]

(***************************************************************************)
(* Addresses: form is the area, or what else the text names.               *)
(***************************************************************************)
Areas == {"DB", "I", "Q", "M"}

\* parse_address accepts it and the gateway mirrors it.  A bit has a number,
\* nothing else has; the bit of a DB address is not looked at here.
Readable(a) ==
    /\ a.form \in Areas
    /\ (a.width = "X") = (a.bit # NoBit)
    /\ a.form # "DB" /\ a.bit # NoBit => a.bit \in 0 .. 7

(***************************************************************************)
(* build_entry and _collect: a row becomes an entry or is skipped.         *)
(***************************************************************************)
TypeOf(row) ==
    IF row.declared = NoType THEN Ok(Implied[row.address.width], 1, 1)
                             ELSE MapDeclared(row.declared)

Usable(row) ==
    /\ Readable(row.address)
    /\ TypeOf(row).data_type # Unsupported
    /\ (row.address.width = "X") = (TypeOf(row).data_type = "BOOL")

\* What a row may say, whatever it is called and whatever type it declares.
ARow(row) ==
    /\ row.name \in Texts /\ row.address.width \in DOMAIN Implied
    /\ row.address.db \in Nat /\ row.address.byte \in Nat
    /\ row.address.bit \in Nat \cup {NoBit}

\* source says which member of the block an entry came from, 0 for none.
Entry == [name : TagName, area : Areas, db : Nat, byte : Nat, bit : Nat,
          data_type : DataTypes, length : Nat \ {0}, source : Nat]

RowEntry(row, taken) ==
    [name |-> Sanitize(<<row.name>>, taken),
     area |-> row.address.form,
     db |-> IF row.address.form = "DB" THEN row.address.db ELSE 0,
     byte |-> row.address.byte,
     bit |-> IF row.address.bit = NoBit THEN 0 ELSE row.address.bit,
     data_type |-> TypeOf(row).data_type, length |-> TypeOf(row).length,
     source |-> 0]

EmptyFile == [entries |-> <<>>, skipped |-> 0, taken |-> {}]

Enter(file, entry) ==
    [file EXCEPT !.entries = Append(@, entry), !.taken = @ \cup {Lower(entry.name)}]

Skip(file) == [file EXCEPT !.skipped = @ + 1]

Collected(file, row) ==
    IF Usable(row) THEN Enter(file, RowEntry(row, file.taken)) ELSE Skip(file)

Collect(rows) ==
    LET file[i \in 0 .. Len(rows)] ==
            IF i = 0 THEN EmptyFile ELSE Collected(file[i - 1], rows[i])
    IN  file[Len(rows)]

\* The prefix goes in front of the finished name and may push its suffix
\* over the end of the 64 characters.
PrefixedName(prefix, name) ==
    [stem |-> prefix \o name.stem,
     tail |-> IF prefix # <<>> /\ name.stem[1] \in Long THEN 0 ELSE name.tail]

Prefixed(file, prefix) ==
    [file EXCEPT !.entries = [i \in DOMAIN file.entries |->
        [file.entries[i] EXCEPT !.name = PrefixedName(prefix, @)]]]

(***************************************************************************)
(* layout_to_symbols.                                                      *)
(***************************************************************************)
MemberEntry(i, number, prefix, taken) ==
    [name |-> Sanitize(prefix \o members[i].path, taken),
     area |-> "DB", db |-> number,
     byte |-> members[i].byte, bit |-> members[i].bit,
     data_type |-> members[i].data_type, length |-> members[i].length,
     source |-> i]

MemberCollected(file, i, number, prefix) ==
    IF members[i].data_type # Unsupported
      THEN Enter(file, MemberEntry(i, number, prefix, file.taken)) ELSE Skip(file)

\* Without a number nothing can be addressed and the file is left empty.
BlockSymbols(number, prefix) ==
    LET file[i \in 0 .. Len(members)] ==
            IF i = 0 THEN EmptyFile ELSE MemberCollected(file[i - 1], i, number, prefix)
    IN  IF number = 0 THEN EmptyFile ELSE file[Len(members)]

(***************************************************************************)
(* validate_area_address and validate_tag.                                 *)
(***************************************************************************)
ValidAddress(t) ==
    /\ t.area \in Areas
    /\ t.area = "DB" => t.db \in 1 .. MaxDbNumber
    /\ t.byte \in 0 .. MaxByteOffset

ValidTag(t) ==
    /\ ValidAddress(t) /\ Legal(t.name)
    /\ t.data_type \in DataTypes
    /\ t.length \in 1 .. MaxStringLength
    /\ t.bit \in 0 .. 7
    /\ t.bit # 0 => t.data_type = "BOOL"
    /\ t.length # 1 => t.data_type = "STRING"
=============================================================================
