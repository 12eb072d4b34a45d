------------------------------ MODULE S7Types ------------------------------
(***************************************************************************)
(* What a declared S7 type means for reading and for layout                *)
(* (plc/s7types.py, plc/decoding.py).  A declaration is a record: its base *)
(* type, the number in STRING[n], and the element count when it is an      *)
(* ARRAY.  Spellings and aliases are left out; one base type stands for    *)
(* each distinct (gateway type, size, alignment).                          *)
(***************************************************************************)
EXTENDS Integers

CONSTANT MaxStringLength    \* 254 in the code

ASSUME MaxStringLengthAssumption == MaxStringLength \in Nat \ {0}

Unsupported == "unsupported"

\* The gateway's own types; BYTE stands for CHAR and USINT, INT for UINT,
\* DWORD for DINT, UDINT and the raw times.
DataTypes == {"BOOL", "BYTE", "WORD", "INT", "DWORD", "REAL", "LREAL", "STRING"}

\* Alignment 0 is a packed bit, 1 a byte, 2 a word.
TypeInfo == [data_type : DataTypes \cup {Unsupported}, length : Nat \ {0},
             size : Nat \ {0}, alignment : 0 .. 2, known : BOOLEAN]

Ok(type, size, alignment) ==
    [data_type |-> type, length |-> 1, size |-> size,
     alignment |-> alignment, known |-> TRUE]

No(size, alignment) ==
    [data_type |-> Unsupported, length |-> 1, size |-> size,
     alignment |-> alignment, known |-> TRUE]

Fixed ==
    [BOOL  |-> Ok("BOOL", 1, 0),  BYTE  |-> Ok("BYTE", 1, 1),
     WORD  |-> Ok("WORD", 2, 2),  INT   |-> Ok("INT", 2, 2),
     DWORD |-> Ok("DWORD", 4, 2), REAL  |-> Ok("REAL", 4, 2),
     LREAL |-> Ok("LREAL", 8, 2), DTL   |-> No(12, 2), TIMER |-> No(2, 2)]

\* An unrecognised type gets one byte, and STRUCT as an element is one.
Unrecognised == [No(1, 1) EXCEPT !.known = FALSE]

Scalar(d) ==
    CASE d.base \in DOMAIN Fixed -> Fixed[d.base]
      [] d.base = "STRING" ->
            IF d.length \in 1 .. MaxStringLength
              THEN [Ok("STRING", d.length + 2, 2) EXCEPT !.length = d.length]
              ELSE No(2, 2)
      [] d.base = "WSTRING" -> No(2 * d.length + 4, 2)
      [] OTHER -> Unrecognised

RoundUp(value, multiple) ==
    IF value % multiple = 0 THEN value ELSE (value + multiple) - (value % multiple)

\* Only word-aligned elements and bits are padded to a whole word: an odd
\* number of bytes stays odd.
ArraySize(element, count) ==
    CASE element.alignment = 0 -> RoundUp(RoundUp(count, 8) \div 8, 2)
      [] element.alignment = 2 -> RoundUp(RoundUp(element.size, 2) * count, 2)
      [] OTHER                 -> element.size * count

\* map_declared_type: an ARRAY has no single value, whatever it is of, and
\* the type of its elements is not looked into when it is not recognised.
MapDeclared(d) ==
    IF ~d.array THEN Scalar(d)
    ELSE IF d.count <= 0 THEN No(1, 1)
    ELSE No(ArraySize(Scalar(d), d.count),
            IF Scalar(d).alignment = 0 THEN 1 ELSE Scalar(d).alignment)

\* Mutant: the two header bytes of a STRING are forgotten.
SizeOfText(type, length) == IF type = "STRING" THEN length ELSE Fixed[type].size

\* size_of: the bytes one value of a gateway type occupies.
SizeOf(type, length) == IF type = "STRING" THEN length + 2 ELSE Fixed[type].size

\* The type an address form implies when the export names none, by width.
Implied == [X |-> "BOOL", B |-> "BYTE", W |-> "WORD", D |-> "DWORD"]
=============================================================================
