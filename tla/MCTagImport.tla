---------------------------- MODULE MCTagImport ----------------------------
(***************************************************************************)
(* A few declared types of every alignment, four names, and symbol tables  *)
(* of two or three rows.                                                   *)
(***************************************************************************)
EXTENDS TagImport

One(base) == [base |-> base, length |-> 1, array |-> FALSE, count |-> 0]
ArrayOf(base, count) == [base |-> base, length |-> 1, array |-> TRUE, count |-> count]

ManyTypes == {One("BOOL"), One("BYTE"), One("INT"), One("STRING"),
              ArrayOf("BYTE", 3)}

\* "-a" is cleaned to "a"; "A" is "a" in lower case.
MCTexts == {"a", "A", "-a", "p"}
MCClean == [n \in MCTexts |-> IF n = "-a" THEN "a" ELSE n]
MCFold  == [n \in MCTexts |-> IF n = "p" THEN "p" ELSE "a"]

Word(byte) == [form |-> "M", db |-> 0, width |-> "W", byte |-> byte, bit |-> NoBit]
DbBit(bit) == [form |-> "DB", db |-> 1, width |-> "X", byte |-> 0, bit |-> bit]
Row(name, address, declared) ==
    [name |-> name, address |-> address, declared |-> declared]

Exports == {<<Row("a", Word(0), NoType), Row("-a", Word(2), One("INT"))>>,
            <<Row("A", DbBit(1), NoType), Row("a", DbBit(9), One("BOOL")),
              Row("p", Word(0), One("STRUCT"))>>}

NoPrefixOrP == {<<>>, <<"p">>, <<"-a">>}
=============================================================================
