-------------------------------- MODULE MCAcpi --------------------------------
(* A small instance of Acpi: short headers, at most three MADT entries.     *)
EXTENDS Acpi, SequencesExt

MCSignature == <<65, 80, 73, 67>>
Other(sign) == [Signature |-> sign, Length |-> 2, bytes |-> <<1, 1>>, entries |-> <<>>]

(* A MADT laid out from entries; their contents look like entries too. *)
Madt(es) ==
  LET Lay(m, e) ==
        LET room == IF e.length < 2 THEN 2 ELSE e.length
        IN  [ m EXCEPT !.bytes = @ \o <<e.type, e.length>> \o [k \in 1 .. room - 2 |-> 1],
                       !.entries = Append(@, [type |-> e.type, length |-> e.length, offset |-> m.Length]),
                       !.Length = @ + room ]
      header == [k \in 1 .. MadtHeader |-> 1]
  IN  FoldLeft(Lay, [Signature |-> MCSignature, Length |-> MadtHeader,
                     bytes |-> header, entries |-> <<>>], es)

Kinds == { [type |-> k[1], length |-> k[2]] :
             k \in {<<0, 3>>, <<1, 2>>, <<1, 3>>, <<2, 2>>, <<2, 0>>} }
Madts == { Madt(es) : es \in BoundedSeq(Kinds, 3) }

RootTable(tables, size, slack) ==
  [Length |-> RootHeader + Len(tables) * size + slack, tables |-> tables]

(* Signatures that differ in the last character, and that end early. *)
Late  == Other(<<65, 80, 73, 68>>)
Short == Other(<<65, 0, 0, 0>>)

Roots(m) ==
  { << <<Late, m>>, <<Madt(<<>>)>> >>, << <<Madt(<<>>)>>, <<Short, m, Madt(<<>>)>> >>,
    << <<Late>>, <<>> >> }

MCFirmwares ==
  { [ Revision |-> v[1], XsdtAddress |-> v[2],
      rsdt |-> RootTable(r[1], 4, slack), xsdt |-> RootTable(r[2], 8, slack) ] :
      v \in {<<0, 0>>, <<2, 0>>, <<2, 1>>}, slack \in {0, 3},
      r \in UNION { Roots(m) : m \in Madts } }
==============================================================================
