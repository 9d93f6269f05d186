------------------------------ MODULE IoElements ------------------------------
(***************************************************************************)
(* What the parser makes of an IO element (io-elements.ts) and of the      *)
(* elements of a record (recordToTelemetry in parser.ts).                  *)
(*                                                                         *)
(* An element is known by its id: the names of IO_ELEMENTS and of the      *)
(* fields of ParsedTelemetry are left out.  A value is the sequence of its *)
(* 16-bit words, and a number made of it is kept as the value with what it *)
(* is multiplied with, divided by and increased by.                        *)
(***************************************************************************)
EXTENDS Integers, Sequences

\* type: 'boolean'.
BooleanIds == (1..4) \cup (239..240) \cup (281..285) \cup {291}

\* offset: -40.
CelsiusIds == {274, 296}

\* multiplier, as <<numerator, denominator>>, by the ids that have it.
Multipliers ==
    { << (72..75) \cup {83, 84, 181, 182} \cup (390..393), <<1, 10>> >>,
      << {269, 279, 280, 297},                             <<2, 5>> >>,
      << {270},                                            <<1, 2>> >>,
      << {271, 273},                                       <<1, 20>> >>,
      << {272},                                            <<1, 8>> >>,
      << 298..302,                                         <<2, 1>> >>,
      << 386..389,                                         <<1, 100>> >> }

ScaledIds == UNION {m[1] : m \in Multipliers}

PlainIds ==
    {9, 10} \cup (16..19) \cup {21, 24, 25} \cup (66..69) \cup {78, 80}
    \cup (85..87) \cup {113, 200, 241, 275, 276, 277, 278} \cup (286..290)
    \cup (292..295) \cup (303..308) \cup {385}

IO_ELEMENTS == BooleanIds \cup CelsiusIds \cup ScaledIds \cup PlainIds

Number(v, times, over, plus) == [value |-> v, times |-> times, over |-> over, plus |-> plus]

IsOne(v) == v[Len(v)] = 1 /\ \A i \in 1..Len(v) - 1 : v[i] = 0

\* parsedValue of a known element.
parseIOValue(id, v) ==
    IF id \in BooleanIds THEN IsOne(v)
    ELSE IF id \in CelsiusIds THEN Number(v, 1, 1, -40)
    ELSE IF id \in ScaledIds
         THEN LET m == CHOOSE x \in Multipliers : id \in x[1]
              IN Number(v, m[2][1], m[2][2], 0)
         ELSE Number(v, 1, 1, 0)

\* The ids whose name is a case of the switch in recordToTelemetry.
BasicFields == (1..4) \cup {9, 10, 16, 21} \cup (66..69) \cup {113, 181, 182, 200, 239, 240}
CanFields == (269..285) \cup {288, 296, 297, 303}

\* The structured fields that are set: each by the last element that has it.
recordToTelemetry(elements) ==
    LET At(id) == {i \in DOMAIN elements : elements[i].id = id}
        Last(id) == CHOOSE i \in At(id) : \A j \in At(id) : j <= i
    IN [id \in {x \in BasicFields \cup CanFields : At(x) # {}} |->
            parseIOValue(id, elements[Last(id)].value)]
=============================================================================
