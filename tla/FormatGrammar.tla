--------------------------- MODULE FormatGrammar ---------------------------
(***************************************************************************)
(* The grammar of format strings that detail/format/specs.hpp documents,   *)
(* as far as the formatters accept it, that of scan strings, and what      *)
(* FormatString owes to them.  The grammar knows no position and no greedy *)
(* reader: it asks whether a string can be split in a legal way.           *)
(***************************************************************************)
EXTENDS ScanString

(* All characters of u from i + 1 to j are in S.                           *)
Within(S, u, i, j) == \A n \in (i + 1)..j : u[n] \in S

Numeral(u) == FoldLeft(LAMBDA n, d : 10 * n + CharValue[d], 0, u)

(* [[fill]align][sign]["#"]["0"][width]["." precision][type], where the    *)
(* parts end at a, s, h, z, w, p and Len(u).                               *)
IsSpecs(kind, u) ==
  LET len == Len(u) IN
  \E a \in 0..2 : a <= len /\ (a = 0 \/ u[a] \in Align) /\
  \E s \in a..(a + 1) : s <= len /\ Within(Sign, u, a, s) /\
  \E h \in s..(s + 1) : h <= len /\ Within({"#"}, u, s, h) /\
  \E z \in h..(h + 1) : z <= len /\ Within({"0"}, u, h, z) /\
  \E w \in z..len : Within(Digit, u, z, w) /\
  \E p \in w..len :
    /\ p \in {len - 1, len}
    /\ Within({"."}, u, w, IF w < p THEN w + 1 ELSE w)
    /\ Within(Digit, u, w + 1, p) /\ p # w + 1
    /\ w = z \/ z > h \/ u[z + 1] # "0"
    /\ Numeral(SubSeq(u, z + 1, w)) <= MaxInt
    /\ Numeral(SubSeq(u, w + 2, p)) <= MaxInt
    /\ LET type(S) == Within(S, u, p, len)
           integral == w = p /\ type(IntType)
           bare == s = a /\ h = s /\ (z = h \/ a > 0)
       IN CASE kind = "int" -> integral
            [] kind = "unsigned" -> integral /\ s = a
            [] kind = "bool" -> integral \/ (w = p /\ type({"s"}))
            [] kind = "char" -> \/ integral /\ p < len /\ ~ type({"c"})
                                \/ bare /\ w = p /\ type({"c", "?"})
            [] kind = "pointer" -> bare /\ w = p /\ type({"p"})
            [] kind = "float" ->
                 type(FloatType)
                   /\ Numeral(SubSeq(u, w + 2, p)) <= MaxPrecision
            [] kind = "string" ->
                 bare /\ type(IF w = p THEN StringType ELSE {"s"})

(* ["n"][":" (specs of the elements)] for ranges and tuples.               *)
IsFormatSpecs ==
  LET is_specs[kind \in STRING, u \in Seq(STRING)] ==
        IF IsCore(kind) THEN IsSpecs(kind, u)
        ELSE \E n \in 0..1 :
          /\ n <= Len(u) /\ Within({"n"}, u, 0, n)
          /\ \/ n = Len(u)
             \/ /\ u[n + 1] = ":" /\ Elements[kind] # <<>>
                /\ \A e \in Range(Elements[kind]) :
                     is_specs[e, SubSeq(u, n + 2, Len(u))]
  IN is_specs

(* ["#"][width][type] for a scan.                                          *)
IsScanSpecs(kind, u) ==
  LET len == Len(u) IN
  \E h \in 0..1 : h <= len /\ Within({"#"}, u, 0, h) /\
  \E w \in {len - 1, len} :
    /\ w >= h /\ Within(Digit, u, h, w)
    /\ w = h \/ Numeral(SubSeq(u, h + 1, w)) \in 1..MaxInt
    /\ CASE kind \in ScannedInt -> Within({"b", "d", "o", "x"}, u, w, len)
         [] kind = "char" -> /\ h = 0 /\ Within({"c"}, u, w, len)
                             /\ Numeral(SubSeq(u, 1, w)) <= 1
         [] kind = "string" -> h = 0 /\ Within({"s"}, u, w, len)

(* "{" [arg_id] [":" (format_spec)] "}", no brace inside.                  *)
IsField(u) ==
  /\ Len(u) >= 2 /\ u[1] = Opening /\ u[Len(u)] = Closing
  /\ \A n \in 2..(Len(u) - 1) : u[n] \notin Brace

IsItem(u) ==
  \/ Len(u) = 1 /\ u[1] \notin Brace
  \/ u = <<Opening, Opening>> \/ u = <<Closing, Closing>>
  \/ IsField(u)

(* The arg_id and the specs of a field stand before and behind its first   *)
(* colon; any other item stands for its first character.                   *)
Meaning(u) ==
  LET colon == SelectInSeq(u, LAMBDA c : c = ":")
      end == IF colon = 0 THEN Len(u) ELSE colon
  IN IF IsField(u)
       THEN [id |-> SubSeq(u, 2, end - 1),
             specs |-> SubSeq(u, end + 1, Len(u) - 1)]
       ELSE Literal(u[1])

(* All ways to cut s into items.                                           *)
Readings(s) ==
  LET len == Len(s)
      from[i \in 1..(len + 1)] ==
        IF i > len THEN {<<>>}
        ELSE UNION {{<<Meaning(SubSeq(s, i, j))>> \o rest :
                       rest \in from[j + 1]} :
                      j \in {n \in i..len : IsItem(SubSeq(s, i, n))}}
  IN from[1]

Fields(reading) == SelectSeq(reading, LAMBDA item : "id" \in DOMAIN item)

(* The number of the argument that the i-th of the fields f stands for.    *)
Number(f, i) == IF f[i].id = <<>> THEN i - 1 ELSE Numeral(f[i].id)

(* Every field names an argument and suits it, every argument is named.    *)
Suits(f, k) ==
  /\ \A i \in DOMAIN f : Within(Digit, f[i].id, 0, Len(f[i].id))
  /\ \A i, j \in DOMAIN f : f[i].id = <<>> <=> f[j].id = <<>>
  /\ {Number(f, i) : i \in DOMAIN f} = 0..(Len(k) - 1)
  /\ \A i \in DOMAIN f :
       IF trait = "format" THEN IsFormatSpecs[k[Number(f, i) + 1], f[i].specs]
       ELSE IsScanSpecs(k[Number(f, i) + 1], f[i].specs)

Valid(s, k) == \E f \in {Fields(r) : r \in Readings(s)} : Suits(f, k)

----------------------------------------------------------------------------
(* Types, and no reader ever leaves its string (reader::it_, end_).        *)
TypeOK ==
  /\ phase \in Working \cup Final
  /\ phase # "undefined" => at \in 1..(Len(text) + 1)
  /\ auto \in 0..(Byte - 1) /\ mode \in {"unset", "auto", "positional"}
  /\ \A i \in DOMAIN fields : fields[i].arg < Len(kinds)
  /\ Len(output) <= Len(text)
  /\ input \in Input \cup {<<>>} /\ pos \in 1..(Len(input) + 1)
  /\ Len(ends) = IF trait = "scan" THEN Len(output) ELSE 0
  /\ DOMAIN values = DOMAIN kinds
  /\ BitsetTypeOK

(* The unchecking parser finds everything it takes for granted in a string *)
(* that the checking one has accepted: its debug assertions and uses of    *)
(* assume_value are justified (parser.hpp:117-176, formatter.hpp:623-684). *)
ChecksSuffice == phase # "undefined"

(* The validator accepts exactly the strings of the grammar whose fields   *)
(* fit the arguments (validate, parser_base<enabled>).                     *)
AcceptsGrammar ==
  /\ phase \in {"plain", "validated"} => Valid(text, kinds)
  /\ phase = "rejected" => ~ Valid(text, kinds) \/ Len(kinds) > Bits

IsArg(item) == "arg" \in DOMAIN item

(* The number of arguments among the first n items of the output.          *)
Args(n) == Cardinality({i \in 1..n : IsArg(output[i])})

(* Both parsers read the same arguments with the same specs, in the same   *)
(* order, each with a reader and counter of its own.                       *)
ParsersAgree ==
  /\ \A i \in DOMAIN output :
       IsArg(output[i]) => /\ Args(i) <= Len(fields)
                          /\ output[i] = fields[Args(i)]
  /\ phase \in {"done", "leftover"} => Args(Len(output)) = Len(fields)

(* In the end each argument has been written, or read, and nothing that    *)
(* is no argument (validate with all_first, parse).                        *)
EveryArgument ==
  phase \in {"done", "leftover"} =>
    {output[i].arg : i \in {j \in DOMAIN output : IsArg(output[j])}}
      = 0..(Len(kinds) - 1)

(* The output, or what a scan has read, is the text with escapes undone    *)
(* and each field replaced by its argument (parser_base<disabled>::parse). *)
Renders ==
  phase \in {"done", "leftover"} =>
    \E r \in Readings(text) :
      /\ Len(r) = Len(output)
      /\ \A i \in DOMAIN r :
           IF IsArg(output[i])
             THEN /\ "id" \in DOMAIN r[i]
                  /\ output[i].arg =
                       Number(Fields(r), Len(Fields(SubSeq(r, 1, i))))
             ELSE output[i] = r[i]

(* Every string is decided: both loops end.                                *)
Decided == <>(phase \in Final)
=============================================================================
