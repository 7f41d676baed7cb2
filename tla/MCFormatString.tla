--------------------------- MODULE MCFormatString ---------------------------
(* Format and scan strings, arguments and input for ScanGrammar: every     *)
(* format string of up to four of a few characters, any two pieces, any    *)
(* three simple ones.                                                      *)
EXTENDS ScanGrammar

Simple ==
  {<<"{">>, <<"}">>, <<"{", "{">>, <<"}", "}">>, <<"=">>, <<"{", "0", ":">>,
   <<"{", "}">>, <<"{", "0", "}">>, <<"{", "1", "}">>}

FieldOf(body) == <<"{">> \o body \o <<"}">>

Complex ==
  {FieldOf(body) : body \in
     {<<":">>, <<"9">>, <<":", "d">>, <<":", "s">>, <<":", "y">>,
      <<"0", ":", "<", "0", "d">>, <<"1", ":", "+", "0", "3">>,
      <<":", "=", ">", "#", "0", "1", ".", "1", "x">>,
      <<":", ".", "3", "?">>, <<":", "0", "1", ".", "2", "s">>,
      <<":", "=", "^", "0", ".", "2", "s">>, <<":", "<", "2", "6", "0">>,
      <<":", ".", "x">>, <<":", "O">>, <<":", "+", "c">>, <<":", "#", "?">>,
      <<":", ".", "3", "e">>, <<":", "-", ".", "9", "G">>, <<":", "p">>,
      <<":", "0", "p">>}}

Pairs(S) == {a \o b : a, b \in S}

FormatTexts ==
  BoundedSeq({"{", "}", ":", "0", "1", "s"}, 4)
    \cup Pairs(Simple \cup Complex)
    \cup {a \o b : a \in Pairs(Simple), b \in Simple}

FormatKinds ==
  {<<>>, <<"int">>, <<"string">>, <<"int", "string">>,
   <<"string", "int", "int">>, <<"unsigned", "char">>, <<"bool">>,
   <<"pointer">>, <<"float", "char">>}

(* Text behind a string is either free of braces or a single one.          *)
ScanFields ==
  {FieldOf(body) : body \in
     {<<>>, <<"0">>, <<"1">>, <<":", "1">>, <<":", "#">>}}

ScanSimple == ScanFields \cup {<<"a">>, <<"{", "{">>, <<"}", "}">>, <<"{">>}

ScanComplex ==
  {FieldOf(<<":">> \o body) : body \in
     {<<"2">>, <<"#", "x">>, <<"x">>, <<"#", "b">>, <<"#", "2">>, <<"o">>,
      <<"#", "o">>, <<"d">>, <<"c">>, <<"s">>, <<"0">>, <<"y">>,
      <<"2", "6", "0">>}}

ScanTexts ==
  Pairs(ScanSimple \cup ScanComplex)
    \cup {a \o b \o c : a \in ScanSimple \ {<<"{", "{">>, <<"}", "}">>},
                        b \in ScanFields, c \in ScanSimple}
    \cup {a \o <<"a">> \o c : a \in ScanFields, c \in ScanFields}
    \cup {<<"{", "}", "a", "1">>, <<"{", "}", "a", "1", "{", "}">>}

ScanKinds ==
  {<<>>, <<"int">>, <<"string">>, <<"byte", "string">>,
   <<"unsigned", "char">>, <<"string", "string">>}

Inputs ==
  BoundedSeq({"0", "1", "a", "{"}, 3) \cup
    {<<"-">>, <<"-", "1", "0">>, <<"0", "-", "1">>, <<"0", "b", "1">>,
     <<"0", "x", "1", "a">>, <<"0", "b", "a">>, <<"+", "1", "a", "}">>,
     <<"9", "9", "9">>, <<"2", "6", "0">>, <<"0", "x", ":">>}

StringsOf(t, texts, k) == [trait : {t}, text : texts, kinds : k]

(* Ranges between other text and fields, tuples at the end.                *)
RangeFields ==
  {FieldOf(body) : body \in
     {<<>>, <<":", "n">>, <<":", ":">>, <<":", "n", ":">>, <<":", "x">>,
      <<":", ":", "x">>, <<":", ":", "s">>, <<":", ":", "?">>,
      <<":", ":", "<", "3">>, <<":", "n", ":", "+">>, <<":", ":", "O">>,
      <<":", ":", "n">>, <<":", ":", ":">>, <<":", ":", ":", "0", "2">>,
      <<":", ":", "n", ":", "s">>, <<":", "n", ":", ":", "=", "^", "3">>}}
  \cup {<<"{", ":">>, <<"{", ":", "n">>, <<"{", ":", ":">>,
        <<"{", ":", ":", "x">>, <<"{", ":", ":", ":">>}

Before == {<<>>, <<"=">>, <<"{", "{">>, <<"{", "}">>}
Behind == {<<>>, <<"=">>, <<"}">>, <<"}", "}">>, <<"{", "}">>}

RangeStrings ==
  StringsOf("format", {b \o f \o a : b \in Before, f \in RangeFields,
                                    a \in Behind},
            {<<"ints">>, <<"words">>, <<"rows">>, <<"int", "words">>,
             <<"rows", "ints">>})
  \cup StringsOf("format", {b \o f : b \in Before, f \in RangeFields},
            {<<"pair">>, <<"nothing">>, <<"map">>, <<"int", "pair">>,
             <<"ints", "map">>})

(* As many arguments as the validator can tick off, and one more.          *)
ManyStrings ==
  StringsOf("format",
    {FieldOf(<<>>) \o FieldOf(<<>>) \o FieldOf(<<>>) \o FieldOf(<<>>),
     FieldOf(<<"3">>) \o FieldOf(<<"1">>) \o FieldOf(<<"0">>),
     FieldOf(<<"2">>) \o FieldOf(<<"3">>) \o FieldOf(<<"1">>)
       \o FieldOf(<<"0">>),
     FieldOf(<<"4">>)},
    {<<"int", "int", "int">>, <<"int", "int", "int", "int">>,
     <<"int", "int", "int", "int", "int">>})

AllStrings ==
  StringsOf("format", FormatTexts, FormatKinds)
    \cup ManyStrings
    \cup StringsOf("scan", ScanTexts, ScanKinds)
    \cup RangeStrings

(* Something behind a tuple.                                               *)
TupleStrings ==
  StringsOf("format", {f \o a : f \in RangeFields, a \in Behind},
            {<<"pair">>, <<"pair", "int">>, <<"map", "int">>})

(* Text with an escape and more behind a string.                           *)
DelimiterStrings ==
  StringsOf("scan", {<<"{", "}">> \o d :
                       d \in {<<"a", "{", "{">>, <<"}", "}", "a">>}},
            ScanKinds)
Delimited == BoundedSeq({"a", "{", "}"}, 4)
=============================================================================
