---------------------------- MODULE MCFormatValue ----------------------------
(* Values and specs for ValueText: all finite numbers of a small format to *)
(* every number of digits, and a few values of every kind in every layout. *)
EXTENDS ValueText

With(S, T) == {s \o t : s \in S, t \in T}

(* Texts of specs that are valid for a kind, with the brace behind them.   *)
Valid(kind, S) ==
  {t \in With(S, {<<"}">>}) : ValidateSpecs(kind, t, 1).ok}

Parsed(text) == ParseSpecs(text, 1).specs

(* Arguments of a kind, each formatted as every one of the texts says.     *)
Family(kind, S, args) == <<[kind |-> kind, texts |-> S, args |-> args]>>

JobsOf(families) ==
  UNION {{[args |-> a, text |-> t, spec |-> Undefined, meant |-> Parsed(t)] :
            a \in families[i].args,
            t \in Valid(families[i].kind, families[i].texts)} :
           i \in DOMAIN families}

Aligns == {<<>>, <<"*", "<">>, <<"^">>, <<">">>}
Widths == {<<>>, <<"6">>, <<"9">>}
Layouts ==
  With(With(Aligns, {<<>>, <<"+">>}), With({<<>>, <<"#">>, <<"0">>}, Widths))

IntArg(n) == [kind |-> "int", value |-> n]
Float(negative, exponent, fraction) ==
  [kind |-> "float",
   value |-> [negative |-> negative, exponent |-> exponent,
              fraction |-> fraction]]

Ints ==
  {0, 1, -1, 7, 9, 10, -99, 100, 255, 999, -1000, 9999, 10000, 32767, MinInt}

IntFamilies ==
  Family("int", With(Layouts, {<<>>, <<"x">>}),
         {<<IntArg(n), IntArg(n)>> : n \in {0, -42}})
    \o Family("int", {<<" ", "0", "9">>, <<"#", "0", "9", "x">>}
                       \cup {<<"#", t>> : t \in IntType},
              {<<IntArg(n)>> : n \in Ints})
    \o Family("unsigned", {<<>>, <<"0", "7">>},
              {<<[kind |-> "unsigned", value |-> n]>> : n \in {0, 65535}})
    \o Family("pointer", {<<>>, <<"^", "9">>},
              {<<[kind |-> "pointer", value |-> n]>> : n \in {0, 4095}})

DigitFamilies ==
  Family("int", {<<>>},
         {<<[kind |-> "digits", value |-> n, base |-> b, upper |-> u]>> :
            n \in Ints, b \in {1, 2, 3, 8, 10, 11, 16, 36, 37},
            u \in BOOLEAN})

OtherFamilies ==
  Family("bool", {<<>>, <<"0", "6">>, <<"^", "8", "s">>, <<"#", "4", "x">>},
         {<<[kind |-> "bool", value |-> b]>> : b \in BOOLEAN})
    \o Family("char", With(Aligns, {<<>>, <<"6">>, <<"6", "?">>,
                                    <<"6", "x">>}),
              {<<[kind |-> "char", value |-> "a", code |-> 97]>>,
               <<[kind |-> "char", value |-> "\n", code |-> 10]>>})
    \o Family("string", With(Aligns, {<<>>, <<"6">>, <<"6", ".", "1">>,
                                      <<"6", "?">>, <<".", "9">>}),
              {<<[kind |-> "string", value |-> s]>> :
                 s \in {<<>>, <<"a", "\n", "a">>}})
    \o Family("float", Layouts,
              {<<Float(n, 15, f)>> : n \in BOOLEAN, f \in {0, 1}})

FloatFamilies ==
  Family("float",
         {<<>>} \cup {<<".", p, t>> : p \in {"0", "1", "2"},
                                      t \in {"e", "F", "g"}},
         {<<Float(FALSE, x, f)>> : x \in 0..14, f \in 0..15})
    \o Family("float", With({<<"+", "0", "9">>, <<"#", "^", "8">>, <<"#">>},
                            {<<>>, <<"e">>, <<".", "0", "f">>,
                             <<".", "3">>, <<"g">>, <<"f">>}),
              {<<Float(TRUE, x, f)>> : x \in {0, 6, 7, 11, 14},
                                       f \in {0, 5}})

(* What a format_spec makes of the specs in the string.                    *)
Dynamic(args, width, precision, meaning) ==
  {[args |-> args, text |-> t \o <<"}">>,
    spec |-> [width |-> width, precision |-> precision],
    meant |-> Parsed(meaning[t] \o <<"}">>)] : t \in DOMAIN meaning}

Text == [kind |-> "string", value |-> <<"a", "\n", "a">>]
Half == Float(FALSE, 6, 0)

DynamicJobs ==
  Dynamic(<<IntArg(-42)>>, 6, NotDefined,
          <<>> :> <<"6">> @@ <<"9">> :> <<"6">>
            @@ <<"*", "^">> :> <<"*", "^", "6">> @@ <<"0">> :> <<"0", "6">>)
    \cup Dynamic(<<IntArg(-42)>>, -3, NotDefined,
                 <<"9">> :> <<>> @@ <<"*", "<", "9">> :> <<"*", "<">>)
    \cup Dynamic(<<IntArg(-42)>>, 0, 2,
                 <<"0", "9">> :> <<"0">> @@ <<"#", "9", "x">> :> <<"#", "x">>)
    \cup Dynamic(<<Text>>, NotDefined, 1,
                 <<>> :> <<".", "1">> @@ <<".", "9">> :> <<".", "1">>
                   @@ <<">", "6">> :> <<">", "6", ".", "1">>
                   @@ <<"?">> :> <<"?">>)
    \cup Dynamic(<<Text>>, 6, -1, <<"^">> :> <<"^", "6", ".", "0">>)
    \cup Dynamic(<<[kind |-> "bool", value |-> TRUE]>>, 6, 1,
                 <<"^">> :> <<"^", "6">>)
    \cup Dynamic(<<Half, Half>>, NotDefined, 1,
                 <<>> :> <<".", "1">> @@ <<"f">> :> <<".", "1", "f">>
                   @@ <<".", "2", "e">> :> <<".", "1", "e">>)
    \cup Dynamic(<<Half, Half>>, 9, -5,
                 <<>> :> <<"9", ".", "0">>
                   @@ <<"+", "0", "f">> :> <<"+", "0", "9", ".", "0", "f">>)

Values ==
  JobsOf(IntFamilies \o DigitFamilies \o OtherFamilies \o FloatFamilies)
    \cup DynamicJobs

(* The operations on bignums are exact, also over several blocks.          *)
Blocks(n) ==
  IF n < Block ^ 2 THEN FromNumber(n)
  ELSE <<n % Block, (n \div Block) % Block, n \div Block ^ 2>>

Operands ==
  {n \in 0..(Block ^ 3 - 1) : n % (Block ^ 2) \in {0, 1, 15, 16, 17, 200, 255}}

ASSUME ArithmeticIsExact ==
  \A x \in Operands :
    /\ \A y \in Operands :
         /\ ValueOf(Add[Blocks(x), Blocks(y)]) = x + y
         /\ y <= x => ValueOf(Sub[Blocks(x), Blocks(y)]) = x - y
         /\ Less[Blocks(x), Blocks(y)] <=> x < y
    /\ \A n \in 0..5 :
         /\ ValueOf(MulSmall[Blocks(x), 3 * n]) = x * 3 * n
         /\ ValueOf(MulPow5[Blocks(x), n]) = x * 5 ^ n
         /\ ValueOf(MulPow2[Blocks(x), n]) = x * 2 ^ n

(* -4 in the code.                                                         *)
Lowest == -2

(* Numbers in fixed notation.                                              *)
FixedFloats ==
  JobsOf(Family("float", {<<".", "2", "f">>},
                {<<Float(FALSE, x, f)>> : x \in 0..14, f \in 0..15}))
=============================================================================
