----------------------------- MODULE RangeSpecs -----------------------------
(***************************************************************************)
(* The specification of ranges and tuples, which end in that of their      *)
(* elements: formatter<T>::validate and ::parse of ranges.hpp.             *)
(*                                                                         *)
(* What is read for a kind of argument are the specs of the core types in  *)
(* it (leaves), from left to right, and whether the ranges and tuples they *)
(* are in have brackets.                                                   *)
(***************************************************************************)
EXTENDS FormatSpecs

(* A range has elements of one kind, a tuple one of each.                  *)
Elements ==
  [ints |-> <<"int">>, words |-> <<"string">>, rows |-> <<"ints">>,
   map |-> <<"pair">>, pair |-> <<"int", "string">>, nothing |-> <<>>]

Ranges == {"ints", "words", "rows", "map"}
IsCore(kind) == kind \notin DOMAIN Elements

(* The kinds of arguments; "byte" is scanned only.                         *)
Kinds ==
  {"int", "unsigned", "byte", "bool", "char", "pointer", "float", "string"}
    \cup DOMAIN Elements

(* What is read from s.                                                    *)
ReadLeaves(s) ==
  [at : Nat, ok : BOOLEAN,
   specs : [brackets : Seq(BOOLEAN),
            leaves : Seq([kind : Kinds, specs : AnySpecs(s)])]]

Leaf(kind, k) ==
  [k EXCEPT !.specs = [brackets |-> <<>>,
                       leaves |-> <<[kind |-> kind, specs |-> @]>>]]

Composed(at, ok, opened, parts) ==
  [at |-> at, ok |-> ok,
   specs |->
     [brackets |-> <<opened>> \o
        FlattenSeq([n \in DOMAIN parts |-> parts[n].specs.brackets]),
      leaves |->
        FlattenSeq([n \in DOMAIN parts |-> parts[n].specs.leaves])]]

Failed(i) == Composed(i, FALSE, FALSE, <<>>)

(* Strings and characters in a range are quoted if nothing is specified.   *)
Quoted(kind, specs) ==
  IF kind \in {"char", "string"} THEN [specs EXCEPT !.type = "?"] ELSE specs

Unspecified[kind \in Kinds] ==
  IF IsCore(kind)
    THEN Leaf(kind, [Closed(0) EXCEPT !.specs = Quoted(kind, @)])
  ELSE Composed(0, TRUE, TRUE,
         [n \in DOMAIN Elements[kind] |-> Unspecified[Elements[kind][n]]])

(* Each element of a tuple is read by a reader of its own, from i to j.    *)
(* j, a position in the string, is then taken for the number of characters *)
(* to pop from i on.                                                       *)
BehindTuple(s, i, j) ==
  IF i + j - 1 <= Len(s) THEN i + j - 1 ELSE Len(s) + 1

(* Mutant: a tuple takes the specs that suit its first element.            *)
FirstSuits(parts) == parts # <<>> /\ parts[1].ok

(* validate_for_each, for a range of its only kind of element.             *)
AllSuit(parts) ==
  /\ parts # <<>>
  /\ \A n \in DOMAIN parts : parts[n].ok /\ parts[n].at = parts[1].at

ValidateAny(s) ==
  LET validate[kind \in Kinds] ==
        [i \in 1..(Len(s) + 1) |->
           IF IsCore(kind) THEN Leaf(kind, ValidateSpecs(kind, s, i))
           ELSE
             LET of == Elements[kind]
                 c == PartEnd(s, {"n"})[i]
                 whole[parts \in Seq(ReadLeaves(s))] ==
                   IF ~ AllSuit(parts) THEN Failed(c)
                   ELSE Composed(IF kind \in Ranges THEN parts[1].at
                                 ELSE BehindTuple(s, c + 1, parts[1].at),
                                 TRUE, c = i, parts)
             IN IF Char(s, c) = Closing
                  THEN Composed(c + 1, TRUE, c = i,
                                [n \in DOMAIN of |-> Unspecified[of[n]]])
                ELSE IF Char(s, c) # ":" THEN Failed(c)
                ELSE whole[[n \in DOMAIN of |-> validate[of[n]][c + 1]]]]
  IN validate

(* The specs of a core type, in a range that has none (debug) or not.      *)
ParseCore(kind, s, i, debug) ==
  Leaf(kind, [ParseSpecs(s, i) EXCEPT
                !.specs = IF debug THEN Quoted(kind, @) ELSE @])

(* The closing brace of a range without specs is that of its elements.     *)
ParseAny(s) ==
  LET parse[kind \in Kinds] ==
        [i \in 1..(Len(s) + 1) |->
           IF IsCore(kind) THEN ParseCore(kind, s, i, FALSE)
           ELSE
             LET of == Elements[kind]
                 c == PartEnd(s, {"n"})[i]
                 closed == Char(s, c) = Closing
                 from == IF closed THEN c ELSE c + 1
                 whole[parts \in Seq(ReadLeaves(s))] ==
                   Composed(IF of = <<>> THEN c + 1
                            ELSE IF kind \in Ranges THEN parts[1].at
                            ELSE BehindTuple(s, from, parts[Len(parts)].at),
                            \A n \in DOMAIN parts : parts[n].ok,
                            c = i, parts)
             IN IF Char(s, c) = End \/ (of = <<>> /\ ~ closed) THEN Failed(c)
                ELSE whole[[n \in DOMAIN of |->
                              IF closed /\ IsCore(of[n])
                                THEN ParseCore(of[n], s, from, TRUE)
                              ELSE parse[of[n]][from]]]]
  IN parse
=============================================================================
