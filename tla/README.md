# A verification project for emio

emio is a header-only C++20 library for input and output of text: it formats
values into character buffers according to a format string, and scans values
from text according to a scan string. It has no threads, no network and
persists nothing. What is hard about it is *protocol*: a buffer hands out pieces
of its memory that the next call may invalidate, an error in the middle of a
text leaves half of it behind, and a format string is checked once by one parser
and read again, without checks, by a second one.

## 1. Inventory

All paths are below `src/include/emio/`.

| Component | State | Operations | Works with | What is hard |
|---|---|---|---|---|
| `buffer` (`buffer.hpp:29`) | `area_`, `used_` | `get_write_area_of(_max)`, `get_used_count`, virtual `request_write_area` | every buffer below derives from it | a fixed buffer serves a part or `eof`; a short area is given back |
| `memory_buffer` (`buffer.hpp:132`) | `used_`, `vec_` | constructor, copy, move, `reset`, `view`, growth | `ct_vector` | the area is a span into a vector that moves |
| `ct_vector` (`detail/ct_vector.hpp`) | `storage_`, `data_`, `size_`, `capacity_` | `reserve`, `clear`, copy, move, destructor | `memory_buffer`, `bignum` | inlined or external storage in every combination of assignments |
| `span_buffer`, `static_buffer` | the span | `view`, `reset`, copy, move | `format_to` on a span | exact fit, no room |
| `iterator_buffer` (four specialisations) | iterator or pointer, cache | `flush`, `out`, `request_write_area` | `format_to`, `format_to_n` | flushing on demand and by hand; container larger than the text |
| `file_buffer` | `FILE*`, cache | `flush`, `reset` | `print`, `println` | `fwrite` takes a part |
| `truncating_buffer` | primary, cache, `written_`, `used_`, `limit_` | `flush`, `count` | `format_to_n` on buffers | a loop over someone else's write areas |
| `counting_buffer` | cache, `used_` | `count` | `formatted_size` | |
| `truncating_iterator` (`iterator.hpp`) | `count_`, `limit_` | assignment | `format_to_n` on iterators | copied in and out of a buffer |
| `writer` (`writer.hpp`) | the buffer | `write_char(_n)`, `write_str`, `write_int`, `write_*_escaped` | buffers | loops over areas; numbers need one area; escapes that span areas |
| format string (`detail/parser.hpp`, `detail/format/parser.hpp`, `detail/validated_string*.hpp`) | reader position, argument counter, kind of numbering, bit set of used arguments | `validate`, `parse` | `formatter<T>`, `reader`, `bitset` | two parsers have to agree |
| format specs (`detail/format/formatter.hpp:540-771`) | none | `validate_format_specs`, `parse_format_specs`, `check_*_specs` | `reader::parse_int` | the same |
| ranges and tuples (`ranges.hpp`) | brackets, a formatter for the elements | `validate`, `parse`, `format` | the formatters of the elements | specs nested in specs; several readers on one text |
| formatters (`formatter.hpp`, `detail/format/formatter.hpp`, `detail/conversion.hpp`) | `format_specs` | `format`, `write_arg`, `write_number` | `writer` | padding, signs, integer limits; sizes announced before the text exists; specs that `write_arg` changes |
| floating point (`detail/format/dragon.hpp`, `decode.hpp`, `detail/bignum.hpp`) | big numbers, digits, decimal exponent | `decode`, `format_shortest`, `format_exact` | formatters | an estimated exponent, rounding that carries, ends of intervals |
| `reader` (`reader.hpp`) | position, end | `peek`, `read_*`, `parse_*`, `*_until` | parsers, scanners | integer overflow, end of input, delimiters |
| scan (`scan.hpp`, `scanner.hpp`, `detail/scan/`) | input reader, the variables of the caller | `scan`, `scan_from`, `read_arg`, `read_string` | `reader`, `parser_base` | the text behind a field decides where the field ends; a failing field behind fields already assigned |
| `bitset` | words | `set`, `all_first` | `validate` | last partial word |
| `result`, argument erasure, `utf` helpers | values | | everything | |

How they interact: `format(str, args...)` validates `str` (at compile time, or
at run time behind `runtime()`), which runs `validate()` over the string and
asks the formatter of every argument to check its specs. It then runs the second
parser over the same string; that writes literal text and calls
`formatter<T>::format`, which writes through a `writer` into a `buffer`. The
buffer answers with spans of its memory, or empties its cache into an iterator,
a file or another buffer first. Errors travel as `result` values and end every
call on the way (`EMIO_TRY`).

What makes the parts correct:

* memory: no block is leaked, shared or used after it was freed; the area a
  caller gets lies in the block its buffer owns, behind the text so far; every
  buffer keeps its text whatever is done to others;
* buffers: nothing is lost, repeated or reordered between the writer and the
  output, whatever area sizes, flushes and resets come in between; errors occur
  only where there is no room; what an error leaves behind is a prefix; no
  loop spins;
* format and scan strings: the validator accepts the documented language; the
  second parser never needs a check it leaves out, reads the same fields, and
  renders what the language says; both loops end;
* scan: the input that has been read splits into the parts the scan string
  names, a number is the longest legal one and reads as its value, a string ends
  where the text behind it begins, and what has been assigned is told by what
  has been read;
* formatters: the text fills its field and only its field; what is announced is
  what is written; numerals read back; floating-point digits are the nearest
  or the shortest; every loop over digits ends.

## 2. Modules

    WriteArea ----+-- MemoryBuffer -- MCMemoryBuffer
    CtVector -----+        |  \------ MemoryBuffer_proofs
                           +- implements TextBuffers
    WriteArea -- Sinks --+-- DirectOutput -- EscapedOutput -- Output -- MCOutput
                         |                                      |+- implements CharStream
                         |                      Output_proofs --+
                         |                        |
                         +-- Sinks_proofs --------+
                         |                        |
                         |   TruncatedOutput_proofs
                         |         |
                         +-- TruncatedOutput -- MCTruncatedOutput
                                        +- implements CharStream
    WriteArea -- BackInsertBuffer -- MCBackInsertBuffer
    Reader -- FormatSpecs --+-- ScanSpecs ---+
                            +-- RangeSpecs --+-- FormatString -- ScanString
              Bitset ------------------------+
              ScanString -- FormatGrammar ----- ScanGrammar -- MCFormatString
                                |                    |
        FormatSpecs_proofs -- FormatString_proofs -- ScanString_proofs
    Numerals, FormatSpecs -- FloatText --+
    Bignum -- Dragon --------------------+-- FormatValue -- ValueText -- MCFormatValue
    Padding -----------------------------+                      |
                            FormatSpecs_proofs -- FormatValue_proofs

Memory and output:

| Module | Code | State and actions |
|---|---|---|
| `WriteArea` | the base class `buffer` | A record `len`, `taken` (`area_.size()`, `used_`) and the pieces of `get_write_area_of_max` and `get_write_area_of`. |
| `CtVector` | `ct_vector` | Operators on a function of vectors (`data`, `size`, `capacity`) and a memory of blocks. `reserve`, copy and move as the vector and the memory afterwards. A freed block has no cells, a write into it disappears. |
| `MemoryBuffer` | `memory_buffer` | `alive`, `vec`, `buf`, `mem` for a set of buffers in one memory. `Construct`, `WriteInPlace`, `WriteGrowing`, `Reset`, `Copy`, `Move`, `Destroy`: one action for each member function, all calls into `ct_vector` included. A constructor that copies or moves is `Copy` or `Move` to a buffer that is not alive. |
| `TextBuffers` | – | Abstract specification: a buffer is the text written to it. |
| `Sinks` | span, pointer, iterator, file and counting buffers | A record with the area, the cache, the output and a position, and operators for `flush`, both ways to get an area, and copies of a span. Operations that may fail are sets of outcomes: a file takes any part of what it is given. |
| `DirectOutput` | `writer` on a sink, as `format_to`, `print`, `formatted_size` and `format_to_n` use it | `Start` begins a call of the writer, `WriteChunk` is a turn of the loop in `write_str`, `WriteWhole` is `write_int`, `Flush`, `Reset`, `CopySpan` (construction or assignment from another span buffer), `Open` (the next API call with its own buffer). |
| `EscapedOutput` | `write_str_escaped`, `write_escaped_helper` | `StartEscaped`, then the lines of `write_str_escaped` and of one turn of the helper's loop: opening quote, remainder of a cut escape, whole and cut escapes, the next area, the closing quote in the area or in one of its own. |
| `Output` | both on one buffer | The calls of `DirectOutput` and `EscapedOutput` in any order, and what the caller of emio sees of them. |
| `TruncatedOutput` | `truncating_buffer` between a writer and a primary sink | `Start`, `Write`, `Request` and `Flush` (entering `flush()` from `request_write_area` or the client), `FlushChunk` (a turn of its loop), `FlushFails`, `FlushReturns`, `RequestReturns`, `RequestTooLong`, `FlushPrimary`, `Open`. |
| `CharStream` | – | Abstract specification: the reader of an output sees a growing prefix of the text that respects the limit. |
| `BackInsertBuffer` | `iterator_buffer<back_insert_iterator>` | `Write`, `Flush` on a container; the area lies in the container. |

Format and scan strings:

| Module | Code | State and actions |
|---|---|---|
| `Reader` | `reader`, `char_to_digit` | `peek` and its end, `parse_int` with its wrap and the comparison that looks for it, `read_if_match_str`, `read_until_str`. |
| `FormatSpecs`, `RangeSpecs`, `ScanSpecs` | specs of core types, of ranges, maps and tuples, of scanned types | What the validating and the unchecking parser read from a position: where they end, whether they succeed and the specs. |
| `Bitset` | `detail/bitset.hpp` | The words of a bitset as functions of their bits. `SetBit`; `AskAllFirst`, `NextWord`, `LastWord`, `NextBit`, `EndOfBits` are `all_first` turn by turn, `AskAll`, `NextOfAll`, `EndOfAll` are `all`. |
| `FormatString` | plain strings, `validate`, `parse`, both `parser_base` | `WritePlain`; `ValidateText`, `ValidateField`, `Terminate`, `RejectText`, `RejectField`, `RejectSpecs`, `AskMatched`, `Match`, `EndValidation`; `Begin`; `FormatText`, `FormatField`, `EndFormat`. A step consumes one character, escape or field. A field sets its bit before its specs are checked; at the end `Match` takes the steps of `all_first`. Where the unchecking parser would leave the string or use a value that is not there the phase is `undefined`. |
| `ScanString` | `vscan_from`, `scan_parser`, `read_arg`, `read_string` | `ScanPlain`, `ScanText`, `ScanField`, `EndScan`: what the parser hands over at once is matched against the input, or read into an argument. `values` are the variables of the caller. |
| `FormatGrammar`, `ScanGrammar` | `detail/format/specs.hpp:15-27`, `docs/API.md` | The grammar of format and scan strings as a set of readings, without positions or greedy readers, legal numerals and their values, and the properties. |

Values:

| Module | Code | State and actions |
|---|---|---|
| `Numerals` | `detail/conversion.hpp`, `to_absolute` | Counting and writing digits in any base, `parse_int` of a numeral's digits. |
| `Padding` | `write_padding_left`, `write_padding_right` | The two runs of the fill character and the width that is left. |
| `Bignum` | `detail/bignum.hpp` | Numbers of several blocks: sum, difference, comparison, multiplication with a block, powers of 5 and of 2. |
| `Dragon` | `decode.hpp`, `dragon.hpp` | `decode`, `format_exact` and `format_shortest`: `StartExact`, `StartShortest`, a turn of a digit loop each, and what happens behind the loops. |
| `FloatText` | `detail/format/formatter.hpp:110-470` | Notation and precision from the specs, and the text of digits and an exponent with its announced size. |
| `FormatValue` | `formatter<T>::format`, `write_arg` of all core types, `writer::write_int`, dynamic `format_spec` | `Overwrite` replaces width and precision by those of a `format_spec`; `BeginInt`, `BeginBool`, `BeginChar`, `BeginPointer`, `BeginString`, `BeginWord`, `BeginZero`, `BeginFinite` find the size of a value, `Generate` runs the digits, `Lead`, `PadLeft`, `Body`, `PadRight` write it. One formatter formats several values, as for a range. |
| `ValueText` | – | What the text has to be, with readers of numerals of its own, and floating-point numbers taken from their bits. |

Data is abstracted to what the properties tell apart. Characters that pass
through the `Sinks` are numbers: the k-th character of the text is `k`, so a
lost, repeated or swapped one shows. A formatted number is then a number of
characters that must be written in one area, and an escaped character one of a
class of equal length. In `FormatString` writing an argument is one item of
output, and in `FormatValue` a buffer does not end: the three sides of the
library meet in `writer` and `formatter`, whose other side each of them takes
for granted.

Definitions commented "Mutant:" are plausible bugs next to the definition they
replace. `PROJECT.json` names for each property the mutant that breaks it. They
are not part of any specification.

## 3. Runs

| Run | Question | States |
|---|---|---|
| `memory_buffer` | memory, areas and text of two buffers under all operations | 400,000 |
| `memory_copy`, `memory_move` | the same with any copy, any move: **violated** | |
| `output` | a writer on six kinds of buffers: plain and escaped text, numbers | 36,000 |
| `truncated_output` | a truncating buffer over span, iterator, file | 113,000 |
| `truncated_chunk` | the same over a primary with a smaller cache: **violated** | |
| `back_insert` | back inserter: **violated** | |
| `format_string` | about 10,000 format and scan strings with arguments and inputs | 240,000 |
| `tuple_position`, `scan_delimiter` | something behind a tuple, an escape behind a string: **violated** | |
| `values` | values of all core types in all layouts, all numbers of a small floating-point format | 31,000 |
| `float_fraction` | as many digits as the precision says: **violated** | |

### Bounds, and why they are enough

* `MemoryBuffer`: two buffers (every operation names at most two), three heap
  blocks (two owned and a new one during growth), inlined storage of 2, chunks
  of 1 and 2 characters, capacity at most 5. A vector can be inlined, external
  after one growth and after two; a chunk can fit, fit exactly, or grow the
  vector with unused characters left. `MaxCapacity` bounds only how often a
  vector grows. Blocks and buffers are symmetric.
* `Output`: caches and spans of 1, 2, 3 and 5 (and empty spans) end behind every
  part of an escape sequence (of 1, 2 or 4 characters) and before, behind or at
  the closing quote; calls of 1, 2 and 4 characters are smaller than, equal to
  and larger than an area. Limits 0, 2 and 5 lie before, inside and behind the
  first cache. Sources are all of up to two characters and two of three;
  `MaxText = 14` allows the longest alone, or several shorter ones in one cache.
* `TruncatedOutput`: the truncating cache has 2, the primary 2, 3 or 5: a flush
  meets an empty, a partly filled and a full primary. Limits are 0, 3 and 5. Two
  or more `format_to_n` may follow each other on one primary, up to 8 characters
  in all. In `truncated_chunk` primaries have 1 or 3.
* `FormatString`: every format string of up to four of the characters
  `{ } : 0 1 s`, any two of 29 pieces (escapes, stray braces, fields with all
  parts of a specification, overlong numbers, unknown types) and any three of
  the simple ones; fields of ranges between text, escapes and other fields; pairs
  and triples of 22 pieces of scan strings, and a string field in front of two
  characters, so that the search for the text behind it meets a part of that text first. Inputs are all of up to three of
  `0 1 a {` and nine others (signs, prefixes, numbers out of range). The widths
  of integers are constants and scaled down: `Word` (2^32) is 256 and `Byte` (2^8)
  8, so that numbers of two and three digits reach every limit. The sentinel 255
  is then 7, and no argument has that number. A bitset has 4 bits (128) in words
  of 2 (64): up to five arguments end in the first word, fill it, reach into the
  second, fill both, and exceed them. That words are not filled by the number of bits
  is left to the proofs, which hold for any sizes.
* `FormatValue`: integers of 16 bits (`Word = 65536`) at every number of digits
  and both limits, in all bases, in layouts that cross alignment, sign, zero flag,
  `#` and widths below, at and above the size. Floating-point numbers have four
  fraction and four exponent bits: all 240 finite non-negative ones, subnormals
  included, with every kind of precision. Blocks of a bignum have four bits, so
  that every operation carries over several blocks, and one power of five per
  block; `ArithmeticIsExact` compares them with integers directly. The notation
  changes at exponents -2 and 2 (-4 and 16 in the code), the default precision
  is 2 (6). Dynamic specs overwrite the width, the precision, both or neither, also
  with negative numbers, which count as zero; a precision that does not fit the
  `int16_t` it is narrowed to is not among them.

### Fairness

The library is sequential: a thread that has entered a call executes it to its
end. So the steps *inside* a call are weakly fair (`Step` of `Output`;
`Write`, `Request`, `FlushChunk`, `FlushFails`, `Return` of `TruncatedOutput`;
every step of `FormatString`, `ScanString` and `FormatValue`, which are one call
of the API each), and nothing else is: no client has to begin a call, flush or
open a buffer. `CallsReturn`, `Decided` and `Completes` are checked under this.
`MemoryBuffer` has no step inside a call and no fairness.

`CHECK_DEADLOCK FALSE` is given for the format string and value runs only: a
call of the API ends.

### What the runs show

* Within the limits named below, memory is managed correctly, and a memory buffer
  implements `TextBuffers`: each buffer has its text whatever happens to others.
* `output`: no character is lost, repeated or swapped, whatever is written,
  escaped and flushed when and wherever an escape is cut; the size of an escaped
  text counted in advance is what is written, and its loop ends with the
  source; `eof` is only answered by a span without room for the rest, by a file
  that does not take all it was given, or for a number larger than the cache; a
  reader sees a growing prefix, also while a file fails. Behind a number that is too
  long the client writes on, to a file as to any other buffer.
* `truncated_output`: the same for the truncating buffer, exactly up to the
  limit; text beyond the limit never causes an error; `count()` is the length of
  the text, also behind a number that was too long, and behind a failing flush
  it is off by the characters in the cache or not at all.
* `format_string`: the validator accepts the documented grammar and nothing
  else; each `assert` and `assume_value` of the second parser is justified; the
  two parsers number and read the same fields; in the end each argument has been
  written or read (`EveryArgument`); the output has escapes undone and
  fields replaced; every string is decided. The validator's bitset
  is never read behind its last word (`InsideWords`) and answers right
  (`AnswersRight`). A scan splits its input as the scan
  string says (`PartsOfInput`), assigns the arguments in front of an error and
  no other (`Assigned`), reads integers as the longest legal numeral with its
  value, and ends strings at the text behind them.
* `values`: every text fills its field, with what was announced; integers read
  back in every base; the digits of a floating-point number are those of the
  nearest number, ties to even, or the fewest that read back and the nearest of
  these; between two digits the remainder is exact (`Remainder`, the comment at
  `dragon.hpp:304`); a formatter formats its second value like its first.

### Disagreements

Each has a run of its own, so that the passing runs describe what holds beside it.

1. `memory_copy`: copying a short buffer over one with an external block leaves
   `size_ < capacity_`, while the write area extends to `capacity()`
   (`buffer.hpp:166`). The next growth computes its size from `size_`
   (`buffer.hpp:222`) and may grant an area that ends behind the block.
2. `memory_move`: moving an inlined vector over an external one deletes the
   block and copies into it (`ct_vector.hpp:69`).
3. `back_insert`: the area of a back inserter begins at `used_` and is as long
   as the whole container (`buffer.hpp:562`), hence ends `used_` characters
   behind it.
4. `truncated_chunk`: `flush()` copies from the beginning of the cache in every
   turn (`buffer.hpp:674`).
5. `tuple_position`: the formatter of a tuple takes a position in the format
   string for a number of characters (`ranges.hpp:190`, `:215`), and what stands
   behind the tuple is skipped.
6. `scan_delimiter`: the text that ends a string loses what stands in front of an
   escape (`scan/scanner.hpp:234`), and the search for it skips a character
   behind a partial match (`:192`).
7. `float_fraction`: a number below one that rounding shortens gets no zero
   behind it (`format/formatter.hpp:335`).

The passing memory run excludes 1 and 2 by the constants `AnyCopy` and `AnyMove`:
a buffer with an external block is copied over only by one at least as large
(`CopyKeepsSize`), and moved over only by one with an external block
(`MoveKeepsStorage`). The passing truncating run uses primaries with a cache at
least as large as the truncating one, which is what all of the library's own
buffers have by default (`default_cache_size`). In the passing format run tuples
end the string and text behind a scanned string is free of braces or a single
one; `values` does not check `ShowsPrecision`.

Three more have no run, since their inputs are left out of the strings of
`format_string`, or no document says otherwise: argument number 255 equals
`no_more_args` (`detail/parser.hpp:25`, `:235`), and the rest of the string is
neither checked nor formatted; a `flush()` of a truncating buffer that fails
because of the primary has already counted the cache and keeps it
(`buffer.hpp:671`), so that `count()` has it twice, the one exception of
`CountsText`; type `O` is
accepted for integers (`format/formatter.hpp:699`) and fails when it is formatted
(`:72-108`; the phase `failed`).

What the models show besides, where a property has an exception for it:

* `parse_int` misses an overflow that wraps past the previous value
  (`reader.hpp:440`, `:459`): "5000000000" reads as 705032704 into 32 bits
  (`Unnoticed` in `ReadsIntegers`). In bases above 10 the characters `:` to `@`
  are digits (`conversion.hpp:43`).
* A scan of "0 5" with `{:#} {}` fails: the character behind a lone zero decides
  its base (`scan/scanner.hpp:106`). `{:#o}` of "0" fails, which is what a format
  with `{:#o}` writes.
* A number that does not fit a narrow type leaves the reader behind it
  (`emio/scanner.hpp:111-119`), any other failing number in front of it; "12ab"
  with `{:4}` assigns and fails (`scan/scanner.hpp:123-128`).
* `docs/API.md` lists the types `B` and `X` for scans; they are rejected.
* A quoted character is padded as three characters also when it is escaped
  (`format/formatter.hpp:499-501`; `Layout` exempts characters from the announced
  size).
* More than 128 arguments terminate the program (`bitset.hpp:89`, the phase
  `terminated`).

## 4. Proofs

### `MemoryBuffer_proofs`

For any sets of buffers, heap blocks and characters, any positive inlined
storage and any chunks and capacities:

| Theorem | Statement |
|---|---|
| `TypeCorrect` | `Spec => []TypeOK` |
| `MemoryIsManaged` | `Spec => []Ownership` |
| `AreasAreInside` | `Spec => []AreaInsideBlock` |
| `VectorIsFull` | `Spec => []SizeReachesArea` |
| `MemoryBufferHoldsText` | `Spec => HoldsText` |

Assumptions: those of the modules (`Storage` positive, buffers and heap pointers
distinct, `Junk` not a character, chunks non-empty sequences of characters, capacities
naturals) and `CarefulClients`, i.e. `~AnyCopy /\ ~AnyMove`; without it
the theorems are false, as the first two disagreements show.

Neither `Ownership` nor `AreaInsideBlock` is inductive. That an area stays in its
block when the vector grows needs `size = capacity`; that needs what each
assignment does to both; and that a move frees the right block needs that a
vector which does not own an external block uses its own storage of unchanged length. The
inductive invariant `IInv` therefore joins `Managed` (types, inlined storage,
sizes, single owners, no leaks: a statement on vectors and memory alone) with
`Fits` (the members of each live buffer against its vector). Lemmas
show that each operator of `CtVector` keeps `Managed`; one lemma per action
lifts this to `IInv`; `NextIInv`, `InitIInv` and `IInvImplies` close the argument.

That a memory buffer implements `TextBuffers` is shown under the same
assumptions. The invariant is `TextInv`, which is `IInv` and that a buffer which
is not alive is empty. The text of a buffer is what its block holds in front of the area, so the
lemmas speak of the cells of blocks: `ReserveContent`, `WriteContent`, `CopyText`
and `MoveText` say what each operator of `CtVector` does to the content of a block
and that it leaves every other owned block alone (`IInv` says that no two buffers own
the same). `ViewExtended`, `ViewTaken`, `ViewKept` and `ViewEmpty` turn this into the
four things an abstract step can do to a text, and there is one lemma for each
action.

### `Output_proofs`, on `Sinks_proofs`

For a writer on every kind of buffer, any positive sizes of caches and spans (a
span may be empty), any limits, calls, sources and length of the text, and any way
a file fails:

| Theorem | Statement |
|---|---|
| `TypeCorrect` | `Spec => []TypeOK` |
| `TextArrives` | `Spec => []NothingLost` |
| `SizeIsRemaining` | `Spec => []SizeMatches` |
| `ErrorsAreJustified` | `Spec => EofIsJustified` |
| `ImplementsStream` | `Spec => StreamsText` |

Assumptions: those of the modules only (`Room` and `Size` are sets of positive
numbers, `Limit` of naturals, `Source` of sequences of the three classes of
characters, `MaxText` is a natural).

`NothingLost` is not inductive: what a buffer holds in the middle of a call, with
an area granted and half an escape written into it, is not what a reader sees. The
inductive invariant `IInv` is the conjunction of `BufferGood` (for each kind of
buffer, which part of the text is in the cache and which has gone to the output,
`HoldsText`), `CallGood` (a call has the rest of its characters left), `AreaGood`
(what the helper has used of its area lies in it) and `EscapeGood`: the remainder of a
cut escape are the next characters of the text, and `escaped_size` is what remains of
the source and the remainder, up to what has been put into the area. The last
part is what the unsigned subtraction in `write_escaped_helper` depends on.

`Sinks_proofs` has what every kind of buffer does: `RoomIsMade` (a request for an
area), `GrantedOfMax` and `GrantedOf` (both ways to get one), `FillBuffer`,
`GiveBackBuffer`, `ReaderOfBuffer`. In `Output_proofs`, one lemma for each action of
the writer and line of the helper shows that `IInv` is kept. The action property and
the refinement come from one more case split: `Continues` says of every step
what it does to what a reader has seen (`Follows`), which is a step of `CharStream` or
a stutter, and why a call ends early (`HasReason`). `EofIsJustified` speaks of the
file's characters and not of `broken`: that a file with an error lacks some
(`FailedFileHoldsLess`) rests on `FileFailed`, which says how many at most a failing
`fwrite` has left there, and on `Breaks` and `Spares`, which say that only such a
refusal sets `broken`.

The announced size is a fold over the source, a set that loses its greatest
member in each turn. The lemma `Induction` derives induction over a *set* of numbers from the
well-foundedness of `<` on them (`WFMin`), which, unlike the induction theorems of
the library, needs no operator as a parameter; with it `FoldAddsUp` shows
that such a fold is the last of a sequence of partial sums, and `SumOfRest` that the
sum of a sequence is its head and the sum of its tail.

### `TruncatedOutput_proofs`, on `Sinks_proofs`

For any cache size, primaries, limits, sizes of calls and length of the text,
and any way a file fails:

| Theorem | Statement |
|---|---|
| `TypeCorrect` | `Spec => []TypeOK` |
| `PrimaryHoldsPrefix` | `Spec => []PrefixInPrimary` |
| `CacheHoldsRest` | `Spec => []RestInCache` |
| `CountIsLength` | `Spec => []CountsText` |
| `ErrorsAreJustified` | `Spec => EofIsJustified` |
| `ImplementsStream` | `Spec => StreamsText` |

Assumptions: those of the modules and `LargePrimaries`, that no primary has less
room than the cache of the truncating buffer; without it `PrefixInPrimary` is false
(`truncated_chunk`). `format_to_n`, the only user of the class in the library,
guarantees it for buffers with a cache of the default size.

The inductive invariant `IInv` says of every state, inside a flush as well, what
the primary holds, what the cache holds, and how the counters relate: its parts
are types, that an error is reported, that the written text is within the
limit, the text of the primary, the counts, and the text of the cache. The part
that makes it inductive is `OneTurn`: `flush()` copies from the *beginning* of the
cache in every turn, which is right only because in a second turn the
primary is full and answers `eof`, or its cache has just been emptied and takes
all that is left. `FailingStep` names the reason of each way to fail (`Fails`: an
error of the primary, or a call that returns before all its characters have
been accepted); `TakenInPart` says of a file that some of its content is missing. `Sinks_proofs` has the lemmas on the primary this rests on,
one for each operator of `Sinks` and kind of buffer: what `flush` and a request
for an area do to its text, its room and its type. `ImplementsStream` is a step
simulation: each action maps to a step of `CharStream` or to a stutter.

### `FormatString_proofs`, on `FormatSpecs_proofs`

For any set of format and scan strings of any length, any arguments, any inputs
and any widths of the integers:

| Theorem | Statement |
|---|---|
| `ChecksSufficeAlways` | `WithoutTuples` implies `Spec => []ChecksSuffice` |
| `ParsersAgreeAlways` | `WithoutTuples` implies `Spec => []ParsersAgree` |
| `BitsetTypeCorrect` | `BitsetSpec => []BitsetTypeOK` |
| `WordsAreInside` | `BitsetSpec => []InsideWords` |
| `AnswersAreRight` | `BitsetSpec => []AnswersRight` |
| `UsesBitset` | `Spec => BitsetSpec` |
| `AllArgumentsUsed` | `Spec => []ArgumentsUsed` |
| `EveryArgumentAlways` | `WithoutTuples` implies `Spec => []EveryArgument` |

Assumptions: those of the modules (`StringsAssumption`: strings are sequences of
characters, arguments of known kinds; `Byte <= Word`, `Bits < Byte`) and
`WithoutTuples`, that no argument is a pair or a map. With these the two parsers
do differ: behind a pair without specs the validator goes on at its brace, and the
other parser skips as many characters more as stand in front of it (disagreement 5).
Ranges, nested ones too, and empty tuples are included.

**The parsers.** The second parser has no checks: it takes the character behind a brace, the digits of
a name, the type of a specification for granted and would leave the string,
which the model records as the phase `undefined`. That it never does is not
inductive, since it starts again at the first character while the state only has
the fields that were validated. The invariant `ParserInv` therefore says that there
*is* a set of places that the first parser came by (`Trail`), each with the number of
the next argument and of the fields so far: it contains the start, and with
a place the one behind the text or the accepted field that stands there, up to the
place where the parser has got to (`Reached`) or where it stopped (`Passed`). The
second parser is always at a member of that set, behind as many fields as it has
written. `TextReached` and `FieldReached` extend the trail, `TextPassed`,
`RunPassed` and `FieldPassed` follow it; the scanning parser takes text run
by run, which needs an induction over the characters of a run.

That a field is read again in the same way rests on lemmas about the functions the
model is built from: `CoreAgrees` (specs of the core types), `ScanAgrees` (those of a
scan), `AnyAgrees` (all kinds), `FieldRead` (with the name of the field). The
functions are defined by recursion, over positions (`parse_int`) or over kinds
(`ValidateAny`, `ParseAny`): `RunExists` of `FormatSpecs_proofs`, which also has the
lemmas on `Reader`, shows that the first exist, `ValidateAnyEquation` and `ParseAnyEquation` that the others satisfy their
recursion, which ends after three rounds because elements of elements are of
core types.

**The arguments.** `BitsetSpec` is a bitset of any size (at least one bit, in words
of at least one) with a client that sets and asks what it likes. Its invariant
`BitsetInv` adds to the types and `AnswersRight` that the words
hold exactly the numbers that were set (`Marked`: bit `b` of word `k` is number
`WordBits * k + b`, and no other), and where each loop is: in front of the current
word everything has been found set and what `remaining` counts is still to be looked
at (`AtWord`), `last_word` is the last word shifted by what has been looked at
(`AtBit`), and the same for `all` (`AtAll`). `Division` and `Unique` are the facts
on quotient and remainder this rests on. `all()` is covered here only, since
nothing in the library calls it.

The parsers are such a client (`UsesBitset`, a step simulation: `Spec => BitsetSpec`),
so its answers are right for them too. While validating, the bitset holds the
arguments of the fields so far (`TickingInv`), and `validate` only accepts when it
answers that the first `arg_cnt` are set: what has been accepted names all
arguments (`AllArgumentsUsed`, which needs no `WithoutTuples`). With `ParserInv`, which
says that the second parser takes the fields one by one, each is then written or
read in the end.

### `ScanString_proofs`, on `FormatString_proofs`

For the same strings, arguments, inputs and widths:

| Theorem | Statement |
|---|---|
| `StringTypeCorrect` | `WithoutTuples` implies `Spec => []TypeOK` |
| `PartsOfInputAlways` | `WithoutTuples` implies `Spec => []PartsOfInput` |
| `AssignedAlways` | `WithoutTuples` implies `Spec => []Assigned` |
| `ReadsIntegersAlways` | `WithoutTuples` implies `Spec => ReadsIntegers` |
| `StopsAtTextAlways` | `WithoutTuples` and `WithoutEscapes` imply `Spec => StopsAtText` |

`StringTypeCorrect` covers formatting and scanning. That a position lies in its
string rests on one lemma for each reader (`NumberEnds`, `UntilIsInside`,
`StringIsInside`, `ReadIsInside`), that an output is no longer than its string on a
count of what each step consumes (`TypedInv`).

`PartsOfInput` speaks of each part of the input on its own, the code of positions in
all of it. `PartsInv` says of the items read so far what the property says, and that
the reader stands where the last part ends. A field of an integer is the work:
the code skips a sign, looks at up to two characters to find the base, and takes
digits up to the end of the width; the grammar (`IntegersOf`) says which texts
are numerals of the specs. `NumberOfDigitsRead` and `NumeralRead` collect what
the code has seen, `PartStands` and `SameCut` carry it to the part, `NotationOf` and
`NumeralParts` find the notation it fits. The characters between `'9'` and `'A'`,
which `char_to_digit` takes for digits when the base is larger than ten
(`conversion.hpp:43`: the digits of `0x:` are `:`, of value 10) are figures of
the grammar for that reason (`FiguresOf`).
Matched text is a run of items of one character each (`RunRead`).

`Assigned` adds the values. The number a numeral stands for is a fold over its digits
(`IntegersOf`), the number `parse_int` comes by is accumulated in a machine word that wraps.
`NumberIsRead` turns the fold into the sequence of its partial sums, by induction over the
digits on the definition of the fold. In magnitude these sums only grow
(`NumbersGrow`): if the type holds the last of them, it holds all, no step has
wrapped, and the word holds the number (`AccumulatesNumber`, `ExactlyAccumulated`,
`ParsedExactly`). This is all the property asks for: a number the type cannot hold may
wrap unnoticed, and then something else is assigned (`parse_int` under
[Disagreements](#disagreements)); the theorem shows that it takes such a number. `AssignedInv` says
of every argument that the last item that reads it has assigned it, or that
it is untouched, or that the field which just failed has a width: `FailureAssigns` finds
the one way in which a failing scanner assigns.

`ReadsIntegers` is the converse for integers: what stands in the input is read, as far as it goes.
`LegalIsRead` starts from any text the grammar accepts: `HasNotation` takes its
notation apart, and `NotedIsRead` shows that the code, which only looks at two
characters behind the sign, finds the same base and prefix there; the exception
is a zero that `#` takes for a number of its own (`LoneZero`), which the code
takes for a prefix if other text follows. The digits then go at least
as far as the text. `NumberDelivered` adds the number: if the type holds it, it is assigned
(`ParsedWell`: no comparison of `parse_int` fails), otherwise the field fails, or
the overflow was one that is not noticed (`UnnoticedNumber`: then the number
exceeds the one without its last digit by `Word` or more). `ReadIntAnswers` and `CutIsInput` are about
the width, which is a cut of the input that the code makes first; `IntegerOwed`
puts it together with the longest of the numerals.

`StopsAtText` is about strings without a width. The property gives the text behind a field by
recursion (`TextFrom`; `TextFromOf` shows that the recursion defines it), the code looks
for the rest of the run the field ends in (`read_string`). `TextUpTo` says that these are the same
text when the run ends at a field or at the end of the string, and `EndsAtField` that it does
so: the checking parser, which has passed the run (`RunEndPassed`), refuses a single brace
that opens no field, so a run could otherwise only end at an escape. That there is none in a scan
string is the hypothesis `WithoutEscapes`. It is needed: at an escape the code turns to
`read_string_complex`, which overlooks a beginning of the text (`scan_delimiter` under
[Disagreements](#disagreements)).

### `FormatValue_proofs`, on `FormatSpecs_proofs`

For any jobs (values of all core types, with any specs the checks of the format string
accept and any `format_spec`, several values for one formatter), any width of the
integers, any floating-point format and block size of the bignums, and any bounds of
the notations:

| Theorem | Statement |
|---|---|
| `FillsAreaAlways` | `Spec => []FillsArea` |
| `LayoutAlways` | `Spec => []Layout` |
| `ReadsBackAlways` | `Spec => []ReadsBack` |
| `FieldIsFilled`, `SidesAreBalanced` | the two runs and the value fill the field, neither run is negative, a value aligned to one side is padded on the other only, a centered one is off by one at most |

Assumptions: those of the modules. `JobsAssumption` says what a job is: the specs have
passed `ValidateSpecs`. `MeaningAssumption` says that `meant`, the specs the properties
speak of, are those of the text with what a `format_spec` says instead.
`ExponentAssumption` says that the estimate of a decimal exponent has three digits at
most, as for `float` and `double` (-324 to 309); with a fourth digit the exponent
notation is longer than `write_decimal` announces, since `write_exponent` splits an
exponent into a figure for the hundreds and two more. `Word >= 1000` is for the same.

`FillsArea` and `Layout` are about a size that one function announces and a text that another
writes. The lemmas on numerals say, for every number and base, that the count
of digits is the number of those written (`UintLength` and the like: counting goes by
four digits or by bits, writing by two or by one, and both are recursive
functions whose existence is shown by `RecursionExists`). `DecimalExact` says the same for each
notation of any digits and exponent. The digits themselves are not looked at:
`DragonStep` only says that they are a sequence and that the exponent stays
within one of the estimate, one more behind rounding.

The inductive invariant `Inv` says of a value being written which specs are in
force (`SpecsKept`: the formatter has those of the job, whatever `write_arg` did to its
copy), that the shape is one of the value (`ShapeOf`), and what is written so far
(`Writing`): in front of the left padding, behind it, behind the body, each with the width that
is left at this point. `LaidOut` keeps what is said of the last text. A fill
character may be a digit or a sign; the statement is on the sequence of parts and
does not search for the value in the text.

`ReadsBack` compares the writer with the reader. `ReadsAs(u, base, n)` says that the digits
of `u` give `n` one by one without an overflow (`Steps` are the values between them); it
is shown for every numeral by induction over the number (`UintReads`,
`OtherReads`, `DecimalReads`, which takes two digits at a time), and
`AccumulatesSteps` shows by induction over the digits that `parse_int` comes by the same values.
That a digit has the value it was written for (`ValueOfDigit`) needs that no
character occurs twice in `DigitRows`. `AbsoluteValue` is about the two's complement,
with the smallest integer. The invariant `Numbered` keeps with the text of an
integer the shape it was written from.

### Only model-checked

* Liveness (`CallsReturn`, `Decided`, `Completes`), out of the prover's reach.
* `AcceptsGrammar` and `Renders`, which compare the parsers with `Readings` and
  `IsFormatSpecs`, recursive definitions over all ways to split a string, and,
  for tuples at the end of a string, what is proved under `WithoutTuples`.
* That a string is read up to its delimiter (`StopsAtText`), for scan strings with
  escapes: it does not hold for all of them, see `scan_delimiter` under
  [Disagreements](#disagreements).
* That the digits of floating-point numbers are right (`Nearest`, `Shortest`,
  `Remainder`): they depend on the values of what `Bignum` and `Dragon` compute by
  recursion over blocks, and on powers. So do the types of the digits (`ValueText.TypeOK`), and with them that
  a formatter writes the same value twice in the same way (`SameForAll`).

## 5. Not modelled

* The brackets and separators of ranges and tuples (`ranges.hpp:78-93`, `:162-167`,
  `:230-255`) and the formatters of the standard library (`std.hpp`): fixed texts
  around values that are modelled.
* Argument erasure, `result`, concepts, overloads: C++ types, no state that changes.
* A dynamic precision beyond the 16 bits it is narrowed to.
* `reader::read_until` with predicates of a client, and sub-readers.
* A write area that a client keeps over another call, two buffers on one
  iterator or file, allocation failure, and threads: the code excludes them by contract.
