# A verification development for serdde

`serdde` serializes typed values: `@derive(Serialize, Deserialize)` generates, at
compile time, codecs that talk to a *writer* or a *reader*, and JSON, DSON, CBOR and
the dynamic `Value` are interchangeable behind those two interfaces. This directory
holds TLA+ models of that core, the TLC configurations that check them, and theorems
about the writers proved with TLAPS.

The library is **sequential**: no thread, callback, timer, message or persistent state
occurs in it. What can go wrong is of another kind: a writer is an object with state
whose callers are generated code and handwritten adapters, so *long sequences of legal
calls, and calls after a failure*, must not leave it in an illegal state; the same
document is understood by *two readers* that share no code; what was *declared* (a
count, an order, a set of keys) is computed in one place and used in another; and a
class decodes documents it did not write. The models are aimed there. Every property is
a safety property: no fairness is assumed anywhere and no liveness is claimed, because
nothing in the code waits.

## 1. Inventory

### Components

| Component (`src/src/serdde/`) | State | Operations | Correct when |
|---|---|---|---|
| JSON wire writer (`json_wire_writer.hpp`) | stack of frames, text, `wrote_root_`, error | `begin_*`, `write_*`, `end_*` | the text is always the prefix of a document; illegal calls fail and change nothing |
| DSON wire writer (`dson_wire_writer.hpp`) | the same, with declared counts in the text | the same | as JSON, and a false count is found by the reader |
| CBOR wire writer (`cbor_wire_writer.hpp`) | frames with buffered entries, bytes | the same, and sets, compact and ordered objects | counts kept, bytes in the right buffer, canonical key order |
| `Value` backend (`value_backend.dd`, `value.dd`) | stacks of values, pending names and checks | the same | builds the tree that the text denotes |
| Generated class encoding (`macro_class_direct_encode.dd`, `protocol.dd`) | none: a sequence of calls | `serialize_to`, field count, canonical order | declared = written; order canonical; collisions refused |
| Generated class decoding (`macro_class_direct_decode.dd`, `protocol.dd`, `error.dd`) | none: a function of a view | lookup by name, alias, id; defaults; flatten; unknown keys; error paths | reads back what was written; independent of member order; unknown keys harmless or refused |
| Entry points (`json.dd`, `dson.dd`, `cbor.dd`, `convert.dd`) | none | `dumps*`, `loads*`, `to_value` | the backends agree |
| Dynamic parsers (`json_parser.dd`, `dson_parser.dd`, `cbor_value.dd`) | position, depth | `loads_value` | accept what the typed readers accept |
| Typed readers (`json_wire_document.hpp`, `json_wire_native.hpp`, `dson_wire_reader.hpp`, `cbor_wire_reader.hpp`, `cbor_wire_common.hpp`) | an index or byte ranges | validate, `element`, `key`, `field*` | what they find is what was validated |
| Generated enums (`macro_enum_*.dd`) | none: calls, or a function of a view | four tag forms, payloads, variant names and aliases | a document is read by the variant that wrote it; flattening and canonical order hold inside payloads |
| Built-in types (`protocol.dd`, `variant_wire_native.hpp`) | none | lists, arrays, sets, dicts, `Option`, `Result`, variants, numbers | what is written is read back; no number is read as another |
| Dynamic writers (`json_writer.dd`, `dson_writer.dd`, `cbor_value.dd`) | none | print a `Value` | print what the typed writers write |
| Source locations (`json_wire_location.hpp`) | a walk over the text | offset of a value, line, column | the position is the value's own |
| Strings (`json_native.hpp`, and in each writer and parser) | none | UTF-8 validation, escapes, measured strings | text comes back as it was; nothing else passes for text |
| Macro validation (`macros.dd`, `macro_config.dd`, `macro_support.dd`) | compile time | diagnostics | only its rules on names, ids, tags, flatten and skip are used |
| Generated names (`macro_codec_support.dd`) | names taken | fresh locals | not modelled: a wrong name does not compile |
| `format_support.dd` | none | position of an error path in a `Value` | not modelled: nothing calls it |
| yyjson (`third_party/yyjson`) | vendored | parse | external: modelled as the tree it hands over |

Benchmarks, tests, examples, interop programs and scripts are not part of the core; they
were read for what they say of it.

### How they interact

A `dumps` call makes one writer, calls the generated `serialize_to`, which calls the
writer in document order, and stops at the first call that fails. `to_value` is the same
with `ValueWriter`. A `loads` call validates the whole source once, which leaves a
*document* (JSON: yyjson's tree and an index; DSON: the source; CBOR: a flat array of
children), and hands the generated decoder an immutable *reader* on it. A flattened field
shares its parent's writer frame or its parent's reader. `loads_value` and the readers of
`Value` never see these documents: they have parsers of their own.

### What is hard

* `first`/`expecting_value` of the frames are shared by all calls of a writer.
* A failed call must change nothing the next one relies on. CBOR's `end_object` pops its
  frame before it may fail.
* Buffered CBOR containers can stand inside direct ones and these inside buffered ones:
  where bytes go is decided at each append.
* The number of fields is declared by one generated method and the fields are written by
  another, with skips, predicates and flattening in both.
* The four backends notice a repeated name at four different moments.
* CBOR order is fixed at compile time, and by sorting at run time, and both must agree.
* Typed DSON reading parses ranges again and again, from a depth that is not theirs.
* Children of all CBOR containers share one array.
* Aliases, ids, defaults, skipped and flattened fields and `deny_unknown_fields` interact,
  and in enums so do tags, aliases of variants and the order in which these are tried.
* Numbers pass between widths, signs and kinds at a dozen places, each with bounds of its
  own; half floats are rounded by hand.
* yyjson reports no positions: the text is walked a second time, beside its tree, to find
  the place of an error.
* Two parsers unescape strings, two writers escape or measure them, and one function says
  what text is.

`PROJECT.json` lists each hazard with its line and the properties that cover it.

## 2. Modules

### Contract and data

* `WireContract` — the abstract writer: open containers, which of them awaits a value,
  whether there is a root. It promises what generated code relies on and is the
  specification that three writers are shown to implement.
* `Words`, `CborFloat` — integers of any width as bytes, and floats as exact fractions:
  two's complement, single and half precision, and the rounding of `float_to_half`.
* `WireTree` — the `Value` tree, with `set_field` and `has_field`.
* `JsonTokens` — the tokens of JSON text. `JsonGrammar` — the grammar of JSON as rules,
  and derivations from them: `Spells(grammar, text, tree)` says which text is a document
  and what it means, without saying how it is read. The proofs speak of it where the runs
  speak of `JsonParser`.
* `SequenceFacts` — lemmas on sequences (stacks), induction and recursion that the proofs
  cite.

### Writers

* `JsonWriter`, `DsonWriter`, `CborWriter` — one variable for each member of the C++ class
  (`frames`, `output`, `wroteRoot`, `error`), one action for each call. Each action is
  the whole method: the check, `Fail(message)` when it refuses, and else everything it
  appends and every frame it changes. `ValueError` and `Given` are `before_value`. JSON
  and DSON text is a sequence of tokens; CBOR output is bytes. The actions may be taken in any order, so that a run is a codec that makes
  *any* calls, including calls after errors. `DsonWriter` also states that it is
  `JsonWriter` with counts (`ImplementsJson`).
* `CborHead`, `CborItems` — how CBOR heads are encoded, and the reading of bytes as an
  automaton that counts the items still owed: `Owes(bytes, k)` says that bytes lack `k`
  items to be one, `WellFormed` that they lack none. It is the walk of
  `cbor_wire_common.hpp` with its stack of calls flattened to a number.
* `ValueWriter` — the writer of `Value`; it judges a value when it is finished.
* `DynamicMirror` — the same calls made on `JsonWriter` and on `ValueWriter`. The empty
  name is not among its names (`MirrorNames`): the `Value` backend takes it for none
  (finding 4).

### Parsers and readers

* `JsonParser`, `DsonParser`, `CborParser` — the recursive-descent parsers, as recursive
  operators on tokens or bytes: the grammar, counts, depth limit, duplicate keys and, for
  CBOR, heads, lengths and text. The nesting limit is a parameter.
* `JsonReader`, `DsonReader`, `CborReader` — validation and access of the typed readers:
  the index JSON objects are read through, DSON's ranges parsed again, CBOR's flat array.
  `ReadView` is what all of them let a codec see.
  They find members by place (`ElementAt`, `EntryAt`, `Child`) and by name or id
  (`FieldIn`, `FindField`, `MatchingId`).
* `JsonLocator` — the walk over a JSON text to the value or key that an error is about,
  with its line and column, and the search for the second occurrence of a repeated key.
* `Texts` — strings, byte by byte: `valid_utf8`, the escapes of `append_escaped_json` and
  of `JsonParser.string` with its surrogate pairs, and DSON's measured strings. Loops are
  functions of their turns, so that they can be proved about; `Utf8WellFormed` (with the
  Unicode table it names) and `StringsKept` are stated here, on the sources of `Sources`.
* `ValuePrinter` — `dumps_value`: a `Value` as JSON and DSON tokens and as CBOR calls.
* `Numbers` — a state machine: a number is written by a typed serialiser, parsed into a
  `Value`, printed in a format, any number of times, and read as any type. Numerals are
  exact; `deserialize_as` and the readers' getters have their bounds.
* `Sources` — grows sources of the three formats by one token or byte at a time, or lays
  a given document out with blanks.

### Generated code

* `ClassEncoder` — the calls that encoding a value makes (`Calls`), with the field count,
  the choice of `begin_*` method and the canonical order of fields; enums of the four tag
  forms with the place of the tag in canonical order; arrays, `Option`, `Result` and
  variants.
* `PeerBackends` — composes `ClassEncoder` with the four writers, each stopping at its
  first failing call, in lock step.
* `ClassDecoder` — what decoding a view gives: a value, or an error and the path to it,
  for classes, enums and built-in types. `ValidSchema` and `ValidVariant` state the part
  of `validate_class` and `validate_enum` that restricts schemas.
* `SchemaEvolution` — writers unknown to a class or an enum supply members, one at a time.

`*Proofs` modules hold the theorems (section 4). `MC*` modules give constants their values;
properties that compare several components (`MCPeerBackends`, `MCTypedRoundTrip`,
`MCReaders`, `MCNumbers`) are stated there, and so are the definitions from the standards
that they compare the code with (the UTF-16 of RFC 8259, what a numeral of a format says).

## 3. Runs

All runs finish within five minutes. A run is exhaustive over its bounds.

| Run | What it shows | Bounds |
|---|---|---|
| `json_writer` | Separators are placed well, every text that any calls leave behind can be completed to a document that `JsonParser` reads, and the writer implements `WireContract`. | 3 names (one not UTF-8), 2 scalars (one NaN), 8 tokens, so that objects have two members, 3 deep |
| `dson_writer` | What the writer does not check — counts — the parser finds, and nothing else is wrong with what it wrote; it implements `JsonWriter`, counts and spellings set aside, and with it `WireContract`. | 8 tokens, so that objects have two members, 2 deep, counts 0–2 |
| `cbor_writer` | No container exceeds its count, comparing neighbours finds every repeated key (also one with another written between the two), buffers have whole entries, output and buffers lack exactly the items that open frames announced, a finished document decodes, and the writer implements `WireContract`. | all container kinds, 3 names, counts 0–3, 2 deep (`ItemsBounded`: counts above 2 at the root only, around empty containers) |
| `cbor_nested` | Bytes find their way through three nested buffers and plain objects come out in canonical order. | plain named objects, sets, sequences of 2, 3 deep |
| `peer_backends` | Some two thousand values through four backends: all refuse the same collisions, what one wrote the dynamic parser and the type that wrote it read back, CBOR is canonical, and a `Value` is printed as the class was. | classes of two fields in either order, skipped, omitted or neither, with and without compact ids, held by another class or flattened into it, once or twice; lists, arrays, sets, dicts; enums of the four tag forms, their tag before, between or after the payload's fields, with flattened payloads and inside each other; `Option`, `Result`, variants |
| `dynamic_mirror` | Whatever calls an adapter makes, if none failed then the `Value` is the tree the text denotes, and before that its stack is at the same place as the JSON frames. | 9 tokens, 3 deep |
| `readers` | On every short source, typed readers and dynamic parsers accept the same and find the same, by place and by name; errors are located; strings come back as they were and only text is taken for text. | JSON 9 and DSON 10 tokens, CBOR 6 bytes (8 for maps with colliding labels); nesting limits 2 and 3; six documents laid out with two blanks anywhere; 4 of the bytes at the edges of UTF-8's table, strings of 3 bytes or 3 escapes, measured strings of 6 bytes |
| `schema_evolution` | No member order matters, no field is supplied twice unnoticed, unknown members make no difference or are refused, input for skipped fields is ignored, and an enum reads what its variants do, the first that does. | all classes of two fields and all enums of two variants of `MCSchemaEvolution`; 3 members out of 8 keys and two values, or of the tags, contents and payloads of the enum's form |
| `numbers` | A number stays the same number through every sequence of formats; each type reads exactly the numbers that belong to it; `loads_value` refuses what no type can read and, of the rest of these sources, only JSON integers of more than 64 bits; CBOR is written in the fewest bytes. | integers of every width at every boundary byte, floats at the boundaries of half, single and double precision, items longer than need be, malformed numerals |
| `omitted_flatten`, `strict_flatten`, `dson_malformed` | Three findings, see below. | the smallest that show them |

Why these bounds are enough. A writer's call looks at the top frame, and at whether there
is one below it, so three frames show each relation of neighbours twice; an item is
the first or a later one, so two items and a third that is refused show the three cases.
CBOR's `active_output` looks at all frames, which is why `cbor_nested` goes to three
buffered levels. Whether neighbours show a repeated key is a question only when something
was written between the two: that takes the three entries that `cbor_writer` allows at the
root, and without sorting `RepeatsNoticed` fails there. A reader's depth check compares with a constant, so that a limit of 2 or
3 that sources reach *and pass* stands for 128. Name clashes involve two names, and one
that sorts between them by length but not by bytes (`b`, `aa`) tells the canonical order
from the lexical one. Integers are compared byte by byte from the most significant on, so
the patterns of `MCNumbers` (equal bytes, one that matters, equal bytes) reach each
branch at each width; no float is off the boundaries where a branch of `write_f64` or
`float_to_half` changes. UTF-8 sequences have four bytes at most, and the alphabet of
`EdgeBytes` has the first and the last byte of every range that `valid_utf8` or the
Unicode table tells apart. Sources only grow while some reader is content with them or
could read on, so that no accepted source of the length is missed.

`CHECK_DEADLOCK FALSE` stands in the runs that really end: a document has been encoded
(`peer_backends`, `omitted_flatten`, `strict_flatten`), a source has its length or no
continuation (`readers`, `dson_malformed`), a document its members
(`schema_evolution`), a number has been read (`numbers`), a codec has stopped at the first error (`dynamic_mirror`). A writer
never stops: every call can always be made.

`INSTANCE` carries the writers into `PeerBackends` and `DynamicMirror` with bounds that do
not bite (`Ample`) or with those of the composition.

## 4. Proofs

Eight modules hold lemmas and theorems: `SequenceFacts`, `JsonGrammarProofs`,
`JsonWriterProofs`, `DsonWriterProofs` (types and JSON-with-counts), `CborWriterProofs`
(types, counts, order, contract), `CborItemProofs`, `DynamicMirrorProofs` and `TextsProofs`.
They rest on nothing but named assumptions: `JsonBounds`, `DsonBounds`, `CborBounds`
(constants have their types), `MirrorNames`, `CborItemsWhole` (a scalar's encoding is one
well-formed item, and sizes, ids and lengths of names are below 2^64) and `TextSources` (the
sources of strings are strings of bytes). They hold for all names, scalars, encodings, sizes and
bounds.

**Types.** `JsonTypeCorrect`, `DsonTypeCorrect`, `CborTypeCorrect`: `Spec => []TypeOK`. For
CBOR this says that everything buffered, sorted or written is bytes: `Contents`, a fold over
the sorted entries, is followed entry by entry (`ContentsBytes`).

**The JSON text.**

* `JsonSeparators`: `Spec => []SeparatorsWellPlaced`. In no reachable state, failed calls
  included, do two tokens stand side by side that JSON does not allow.
  `SeparatorsWellPlaced` is not inductive: a
  call only knows the top frame and must know from it what the *last* token is.
  `IInv` adds that relation (`Standing`: a fresh container ends in its opening mark, a
  frame that awaits a value in a colon, any other in the end of a value), that the frames
  below the top have been given a value and await none (`OuterFramesSettled`, which the
  closing of a container needs), that only objects await values, and that there is text
  exactly when there is a root. `NextIInv` has one step per call.
* `JsonTextCompletes`: `Spec => []Completes`. After any calls the whole text, not only
  each pair of its tokens, is the beginning of a document by the grammar, and once the
  root is finished it *is* one. If all objects are opened with `begin_object_checked`
  (`ObjectForms = {TRUE}`), no object has a name twice. With both forms the text does not
  say which objects were checked, so `Completes` allows repeats in all; that the checked
  ones have none is then in the invariant (`NamesRemembered`) only. This is `EveryPrefixCompletes` for every size and depth, with the grammar in
  the place of the parser. The invariant `TextIsJson` says that there are *slots*, one for
  each frame: the members or items the container has so far, derived by the grammar from
  the part of the text that belongs to it, and the name that awaits its value. A checked
  frame remembers exactly the names that matter (`NamesRemembered`): that is why
  `record_field` suffices to keep the document free of repeats. The lemmas of
  `JsonGrammarProofs` are one per step of any such writer, and know nothing of
  `JsonWriter`: a value begun (`ValueBegun`), a container opened and closed
  (`ContainerPushed`, `ContainerPopped`), a value ended (`ValueEnded`), a name written
  (`NameGiven`), and that open slots can be closed (`TextCompletes`).

**DSON.** `DsonIsJsonWithCounts`: `Spec => ImplementsJson`, a refinement of one detailed
specification by another. `before_value`, `write_field` and the `end_*` methods of the two
text writers are two copies of one logic; set the counts and DSON's colon aside, and every
accepted call of DSON is JSON's step, every rejected one a stutter. The mapping substitutes a
constant for `error` (a rejected call must not show) and no `Unencodable` names (DSON writes
names unchecked, finding 5). `DsonTextCompletes` follows by instantiating `JsonWriterProofs`.

**CBOR.**

* `CborCountsKept`: `Spec => []CountsKept`. A container never has more items than it
  declared, a buffered one has one entry for each item, and every container below the top
  has counted the item that stands on it and awaits no other. `CountsKept` is not
  inductive: when a container opens as the value of a name, that its parent counted an
  item follows only from a frame's awaiting a value *after* counting it, and from
  sequences' never awaiting one; `FrameCounted` adds both. `SameShape` isolates the
  argument that appending bytes, to whichever frame collects, leaves this bookkeeping
  alone. `IInv` needs no types of bytes: entries are taken from *some* set.
* `CborRepeatsNoticed`: `Spec => []RepeatsNoticed`. `end_object` compares neighbours after
  sorting; this finds a repeated key exactly when there is one. The argument has three
  parts, for any number of entries: `Before` (length first, then bytes) is a strict total
  order on byte strings (`BeforeIrreflexive`, `BeforeTransitive`, `BeforeTotal`); the rank
  that `InOrder` gives an entry, the number of entries before it, is a bijection onto the
  places (`RankReached`), so that sorting permutes and ascends (`InOrderAscends`); and two
  equal keys anywhere leave two that are neighbours (`NeighboursTellRepeats`).
* `CborPlainObjectsAscend`: `Spec => [][PlainObjectAscends]_cborVars`, an action property.
  An `end_object` that closes a plain object without a failure puts out the head of a map
  and the entries the codec gave, each once (`Rearranged`), with keys in *strictly*
  ascending order, for any number of entries and any fields. Sorting permutes
  (`SortedRearranges`); that nothing repeats is what makes ascending strict
  (`SortedAscends`).
* `CborEntriesWhole`: `Spec => []EntriesWhole`. Unless a call has failed, a finished document
  is exactly one well-formed item, and so is every entry of an open buffered container but
  the one being filled. This relates *bytes* to *counts*: sets and plain objects are written
  as entries, sorted, and only then get their head, in whatever encloses them, which may be
  a buffer again. `EntriesWhole` says nothing of the entry being filled, nor of a document
  before its end, so it is not inductive. `ItemsKept` adds, for each frame, how many items
  are missing behind it and where its bytes go (`Debts`), and that what is written there
  owes exactly these (`Owed`): a direct container owes what its frame has not counted yet
  and what its parent owes, a buffered one stands for one item missing in what encloses it.
  The argument rests on four facts on the reading automaton. It can be resumed
  (`ReadJoin`), and what it owes beyond the present item does not concern it (`ReadMore`), so
  that a whole item can be put into any place that owes one (`OwesJoined`). The shortest
  head of any size below 2^64 announces that size (`HeadsOwe`, with `ReadArgument` for the bytes of
  arguments). Sorted entries are whole if each was (`SetWhole`, `ObjectWhole`, over the fold
  `Contents`). Each call then has a lemma: `ScalarSound`, `OpeningSound`, `KeySound`,
  `EndSequenceSound`, `EndObjectSound`, joined by `NextSound`.

**Contract.** `JsonImplementsContract`, `DsonImplementsContract` and
`CborImplementsContract`: `Spec => Contract!Spec`. Initial states map to initial states;
each call that succeeds maps to the contract's step for it, each that fails to a stutter.
CBOR's `end_object` can fail *after* its frame is gone, with repeated keys: there the
contract sees the object closed. The mapping forgets counts, buffers, order and text.

**`Value` and JSON.**

* `ValueStackFollowsJson`: `Spec => []StacksAgree` for `DynamicMirror`. As long as no call
  has failed in JSON none has failed in `Value`, and frame by frame both are at the same
  place. JSON notes a value when it begins, `Value` attaches it when it ends; `Mirrored`
  has the flag `filling` for the time between, in which the two must differ.
* `ValueIsWhatJsonSpells`: once the document is finished, the text spells the tree that
  `ValueWriter` holds, by the grammar. In an unchecked object that repeats a name the tree
  keeps the last value, in the place of the first. The invariant `TextMirrored` takes
  `ValueWriter`'s own stack for the slots of the grammar, where the JSON proof only knows
  that some slots exist.

**Strings.** `Texts` has one variable, a source that grows; `SourceIsBytes` (its strings are
strings of bytes) is the invariant, and the rest are facts about loops, for strings of any
length.

* `Utf8IsWellFormed`: `Spec => []Utf8WellFormed`. `valid_utf8` accepts exactly the strings that
  the table of the Unicode standard calls well formed. `CharacterIsRow` compares the tests
  on a lead byte and what follows it with the table's rows, length by length: overlong
  forms, surrogates and what lies beyond U+10FFFF fall out of both. For the loop, whose
  index jumps from start to start, one direction (`WellFormedIsValid`) follows a division of the
  string into rows, the other (`ValidIsWellFormed`) divides it where the loop stood.
* `StringsAreKept`: `Spec => []StringsKept`. Text comes back as it was, through both
  formats. JSON: `EscapedByteIs` has what each byte is written as, `PieceRead` that the
  parser's turns over this piece add this byte and nothing else, and `JsonStringRead`
  follows the pieces along the string. DSON: the digits of a length are its decimal
  numeral (`NumeralIs`), the parser's accumulation gives the length back without
  meeting its overflow test (`SizeRead`), and then takes that many bytes (`DsonStringRead`).
  Conversely, whatever measured string the parser accepts is a length, a colon and that many
  well-formed bytes (`DsonStringIsMeasured`); the length may have leading zeros
  (`DigitsTrimmed`).
* `JsonStringsAreExact`: for every input, `JsonParser.string` returns a text and a place if and
  only if the input begins with a JSON string that means this text and ends there
  (`JsonSpells`). What that is, is said without the parser: quotes around pieces, each a
  plain byte, the escape of a letter, of a unit that is a code point, or of a surrogate pair,
  with hexadecimal digits in either case, and put together to well-formed UTF-8. So foreign
  escapes mean what RFC 8259 says, and lone surrogates, unknown escapes and control characters are
  refused. `SpelledTaken` has what a turn does with each kind of piece; `TurnIs` that where a
  turn neither ends nor refuses the string a piece stands there. This is
  `JsonStringsDecode` for all inputs. `Utf8SpellsOneCharacter` is about the bytes a code point is given:
  one character, of the fewest bytes, in which `valid_utf8` finds that code point again.

Induction over data is done in first-order form: a set of numbers that has 0 and is closed
under successor is all of them (`LeastOf`, `Induction`, `BoundedInduction`), functions by
recursion exist (`Recursion`), and what text means is the existence of a derivation, so that
no recursive operator is needed to state it.

**Left to TLC.** What goes through an operator declared `RECURSIVE` cannot be proved
with these provers: all parsers, readers, the class encoder and decoder, and the numerals of
`Numbers`. So it stays model-checked that the repository's *parsers* agree with the grammar
(`EveryPrefixCompletes` and `ValueFollowsJson` are the counterparts of `JsonTextCompletes`
and `ValueIsWhatJsonSpells` with `JsonParser`), that miscounts are caught
(`ParserCatchesMiscounts`), that finished CBOR, proved to be a whole item, is accepted by
`CborParser` with its rules for keys and nesting (`FinishedDecodes`) and is canonical in all
its parts (`PlainObjectsCanonical`, of which `CborPlainObjectsAscend` is the step), and
everything that `peer_backends`, `readers` but for `Utf8WellFormed` and `StringsKept`,
`schema_evolution` and `numbers` check. `JsonStringsDecode` uses recursive folds over the
source's escapes, so the theorem that corresponds to it has a statement of its own. No liveness
or `ENABLED` is used.

## 5. Findings

Each is a disagreement between the code and what the repository says. Three have a run
that ends in a counterexample:

1. **A flattened field whose `skip_if` holds is counted and not written**
   (`macro_class_direct_encode.dd:38`; run `omitted_flatten`). CBOR fails with a length
   mismatch; DSON returns Ok with a count its readers refuse.
2. **A class with `deny_unknown_fields` cannot be flattened** (`macro_class_direct_decode.dd:73`;
   run `strict_flatten`): it refuses the keys of the class around it.
3. **The dynamic DSON parser accepts misspelt tags** such as `i5)`
   (`dson_parser.dd:127`; run `dson_malformed`): the results of `consume_word` are
   dropped by `signed`, `unsigned`, `floating`, `sequence` and `object`.

The others are exceptions that a passing run's property names:

4. The empty key is refused by the `Value` backend alone (`RefusedOnCollision`).
5. Names that are not UTF-8 are written by DSON and CBOR, whose readers refuse them
   (`ReadBack`).
6. Input for a skipped field is refused in compact classes that deny unknown fields and
   ignored in all others (`SkippedInputIgnored`).
7. An empty container inside 128 containers is accepted by the typed JSON reader and
   refused by the dynamic parser (`JsonReadersAgree`).
8. Payloads of enums are opened without the check for repeated names: a flattened class
   that brings a sibling's name, or the tag's, is written by JSON and DSON with a repeated
   key that their readers refuse (`macro_enum_direct_encode.dd:202`; `RefusedOnCollision`).
9. A unit variant returns before `deny_unknown_fields` is asked, so what stands beside its
   tag or its content is not denied (`macro_enum_direct_decode.dd:74`;
   `VariantsReadAsTypes`).
10. The CBOR key 5 and the text key `"#5"` have one label: a `Value` keeps one member for
    both and finds number keys by label, a typed reader finds either and no label
    (`cbor_wire_reader.hpp:331`; `FoundByName`).

## 6. Abstractions, and what is not modelled

* Text is tokens in JSON and DSON: a name or scalar that the format cannot spell is a
  member of a constant. Strings and numbers are modelled apart from the rest, `Texts` byte
  by byte and `Numbers` by what a numeral says. JSON sources that are not UTF-8 are not
  among the sources of yyjson.
* In `ClassDecoder` a scalar type is the set of values it accepts; which numbers a type
  accepts is in `Numbers`. `f32` narrows without a check: the result is marked
  `narrowed`. Numerals that underflow, and foreign DSON floats beyond a double, are not
  among the sources. yyjson reads integers of more than 64 bits as doubles, which
  `loads_value` refuses (`DynamicAgrees` says so).
* Positions of errors are modelled for JSON values and repeated keys, and in DSON for
  repeated keys. A nesting error in JSON leaves its offset at 0. `JsonDocument::line` and
  `column`, the `decode_as` functions of `convert.dd` and `format_support.dd` are called by
  nothing.
* `skip_if` is a property of the value (`omitted`): a predicate that answers differently
  when it is asked twice is not modelled.
* Adapters (`with`) are the user's code: their calls are those of `json_writer` and
  `dynamic_mirror`, any calls. Enum-typed fields cannot be flattened (they have no field
  count). `Some` of what is written as null comes back as `None`, as in the code.
* An alias of a payload field that equals the internal tag is not diagnosed by
  `validate_enum`; no such enum is among the schemas.
* An untagged enum drops the errors of the variants it tried: so does the model.
* Typed round trips are checked for classes whose fields have different names, those that
  encoding leaves out and those that flattening brings included: where they share one,
  one object's members cannot say whose they are.
* `dumps` does not ask whether all containers were closed; a codec that leaves one open
  is part of `json_writer` (every prefix completes) and of `dynamic_mirror`.

## 7. Plan

1. Proofs: that the keys of a whole CBOR document ascend, from those of one object
   (`CborPlainObjectsAscend`) and the items they stand in (`CborEntriesWhole`); the counts of
   DSON, under the assumption that the codec declares what it writes; the exclusive arms of
   `InRange` and the shortest head for every width.
2. `GeneratedNames`: freshness of names, with a proof.
3. Lines and columns of the dynamic parsers, beside those of `JsonLocator`.
