--------------------------------- MODULE Qr ---------------------------------
(***************************************************************************)
(* The QR codes viv can draw (src/tui/qrcode): a text becomes codewords    *)
(* with error correction, they are put bit by bit into the modules the     *)
(* function patterns leave free, one of eight masks flips some of them,    *)
(* and the format words are written.  The colours of the function patterns *)
(* are left out: what counts is which modules they take.                   *)
(***************************************************************************)
EXTENDS Integers, FiniteSets, Sequences, SequencesExt, Bitwise

CONSTANTS
  QrTexts,        \* the texts, as bytes
  MaxVersion,     \* bound: the largest version
  Slacks          \* how much larger than the code the area to draw in is

VARIABLE qr       \* stage, text, version, codewords, modules, mask, cells
qrVars == qr

(* The tables' entries for versions 1 to 10 of 40; the first has data      *)
(* codewords, error correction per block, and twice blocks, their length.  *)
EcTable ==
  << <<16, 10, 1, 16, 0, 0>>, <<28, 16, 1, 28, 0, 0>>, <<44, 26, 1, 44, 0, 0>>, <<64, 18, 2, 32, 0, 0>>,
     <<86, 24, 2, 43, 0, 0>>, <<108, 16, 4, 27, 0, 0>>, <<124, 18, 4, 31, 0, 0>>,
     <<154, 22, 2, 38, 2, 39>>, <<182, 22, 3, 36, 2, 37>>, <<216, 26, 4, 43, 1, 44>> >>
ByteCapacity == <<14, 26, 42, 62, 84, 106, 122, 152, 180, 213>>
AlignmentPositions ==
  <<{}, {6, 18}, {6, 22}, {6, 26}, {6, 30}, {6, 34}, {6, 22, 38}, {6, 24, 42}, {6, 26, 46}, {6, 28, 50}>>
FormatInfo == <<21522, 20773, 24188, 23371, 17913, 16590, 20375, 19104>>

(* FoldLeft, in as many steps as the sequence is long. *)
Fold(op(_, _), start, seq) ==
  LET f[i \in 0..Len(seq)] ==
        IF i = 0 THEN start ELSE CHOOSE r \in {op(acc, seq[i]) : acc \in {f[i - 1]}} : TRUE
  IN f[Len(seq)]

(* The same sequence, evaluated at once. *)
Tuple(f) == SubSeq(f, 1, Len(f))

(***************************************************************************)
(* Codewords                                                               *)
(***************************************************************************)
Bits(value, count) == [i \in 1..count |-> (value \div 2^(count - i)) % 2]
Zeros(count) == [i \in 1..count |-> 0]
Value(bits) == Fold(LAMBDA n, b : 2 * n + b, 0, bits)
IntoBytes(bits) == Tuple([k \in 1..(Len(bits) \div 8) |-> Value(SubSeq(bits, 8 * k - 7, 8 * k))])
BitsOf(bytes) == Tuple([i \in 1..(8 * Len(bytes)) |-> (bytes[(i + 7) \div 8] \div 2^((8 - (i % 8)) % 8)) % 2])

(* Texts too long for MaxVersion are not looked at. *)
SelectVersion(n) ==
  IF n = 0 THEN 0
  ELSE CHOOSE v \in 1..MaxVersion : n <= ByteCapacity[v] /\ \A u \in 1..(v - 1) : n > ByteCapacity[u]

(* Mutant: the length takes one byte in every version. *)
CountInOneByte(v) == 8
CountBits(v) == IF v <= 9 THEN 8 ELSE 16

EncodeData(bytes, v) ==
  LET total == EcTable[v][1]
      body == Bits(4, 4) \o Bits(Len(bytes), CountBits(v)) \o BitsOf(bytes)
      room == 8 * total - Len(body)
      ended == body \o Zeros(IF room < 4 THEN room ELSE 4)
      words == IntoBytes(ended \o Zeros((8 - (Len(ended) % 8)) % 8))
  IN words \o [i \in 1..(total - Len(words)) |-> IF i % 2 = 1 THEN 236 ELSE 17]

(* GF(256): powers of two modulo x^8 + x^4 + x^3 + x^2 + 1. *)
NextPower(powers, i) ==
  Append(powers, IF Last(powers) < 128 THEN 2 * Last(powers) ELSE (2 * Last(powers)) ^^ 285)
ExpTable == Fold(LAMBDA powers, i : Fold(NextPower, powers, Zeros(15)), <<1>>, Zeros(17))
LogTable == [x \in 1..255 |-> CHOOSE i \in 0..254 : ExpTable[i + 1] = x]
Mul(a, b) == IF a = 0 \/ b = 0 THEN 0 ELSE ExpTable[((LogTable[a] + LogTable[b]) % 255) + 1]

GeneratorPoly(ecc) ==
  Fold(LAMBDA poly, i : Tuple([j \in 1..(Len(poly) + 1) |->
             (IF j <= Len(poly) THEN poly[j] ELSE 0) ^^ (IF j > 1 THEN Mul(poly[j - 1], ExpTable[i]) ELSE 0)]),
           <<1>>, [i \in 1..ecc |-> i])
RsEncode(block, ecc) ==
  LET g == GeneratorPoly(ecc)
  IN Fold(LAMBDA rem, byte : Tuple([j \in 1..ecc |->
                (IF j < ecc THEN rem[j + 1] ELSE 0) ^^ Mul(g[j + 1], byte ^^ rem[1])]),
              Zeros(ecc), block)

BlockLengths(v) ==
  [k \in 1..(EcTable[v][3] + EcTable[v][5]) |-> IF k <= EcTable[v][3] THEN EcTable[v][4] ELSE EcTable[v][6]]
Blocks(data, v) ==
  Fold(LAMBDA cut, n : [done |-> Append(cut.done, SubSeq(cut.rest, 1, n)),
                            rest |-> SubSeq(cut.rest, n + 1, Len(cut.rest))],
           [done |-> <<>>, rest |-> data], BlockLengths(v)).done

Column(blocks, i) ==
  FlattenSeq([k \in DOMAIN blocks |-> IF i <= Len(blocks[k]) THEN <<blocks[k][i]>> ELSE <<>>])
Interleaved(blocks, longest) == FlattenSeq([i \in 1..longest |-> Column(blocks, i)])

(* Mutant: as many columns as the first block has. *)
LongestIsFirst(v) == EcTable[v][4]
Longest(v) == IF EcTable[v][5] > 0 THEN EcTable[v][6] ELSE EcTable[v][4]

EncodeAndInterleave(bytes, v) ==
  LET blocks == Blocks(EncodeData(bytes, v), v)
      ecc == EcTable[v][2]
  IN Interleaved(blocks, Longest(v)) \o Interleaved([k \in DOMAIN blocks |-> RsEncode(blocks[k], ecc)], ecc)

(***************************************************************************)
(* Modules                                                                 *)
(***************************************************************************)
Size(v) == 4 * v + 17
Square(row, col, n) == (row..(row + n - 1)) \X (col..(col + n - 1))

(* The finder patterns with their separators. *)
Finders(s) == Square(0, 0, 8) \cup Square(0, s - 8, 8) \cup Square(s - 8, 0, 8)
Timing(s) == ({6} \X (8..(s - 9))) \cup ((8..(s - 9)) \X {6})

(* Meant for the ones on a finder, the test also skips those on the timing *)
(* patterns, which are already there.                                      *)
AlignmentCentres(v) == (AlignmentPositions[v] \X AlignmentPositions[v]) \ (Finders(Size(v)) \cup Timing(Size(v)))
Alignment(v) == UNION {Square(p[1] - 2, p[2] - 2, 5) : p \in AlignmentCentres(v)}

FormatAreas(s) == LET line == (0..8) \cup ((s - 8)..(s - 1)) IN ({8} \X line) \cup (line \X {8})
VersionAreas(v) ==
  LET far == (Size(v) - 11)..(Size(v) - 9)
  IN IF v < 7 THEN {} ELSE (far \X (0..5)) \cup ((0..5) \X far)
IsFunction(v) ==
  Finders(Size(v)) \cup Timing(Size(v)) \cup Alignment(v) \cup FormatAreas(Size(v)) \cup VersionAreas(v)

RightColumns(s) == [k \in 1..((s - 1) \div 2) |-> IF s + 1 - 2 * k > 6 THEN s + 1 - 2 * k ELSE s - 2 * k]

(* Mutant: the timing column turns the direction, too. *)
GoesUpTurning(s, k) == (k % 2 = 1) <=> (RightColumns(s)[k] > 6)
GoesUp(s, k) == k % 2 = 1

Path(v) ==
  LET s == Size(v)
      taken == IsFunction(v)
  IN FlattenSeq([k \in 1..((s - 1) \div 2) |->
       LET right == RightColumns(s)[k]
           RowAt(i) == IF GoesUp(s, k) THEN s - i ELSE i - 1
       IN SelectSeq([n \in 1..(2 * s) |-> <<RowAt((n + 1) \div 2), right - ((n + 1) % 2)>>],
                    LAMBDA p : p \notin taken)])

PlaceDataBits(v, codewords) ==
  LET path == Path(v)
      bits == BitsOf(codewords)
      at == [p \in ToSet(path) |-> CHOOSE i \in DOMAIN path : path[i] = p]
  IN [p \in Square(0, 0, Size(v)) |-> IF p \in DOMAIN at /\ at[p] <= Len(bits) THEN bits[at[p]] ELSE 0]

MaskCondition(mask, row, col) ==
  CASE mask = 0 -> (row + col) % 2 = 0
    [] mask = 1 -> row % 2 = 0
    [] mask = 2 -> col % 3 = 0
    [] mask = 3 -> (row + col) % 3 = 0
    [] mask = 4 -> (row \div 2 + col \div 3) % 2 = 0
    [] mask = 5 -> ((row * col) % 2) + ((row * col) % 3) = 0
    [] mask = 6 -> (((row * col) % 2) + ((row * col) % 3)) % 2 = 0
    [] mask = 7 -> (((row + col) % 2) + ((row * col) % 3)) % 2 = 0

ApplyMask(v, modules, mask) ==
  LET taken == IsFunction(v)
  IN [p \in DOMAIN modules |->
        IF p \notin taken /\ MaskCondition(mask, p[1], p[2]) THEN 1 - modules[p] ELSE modules[p]]

(* Where the two copies of bit i of the format word go. *)
FirstCopy(i) == IF i < 6 THEN <<8, i>> ELSE IF i = 6 THEN <<8, 7>> ELSE IF i < 9 THEN <<15 - i, 8>> ELSE <<14 - i, 8>>
SecondCopy(s, i) == IF i < 8 THEN <<s - 1 - i, 8>> ELSE <<8, s - 15 + i>>
FormatBit(mask, i) == (FormatInfo[mask + 1] \div 2^i) % 2

WriteFormatInfo(s, modules, mask) ==
  [p \in DOMAIN modules |->
     LET hits == {i \in 0..14 : p \in {FirstCopy(i), SecondCopy(s, i)}}
     IN IF hits = {} THEN modules[p] ELSE FormatBit(mask, CHOOSE i \in hits : TRUE)]

(* Six bits of version and the remainder of x^12 times them.               *)
VersionInfo(v) ==
  Fold(LAMBDA word, i : IF (word.rem \div 2^(i + 12)) % 2 = 0 THEN word
                        ELSE [word EXCEPT !.rem = @ ^^ (7973 * 2^i)],
       [data |-> v * 2^12, rem |-> v * 2^12], <<5, 4, 3, 2, 1, 0>>)
VersionBit(v, i) == LET word == VersionInfo(v) IN ((word.data + word.rem) \div 2^i) % 2

WriteVersionInfo(v, modules) ==
  LET far(n) == n - Size(v) + 11
      BitOf(p) == IF p[1] > p[2] THEN 3 * p[2] + far(p[1]) ELSE 3 * p[1] + far(p[2])
      bits == [i \in 0..17 |-> VersionBit(v, i)]
  IN [p \in DOMAIN modules |-> IF p \in VersionAreas(v) THEN bits[BitOf(p)] ELSE modules[p]]

(* Two rows of modules to a line, four white ones around, in the middle of *)
(* the area if there is room and cut off at its edges if there is not.     *)
Quiet == 4
Across(v) == Size(v) + 2 * Quiet
Lines(v) == (Across(v) + 2) \div 2
Offset(needed, there) == IF needed < there THEN (there - needed) \div 2 ELSE 0
ModuleAt(modules, row, col) ==
  LET p == <<row - Quiet, col - Quiet>> IN IF p \in DOMAIN modules THEN modules[p] ELSE 0

Render(v, modules, width, height) ==
  LET down == Offset(Lines(v), height)
      right == Offset(Across(v), width)
  IN [p \in (0..(height - 1)) \X (0..(width - 1)) |->
        IF p[1] - down \in 0..(Lines(v) - 1) /\ p[2] - right \in 0..(Across(v) - 1)
        THEN <<ModuleAt(modules, 2 * (p[1] - down), p[2] - right),
               ModuleAt(modules, 2 * (p[1] - down) + 1, p[2] - right)>>
        ELSE <<0, 0>>]

(***************************************************************************)
(* encode(): codewords, QrMatrix::new and place_data_bits, mask, format    *)
(* and version words; and the widget's render().  The mask is the one with *)
(* the lowest penalty: it may be any.                                      *)
(***************************************************************************)
QrInit ==
  qr = [stage |-> "start", text |-> <<>>, version |-> 0, codewords |-> <<>>, modules |-> <<>>, mask |-> 8,
        cells |-> <<>>]

Encode(bytes) ==
  /\ qr.stage = "start"
  /\ LET v == SelectVersion(Len(bytes))
     IN IF v = 0 THEN qr' = [qr EXCEPT !.stage = "error", !.text = bytes]
        ELSE qr' = [qr EXCEPT !.stage = "encoded", !.text = bytes, !.version = v,
                              !.codewords = EncodeAndInterleave(bytes, v)]

Place ==
  /\ qr.stage = "encoded"
  /\ qr' = [qr EXCEPT !.stage = "placed", !.modules = PlaceDataBits(qr.version, qr.codewords)]

Build(mask) ==
  /\ qr.stage = "placed"
  /\ LET masked == ApplyMask(qr.version, qr.modules, mask)
     IN qr' = [qr EXCEPT !.stage = "built", !.mask = mask,
                 !.modules = WriteVersionInfo(qr.version, WriteFormatInfo(Size(qr.version), masked, mask))]

Draw(slack) ==
  /\ qr.stage = "built"
  /\ qr' = [qr EXCEPT !.stage = "drawn",
              !.cells = Render(qr.version, qr.modules, Across(qr.version) + slack, Lines(qr.version) + slack)]

QrNext ==
  \/ Place
  \/ \E bytes \in QrTexts : Encode(bytes)
  \/ \E mask \in 0..7 : Build(mask)
  \/ \E slack \in Slacks : Draw(slack)
QrSpec == QrInit /\ [][QrNext]_qrVars

(***************************************************************************)
(* Properties: a reader who knows the version, the mask and which modules  *)
(* are taken.                                                              *)
(***************************************************************************)
(* The i-th block, data and correction, out of the interleaved codewords.  *)
BlockRead(v, words, k) ==
  LET lengths == BlockLengths(v)
      DataAt(i) == Fold(LAMBDA n, m : n + (IF m < i THEN m ELSE i - 1), 0, lengths)
                   + Len(SelectSeq(SubSeq(lengths, 1, k), LAMBDA m : m >= i))
  IN [i \in 1..lengths[k] |-> words[DataAt(i)]] \o
     [i \in 1..EcTable[v][2] |-> words[EcTable[v][1] + (i - 1) * Len(lengths) + k]]

(* A codeword polynomial is zero at the first powers of two. *)
IsCodeword(block, ecc) ==
  \A i \in 1..ecc : Fold(LAMBDA acc, byte : Mul(acc, ExpTable[i]) ^^ byte, 0, block) = 0

TextRead(v, words) ==
  LET lengths == BlockLengths(v)
      data == FlattenSeq([k \in DOMAIN lengths |-> SubSeq(BlockRead(v, words, k), 1, lengths[k])])
      bits == BitsOf(data)
      count == IF v < 10 THEN 8 ELSE 16
      n == Value(SubSeq(bits, 5, 4 + count))
  IN IF SubSeq(bits, 1, 4) # <<0, 1, 0, 0>> \/ 4 + count + 8 * n > Len(bits) THEN <<"no text">>
     ELSE IntoBytes(SubSeq(bits, 5 + count, 4 + count + 8 * n))

(* Two columns at a time from the right, up and down in turns, and the     *)
(* timing column left out.                                                 *)
Pair(col) == IF col > 6 THEN (col + 1) \div 2 ELSE col \div 2 + 1
Upward(s, col) == (s \div 2 - Pair(col)) % 2 = 0
ReadBefore(s, p, q) ==
  \/ Pair(p[2]) > Pair(q[2])
  \/ Pair(p[2]) = Pair(q[2]) /\ (IF Upward(s, p[2]) THEN p[1] > q[1] ELSE p[1] < q[1])
  \/ Pair(p[2]) = Pair(q[2]) /\ p[1] = q[1] /\ p[2] > q[2]

WordsRead(v, path, modules, mask) ==
  IntoBytes([i \in DOMAIN path |->
    (modules[path[i]] + (IF mask < 8 /\ MaskCondition(mask, path[i][1], path[i][2]) THEN 1 ELSE 0)) % 2])

(* The standard's words for versions 7 to 10, and its 18 bits in a block.  *)
VersionWords == <<31892, 34236, 39577, 42195>>
VersionRead(v, modules, At(_)) == Value([i \in 1..18 |-> modules[At(18 - i)]])

(* Half of the lines or columns left over come before the code.            *)
Margin(needed, there) == CHOOSE m \in 0..there : there - needed - 2 * m \in {0, 1} \/ (m = 0 /\ there < needed)

(* The module the cells show at p, if they reach that far.                 *)
DrawnAt(v, cells, lines, columns, p) ==
  LET cell == <<Margin(Lines(v), lines) + (p[1] + 4) \div 2, Margin(Across(v), columns) + p[2] + 4>>
  IN IF cell \in DOMAIN cells THEN {cells[cell][1 + (p[1] % 2)]} ELSE {}

(***************************************************************************)
(* Every text up to the capacity of its version is found again, first in   *)
(* the codewords, whose blocks are all correct, then in the modules read   *)
(* in the standard's order under each of the masks, then in the characters *)
(* drawn, which leave out nothing there is room for; the codewords fill    *)
(* the modules to less than a byte (below version 7, from which on         *)
(* alignment patterns are missing); and neither copy of the format word or *)
(* of the version is damaged.                                              *)
(***************************************************************************)
QrIsReadable ==
  LET v == qr.version
      path == Path(v)
      s == Size(v)
      words == WordsRead(v, path, qr.modules, qr.mask)
      lines == Cardinality({p[1] : p \in DOMAIN qr.cells})
      columns == Cardinality({p[2] : p \in DOMAIN qr.cells})
  IN /\ qr.stage = "encoded" =>
          /\ TextRead(v, qr.codewords) = qr.text
          /\ \A k \in DOMAIN BlockLengths(v) : IsCodeword(BlockRead(v, qr.codewords, k), EcTable[v][2])
          /\ \A i \in 2..Len(path) : ReadBefore(s, path[i - 1], path[i])
          /\ v < 7 => Len(path) \div 8 = Len(qr.codewords)
     /\ qr.stage \in {"placed", "built"} => SubSeq(words, 1, Len(qr.codewords)) = qr.codewords
     /\ qr.stage = "built" =>
          /\ \A i \in 0..14 : /\ qr.modules[FirstCopy(i)] = FormatBit(qr.mask, i)
                              /\ qr.modules[SecondCopy(s, i)] = FormatBit(qr.mask, i)
          /\ v >= 7 =>
               /\ VersionRead(v, qr.modules, LAMBDA i : <<s - 11 + (i % 3), i \div 3>>) = VersionWords[v - 6]
               /\ VersionRead(v, qr.modules, LAMBDA i : <<i \div 3, s - 11 + (i % 3)>>) = VersionWords[v - 6]
     /\ qr.stage = "drawn" =>
          \A p \in DOMAIN qr.modules : LET shown == DrawnAt(v, qr.cells, lines, columns, p)
             IN /\ shown \subseteq {qr.modules[p]}
                /\ lines >= Lines(v) /\ columns >= Across(v) => shown # {}
=============================================================================
