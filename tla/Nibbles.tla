------------------------------ MODULE Nibbles ------------------------------
(***************************************************************************)
(* Keys as half bytes and their compact encoding, src/tire/Nibble.go.      *)
(* Sequences start at 1 here and at 0 in the code.                         *)
(***************************************************************************)
EXTENDS Integers, Sequences

Nibble == 0..15
Byte == 0..255

\* Fault: the low nibble comes first.
ToNibbles_swapped(key) ==
  [i \in 1..2 * Len(key) |-> IF i % 2 = 1 THEN key[(i + 1) \div 2] % 16
                             ELSE key[i \div 2] \div 16]

\* A byte is two nibbles, the high one first.
ToNibbles(key) ==
  [i \in 1..2 * Len(key) |-> IF i % 2 = 1 THEN key[(i + 1) \div 2] \div 16
                             ELSE key[i \div 2] % 16]

\* Panics on an odd length.
ToBytes(nibbles) ==
  [i \in 1..Len(nibbles) \div 2 |-> 16 * nibbles[2 * i - 1] + nibbles[2 * i]]

\* How many nibbles two paths share before they part.
CommonLen(a, b) ==
  CHOOSE n \in 0..Len(a) :
    /\ n <= Len(b) /\ \A i \in 1..n : a[i] = b[i]
    /\ n < Len(a) /\ n < Len(b) => a[n + 1] # b[n + 1]

FindCommonPrefix(a, b) == SubSeq(a, 1, CommonLen(a, b))

\* An empty prefix is none.
HasPrefix(s, prefix) ==
  /\ prefix # <<>> /\ Len(prefix) <= Len(s)
  /\ SubSeq(s, 1, Len(prefix)) = prefix

-----------------------------------------------------------------------------

\* The result has Len \div 2 + 1 bytes, the flag first, and every second nibble
\* writes one: index i \div 2 + 1 may be behind the last.
EncodePanics(nibbles) ==
  \E i \in 0..Len(nibbles) - 1 : i % 2 = 0 /\ i \div 2 + 1 > Len(nibbles) \div 2

\* Where it does not panic.
CompactEncode(nibbles) ==
  [i \in 1..Len(nibbles) \div 2 + 1 |->
     IF i = 1 THEN Len(nibbles) % 2
     ELSE 16 * nibbles[2 * i - 3] + nibbles[2 * i - 2]]

\* The result is made one nibble longer than the bytes fill, and nibbles not
\* written are 0.
CompactDecode(data) ==
  LET isOdd == data[1] = 1
      size == 2 * Len(data) - IF isOdd THEN 2 ELSE 1
      written == 2 * Len(data) - IF isOdd THEN 3 ELSE 2
  IN  IF data = <<>> THEN <<>>
      ELSE [j \in 1..size |->
              IF j > written THEN 0
              ELSE IF j % 2 = 1 THEN data[(j + 3) \div 2] \div 16
              ELSE data[(j + 2) \div 2] % 16]

\* The terminal flag is a nibble of its own, larger than any other.
Terminal == 16

IsTerminal(nibbles) == nibbles # <<>> /\ nibbles[1] = Terminal

AddTerminalFlag(nibbles) == <<Terminal>> \o nibbles

RemoveTerminalFlag(nibbles) == IF IsTerminal(nibbles) THEN Tail(nibbles) ELSE nibbles

-----------------------------------------------------------------------------

\* A path of even length is a key's.
IsKeyPath(p) == Len(p) % 2 = 0 /\ ToNibbles(ToBytes(p)) = p

\* A path comes back from its compact encoding.
CompactReturns(p) == ~EncodePanics(p) /\ CompactDecode(CompactEncode(p)) = p

=============================================================================
