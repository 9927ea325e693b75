------------------------------ MODULE EncryptScan ------------------------------
(***************************************************************************)
(* contains_encrypt_marker of crates/orbitrelay-pdf/src/parser.rs: the     *)
(* scan of the raw bytes for the name /Encrypt, which skips comments and   *)
(* strings.  Bytes are told apart as the scan does; "eol" is either line   *)
(* end, " " any other white space, "a" any byte without a meaning, and the *)
(* seven letters after the slash are one element, "Encrypt".  A count of   *)
(* 2^32 open parentheses, more than an asset may hold, is left out.        *)
(***************************************************************************)
EXTENDS Integers, Sequences, FiniteSets

(* What ends a name.                                                        *)
Delimiters ==
  {" ", "eol", "(", ")", "<", ">", "[", "]", "{", "}", "/", "%"}

RECURSIVE SkipComment(_, _)
RECURSIVE SkipLiteralString(_, _, _)
RECURSIVE SkipHexString(_, _)
RECURSIVE EncryptMarkerFrom(_, _)

(* To the line end, which is not skipped.                                   *)
SkipComment(bytes, index) ==
  IF index > Len(bytes) \/ bytes[index] = "eol" THEN index
  ELSE SkipComment(bytes, index + 1)

(* Past the parenthesis that closes the first one.                          *)
SkipLiteralString(bytes, index, depth) ==
  IF index > Len(bytes) THEN index
  ELSE CASE bytes[index] = "\\" ->
              SkipLiteralString(bytes, IF index + 2 > Len(bytes) THEN Len(bytes) + 1
                                       ELSE index + 2, depth)
         [] bytes[index] = "(" -> SkipLiteralString(bytes, index + 1, depth + 1)
         [] bytes[index] = ")" /\ depth <= 1 -> index + 1
         [] bytes[index] = ")" /\ depth > 1 -> SkipLiteralString(bytes, index + 1, depth - 1)
         [] OTHER -> SkipLiteralString(bytes, index + 1, depth)

(* Past the first closing bracket.                                          *)
SkipHexString(bytes, index) ==
  IF index > Len(bytes) THEN index
  ELSE IF bytes[index] = ">" THEN index + 1
  ELSE SkipHexString(bytes, index + 1)

NextIs(bytes, index, byte) == index < Len(bytes) /\ bytes[index + 1] = byte

(* The name /Encrypt, and not a longer one that starts with it.             *)
SpellsEncrypt(bytes, index) ==
  /\ bytes[index] = "/"
  /\ NextIs(bytes, index, "Encrypt")
  /\ index + 1 = Len(bytes) \/ bytes[index + 2] \in Delimiters

(* The loop of contains_encrypt_marker.                                     *)
EncryptMarkerFrom(bytes, index) ==
  IF index > Len(bytes) THEN FALSE
  ELSE CASE bytes[index] = "%" -> EncryptMarkerFrom(bytes, SkipComment(bytes, index))
         [] bytes[index] = "(" ->
              EncryptMarkerFrom(bytes, SkipLiteralString(bytes, index, 0))
         [] bytes[index] = "<" /\ ~NextIs(bytes, index, "<") ->
              EncryptMarkerFrom(bytes, SkipHexString(bytes, index + 1))
         [] OTHER -> SpellsEncrypt(bytes, index) \/ EncryptMarkerFrom(bytes, index + 1)

ContainsEncryptMarker(bytes) == EncryptMarkerFrom(bytes, 1)

---------------------------------------------------------------------------
(* The reference: the places of a text where a name counts, without a scan. *)

(* Within a string, a byte after an odd number of backslashes is escaped.   *)
Escaped(bytes, opening, i) ==
  \E run \in 1..(i - opening - 1) :
    /\ run % 2 = 1
    /\ \A k \in (i - run)..(i - 1) : bytes[k] = "\\"
    /\ bytes[i - run - 1] # "\\"

Parentheses(bytes, opening, i, byte) ==
  {k \in opening..i : bytes[k] = byte /\ ~Escaped(bytes, opening, k)}

Opens(bytes, i) ==
  bytes[i] \in {"%", "("} \/ (bytes[i] = "<" /\ ~NextIs(bytes, i, "<"))

(* A byte at which what opened before it may end.                           *)
Closes(bytes, opening, i) ==
  \/ bytes[opening] = "%" /\ bytes[i] = "eol"
  \/ bytes[opening] = "<" /\ bytes[i] = ">"
  \/ /\ bytes[opening] = "("
     /\ Cardinality(Parentheses(bytes, opening, i, "("))
          = Cardinality(Parentheses(bytes, opening, i, ")"))

Encloses(bytes, opening, i) ==
  \A k \in (opening + 1)..(i - 1) : ~Closes(bytes, opening, k)

(* Plain text is what no comment or string that opens in plain text holds.  *)
PlainText(bytes) ==
  LET plain[i \in 1..Len(bytes)] ==
        \A j \in 1..(i - 1) : Opens(bytes, j) /\ Encloses(bytes, j, i) => ~plain[j]
  IN  {i \in 1..Len(bytes) : plain[i]}

NamesEncrypt(bytes) == \E i \in PlainText(bytes) : SpellsEncrypt(bytes, i)
=============================================================================
