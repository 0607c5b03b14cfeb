---------------------------- MODULE FileContents ----------------------------
(***************************************************************************)
(* What download_file and find_and_download show of a file: its content is *)
(* cut at two lengths on its way to the MCP client.                        *)
(*                                                                         *)
(* A file is a length in bytes, the positions that lie inside a character  *)
(* encoded in several bytes, the position of its first byte that is not    *)
(* UTF-8 (0: none), and whether its content type is one of text.           *)
(***************************************************************************)
EXTENDS Naturals, FiniteSets

CONSTANTS
  MaxText,   \* 100 * 1024, const maxText
  MaxBody,   \* 1 << 20, the limit of Download
  MaxSize    \* bound: the longest file

ASSUME ContentsAssumption ==
  /\ MaxText \in Nat /\ MaxBody \in Nat /\ MaxSize \in Nat
  /\ MaxText < MaxBody

\* Two positions next to each other lie inside a character of three bytes.
File == [size : 0..MaxSize, inside : {s \in SUBSET (1..MaxSize) : Cardinality(s) <= 2},
         bad : 0..MaxSize, text : BOOLEAN]
StoredFiles == {f \in File : f.bad <= f.size /\ \A p \in f.inside : p < f.size}

Smaller(a, b) == IF a < b THEN a ELSE b

\* utf8.Valid of the first n bytes of a file
ValidUpTo(f, n) == f.bad \in {0} \cup {b \in 1..MaxSize : b > n} /\ n \notin f.inside

\* Download: io.LimitReader cuts without an error.
Received(f) == Smaller(f.size, MaxBody)

\* "[Binary file, n bytes, type: ...]"
AsMetadata(n) == [text |-> FALSE, len |-> 0, size |-> n, truncated |-> FALSE]

OnceTold(f, n) ==     \* mutation: a file that Download cut is taken for whole
  [text |-> TRUE, len |-> Smaller(n, MaxText), size |-> n,
   truncated |-> n > MaxText /\ f.size <= MaxBody]
AsText(f, n) ==
  [text |-> TRUE, len |-> Smaller(n, MaxText), size |-> n,
   truncated |-> n > MaxText]

Textual(f, n) == f.text /\ ValidUpTo(f, n)

DownloadFile(f) ==
  LET n == Received(f) IN IF Textual(f, n) THEN AsText(f, n) ELSE AsMetadata(n)

\* Only the content type decides.
FindAndDownload(f) ==
  LET n == Received(f) IN IF f.text THEN AsText(f, n) ELSE AsMetadata(n)
=============================================================================
