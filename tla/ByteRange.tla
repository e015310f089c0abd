------------------------------ MODULE ByteRange ------------------------------
(***************************************************************************)
(* The Range header of a download (responses.py).  A byte of a file is     *)
(* named by its offset, 0 .. size - 1, so that a wrong slice shows.  The   *)
(* header is a record of what parse_single_range looks at: whether it has  *)
(* the form "bytes=<first>-<last>" with one range, and the two texts.      *)
(***************************************************************************)
EXTENDS Integers, FiniteSetsExt

\* A text is the number it denotes, or one of these.
Empty      == -1   \* ""
Letters    == -2   \* str.isdigit() is False
Unreadable == -3   \* str.isdigit() is True and int() refuses: superscripts,
                   \* more digits than int() takes

Texts == Nat \cup {Empty, Letters, Unreadable}

RangeHeaders == [kind : {"none", "malformed", "range"}, first : Texts, last : Texts]

IsDigits(text) == text >= 0 \/ text = Unreadable

\* What a header selects: a status code, the first and the last offset.
Partial(first, last) == [code |-> 206, first |-> first, last |-> last]

Whole(size) == [code |-> 200, first |-> 0, last |-> size - 1]

NotSatisfiable == [code |-> 416, first |-> 0, last |-> -1]

\* ValueError out of int(): no handler catches it
Unhandled == [code |-> 500, first |-> 0, last |-> -1]

-----------------------------------------------------------------------------
BackwardsUnclamped(size, length) == size - length                      \* mutant

SuffixStart(size, length) == Max({size - length, 0})

FromSuffix(length, size) ==
  IF ~IsDigits(length) THEN NotSatisfiable
  ELSE IF length = Unreadable THEN Unhandled
  ELSE IF length = 0 \/ size = 0 THEN NotSatisfiable
  ELSE Partial(SuffixStart(size, length), size - 1)

FromStart(first, last, size) ==
  LET end == IF last = Empty THEN size - 1 ELSE last IN
  IF ~IsDigits(first) \/ (last # Empty /\ ~IsDigits(last)) THEN NotSatisfiable
  ELSE IF Unreadable \in {first, last} THEN Unhandled
  ELSE IF first >= size \/ end < first THEN NotSatisfiable
  ELSE Partial(first, Min({end, size - 1}))

ParseSingleRange(h, size) ==
  CASE h.kind = "none"      -> Whole(size)
    [] h.kind = "malformed" -> NotSatisfiable
    [] OTHER -> IF h.first = Empty THEN FromSuffix(h.last, size)
                ELSE FromStart(h.first, h.last, size)

-----------------------------------------------------------------------------
Offsets(from, to) == [i \in 1 .. to - from + 1 |-> from + i - 1]

WholeChunks(sel, sent, chunk) == chunk                                 \* mutant

\* How much _iter_file_bytes asks for after "sent" bytes: without a range whole
\* chunks until the file ends, with one no more than what remains of it.
ReadSize(sel, sent, chunk) ==
  IF sel.code = 206 THEN Min({chunk, sel.last - sel.first + 1 - sent}) ELSE chunk

\* What handle.read returns; an empty read, or nothing remaining, is the end.
NextRead(sel, sent, chunk, size) ==
  LET from == sel.first + sent IN
  Offsets(from, Min({from + ReadSize(sel, sent, chunk), size}) - 1)

\* payload[start : end + 1] of bytes_response
Slice(sel, size) == Offsets(sel.first, Min({sel.last + 1, size}) - 1)

-----------------------------------------------------------------------------
\* What the client asked for, said without the arithmetic of the code: the bytes
\* of the file that a well formed range names.
WellFormed(h) ==
  /\ h.kind = "range"
  /\ {h.first, h.last} \subseteq Nat \cup {Empty}
  /\ {h.first, h.last} # {Empty}

Wanted(h, size) ==
  IF h.first = Empty THEN {i \in 0 .. size - 1 : i + h.last >= size}
  ELSE {i \in 0 .. size - 1 : i >= h.first /\ (h.last # Empty => i <= h.last)}

\* The bytes, each of them once and in the order of their offsets
InOrder(bytes, wanted) ==
  /\ {bytes[i] : i \in DOMAIN bytes} = wanted
  /\ \A i, j \in DOMAIN bytes : i < j => bytes[i] < bytes[j]

=============================================================================
