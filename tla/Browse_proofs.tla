---------------------------- MODULE Browse_proofs ----------------------------
(* Theorems of Browse: what one request is shown and sent, whatever is         *)
(* uploaded, committed and retracted beside it, for every list, page size,     *)
(* range and file size.                                                        *)
EXTENDS Browse, Catalog_proofs, SequenceTheorems

-----------------------------------------------------------------------------
(* Ranges of bytes *)

\* The smaller and the larger of two numbers
LEMMA MinMax ==
  ASSUME NEW a \in Int, NEW b \in Int
  PROVE  /\ Min({a, b}) = IF a <= b THEN a ELSE b
         /\ Max({a, b}) = IF a <= b THEN b ELSE a
<1>1. Min({a, b}) \in {a, b} /\ \A y \in {a, b} : Min({a, b}) =< y
  <2>1. \E x \in {a, b} : \A y \in {a, b} : x =< y
    OBVIOUS
  <2> QED BY <2>1 DEF Min
<1>2. Max({a, b}) \in {a, b} /\ \A y \in {a, b} : Max({a, b}) >= y
  <2>1. \E x \in {a, b} : \A y \in {a, b} : x >= y
    OBVIOUS
  <2> QED BY <2>1 DEF Max
<1> QED BY <1>1, <1>2

Codes == {200, 206, 416, 500}

\* What a download is told to send
Selects(sel, size) ==
  /\ sel \in [code : Codes, first : Nat, last : Int]
  /\ sel.code = 200 => sel.first = 0 /\ sel.last = size - 1
  /\ sel.code = 206 => sel.first <= sel.last /\ sel.last < size

\* parse_single_range selects bytes of the file, for every header and every size,
\* and the ones that the header names: 416 is said to a well formed range only
\* when the file has none of them (responses.py).
LEMMA ParseSelects ==
  ASSUME NEW h \in RangeHeaders, NEW size \in Nat
  PROVE  LET sel == ParseSingleRange(h, size) IN
         /\ Selects(sel, size)
         /\ sel.code = 200 <=> h.kind = "none"
         /\ sel.code = 206 => Wanted(h, size) = sel.first .. sel.last
         /\ WellFormed(h) => (sel.code = 416 <=> Wanted(h, size) = {})
<1> DEFINE sel == ParseSingleRange(h, size)
           Goal == /\ Selects(sel, size)
                   /\ sel.code = 200 <=> h.kind = "none"
                   /\ sel.code = 206 => Wanted(h, size) = sel.first .. sel.last
                   /\ WellFormed(h) => (sel.code = 416 <=> Wanted(h, size) = {})
<1> SUFFICES Goal
  OBVIOUS
<1> USE DEF Empty, Letters, Unreadable
<1>0. /\ h.kind \in {"none", "malformed", "range"} /\ h.first \in Texts /\ h.last \in Texts
      /\ \A t \in Texts : t \in Int /\ t >= -3 /\ (t \in Nat <=> t >= 0)
  BY DEF RangeHeaders, Texts
<1>1. CASE h.kind = "none"
  BY <1>1 DEF ParseSingleRange, Whole, Selects, Codes, WellFormed
<1>2. CASE h.kind = "malformed"
  BY <1>2 DEF ParseSingleRange, NotSatisfiable, Selects, Codes, WellFormed
<1>3. CASE h.kind = "range" /\ h.first = Empty
  <2>1. sel = FromSuffix(h.last, size)
    BY <1>3 DEF ParseSingleRange
  <2>2. CASE ~IsDigits(h.last)
    <3>1. sel = NotSatisfiable
      BY <2>1, <2>2 DEF FromSuffix
    <3>2. ~WellFormed(h)
      BY <1>0, <1>3, <2>2 DEF WellFormed, IsDigits
    <3> QED BY <1>3, <3>1, <3>2 DEF NotSatisfiable, Selects, Codes
  <2>3. CASE h.last = Unreadable
    <3>1. sel = Unhandled
      BY <2>1, <2>3 DEF FromSuffix, IsDigits
    <3>2. ~WellFormed(h)
      BY <2>3 DEF WellFormed
    <3> QED BY <1>3, <3>1, <3>2 DEF Unhandled, Selects, Codes
  <2>4. CASE h.last \in Nat
    <3>1. Wanted(h, size) = {i \in 0 .. size - 1 : i + h.last >= size}
      BY <1>3 DEF Wanted
    <3>2. CASE h.last = 0 \/ size = 0
      <4>1. sel = NotSatisfiable
        BY <2>1, <2>4, <3>2 DEF FromSuffix, IsDigits
      <4>2. Wanted(h, size) = {}
        BY <2>4, <3>1, <3>2
      <4> QED BY <1>3, <4>1, <4>2 DEF NotSatisfiable, Selects, Codes
    <3>3. CASE h.last # 0 /\ size # 0
      <4> DEFINE from == SuffixStart(size, h.last)
      <4>1. sel = Partial(from, size - 1)
        BY <2>1, <2>4, <3>3 DEF FromSuffix, IsDigits
      <4>2. from = IF size - h.last <= 0 THEN 0 ELSE size - h.last
        <5>1. ASSUME NEW n \in Int PROVE Max({n, 0}) = IF n <= 0 THEN 0 ELSE n
          BY <5>1, MinMax
        <5>2. size - h.last \in Int
          BY <2>4
        <5> QED BY <5>1, <5>2 DEF SuffixStart
      <4>3. from \in Nat /\ from <= size - 1
        BY <2>4, <3>3, <4>2
      <4>4. Wanted(h, size) = from .. size - 1
        BY <2>4, <3>1, <4>2
      <4>5. size - 1 \in Wanted(h, size)
        BY <4>3, <4>4
      <4> HIDE DEF from
      <4> QED BY <1>3, <4>1, <4>3, <4>4, <4>5 DEF Partial, Selects, Codes
    <3> QED BY <3>2, <3>3
  <2> QED BY <1>0, <2>2, <2>3, <2>4 DEF IsDigits
<1>4. CASE h.kind = "range" /\ h.first # Empty
  <2> DEFINE end == IF h.last = Empty THEN size - 1 ELSE h.last
  <2>1. sel = FromStart(h.first, h.last, size)
    BY <1>4 DEF ParseSingleRange
  <2>2. CASE ~IsDigits(h.first) \/ (h.last # Empty /\ ~IsDigits(h.last))
    <3>1. sel = NotSatisfiable
      BY <2>1, <2>2 DEF FromStart
    <3>2. ~WellFormed(h)
      BY <1>0, <1>4, <2>2 DEF WellFormed, IsDigits
    <3> QED BY <1>4, <3>1, <3>2 DEF NotSatisfiable, Selects, Codes
  <2>3. CASE /\ ~(~IsDigits(h.first) \/ (h.last # Empty /\ ~IsDigits(h.last)))
             /\ Unreadable \in {h.first, h.last}
    <3>1. sel = Unhandled
      BY <2>1, <2>3 DEF FromStart
    <3>2. ~WellFormed(h)
      BY <2>3 DEF WellFormed
    <3> QED BY <1>4, <3>1, <3>2 DEF Unhandled, Selects, Codes
  <2>4. CASE h.first \in Nat /\ h.last \in Nat \cup {Empty}
    <3>1. Wanted(h, size) = {i \in 0 .. size - 1 : i >= h.first /\ i <= end}
      BY <1>4, <2>4 DEF Wanted
    <3>2. end \in Int /\ (h.last = Empty \/ h.last >= 0)
      BY <2>4
    <3>3. CASE h.first >= size \/ end < h.first
      <4>1. sel = NotSatisfiable
        BY <1>4, <2>1, <2>4, <3>3 DEF FromStart, IsDigits
      <4>2. Wanted(h, size) = {}
        <5> HIDE DEF end
        <5> QED BY <2>4, <3>1, <3>2, <3>3
      <4> QED BY <1>4, <4>1, <4>2 DEF NotSatisfiable, Selects, Codes
    <3>4. CASE h.first < size /\ h.first <= end
      <4> DEFINE last == Min({end, size - 1})
      <4>1. sel = Partial(h.first, last)
        BY <1>4, <2>1, <2>4, <3>4 DEF FromStart, IsDigits
      <4>2. last = IF end <= size - 1 THEN end ELSE size - 1
        BY <3>2, MinMax
      <4> HIDE DEF end, last
      <4>3. last \in Int /\ h.first <= last /\ last < size
        BY <2>4, <3>2, <3>4, <4>2
      <4>4. Wanted(h, size) = h.first .. last
        BY <2>4, <3>1, <3>2, <4>2
      <4>5. h.first \in Wanted(h, size)
        BY <2>4, <4>3, <4>4
      <4> QED BY <1>4, <2>4, <4>1, <4>3, <4>4, <4>5 DEF Partial, Selects, Codes
    <3> QED BY <2>4, <3>2, <3>3, <3>4
  <2> QED BY <1>0, <2>2, <2>3, <2>4 DEF IsDigits
<1> QED BY <1>0, <1>1, <1>2, <1>3, <1>4

\* A run of bytes
LEMMA OffsetsRun ==
  ASSUME NEW a \in Int, NEW b \in Int, b >= a - 1
  PROVE  /\ Offsets(a, b) \in Seq(Int) /\ Len(Offsets(a, b)) = b - a + 1
         /\ \A i \in 1 .. b - a + 1 : Offsets(a, b)[i] = a + i - 1
BY DEF Offsets

\* A run is its bytes in order.
LEMMA OffsetsInOrder ==
  ASSUME NEW a \in Int, NEW b \in Int, b >= a - 1
  PROVE  InOrder(Offsets(a, b), a .. b)
<1> DEFINE run == Offsets(a, b)
<1>1. DOMAIN run = 1 .. b - a + 1 /\ \A i \in 1 .. b - a + 1 : run[i] = a + i - 1
  BY DEF Offsets
<1> HIDE DEF run
<1>2. ASSUME NEW x \in a .. b PROVE \E i \in DOMAIN run : run[i] = x
  <2>1. x - a + 1 \in 1 .. b - a + 1 /\ a + (x - a + 1) - 1 = x
    OBVIOUS
  <2> QED BY <1>1, <2>1
<1>3. {run[i] : i \in DOMAIN run} = a .. b
  BY <1>1, <1>2
<1>4. \A i, j \in DOMAIN run : i < j => run[i] < run[j]
  BY <1>1
<1> QED BY <1>3, <1>4 DEF InOrder, run

\* A run goes on with the next one.
LEMMA OffsetsJoin ==
  ASSUME NEW a \in Int, NEW b \in Int, NEW c \in Int, b >= a - 1, c >= b
  PROVE  Offsets(a, b) \o Offsets(b + 1, c) = Offsets(a, c)
<1> DEFINE s == Offsets(a, b)
           t == Offsets(b + 1, c)
           u == Offsets(a, c)
<1>1. /\ s \in Seq(Int) /\ Len(s) = b - a + 1 /\ \A i \in 1 .. b - a + 1 : s[i] = a + i - 1
      /\ t \in Seq(Int) /\ Len(t) = c - b /\ \A i \in 1 .. c - b : t[i] = b + i
      /\ u \in Seq(Int) /\ Len(u) = c - a + 1 /\ \A i \in 1 .. c - a + 1 : u[i] = a + i - 1
  <2>1. c >= a - 1 /\ b + 1 \in Int /\ c >= (b + 1) - 1
    OBVIOUS
  <2>2. /\ t \in Seq(Int) /\ Len(t) = c - (b + 1) + 1
        /\ \A i \in 1 .. c - (b + 1) + 1 : t[i] = (b + 1) + i - 1
    BY <2>1, OffsetsRun
  <2>3. /\ Len(t) = c - b /\ \A i \in 1 .. c - b : t[i] = b + i
    BY <2>2
  <2> QED BY <2>1, <2>2, <2>3, OffsetsRun
<1> HIDE DEF s, t, u
<1>2. /\ s \o t \in Seq(Int) /\ Len(s \o t) = Len(s) + Len(t)
      /\ \A i \in 1 .. Len(s) + Len(t) : (s \o t)[i] = IF i <= Len(s) THEN s[i] ELSE t[i - Len(s)]
  BY <1>1, ConcatProperties
<1>3. \A i \in 1 .. c - a + 1 : (s \o t)[i] = u[i]
  <2> SUFFICES ASSUME NEW i \in 1 .. c - a + 1 PROVE (s \o t)[i] = u[i]
    OBVIOUS
  <2>1. CASE i <= Len(s)
    <3>1. (s \o t)[i] = s[i]
      BY <1>1, <1>2, <2>1
    <3> QED BY <1>1, <2>1, <3>1
  <2>2. CASE ~(i <= Len(s))
    <3>1. i - Len(s) \in 1 .. c - b
      BY <1>1, <2>2
    <3> i \in 1 .. Len(s) + Len(t)
      BY <1>1
    <3>2. (s \o t)[i] = t[i - Len(s)]
      BY ONLY <1>2, <2>2, i \in 1 .. Len(s) + Len(t)
    <3>3. t[i - Len(s)] = b + (i - Len(s))
      BY <1>1, <3>1
    <3> QED BY <1>1, <3>2, <3>3
  <2> QED BY <2>1, <2>2
<1>4. s \o t = u
  <2>1. Len(s \o t) = c - a + 1
    BY <1>1, <1>2
  <2> QED BY <1>1, <1>2, <1>3, <2>1, SeqEqual
<1> QED BY <1>4 DEF s, t, u

\* How many bytes the selection has
Bytes(sel) == sel.last - sel.first + 1

\* _iter_file_bytes goes on by a chunk, never beyond the selection, and stops when
\* it is all sent.
LEMMA NextReadRuns ==
  ASSUME NEW size \in Nat, NEW sel, Selects(sel, size), sel.code \in {200, 206},
         NEW chunk \in Nat \ {0}, NEW sent \in 0 .. Bytes(sel)
  PROVE  \E n \in sent .. Bytes(sel) :
           /\ NextRead(sel, sent, chunk, size) = Offsets(sel.first + sent, sel.first + n - 1)
           /\ n = sent <=> sent = Bytes(sel)
<1> DEFINE from == sel.first + sent
           ask == ReadSize(sel, sent, chunk)
           to == Min({from + ask, size})
<1>0. /\ sel.first \in Nat /\ sel.last \in Int /\ Bytes(sel) \in Nat /\ sent \in Nat
      /\ sent <= Bytes(sel) /\ sel.first + Bytes(sel) = sel.last + 1 /\ sel.last < size
  BY DEF Selects, Bytes
<1>1. ask = IF sel.code = 206
            THEN (IF chunk <= Bytes(sel) - sent THEN chunk ELSE Bytes(sel) - sent) ELSE chunk
  BY <1>0, MinMax DEF ReadSize, Bytes
<1>2. ask \in Nat
  BY <1>0, <1>1
<1>3. to = IF from + ask <= size THEN from + ask ELSE size
  BY <1>0, <1>2, MinMax
<1>4. sel.code = 200 => sel.last = size - 1
  BY DEF Selects
<1> DEFINE n == to - sel.first
<1>5. n \in sent .. Bytes(sel) /\ (n = sent <=> sent = Bytes(sel))
  <2>1. /\ n = IF from + ask <= size THEN sent + ask ELSE size - sel.first
        /\ n \in Int
    <3> HIDE DEF ask, to
    <3> QED BY <1>0, <1>2, <1>3
  <2>2. CASE sel.code = 206
    <3>1. from + ask <= size /\ ask <= Bytes(sel) - sent
      <4> HIDE DEF ask
      <4> QED BY <1>0, <1>1, <2>2
    <3> HIDE DEF ask, to, n, from
    <3> QED BY <1>0, <1>1, <1>2, <2>1, <2>2, <3>1
  <2>3. CASE sel.code = 200
    <3>1. ask = chunk /\ Bytes(sel) = size - sel.first
      <4> HIDE DEF ask
      <4> QED BY <1>0, <1>1, <1>4, <2>3
    <3>2. n = IF sent + chunk <= Bytes(sel) THEN sent + chunk ELSE Bytes(sel)
      <4> HIDE DEF ask, to, n
      <4> QED BY <1>0, <2>1, <3>1
    <3> HIDE DEF n
    <3> QED BY <1>0, <3>2
  <2> QED BY <2>2, <2>3
<1>6. NextRead(sel, sent, chunk, size) = Offsets(sel.first + sent, sel.first + n - 1)
  <2>1. sel.first + n - 1 = to - 1
    <3> HIDE DEF to, ask
    <3> QED BY <1>0, <1>2, <1>3
  <2> QED BY <2>1 DEF NextRead
<1> HIDE DEF n
<1> QED BY <1>5, <1>6

-----------------------------------------------------------------------------
(* Types *)

Positions == [at : Nat, key : Nat, id : Nat]

Responses ==
  [code : {0, 200, 206, 304, 400, 403, 404, 416, 500}, shown : SUBSET (VersionIds \X Status),
   sel : [code : Int, first : Nat, last : Int], sent : Seq(Int)]

ReaderTypeOK ==
  /\ committedAt \in [VersionIds -> 0 .. MaxTime]
  /\ scenario \in Scenarios
  /\ pc \in Steps
  /\ dataset \subseteq [owner : Principals, latest : VersionIds \cup {NoVersion}]
  /\ version \subseteq [id : VersionIds, status : Status]
  /\ cursor \subseteq Positions
  /\ listed \in Seq(VersionIds)
  /\ answer \in Responses
  /\ steady \subseteq VersionIds /\ withdrawn \subseteq VersionIds

\* A request is well-formed, and so is what it asks to download.
LEMMA RequestType ==
  ASSUME ReaderTypeOK
  PROVE  req \in Requests /\ scenario.packages \subseteq VersionIds /\ Size \in Nat
<1>1. req \in Requests /\ scenario.packages \subseteq VersionIds
  BY ScenariosAreRequests DEF ReaderTypeOK, req
<1> QED BY <1>1, BrowseConstants DEF Size, Requests

\* So is the selection of a download.
LEMMA SelectionType ==
  ASSUME ReaderTypeOK
  PROVE  Selects(Selection, Size) /\ req.range \in RangeHeaders
<1>1. Size \in Nat /\ req.range \in RangeHeaders
  BY RequestType DEF Requests
<1> QED BY <1>1, ParseSelects DEF Selection

\* The sort key of a row consists of numbers.
LEMMA PositionType ==
  ASSUME CatalogTypeOK, ReaderTypeOK, NEW v \in DOMAIN versions
  PROVE  Position(v) \in Positions
BY BrowseConstants
   DEF Position, Positions, CatalogTypeOK, IsTable, VersionRow, ReaderTypeOK

\* A complete response is well-typed.
LEMMA SaysType ==
  ASSUME NEW code \in {0, 200, 206, 304, 400, 403, 404, 416, 500},
         NEW shown \in SUBSET (VersionIds \X Status)
  PROVE  /\ Says(code, shown) \in Responses
         /\ Says(code, shown).code = code /\ Says(code, shown).shown = shown
<1>1. <<>> \in Seq(Int) /\ NoSelection \in [code : Int, first : Nat, last : Int]
  BY DEF NoSelection
<1> QED BY <1>1 DEF Says, Responses

\* A response with a selection, and with a body
WithSelection(r, sel) == [r EXCEPT !.sel = sel]

WithBody(r, sent) == [r EXCEPT !.sent = sent]

\* Neither changes anything else.
LEMMA SelectionUpdate ==
  ASSUME NEW r \in Responses, NEW sel \in [code : Int, first : Nat, last : Int]
  PROVE  /\ WithSelection(r, sel) \in Responses /\ WithSelection(r, sel).sel = sel
         /\ WithSelection(r, sel).code = r.code /\ WithSelection(r, sel).shown = r.shown
         /\ WithSelection(r, sel).sent = r.sent
BY SMTT(30) DEF Responses, WithSelection

\* The same of the body.
LEMMA BodyUpdate ==
  ASSUME NEW r \in Responses, NEW sent \in Seq(Int)
  PROVE  /\ WithBody(r, sent) \in Responses /\ WithBody(r, sent).sent = sent
         /\ WithBody(r, sent).code = r.code /\ WithBody(r, sent).shown = r.shown
         /\ WithBody(r, sent).sel = r.sel
BY SMTT(30) DEF Responses, WithBody

\* A run of bytes is a sequence, an empty one too.
LEMMA OffsetsType ==
  ASSUME NEW a \in Int, NEW b \in Int
  PROVE  Offsets(a, b) \in Seq(Int)
<1>1. CASE b >= a - 1
  BY <1>1, OffsetsRun
<1>2. CASE ~(b >= a - 1)
  <2>1. 1 .. b - a + 1 = 1 .. 0
    BY <1>2
  <2>2. Offsets(a, b) = <<>>
    BY <2>1 DEF Offsets
  <2> QED BY <2>2
<1> QED BY <1>1, <1>2

\* The rows of a page are all rows that match, each of them once and in order.
LEMMA RowsEnumerate ==
  ASSUME NEW vs \in SUBSET VersionIds, NEW rows \in Ordered(vs)
  PROVE  /\ rows \in Seq(VersionIds)
         /\ \A i \in 1 .. Len(rows) : rows[i] \in vs
         /\ \A v \in vs : \E i \in 1 .. Len(rows) : rows[i] = v
         /\ \A i, j \in 1 .. Len(rows) : i < j => Precedes(Position(rows[i]), Position(rows[j]))
<1> DEFINE n == Cardinality(vs)
<1>1. IsFiniteSet(vs) /\ n \in Nat
  BY CatalogConstants, FS_Subset, FS_CardinalityType
<1>2. /\ rows \in [1 .. n -> vs]
      /\ \A i, j \in 1 .. n : i # j => rows[i] # rows[j]
      /\ \A i, j \in DOMAIN rows : i < j => Precedes(Position(rows[i]), Position(rows[j]))
  BY DEF Ordered, SetToSeqs
<1>3. IsFiniteSet(1 .. n) /\ Cardinality(1 .. n) = n
  BY <1>1, FS_Interval
<1>4. rows \in Injection(1 .. n, vs)
  BY <1>2 DEF Injection, IsInjective
<1>5. rows \in Surjection(1 .. n, vs)
  BY <1>1, <1>3, <1>4, FS_Injection
<1> HIDE DEF n
<1>6. rows \in Seq(VersionIds) /\ Len(rows) = n /\ DOMAIN rows = 1 .. n
  BY <1>1, <1>2
<1> QED BY <1>2, <1>5, <1>6 DEF Surjection

\* A page is the beginning of the rows.
LEMMA PageItems ==
  ASSUME NEW rows \in Seq(VersionIds), NEW limit \in Nat \ {0}
  PROVE  LET items == SubSeq(rows, 1, Min({Len(rows), limit})) IN
         /\ items \in Seq(VersionIds)
         /\ Len(items) = IF Len(rows) <= limit THEN Len(rows) ELSE limit
         /\ \A i \in 1 .. Len(items) : items[i] = rows[i]
<1> DEFINE n == Min({Len(rows), limit})
<1>1. Len(rows) \in Nat /\ n = IF Len(rows) <= limit THEN Len(rows) ELSE limit
  BY MinMax
<1>2. n \in Nat /\ n <= Len(rows)
  BY <1>1
<1> HIDE DEF n
<1>3. \A i \in 1 .. n : rows[i] \in VersionIds
  BY <1>1, <1>2
<1>4. /\ SubSeq(rows, 1, n) \in Seq(VersionIds)
      /\ Len(SubSeq(rows, 1, n)) = IF 1 <= n THEN n - 1 + 1 ELSE 0
      /\ \A i \in 1 .. n - 1 + 1 : SubSeq(rows, 1, n)[i] = rows[1 + i - 1]
  BY <1>2, <1>3, SubSeqProperties
<1>5. Len(SubSeq(rows, 1, n)) = n /\ \A i \in 1 .. n : SubSeq(rows, 1, n)[i] = rows[i]
  BY <1>2, <1>4
<1> QED BY <1>1, <1>4, <1>5 DEF n

-----------------------------------------------------------------------------
(* The invariants *)

\* The rows of files are finitely many: their number is a number.
FilesFinite == IsFiniteSet(files)

\* Which requests come to which step, and that nothing is answered before the end:
\* only the pages of a list and the beginning of a body are there earlier.
FlowInv ==
  /\ pc = "list" => req.kind = "list"
  /\ pc \in {"dataset", "version", "versions", "files", "open", "stream"} => req.kind # "list"
  /\ pc = "versions" => req.kind = "versions"
  /\ pc = "version" => req.kind # "versions"
  /\ pc = "files" => req.kind \in {"version", "file"}
  /\ pc \in {"open", "stream"} => req.kind \in Downloads
  /\ pc = "new" => dataset = {} /\ cursor = {} /\ listed = <<>> /\ steady = {} /\ withdrawn = {}
  /\ pc \in {"new", "dataset", "version", "versions", "files", "open"} => answer = NoAnswer

\* Every page is published, the cursor is the position of the last row listed, and
\* what has been in the list all the while is listed or still to come.
ListInv ==
  /\ \A i \in 1 .. Len(listed) : IsPublished(listed[i])
  /\ \A i, j \in 1 .. Len(listed) :
       i < j => Precedes(Position(listed[i]), Position(listed[j]))
  /\ pc = "list" =>
       IF listed = <<>> THEN cursor = {} ELSE cursor = {Position(listed[Len(listed)])}
  /\ pc = "list" => steady \ ToSet(listed) \subseteq Candidates
  /\ SteadyRowsListed

\* What may be shown, as WhoSeesWhat says it
Permitted(v, status) ==
  \/ status = "committed" /\ Has("browse") /\ IsPublished(v)
  \/ /\ status = "retracted" /\ HasStatus(v, "retracted")
     /\ \/ v \in withdrawn
        \/ Has("upload") /\ datasets[versions[v].dataset].owner = req.who

\* The rows a route has read still say enough when it goes on with them: the owner
\* of a dataset never changes, and a latest version can only have been retracted.
SeenInv ==
  /\ \A shown \in answer.shown : Permitted(shown[1], shown[2])
  /\ pc \in {"files", "open", "stream"} =>
       \A row \in version : Permitted(row.id, row.status)
  /\ \A d \in dataset :
       req.dataset \in DOMAIN datasets /\ d.owner = datasets[req.dataset].owner
  /\ pc = "version" /\ req.kind = "detail" =>
       /\ dataset # {}
       /\ \A d \in dataset :
            \/ HasStatus(d.latest, "committed")
            \/ HasStatus(d.latest, "retracted") /\ d.latest \in withdrawn

\* A steady version could be shown now, and the row of its dataset has been found.
ServedInv ==
  /\ steady \subseteq Asked
  /\ pc \in {"version", "versions"} /\ steady # {} => dataset # {}
  /\ SteadyIsServed

\* The body so far is the beginning of the selection.
BytesInv ==
  /\ pc = "stream" =>
       /\ answer.sel = Selection /\ answer.code = Selection.code
       /\ Selection.code \in {200, 206}
       /\ \E n \in 0 .. Bytes(Selection) :
            answer.sent = Offsets(Selection.first, Selection.first + n - 1)
  /\ BytesAsAsked

-----------------------------------------------------------------------------
(* The writers *)

\* Only the writers change the tables, and no route writes.
LEMMA ReadersOnlyRead ==
  ASSUME Begin \/ Serve
  PROVE  UNCHANGED <<catalogVars, committedAt, scenario, withdrawn>>
BY DEF Begin, Serve, OnlyReads, ListPage, ReadDataset, ReadVersion, ListVersions, ReadFiles,
       Open, SendManifest, SendChunk

\* The number of files recorded is a number, and their table stays finite.
LEMMA FilesStayFinite == FilesFinite /\ [BrowseNext]_browseVars => FilesFinite'
<1> SUFFICES ASSUME FilesFinite, [BrowseNext]_browseVars PROVE FilesFinite'
  OBVIOUS
<1>1. CASE UNCHANGED files
  BY <1>1 DEF FilesFinite
<1>2. ASSUME NEW v \in VersionIds, RecordFile(v) PROVE FilesFinite'
  BY <1>2, FS_AddElement DEF RecordFile, InsertFile, FilesFinite
<1>3. ASSUME NEW v \in VersionIds, Abort(v) PROVE FilesFinite'
  <2>1. files' \subseteq files
    BY <1>3 DEF Abort, DeletePendingVersion
  <2> QED BY <2>1, FS_Subset DEF FilesFinite
<1>4. ASSUME NEW v \in VersionIds, ClaimDataset(v) \/ StartUpload(v) \/ Publish(v) \/ Retract(v)
      PROVE  UNCHANGED files
  BY <1>4 DEF ClaimDataset, Claim, StartUpload, InsertPending, Publish, CommitVersion,
              Retract, RetractVersion
<1>5. CASE Write
  BY <1>1, <1>2, <1>3, <1>4, <1>5 DEF Write
<1>6. CASE Begin \/ Serve
  BY <1>1, <1>6, ReadersOnlyRead DEF catalogVars
<1>7. CASE UNCHANGED browseVars
  BY <1>1, <1>7 DEF browseVars, catalogVars
<1> QED BY <1>5, <1>6, <1>7 DEF BrowseNext

\* Every write of an upload or a retraction is an operation of the catalogue.
LEMMA WritesAreOperations ==
  ASSUME FilesFinite, NEW v \in VersionIds,
         \/ ClaimDataset(v) \/ StartUpload(v) \/ RecordFile(v)
         \/ Publish(v) \/ Abort(v) \/ Retract(v)
  PROVE  CatalogNext
<1> DEFINE p == Packages[v]
<1>0. /\ p.dataset \in Datasets /\ p.owner \in Principals /\ p.content \in Contents
      /\ p.paths \in Seq(Paths)
  BY BrowseConstants
<1>1. CASE ClaimDataset(v)
  BY <1>0, <1>1 DEF ClaimDataset, CatalogNext, DatasetOp
<1>2. CASE StartUpload(v)
  BY <1>0, <1>2 DEF StartUpload, CatalogNext, PendingOp
<1>3. CASE RecordFile(v)
  <2>1. Recorded(v) \in Nat
    <3>1. IsFiniteSet({row \in files : row[1] = v})
      BY FS_Subset DEF FilesFinite
    <3> QED BY <3>1, FS_CardinalityType DEF Recorded
  <2>2. p.paths[Recorded(v) + 1] \in Paths
    BY <1>0, <1>3, <2>1 DEF RecordFile
  <2> QED BY <1>3, <2>2 DEF RecordFile, CatalogNext, VersionOp
<1>4. CASE Publish(v)
  BY <1>4 DEF Publish, CatalogNext, VersionOp
<1>5. CASE Abort(v)
  BY <1>5 DEF Abort, CatalogNext, VersionOp
<1>6. CASE Retract(v)
  BY <1>6 DEF Retract, CatalogNext, VersionOp, IsPublished
<1> QED BY <1>1, <1>2, <1>3, <1>4, <1>5, <1>6

\* The tables change as Catalog says, whatever is read meanwhile.
LEMMA CatalogStep == FilesFinite /\ [BrowseNext]_browseVars => [CatalogNext]_catalogVars
<1> SUFFICES ASSUME FilesFinite, [BrowseNext]_browseVars PROVE [CatalogNext]_catalogVars
  OBVIOUS
<1>1. CASE Begin \/ Serve
  BY <1>1, ReadersOnlyRead
<1>2. CASE Write
  BY <1>2, WritesAreOperations DEF Write
<1>3. CASE UNCHANGED browseVars
  BY <1>3 DEF browseVars
<1> QED BY <1>1, <1>2, <1>3 DEF BrowseNext

\* Browsing beside the upload and retraction routes is a behaviour of the
\* catalogue: what Catalog promises holds for what readers see.
THEOREM BrowseRefinesCatalog == BrowseSpec => CatalogSpec
<1>1. BrowseInit => CatalogInit /\ FilesFinite
  BY FS_EmptySet DEF BrowseInit, CatalogInit, FilesFinite
<1> QED BY <1>1, FilesStayFinite, CatalogStep, PTL DEF BrowseSpec, CatalogSpec

\* What holds of the tables whenever something is read
TablesInv == CatalogTypeOK /\ NumbersUnique /\ LatestIsCommitted

\* The catalogue is consistent at every read.
LEMMA TablesConsistent == BrowseSpec => [](TablesInv /\ FilesFinite)
<1>1. BrowseInit => FilesFinite
  BY FS_EmptySet DEF BrowseInit, CatalogInit, FilesFinite
<1> QED BY <1>1, FilesStayFinite, BrowseRefinesCatalog, TypeCorrect, NumbersStayUnique,
           LatestStaysCommitted, PTL DEF BrowseSpec, TablesInv

-----------------------------------------------------------------------------
(* Types of what is read *)

\* What may be asked for is a set of versions.
LEMMA AskedType ==
  ASSUME CatalogTypeOK
  PROVE  Asked \subseteq VersionIds /\ Listable \subseteq DOMAIN versions
BY DEF Asked, Listable, CommittedOf, CatalogTypeOK, IsTable

\* A request for a page that gets none
NoPage ==
  /\ pc' = "answered" /\ UNCHANGED <<cursor, listed>>
  /\ \/ answer' = Says(403, {}) /\ ~Has("browse")
     \/ answer' = Says(400, {})
     \/ answer' = Says(200, {}) /\ NothingListed

\* A page of the first of the rows
Page(rows, items) ==
  /\ \A i \in 1 .. Len(items) : i \in 1 .. Len(rows) /\ items[i] = rows[i]
  /\ listed' = listed \o items
  /\ answer' = Says(200, {<<v, versions[v].status>> : v \in ToSet(items)})
  /\ \/ pc' = "answered" /\ cursor' = {} /\ Len(items) = Len(rows)
     \/ /\ pc' = "list" /\ Len(items) > 0
        /\ cursor' = {Position(items[Len(items)])}

\* A page: rows in the order of the list that a cursor has not passed.
LEMMA PageStep ==
  ASSUME CatalogTypeOK, ReaderTypeOK, ListPage
  PROVE  \/ NoPage
         \/ /\ Has("browse")
            /\ \E rows \in Ordered(Candidates) : \E items \in Seq(VersionIds) : Page(rows, items)
<1>1. CASE ~Has("browse") \/ BadListing \/ NothingListed
  BY <1>1 DEF ListPage, Answer, NoPage
<1>2. CASE Has("browse") /\ ~BadListing /\ ~NothingListed
  <2>1. PICK rows \in Ordered(Candidates) :
          LET items == SubSeq(rows, 1, Min({Len(rows), req.limit})) IN
          /\ listed' = listed \o items
          /\ answer' = Says(200, {<<v, versions[v].status>> : v \in ToSet(items)})
          /\ IF Len(rows) <= req.limit THEN pc' = "answered" /\ cursor' = {}
             ELSE pc' = "list" /\ cursor' = {Position(Last(items))}
    BY <1>2 DEF ListPage
  <2> DEFINE items == SubSeq(rows, 1, Min({Len(rows), req.limit}))
  <2>2. Candidates \in SUBSET VersionIds
    BY AskedType DEF Candidates, CatalogTypeOK, IsTable
  <2>3. rows \in Seq(VersionIds)
    BY <2>2, RowsEnumerate
  <2>4. req.limit \in Nat \ {0}
    BY <1>2, BrowseConstants DEF BadListing
  <2>5. /\ items \in Seq(VersionIds)
        /\ Len(items) = IF Len(rows) <= req.limit THEN Len(rows) ELSE req.limit
        /\ \A i \in 1 .. Len(items) : items[i] = rows[i]
    BY <2>3, <2>4, PageItems
  <2>6. /\ listed' = listed \o items
        /\ answer' = Says(200, {<<v, versions[v].status>> : v \in ToSet(items)})
        /\ IF Len(rows) <= req.limit THEN pc' = "answered" /\ cursor' = {}
           ELSE pc' = "list" /\ cursor' = {Position(items[Len(items)])}
    BY <2>1 DEF Last
  <2> HIDE DEF items
  <2>7. /\ Len(rows) \in Nat /\ Len(items) \in Nat /\ Len(items) <= Len(rows)
        /\ Len(rows) > req.limit => Len(items) > 0
    BY <2>3, <2>4, <2>5
  <2>8. \A i \in 1 .. Len(items) : i \in 1 .. Len(rows) /\ items[i] = rows[i]
    BY <2>5, <2>7
  <2>9. \/ pc' = "answered" /\ cursor' = {} /\ Len(items) = Len(rows)
        \/ /\ pc' = "list" /\ Len(items) > 0
           /\ cursor' = {Position(items[Len(items)])}
    BY <2>4, <2>5, <2>6, <2>7
  <2>10. Page(rows, items)
    BY <2>6, <2>8, <2>9 DEF Page
  <2> QED BY <1>2, <2>1, <2>5, <2>10
<1> QED BY <1>1, <1>2

\* A write is seen by a request only in what it could be shown: nothing published
\* goes or moves in the order of the list, an owner stays, and a version that is no
\* longer committed has been retracted since the request began.
LEMMA WriteKeeps ==
  ASSUME CatalogTypeOK, ReaderTypeOK, FilesFinite, Write
  PROVE  /\ UNCHANGED readerVars /\ pc # "answered"
         /\ committedAt' \in [VersionIds -> 0 .. MaxTime] /\ withdrawn' \subseteq VersionIds
         /\ steady' \subseteq steady /\ steady' \subseteq Asked'
         /\ pc # "new" => withdrawn \subseteq withdrawn'
         /\ pc = "new" => steady' = {} /\ withdrawn' = {}
         /\ \A x : IsPublished(x) =>
              /\ IsPublished(x)' /\ versions'[x].dataset = versions[x].dataset
              /\ Position(x)' = Position(x)
         /\ \A x : HasStatus(x, "retracted") => HasStatus(x, "retracted")'
         /\ \A x : HasStatus(x, "committed") =>
              \/ HasStatus(x, "committed")'
              \/ HasStatus(x, "retracted")' /\ (pc # "new" => x \in withdrawn')
         /\ \A d \in DOMAIN datasets :
              d \in DOMAIN datasets' /\ datasets'[d].owner = datasets[d].owner
<1>1. PICK v \in VersionIds :
        \/ ClaimDataset(v) \/ StartUpload(v) \/ RecordFile(v)
        \/ Publish(v) \/ Abort(v) \/ Retract(v)
  BY DEF Write
<1>2. PICK retracted \in SUBSET {v} :
        /\ Observed(retracted)
        /\ Retract(v) => retracted = {v}
  BY <1>1 DEF ClaimDataset, StartUpload, RecordFile, Publish, Abort, Retract
<1>3. CatalogNext
  BY <1>1, WritesAreOperations
<1>4. /\ UNCHANGED readerVars /\ pc # "answered"
      /\ steady' \subseteq steady /\ steady' \subseteq Asked'
      /\ pc # "new" => withdrawn' = withdrawn \cup retracted
      /\ pc = "new" => steady' = {} /\ withdrawn' = {}
  BY <1>2 DEF Write, Observed
<1>5. /\ committedAt' \in [VersionIds -> 0 .. MaxTime]
      /\ \A x \in VersionIds : IsPublished(x) => committedAt'[x] = committedAt[x]
  <2>1. CASE Publish(v)
    <3>1. PICK t \in 1 .. MaxTime : committedAt' = [committedAt EXCEPT ![v] = t]
      BY <2>1 DEF Publish
    <3>2. t \in 0 .. MaxTime /\ ~IsPublished(v)
      BY <2>1, BrowseConstants DEF Publish, CommitVersion, CanCommit, HasStatus, IsPublished
    <3> QED BY <3>1, <3>2 DEF ReaderTypeOK
  <2>2. CASE ~Publish(v)
    BY <1>1, <2>2 DEF ClaimDataset, StartUpload, RecordFile, Abort, Retract, ReaderTypeOK
  <2> QED BY <2>1, <2>2
<1>6. ASSUME NEW x, IsPublished(x)
      PROVE  /\ x \in VersionIds /\ x \in DOMAIN versions'
             /\ versions'[x].dataset = versions[x].dataset
             /\ Advance(x)
  BY <1>3, <1>6, OldRows DEF IsPublished, HasStatus, Frame, CatalogTypeOK, IsTable
<1>7. ASSUME NEW x, HasStatus(x, "committed"), ~HasStatus(x, "committed")'
      PROVE  x \in retracted
  <2>1. x \in DOMAIN versions /\ versions[x].status = "committed" /\ IsPublished(x)
    BY <1>7 DEF HasStatus, IsPublished
  <2>2. x \in DOMAIN versions' /\ versions'[x].status = "retracted"
    BY <1>6, <1>7, <2>1 DEF Advance, HasStatus
  <2>3. versions' # versions
    BY <2>1, <2>2
  <2>4. ~ClaimDataset(v) /\ ~RecordFile(v)
    BY <2>3 DEF ClaimDataset, Claim, RecordFile, InsertFile
  <2>5. CASE StartUpload(v)
    BY <2>1, <2>2, <2>5 DEF StartUpload, InsertPending, CanInsert, NewVersion, Put
  <2>6. CASE Publish(v)
    <3>1. v # x /\ versions' = [versions EXCEPT ![v].status = "committed"]
      BY <2>1, <2>6 DEF Publish, CommitVersion, CanCommit, HasStatus
    <3> QED BY <2>1, <2>2, <3>1
  <2>7. CASE Abort(v)
    BY <2>1, <2>2, <2>7 DEF Abort, DeletePendingVersion, Removable, HasStatus, Drop, Restrict
  <2>8. CASE Retract(v)
    <3>1. PICK call \in RetractCalls :
            versions' = [versions EXCEPT ![v].status = "retracted", ![v].retraction = call]
      BY <2>8 DEF Retract, RetractVersion
    <3>2. x = v
      BY <2>1, <2>2, <3>1
    <3> QED BY <1>2, <2>8, <3>2
  <2> QED BY <1>1, <2>4, <2>5, <2>6, <2>7, <2>8
<1>8. ASSUME NEW x, IsPublished(x)
      PROVE  /\ IsPublished(x)' /\ versions'[x].dataset = versions[x].dataset
             /\ Position(x)' = Position(x)
             /\ HasStatus(x, "retracted") => HasStatus(x, "retracted")'
             /\ HasStatus(x, "committed") /\ ~HasStatus(x, "committed")' =>
                  HasStatus(x, "retracted")'
  <2>1. IsPublished(x)'
    BY <1>6, <1>8 DEF Advance, IsPublished, HasStatus
  <2>2. Position(x)' = Position(x)
    BY <1>5, <1>6, <1>8 DEF Position
  <2>3. HasStatus(x, "retracted") => HasStatus(x, "retracted")'
    BY <1>6, <1>8 DEF Advance, HasStatus
  <2> QED BY <1>6, <1>8, <2>1, <2>2, <2>3 DEF IsPublished
<1>9. \A d \in DOMAIN datasets :
        d \in DOMAIN datasets' /\ datasets'[d].owner = datasets[d].owner
  BY <1>3, OldDatasets
<1>10. /\ withdrawn' \subseteq VersionIds
       /\ pc # "new" => withdrawn \subseteq withdrawn' /\ retracted \subseteq withdrawn'
  BY <1>2, <1>4 DEF ReaderTypeOK
<1>11. ASSUME NEW x, HasStatus(x, "committed")
       PROVE  \/ HasStatus(x, "committed")'
              \/ HasStatus(x, "retracted")' /\ (pc # "new" => x \in withdrawn')
  BY <1>7, <1>8, <1>10, <1>11 DEF IsPublished
<1>12. \A x : HasStatus(x, "retracted") => HasStatus(x, "retracted")'
  BY <1>8 DEF IsPublished
<1> QED BY <1>4, <1>5, <1>8, <1>9, <1>10, <1>11, <1>12

\* What the reader keeps does not change when nothing is read.
LEMMA ReaderStutters ==
  ASSUME ReaderTypeOK, UNCHANGED browseVars PROVE ReaderTypeOK'
BY DEF browseVars, readerVars, ReaderTypeOK

\* Each page is a sequence of versions and its cursor a position.
LEMMA PageType ==
  ASSUME CatalogTypeOK, ReaderTypeOK, ListPage
  PROVE  pc' \in Steps /\ cursor' \subseteq Positions /\ listed' \in Seq(VersionIds)
           /\ answer' \in Responses
<1>1. CASE NoPage
  BY <1>1, SaysType DEF NoPage, ReaderTypeOK, Steps
<1>2. ASSUME NEW rows \in Ordered(Candidates), NEW items \in Seq(VersionIds), Page(rows, items)
      PROVE  pc' \in Steps /\ cursor' \subseteq Positions /\ listed' \in Seq(VersionIds)
               /\ answer' \in Responses
  <2>1. Candidates \subseteq DOMAIN versions /\ DOMAIN versions \subseteq VersionIds
    BY AskedType DEF Candidates, CatalogTypeOK, IsTable
  <2>2. \A i \in 1 .. Len(items) : items[i] \in DOMAIN versions
    BY <1>2, <2>1, RowsEnumerate DEF Page
  <2>3. cursor' \subseteq Positions
    <3>1. Len(items) \in Nat
      OBVIOUS
    <3> QED BY <1>2, <2>2, <3>1, PositionType DEF Page
  <2>4. listed' \in Seq(VersionIds)
    BY <1>2, ConcatProperties DEF ReaderTypeOK, Page
  <2>5. \A v \in ToSet(items) : v \in VersionIds /\ versions[v].status \in Status
    BY <2>1, <2>2 DEF ToSet, CatalogTypeOK, IsTable, VersionRow
  <2>6. {<<v, versions[v].status>> : v \in ToSet(items)} \in SUBSET (VersionIds \X Status)
    BY <2>5
  <2>7. answer' \in Responses
    BY <1>2, <2>6, SaysType DEF Page
  <2> QED BY <1>2, <2>3, <2>4, <2>7 DEF Steps, Page
<1> QED BY <1>1, <1>2, PageStep

\* Rows that are shown have a status.
LEMMA ShownType ==
  ASSUME ReaderTypeOK PROVE Shown(version) \in SUBSET (VersionIds \X Status)
BY DEF ReaderTypeOK, Shown

\* The rows and the response of every other read are well-typed.
LEMMA ReadType ==
  ASSUME CatalogTypeOK, ReaderTypeOK,
         ReadDataset \/ ReadVersion \/ ListVersions \/ ReadFiles \/ Open
  PROVE  /\ pc' \in Steps /\ answer' \in Responses
         /\ dataset' \subseteq [owner : Principals, latest : VersionIds \cup {NoVersion}]
         /\ version' \subseteq [id : VersionIds, status : Status]
<1> USE DEF Steps
<1>0. /\ Says(200, {}) \in Responses /\ Says(403, {}) \in Responses
      /\ Says(404, {}) \in Responses /\ Says(500, {}) \in Responses
      /\ answer \in Responses
  BY SaysType DEF ReaderTypeOK
<1>1. CASE ReadDataset
  <2>1. pc' \in Steps /\ answer' \in Responses /\ version' = version
    BY <1>0, <1>1 DEF ReadDataset, Answer, GoTo
  <2>2. dataset' = IF req.dataset \in DOMAIN datasets
                   THEN {[owner |-> datasets[req.dataset].owner,
                          latest |-> datasets[req.dataset].latest]} ELSE {}
    BY <1>1 DEF ReadDataset
  <2>3. dataset' \subseteq [owner : Principals, latest : VersionIds \cup {NoVersion}]
    BY <2>2 DEF CatalogTypeOK, IsTable, DatasetRow
  <2> QED BY <2>1, <2>3 DEF ReaderTypeOK
<1>2. CASE ReadVersion
  <2> DEFINE rows == {[id |-> v, status |-> versions[v].status] :
                         v \in {w \in {Target} : InDataset(w)}}
  <2>1. rows \subseteq [id : VersionIds, status : Status]
    BY DEF InDataset, CatalogTypeOK, IsTable, VersionRow
  <2>2. Shown(rows) \in SUBSET (VersionIds \X Status)
    <3> HIDE DEF rows
    <3> QED BY <2>1 DEF Shown
  <2>3. Says(200, Shown(rows)) \in Responses
    <3> HIDE DEF rows
    <3> QED BY <2>2, SaysType
  <2>4. /\ version' = rows /\ dataset' = dataset
        /\ \/ Answer(403, {}) \/ Answer(200, Shown(rows)) \/ Answer(404, {})
           \/ GoTo("open") \/ GoTo("files")
    BY <1>2 DEF ReadVersion
  <2> HIDE DEF rows
  <2> QED BY <1>0, <2>1, <2>3, <2>4 DEF ReaderTypeOK, Answer, GoTo
<1>3. CASE ListVersions
  <2>1. PICK rows \in SUBSET DOMAIN versions :
          \/ Answer(200, {<<v, versions[v].status>> : v \in rows})
          \/ Answer(404, {}) \/ Answer(403, {})
    <3> DEFINE found == {v \in DOMAIN versions :
                    /\ InDataset(v)
                    /\ \/ HasStatus(v, "committed") /\ Has("browse")
                       \/ /\ HasStatus(v, "retracted") /\ req.include
                          /\ \E d \in dataset : OwnsRetracted(d.owner)}
    <3>1. /\ found \in SUBSET DOMAIN versions
          /\ \/ Answer(200, {<<v, versions[v].status>> : v \in found})
             \/ Answer(404, {}) \/ Answer(403, {})
      BY <1>3 DEF ListVersions
    <3> HIDE DEF found
    <3> QED BY <3>1
  <2>2. {<<v, versions[v].status>> : v \in rows} \in SUBSET (VersionIds \X Status)
    BY DEF CatalogTypeOK, IsTable, VersionRow
  <2>3. Says(200, {<<v, versions[v].status>> : v \in rows}) \in Responses
    BY <2>2, SaysType
  <2>4. UNCHANGED <<dataset, version>>
    BY <1>3 DEF ListVersions
  <2> QED BY <1>0, <2>1, <2>3, <2>4 DEF ReaderTypeOK, Answer
<1>4. Says(200, Shown(version)) \in Responses /\ Says(304, Shown(version)) \in Responses
  BY ShownType, SaysType
<1>5. CASE ReadFiles
  BY <1>0, <1>4, <1>5 DEF ReadFiles, ReaderTypeOK, Answer, GoTo
<1>6. CASE Open
  <2>1. Selection \in [code : Codes, first : Nat, last : Int]
    BY SelectionType DEF Selects
  <2>2. Says(Selection.code, {}) \in Responses /\ Says(Selection.code, Shown(version)) \in Responses
    BY <2>1, ShownType, SaysType DEF Codes
  <2>3. WithSelection(Says(Selection.code, Shown(version)), Selection) \in Responses
    <3>1. Selection \in [code : Int, first : Nat, last : Int]
      BY <2>1 DEF Codes
    <3> QED BY <2>2, <3>1, SelectionUpdate
  <2>4. /\ pc' \in {"answered", "stream"} /\ UNCHANGED <<dataset, version>>
        /\ \/ answer' = Says(404, {}) \/ answer' = Says(304, Shown(version))
           \/ answer' = Says(Selection.code, {}) \/ answer' = Says(500, {})
           \/ answer' = WithSelection(Says(Selection.code, Shown(version)), Selection)
    BY <1>6 DEF Open, Answer, WithSelection
  <2>5. answer' \in Responses
    BY <1>0, <1>4, <2>2, <2>3, <2>4
  <2> QED BY <2>4, <2>5 DEF ReaderTypeOK
<1> QED BY <1>1, <1>2, <1>3, <1>5, <1>6

\* What is sent is a sequence of offsets.
LEMMA SendType ==
  ASSUME ReaderTypeOK, SendManifest \/ SendChunk
  PROVE  pc' \in Steps /\ answer' \in Responses
<1> USE DEF Steps
<1>1. Size \in Nat
  BY RequestType
<1>2. answer.sel.first \in Nat /\ answer.sel.last \in Int /\ answer.sent \in Seq(Int)
  BY DEF ReaderTypeOK, Responses
<1>3. CASE SendManifest
  <2>1. Min({answer.sel.last + 1, Size}) - 1 \in Int
    <3>1. answer.sel.last + 1 \in Int
      BY <1>2
    <3> QED BY <1>1, <3>1, MinMax
  <2>2. Slice(answer.sel, Size) \in Seq(Int)
    <3> DEFINE to == Min({answer.sel.last + 1, Size}) - 1
    <3>1. Slice(answer.sel, Size) = Offsets(answer.sel.first, to) /\ to \in Int
      BY <2>1 DEF Slice
    <3>2. answer.sel.first \in Int
      BY <1>2
    <3> HIDE DEF to
    <3>3. Offsets(answer.sel.first, to) \in Seq(Int)
      BY <3>1, <3>2, OffsetsType
    <3> QED BY <3>1, <3>3
  <2>3. WithBody(answer, Slice(answer.sel, Size)) \in Responses
    BY <2>2, BodyUpdate DEF ReaderTypeOK
  <2> QED BY <1>3, <2>3 DEF SendManifest, WithBody
<1>4. CASE SendChunk
  <2> DEFINE chunk == NextRead(answer.sel, Len(answer.sent), ChunkSize, Size)
  <2>1. chunk \in Seq(Int)
    <3> DEFINE ask == ReadSize(answer.sel, Len(answer.sent), ChunkSize)
               from == answer.sel.first + Len(answer.sent)
    <3>1. ask \in Int
      <4>1. ChunkSize \in Int /\ answer.sel.last - answer.sel.first + 1 - Len(answer.sent) \in Int
        BY <1>2, BrowseConstants
      <4> QED BY <4>1, MinMax DEF ReadSize
    <3>2. from \in Int /\ from + ask \in Int
      <4> HIDE DEF ask
      <4> QED BY <1>2, <3>1
    <3>3. Min({from + ask, Size}) - 1 \in Int
      <4> HIDE DEF ask, from
      <4> QED BY <1>1, <3>2, MinMax
    <3> QED BY <3>2, <3>3, OffsetsType DEF NextRead
  <2> HIDE DEF chunk
  <2>2. answer.sent \o chunk \in Seq(Int)
    BY <1>2, <2>1, ConcatProperties
  <2>3. WithBody(answer, answer.sent \o chunk) \in Responses
    BY <2>2, BodyUpdate DEF ReaderTypeOK
  <2>4. \/ pc' = "answered" /\ answer' = answer
        \/ pc' = pc /\ answer' = WithBody(answer, answer.sent \o chunk)
    BY <1>4 DEF SendChunk, GoTo, chunk, WithBody
  <2> QED BY <2>3, <2>4 DEF ReaderTypeOK
<1> QED BY <1>3, <1>4

\* Every step leaves what the reader keeps well-typed.
LEMMA ReaderTypeStep ==
  CatalogTypeOK /\ CatalogTypeOK' /\ FilesFinite /\ ReaderTypeOK /\ [BrowseNext]_browseVars
    => ReaderTypeOK'
<1> SUFFICES ASSUME CatalogTypeOK, CatalogTypeOK', FilesFinite, ReaderTypeOK,
                    [BrowseNext]_browseVars
             PROVE  ReaderTypeOK'
  OBVIOUS
<1>1. CASE Begin
  <2>1. UNCHANGED <<committedAt, scenario, dataset, version, cursor, listed, answer, withdrawn>>
    BY <1>1 DEF Begin, GoTo
  <2>2. pc' \in Steps /\ steady' \subseteq VersionIds
    BY <1>1, AskedType DEF Begin, GoTo, Steps
  <2> QED BY <2>1, <2>2 DEF ReaderTypeOK
<1>2. ASSUME Serve PROVE UNCHANGED <<committedAt, scenario, steady, withdrawn>>
  BY <1>2 DEF Serve, OnlyReads, ListPage, ReadDataset, ReadVersion, ListVersions, ReadFiles,
              Open, SendManifest, SendChunk
<1>3. CASE ListPage
  <2>1. UNCHANGED <<committedAt, scenario, steady, withdrawn, dataset, version>>
    BY <1>2, <1>3 DEF Serve, ListPage
  <2> QED BY <1>3, <2>1, PageType DEF ReaderTypeOK
<1>4. CASE ReadDataset \/ ReadVersion \/ ListVersions \/ ReadFiles \/ Open
  <2>1. UNCHANGED <<committedAt, scenario, steady, withdrawn, cursor, listed>>
    BY <1>2, <1>4 DEF Serve, ReadDataset, ReadVersion, ListVersions, ReadFiles, Open
  <2> QED BY <1>4, <2>1, ReadType DEF ReaderTypeOK
<1>5. CASE SendManifest \/ SendChunk
  <2>1. UNCHANGED <<committedAt, scenario, steady, withdrawn, dataset, version, cursor, listed>>
    BY <1>2, <1>5 DEF Serve, SendManifest, SendChunk
  <2> QED BY <1>5, <2>1, SendType DEF ReaderTypeOK
<1>6. CASE Write
  <2>1. UNCHANGED readerVars /\ steady' \subseteq steady /\ withdrawn' \subseteq VersionIds
        /\ committedAt' \in [VersionIds -> 0 .. MaxTime]
    BY <1>6, WriteKeeps
  <2> QED BY <2>1 DEF ReaderTypeOK, readerVars
<1>7. CASE UNCHANGED browseVars
  BY <1>7, ReaderStutters
<1> QED BY <1>1, <1>3, <1>4, <1>5, <1>6, <1>7 DEF BrowseNext, Serve

-----------------------------------------------------------------------------
(* The way of a request *)

\* A request takes the steps of its own route only.
LEMMA FlowStep ==
  CatalogTypeOK /\ FilesFinite /\ ReaderTypeOK /\ FlowInv /\ [BrowseNext]_browseVars => FlowInv'
<1> SUFFICES ASSUME CatalogTypeOK, FilesFinite, ReaderTypeOK, FlowInv, [BrowseNext]_browseVars
             PROVE  FlowInv'
  OBVIOUS
<1>0. req.kind \in Kinds
  BY RequestType DEF Requests
<1>1. CASE Begin
  BY <1>1 DEF Begin, GoTo, FlowInv, req
<1>2. CASE ListPage
  <2>1. UNCHANGED scenario /\ pc' \in {"list", "answered"}
    BY <1>2 DEF ListPage, OnlyReads, Answer
  <2> QED BY <1>2, <2>1 DEF ListPage, FlowInv, req
<1>3. CASE ReadDataset
  <2>1. /\ UNCHANGED scenario
        /\ \/ pc' = "answered"
           \/ pc' = "versions" /\ req.kind = "versions" /\ answer' = answer
           \/ pc' = "version" /\ req.kind # "versions" /\ answer' = answer
    BY <1>3 DEF ReadDataset, OnlyReads, Answer, GoTo
  <2> QED BY <1>3, <2>1 DEF ReadDataset, FlowInv, req
<1>4. CASE ReadVersion
  <2>1. /\ UNCHANGED scenario
        /\ \/ pc' = "answered"
           \/ /\ req.kind # "detail" /\ answer' = answer
              /\ pc' = IF req.kind = "manifest" THEN "open" ELSE "files"
    BY <1>4 DEF ReadVersion, OnlyReads, Answer, GoTo
  <2> QED BY <1>0, <1>4, <2>1 DEF ReadVersion, FlowInv, req, Kinds, Downloads
<1>5. CASE ListVersions
  BY <1>5 DEF ListVersions, OnlyReads, Answer, FlowInv, req
<1>6. CASE ReadFiles
  BY <1>6 DEF ReadFiles, OnlyReads, Answer, GoTo, FlowInv, req, Downloads
<1>7. CASE Open
  BY <1>7 DEF Open, OnlyReads, Answer, FlowInv, req
<1>8. CASE SendManifest \/ SendChunk
  BY <1>8 DEF SendManifest, SendChunk, OnlyReads, GoTo, FlowInv, req
<1>9. CASE Write
  <2>1. UNCHANGED readerVars /\ (pc = "new" => steady' = {} /\ withdrawn' = {})
    BY <1>9, WriteKeeps
  <2> QED BY <2>1 DEF readerVars, FlowInv, req
<1>10. CASE UNCHANGED browseVars
  BY <1>10 DEF browseVars, readerVars, FlowInv, req
<1> QED BY <1>1, <1>2, <1>3, <1>4, <1>5, <1>6, <1>7, <1>8, <1>9, <1>10 DEF BrowseNext, Serve

\* What every later proof starts from
Context == TablesInv /\ FilesFinite /\ ReaderTypeOK /\ FlowInv

\* The tables are consistent, the reader's state is well-typed, and the request is
\* on the way of its route, at every step.
THEOREM ContextHolds == BrowseSpec => []Context
<1>1. BrowseInit => ReaderTypeOK /\ FlowInv
  <2> SUFFICES ASSUME BrowseInit PROVE ReaderTypeOK /\ FlowInv
    OBVIOUS
  <2>1. NoAnswer \in Responses /\ <<>> \in Seq(VersionIds)
    BY SaysType DEF NoAnswer
  <2>2. committedAt \in [VersionIds -> 0 .. MaxTime]
    BY BrowseConstants DEF BrowseInit
  <2> QED BY <2>1, <2>2 DEF BrowseInit, ReaderTypeOK, FlowInv, Steps
<1>2. TablesInv /\ TablesInv' /\ FilesFinite /\ ReaderTypeOK /\ [BrowseNext]_browseVars
        => ReaderTypeOK'
  BY ReaderTypeStep DEF TablesInv
<1>3. TablesInv /\ FilesFinite /\ ReaderTypeOK /\ FlowInv /\ [BrowseNext]_browseVars => FlowInv'
  BY FlowStep DEF TablesInv
<1> QED BY <1>1, <1>2, <1>3, TablesConsistent, PTL DEF BrowseSpec, Context

\* Type correctness of the routes that read, whatever is asked for
THEOREM BrowseTypeCorrect == BrowseSpec => []BrowseTypeOK
<1>1. Context => BrowseTypeOK
  <2> SUFFICES ASSUME Context PROVE BrowseTypeOK
    OBVIOUS
  <2>1. CatalogTypeOK /\ ReaderTypeOK
    BY DEF Context, TablesInv
  <2>2. req \in Requests /\ scenario.packages \subseteq VersionIds
    BY <2>1, RequestType
  <2> QED BY <2>1, <2>2 DEF BrowseTypeOK, ReaderTypeOK, Responses
<1> QED BY <1>1, ContextHolds, PTL

-----------------------------------------------------------------------------
(* The pages of a list *)

\* ORDER BY is a strict order, and the cursor predicate is that order: what comes
\* after a row in the list is what comes after the cursor made from it.
LEMMA OrderOfList ==
  ASSUME NEW a \in Positions, NEW b \in Positions
  PROVE  /\ BeyondCursor(a, b) <=> Precedes(a, b)
         /\ \A c \in Positions : Precedes(a, b) /\ Precedes(b, c) => Precedes(a, c)
<1>1. BeyondCursor(a, b) <=> Precedes(a, b)
  BY DEF Positions, BeyondCursor, Precedes
<1>2. \A c \in Positions : Precedes(a, b) /\ Precedes(b, c) => Precedes(a, c)
  BY DEF Positions, Precedes
<1> QED BY <1>1, <1>2

\* While the tables rest, nothing changes in what could be shown.
LEMMA TablesRest ==
  ASSUME UNCHANGED <<catalogVars, committedAt, scenario>>
  PROVE  /\ \A v : Position(v)' = Position(v)
         /\ \A v, status : HasStatus(v, status)' <=> HasStatus(v, status)
         /\ \A v : IsPublished(v)' <=> IsPublished(v)
         /\ Listable' = Listable /\ Asked' = Asked
         /\ req' = req
<1>1. UNCHANGED <<datasets, versions, files>> /\ req' = req
  BY DEF catalogVars, req
<1>2. Listable' = Listable
  BY <1>1 DEF Listable, IsLatest, OwnRetracted, IncludesRetracted, Has
<1>3. Asked' = Asked
  BY <1>1, <1>2 DEF Asked, CommittedOf
<1> QED BY <1>1, <1>2, <1>3 DEF Position, HasStatus, IsPublished

\* What is listed is published, and has a position.
LEMMA ListedPositions ==
  ASSUME CatalogTypeOK, ReaderTypeOK
  PROVE  /\ \A v : IsPublished(v) => Position(v) \in Positions
         /\ \A v \in Listable : IsPublished(v)
<1>1. \A v : IsPublished(v) => Position(v) \in Positions
  BY PositionType DEF IsPublished, HasStatus
<1>2. \A v \in Listable : IsPublished(v)
  BY DEF Listable, IsLatest, OwnRetracted, IsPublished, HasStatus
<1> QED BY <1>1, <1>2

\* The elements of a longer sequence
LEMMA JoinedElements ==
  ASSUME NEW S, NEW s \in Seq(S), NEW t \in Seq(S)
  PROVE  /\ s \o t \in Seq(S) /\ Len(s \o t) = Len(s) + Len(t)
         /\ \A i \in 1 .. Len(s) : (s \o t)[i] = s[i]
         /\ \A i \in 1 .. Len(t) : (s \o t)[Len(s) + i] = t[i]
         /\ \A i \in 1 .. Len(s) + Len(t) :
              i \in 1 .. Len(s) \/ \E j \in 1 .. Len(t) : i = Len(s) + j
         /\ ToSet(s) \subseteq ToSet(s \o t) /\ ToSet(t) \subseteq ToSet(s \o t)
<1> DEFINE u == s \o t
<1>1. /\ u \in Seq(S) /\ Len(u) = Len(s) + Len(t)
      /\ \A i \in 1 .. Len(s) + Len(t) : u[i] = IF i <= Len(s) THEN s[i] ELSE t[i - Len(s)]
  BY ConcatProperties
<1> HIDE DEF u
<1>2. Len(s) \in Nat /\ Len(t) \in Nat
  OBVIOUS
<1>3. \A i \in 1 .. Len(s) : i \in 1 .. Len(u) /\ u[i] = s[i]
  BY <1>1, <1>2
<1>4. ASSUME NEW i \in 1 .. Len(t) PROVE Len(s) + i \in 1 .. Len(u) /\ u[Len(s) + i] = t[i]
  <2>1. Len(s) + i \in 1 .. Len(s) + Len(t) /\ ~(Len(s) + i <= Len(s)) /\ (Len(s) + i) - Len(s) = i
    BY <1>2
  <2> QED BY <1>1, <2>1
<1>5. ASSUME NEW i \in 1 .. Len(s) + Len(t), i \notin 1 .. Len(s)
      PROVE  \E j \in 1 .. Len(t) : i = Len(s) + j
  <2>1. i - Len(s) \in 1 .. Len(t) /\ i = Len(s) + (i - Len(s))
    BY <1>2, <1>5
  <2> QED BY <2>1
<1>6. ToSet(s) \subseteq ToSet(u)
  BY <1>1, <1>3 DEF ToSet
<1>7. ToSet(t) \subseteq ToSet(u)
  <2>1. DOMAIN t = 1 .. Len(t) /\ DOMAIN u = 1 .. Len(u)
    BY <1>1
  <2>2. \A i \in DOMAIN t : \E k \in DOMAIN u : u[k] = t[i]
    BY <1>4, <2>1
  <2> QED BY <2>2 DEF ToSet
<1> QED BY <1>1, <1>3, <1>4, <1>5, <1>6, <1>7 DEF u

\* One page: it goes on where the last one ended, whatever was committed, retracted
\* or given the same committed_at meanwhile, and leaves out nothing steady.
LEMMA ListPageStep ==
  ASSUME Context, ListInv, ListPage
  PROVE  ListInv'
<1>0. /\ CatalogTypeOK /\ ReaderTypeOK /\ req.kind = "list" /\ pc = "list"
      /\ listed \in Seq(VersionIds) /\ steady \subseteq VersionIds
  BY DEF Context, TablesInv, FlowInv, ReaderTypeOK, ListPage
<1>1. UNCHANGED <<catalogVars, committedAt, scenario, steady>>
  BY DEF ListPage, OnlyReads
<1>2. /\ \A v : Position(v)' = Position(v)
      /\ \A v : IsPublished(v)' <=> IsPublished(v)
      /\ Listable' = Listable /\ req' = req
  BY <1>1, TablesRest
<1>3. CASE NoPage
  <2>1. answer'.code = 200 => NothingListed
    BY <1>3 DEF NoPage, Says
  <2>2. NothingListed => Listable = {}
    BY DEF NothingListed, Listable, IsLatest, OwnRetracted
  <2>3. NothingListed => steady \subseteq ToSet(listed)
    BY <1>0, <2>2 DEF ListInv, Candidates
  <2> QED BY <1>1, <1>2, <1>3, <2>1, <2>3 DEF NoPage, ListInv, SteadyRowsListed
<1>4. ASSUME NEW rows \in Ordered(Candidates), NEW items \in Seq(VersionIds),
             \A k \in 1 .. Len(items) : k \in 1 .. Len(rows) /\ items[k] = rows[k],
             listed' = listed \o items,
             \/ pc' = "answered" /\ cursor' = {} /\ Len(items) = Len(rows)
             \/ /\ pc' = "list" /\ Len(items) > 0
                /\ cursor' = {Position(items[Len(items)])}
      PROVE  ListInv'
  <2> DEFINE n == Len(listed)
             m == Len(items)
  <2>0. n \in Nat /\ m \in Nat
    BY <1>0
  <2>1. Candidates \in SUBSET VersionIds /\ Candidates \subseteq Listable
    BY <1>0, AskedType DEF Candidates, CatalogTypeOK, IsTable
  <2>2. /\ \A k \in 1 .. Len(rows) : rows[k] \in Candidates
        /\ \A v \in Candidates : \E k \in 1 .. Len(rows) : rows[k] = v
        /\ \A i, j \in 1 .. Len(rows) : i < j => Precedes(Position(rows[i]), Position(rows[j]))
        /\ Len(rows) \in Nat
    BY <2>1, RowsEnumerate
  <2>3. /\ \A k \in 1 .. m : items[k] \in Candidates /\ IsPublished(items[k])
        /\ \A k \in 1 .. m : Position(items[k]) \in Positions
        /\ \A k \in 1 .. n : Position(listed[k]) \in Positions
    BY <1>0, <1>4, <2>1, <2>2, ListedPositions DEF ListInv
  <2>4. /\ listed' \in Seq(VersionIds) /\ Len(listed') = n + m
        /\ \A i \in 1 .. n : listed'[i] = listed[i]
        /\ \A i \in 1 .. m : listed'[n + i] = items[i]
        /\ \A i \in 1 .. n + m : i \in 1 .. n \/ \E j \in 1 .. m : i = n + j
        /\ ToSet(listed) \subseteq ToSet(listed') /\ ToSet(items) \subseteq ToSet(listed')
    BY <1>0, <1>4, JoinedElements
  <2>5. ASSUME NEW i \in 1 .. n, NEW j \in 1 .. m
        PROVE  Precedes(Position(listed[i]), Position(items[j]))
    <3>1. n \in 1 .. n /\ listed # <<>>
      BY <2>0
    <3>2. Precedes(Position(listed[n]), Position(items[j]))
      <4>1. cursor = {Position(listed[n])}
        BY <1>0, <3>1 DEF ListInv
      <4>2. BeyondCursor(Position(listed[n]), Position(items[j]))
        BY <2>3, <4>1 DEF Candidates
      <4> QED BY <2>3, <3>1, <4>2, OrderOfList
    <3>3. CASE i = n
      BY <3>2, <3>3
    <3>4. CASE i # n
      <4>1. Precedes(Position(listed[i]), Position(listed[n]))
        BY <2>0, <3>1, <3>4 DEF ListInv
      <4> QED BY <2>3, <3>1, <3>2, <4>1, OrderOfList
    <3> QED BY <3>3, <3>4
  <2>6. \A i \in 1 .. Len(listed') : IsPublished(listed'[i])
    BY <2>3, <2>4 DEF ListInv
  <2>7. \A i, j \in 1 .. Len(listed') :
          i < j => Precedes(Position(listed'[i]), Position(listed'[j]))
    <3> SUFFICES ASSUME NEW i \in 1 .. n + m, NEW j \in 1 .. n + m, i < j
                 PROVE  Precedes(Position(listed'[i]), Position(listed'[j]))
      BY <2>4
    <3>1. CASE i \in 1 .. n /\ j \in 1 .. n
      BY <2>4, <3>1 DEF ListInv
    <3>2. CASE i \in 1 .. n /\ \E k \in 1 .. m : j = n + k
      BY <2>4, <2>5, <3>2
    <3>3. CASE (\E k \in 1 .. m : i = n + k) /\ \E k \in 1 .. m : j = n + k
      <4>1. PICK k \in 1 .. m, l \in 1 .. m : i = n + k /\ j = n + l
        BY <3>3
      <4>2. k < l
        BY <2>0, <4>1
      <4>3. Precedes(Position(items[k]), Position(items[l]))
        BY <1>4, <2>2, <4>2
      <4> QED BY <2>4, <4>1, <4>3
    <3>4. CASE (\E k \in 1 .. m : i = n + k) /\ j \in 1 .. n
      BY <2>0, <3>4
    <3> QED BY <2>4, <3>1, <3>2, <3>3, <3>4
  <2>8. ASSUME pc' = "list"
        PROVE  /\ listed' # <<>> /\ cursor' = {Position(listed'[Len(listed')])}
               /\ steady \ ToSet(listed') \subseteq
                    {v \in Listable : \A c \in cursor' : BeyondCursor(c, Position(v))}
    <3>1. m > 0 /\ m \in 1 .. m /\ m \in 1 .. Len(rows) /\ cursor' = {Position(items[m])}
      BY <1>4, <2>0, <2>8
    <3>2. listed' # <<>> /\ cursor' = {Position(listed'[Len(listed')])}
      <4>1. listed'[Len(listed')] = items[m] /\ Len(listed') > 0
        BY <2>0, <2>4, <3>1
      <4>2. listed' # <<>>
        BY <4>1
      <4> QED BY <3>1, <4>1, <4>2
    <3>3. ASSUME NEW v \in steady, v \notin ToSet(listed')
          PROVE  v \in Listable /\ BeyondCursor(Position(items[m]), Position(v))
      <4>1. v \in Candidates /\ v \notin ToSet(items)
        BY <1>0, <2>4, <3>3 DEF ListInv
      <4>2. PICK k \in 1 .. Len(rows) : rows[k] = v
        BY <2>2, <4>1
      <4>3. ~(k <= m)
        <5>1. SUFFICES ASSUME k <= m PROVE FALSE
          OBVIOUS
        <5>2. k \in 1 .. m /\ items[k] = v /\ k \in DOMAIN items
          BY <1>4, <2>0, <2>2, <4>2, <5>1
        <5> QED BY <4>1, <5>2 DEF ToSet
      <4>4. Precedes(Position(rows[m]), Position(v)) /\ rows[m] = items[m]
        BY <1>4, <2>0, <2>2, <3>1, <4>2, <4>3
      <4>5. Position(v) \in Positions
        BY <1>0, <2>1, <4>1, ListedPositions
      <4> QED BY <2>1, <2>3, <3>1, <4>1, <4>4, <4>5, OrderOfList
    <3> QED BY <3>1, <3>2, <3>3
  <2>9. ASSUME pc' = "answered" PROVE steady \subseteq ToSet(listed')
    <3>1. m = Len(rows)
      BY <1>4, <2>9
    <3>2. ASSUME NEW v \in steady, v \notin ToSet(listed') PROVE FALSE
      <4>1. v \in Candidates /\ v \notin ToSet(items)
        BY <1>0, <2>4, <3>2 DEF ListInv
      <4>2. PICK k \in 1 .. m : rows[k] = v
        BY <2>2, <3>1, <4>1
      <4> QED BY <1>4, <4>1, <4>2 DEF ToSet
    <3> QED BY <3>2
  <2> HIDE DEF n, m
  <2>10. Candidates' = {v \in Listable : \A c \in cursor' : BeyondCursor(c, Position(v))}
    BY <1>2 DEF Candidates
  <2> QED BY <1>1, <1>2, <2>6, <2>7, <2>8, <2>9, <2>10 DEF ListInv, SteadyRowsListed
<1>5. ASSUME NEW rows \in Ordered(Candidates), NEW items \in Seq(VersionIds), Page(rows, items)
      PROVE  ListInv'
  BY <1>4, <1>5 DEF Page
<1> QED BY <1>0, <1>3, <1>5, PageStep

\* A write leaves every published row where it is in the list, so the pages stay
\* in order and what is still to come stays behind the cursor.
LEMMA ListWriteStep ==
  ASSUME Context, ListInv, Write
  PROVE  ListInv'
<1>1. CatalogTypeOK /\ ReaderTypeOK /\ FilesFinite /\ listed \in Seq(VersionIds)
  BY DEF Context, TablesInv, ReaderTypeOK
<1>2. /\ UNCHANGED readerVars /\ pc # "answered"
      /\ steady' \subseteq steady /\ steady' \subseteq Asked'
      /\ \A x : IsPublished(x) => IsPublished(x)' /\ Position(x)' = Position(x)
  BY <1>1, WriteKeeps
<1>3. UNCHANGED <<scenario, pc, cursor, listed, req>>
  BY <1>2 DEF readerVars, req
<1>4. \A k \in 1 .. Len(listed) : IsPublished(listed[k])
  BY DEF ListInv
<1>5. \A k \in 1 .. Len(listed) :
        IsPublished(listed[k])' /\ Position(listed[k])' = Position(listed[k])
  BY <1>2, <1>3, <1>4 DEF IsPublished, HasStatus, Position
<1>6. \A i, j \in 1 .. Len(listed) :
        i < j => Precedes(Position(listed[i])', Position(listed[j])')
  BY <1>3, <1>5 DEF ListInv
<1>7. ASSUME pc = "list"
      PROVE  /\ IF listed = <<>> THEN cursor' = {}
                ELSE cursor' = {Position(listed[Len(listed)])'}
             /\ steady' \ ToSet(listed) \subseteq Candidates'
  <2>1. IF listed = <<>> THEN cursor' = {} ELSE cursor' = {Position(listed[Len(listed)])'}
    <3>1. listed # <<>> => Len(listed) \in 1 .. Len(listed)
      BY <1>1
    <3> QED BY <1>3, <1>5, <1>7, <3>1 DEF ListInv
  <2>2. Asked' = Listable'
    <3>1. req'.kind = "list"
      BY <1>3, <1>7 DEF Context, FlowInv
    <3> QED BY <3>1 DEF Asked
  <2>3. ASSUME NEW v \in steady', v \notin ToSet(listed)
        PROVE  v \in Listable' /\ \A c \in cursor' : BeyondCursor(c, Position(v)')
    <3>1. v \in Candidates
      BY <1>2, <1>7, <2>3 DEF ListInv
    <3>2. Position(v)' = Position(v)
      BY <1>1, <1>2, <3>1, ListedPositions DEF Candidates
    <3> QED BY <1>2, <1>3, <2>2, <3>1, <3>2 DEF Candidates
  <2> QED BY <2>1, <2>3 DEF Candidates
<1> QED BY <1>2, <1>3, <1>5, <1>6, <1>7 DEF ListInv, SteadyRowsListed

\* The invariant of the list is inductive.
LEMMA ListStep == Context /\ ListInv /\ [BrowseNext]_browseVars => ListInv'
<1> SUFFICES ASSUME Context, ListInv, [BrowseNext]_browseVars PROVE ListInv'
  OBVIOUS
<1>1. CASE Begin
  <2>1. /\ UNCHANGED <<catalogVars, committedAt, scenario, cursor, listed, answer>>
        /\ pc = "new" /\ pc' # "answered" /\ (pc' = "list" => req.kind = "list")
        /\ steady' = Asked
    BY <1>1 DEF Begin, GoTo
  <2>2. cursor = {} /\ listed = <<>>
    BY <2>1 DEF Context, FlowInv
  <2>3. Asked' = Asked /\ Listable' = Listable /\ req' = req
    BY <2>1, TablesRest
  <2>4. Candidates' = Listable
    BY <2>1, <2>2, <2>3 DEF Candidates
  <2>5. Len(listed') = 0 /\ pc' # "answered" /\ (pc' = "list" => steady' \subseteq Candidates')
    BY <1>1, <2>1, <2>2, <2>3, <2>4 DEF Asked, Begin, GoTo
  <2>6. \A k \in 1 .. Len(listed') : FALSE
    BY <2>5
  <2> QED BY <2>1, <2>2, <2>5, <2>6 DEF ListInv, SteadyRowsListed
<1>2. CASE ListPage
  BY <1>2, ListPageStep
<1>3. CASE ReadDataset \/ ReadVersion \/ ListVersions \/ ReadFiles \/ Open
             \/ SendManifest \/ SendChunk
  <2>a. UNCHANGED <<catalogVars, committedAt, scenario, listed>>
    BY <1>3 DEF ReadDataset, ReadVersion, ListVersions, ReadFiles, Open, SendManifest,
                SendChunk, OnlyReads
  <2>b. pc \in {"dataset", "version", "versions", "files", "open", "stream"}
    BY <1>3 DEF ReadDataset, ReadVersion, ListVersions, ReadFiles, Open, SendManifest,
                SendChunk
  <2>c. pc' # "list"
    BY <1>3 DEF ReadDataset, ReadVersion, ListVersions, ReadFiles, Open, SendManifest,
                SendChunk, Answer, GoTo
  <2>1. /\ UNCHANGED <<catalogVars, committedAt, scenario, listed>>
        /\ pc \in {"dataset", "version", "versions", "files", "open", "stream"}
        /\ pc' # "list"
    BY <2>a, <2>b, <2>c
  <2>2. /\ \A v : Position(v)' = Position(v)
        /\ \A v : IsPublished(v)' <=> IsPublished(v)
        /\ req' = req
    BY <2>1, TablesRest
  <2>3. req'.kind # "list"
    BY <2>1, <2>2 DEF Context, FlowInv
  <2> QED BY <2>1, <2>2, <2>3 DEF ListInv, SteadyRowsListed
<1>4. CASE Write
  BY <1>4, ListWriteStep
<1>5. CASE UNCHANGED browseVars
  <2>1. UNCHANGED <<catalogVars, committedAt, scenario, pc, cursor, listed, answer, steady>>
    BY <1>5 DEF browseVars, readerVars
  <2>2. /\ \A v : Position(v)' = Position(v)
        /\ \A v : IsPublished(v)' <=> IsPublished(v)
        /\ Listable' = Listable /\ req' = req
    BY <2>1, TablesRest
  <2>3. Candidates' = Candidates
    BY <2>1, <2>2 DEF Candidates
  <2> QED BY <2>1, <2>2, <2>3 DEF ListInv, SteadyRowsListed
<1> QED BY <1>1, <1>2, <1>3, <1>4, <1>5 DEF BrowseNext, Serve

\* The inductive invariant of the list holds throughout.
THEOREM ListInvariant == BrowseSpec => []ListInv
<1>1. BrowseInit => ListInv
  <2> SUFFICES ASSUME BrowseInit PROVE ListInv
    OBVIOUS
  <2>1. Len(listed) = 0 /\ pc = "new"
    BY DEF BrowseInit
  <2>2. \A k \in 1 .. Len(listed) : FALSE
    BY <2>1
  <2> QED BY <2>1, <2>2 DEF ListInv, SteadyRowsListed
<1> QED BY <1>1, ListStep, ContextHolds, PTL DEF BrowseSpec

\* For every page size, filter and number of versions: the pages of a list are in
\* order and repeat nothing, whatever is committed and retracted between them.
THEOREM PagesInOrder == BrowseSpec => []ListedOnceInOrder
<1>1. Context /\ ListInv => ListedOnceInOrder
  <2> SUFFICES ASSUME Context, ListInv PROVE ListedOnceInOrder
    OBVIOUS
  <2>1. DOMAIN listed = 1 .. Len(listed)
    BY DEF Context, ReaderTypeOK
  <2> QED BY <2>1 DEF ListInv, ListedOnceInOrder
<1> QED BY <1>1, ListInvariant, ContextHolds, PTL

\* A client that follows next_cursor to the end has got every version that was in
\* the list from the first page to the last.
THEOREM PagesAreComplete == BrowseSpec => []SteadyRowsListed
<1>1. ListInv => SteadyRowsListed
  BY DEF ListInv
<1> QED BY <1>1, ListInvariant, PTL

-----------------------------------------------------------------------------
(* Who sees what *)

\* A download is refused, said to be unchanged, or begun with an empty body.
LEMMA OpenAnswers ==
  ASSUME ReaderTypeOK, Open
  PROVE  \/ /\ pc' = "answered"
            /\ \/ answer' = Says(404, {}) /\ IsFileIn(Lost)
               \/ answer' = Says(304, Shown(version))
               \/ answer' = Says(Selection.code, {}) /\ Selection.code \in {416, 500}
               \/ answer' = Says(500, {})
         \/ /\ pc' = "stream" /\ Selection.code \in {200, 206}
            /\ answer'.code = Selection.code /\ answer'.shown = Shown(version)
            /\ answer'.sel = Selection /\ answer'.sent = <<>>
<1>1. Selection.code \in Codes
  BY SelectionType DEF Selects
<1>2. CASE pc' = "stream" /\ Selection.code \notin {416, 500}
             /\ answer' = WithSelection(Says(Selection.code, Shown(version)), Selection)
  <2>1. /\ WithSelection(Says(Selection.code, Shown(version)), Selection).code = Selection.code
        /\ WithSelection(Says(Selection.code, Shown(version)), Selection).shown = Shown(version)
        /\ WithSelection(Says(Selection.code, Shown(version)), Selection).sel = Selection
        /\ WithSelection(Says(Selection.code, Shown(version)), Selection).sent = <<>>
    BY DEF WithSelection, Says
  <2> QED BY <1>1, <1>2, <2>1 DEF Codes
<1>3. CASE Selection.code \in {416, 500} \/ IsFileIn(Lost) \/ req.etag \/ IsFileIn(WideNames)
  BY <1>3 DEF Open, Answer
<1> QED BY <1>2, <1>3 DEF Open, Answer, WithSelection

\* Sending changes nothing but the body.
LEMMA SendKeeps ==
  ASSUME ReaderTypeOK, SendManifest \/ SendChunk
  PROVE  answer'.code = answer.code /\ answer'.shown = answer.shown /\ answer'.sel = answer.sel
<1>1. answer' = answer \/ \E body \in {answer'.sent} : answer' = WithBody(answer, body)
  <2>1. \A body : WithBody(answer, body).sent = body
    BY DEF WithBody, ReaderTypeOK, Responses
  <2> QED BY <2>1 DEF SendManifest, SendChunk, GoTo, WithBody
<1>2. \A body : /\ WithBody(answer, body).code = answer.code
                /\ WithBody(answer, body).shown = answer.shown
                /\ WithBody(answer, body).sel = answer.sel
  BY DEF WithBody, ReaderTypeOK, Responses
<1> QED BY <1>1, <1>2

\* Who has been shown a row may be shown it still, whatever is written.
LEMMA PermittedStays ==
  ASSUME Context, Write, pc # "new", NEW v, NEW status, Permitted(v, status)
  PROVE  Permitted(v, status)'
<1>1. CatalogTypeOK /\ ReaderTypeOK /\ FilesFinite /\ NumbersUnique
  BY DEF Context, TablesInv
<1>2. UNCHANGED scenario /\ withdrawn \subseteq withdrawn'
  BY <1>1, WriteKeeps DEF readerVars
<1>3. CASE status = "committed" /\ Has("browse") /\ IsPublished(v)
  <2>1. IsPublished(v)'
    BY <1>1, <1>3, WriteKeeps
  <2> QED BY <1>2, <1>3, <2>1 DEF Permitted, Has, req
<1>4. CASE status = "retracted" /\ HasStatus(v, "retracted")
             /\ (v \in withdrawn \/ (Has("upload") /\ datasets[versions[v].dataset].owner = req.who))
  <2>1. HasStatus(v, "retracted")' /\ versions'[v].dataset = versions[v].dataset
    BY <1>1, <1>4, WriteKeeps DEF IsPublished
  <2>2. versions[v].dataset \in DOMAIN datasets
    BY <1>1, <1>4 DEF NumbersUnique, HasStatus
  <2>3. datasets'[versions'[v].dataset].owner = datasets[versions[v].dataset].owner
    BY <1>1, <2>1, <2>2, WriteKeeps
  <2> QED BY <1>2, <1>4, <2>1, <2>3 DEF Permitted, Has, req
<1> QED BY <1>3, <1>4 DEF Permitted

\* While the tables rest, so does what may be shown.
LEMMA PermittedRests ==
  ASSUME UNCHANGED <<catalogVars, committedAt, scenario, withdrawn>>
  PROVE  \A v, status : Permitted(v, status)' <=> Permitted(v, status)
BY DEF Permitted, Has, req, catalogVars, HasStatus, IsPublished

\* What the routes that read one dataset show is permitted, at that moment.
LEMMA ReadShows ==
  ASSUME Context, SeenInv, ReadVersion \/ ListVersions
  PROVE  /\ \A shown \in answer'.shown : Permitted(shown[1], shown[2])
         /\ pc' \in {"files", "open", "stream"} =>
              \A row \in version' : Permitted(row.id, row.status)
<1>0. CatalogTypeOK /\ ReaderTypeOK /\ answer.shown = {}
  <2>1. answer = NoAnswer
    BY DEF Context, FlowInv, ReadVersion, ListVersions
  <2> QED BY <2>1 DEF Context, TablesInv, NoAnswer, Says
<1>1. CASE ReadVersion
  <2> DEFINE rows == {[id |-> v, status |-> versions[v].status] :
                         v \in {w \in {Target} : InDataset(w)}}
  <2>1. /\ version' = rows
        /\ \/ Answer(403, {}) \/ Answer(404, {})
           \/ /\ Answer(200, Shown(rows)) /\ req.kind = "detail"
              /\ ~ \E row \in rows : RejectedWithoutBrowse(row)
           \/ /\ pc' \in {"open", "files"} /\ answer' = answer
              /\ \E d \in dataset, row \in rows : CanRead(d, row)
    BY <1>1 DEF ReadVersion, GoTo
  <2>2. \A row \in rows : /\ row.id = Target /\ row.status = versions[Target].status
                          /\ HasStatus(Target, row.status)
                          /\ versions[Target].dataset = req.dataset
    BY DEF InDataset, HasStatus
  <2> HIDE DEF rows
  <2>3. ASSUME req.kind = "detail", NEW row \in rows, ~RejectedWithoutBrowse(row)
        PROVE  Permitted(row.id, row.status)
    <3>1. dataset # {} /\ Target = (CHOOSE d \in dataset : TRUE).latest
      BY <1>1, <2>3 DEF SeenInv, ReadVersion, Target
    <3>2. \E d \in dataset : Target = d.latest
      BY <3>1
    <3>3. \/ row.status = "committed"
          \/ row.status = "retracted" /\ HasStatus(Target, "retracted") /\ Target \in withdrawn
      BY <1>1, <2>2, <2>3, <3>2 DEF SeenInv, ReadVersion, HasStatus
    <3> QED BY <2>2, <2>3, <3>3 DEF Permitted, RejectedWithoutBrowse, IsPublished
  <2>4. ASSUME NEW d \in dataset, NEW row \in rows, CanRead(d, row)
        PROVE  Permitted(row.id, row.status)
    <3>1. d.owner = datasets[versions[row.id].dataset].owner
      BY <2>2, <2>4 DEF SeenInv
    <3> QED BY <2>2, <2>4, <3>1 DEF CanRead, OwnsRetracted, Permitted, IsPublished
  <2>5. (\E d \in dataset, row \in rows : CanRead(d, row)) =>
          \A row \in rows : Permitted(row.id, row.status)
    <3> SUFFICES ASSUME NEW d \in dataset, NEW row \in rows, CanRead(d, row), NEW other \in rows
                 PROVE  Permitted(other.id, other.status)
      OBVIOUS
    <3>1. other.id = row.id /\ other.status = row.status
      BY <2>2
    <3> QED BY <2>4, <3>1
  <2>6. ASSUME \A row \in rows : Permitted(row.id, row.status), NEW shown \in Shown(rows)
        PROVE  Permitted(shown[1], shown[2])
    <3>1. PICK row \in rows : shown = <<row.id, row.status>>
      BY <2>6 DEF Shown
    <3> QED BY <2>6, <3>1
  <2>7. Says(403, {}).shown = {} /\ Says(404, {}).shown = {} /\ Says(200, Shown(rows)).shown = Shown(rows)
    BY DEF Says
  <2> QED BY <1>0, <2>1, <2>3, <2>5, <2>6, <2>7 DEF Answer
<1>2. CASE ListVersions
  <2> DEFINE rows == {v \in DOMAIN versions :
                        /\ InDataset(v)
                        /\ \/ HasStatus(v, "committed") /\ Has("browse")
                           \/ /\ HasStatus(v, "retracted") /\ req.include
                              /\ \E d \in dataset : OwnsRetracted(d.owner)}
  <2>1. \/ Answer(200, {<<v, versions[v].status>> : v \in rows})
        \/ Answer(404, {}) \/ Answer(403, {})
    BY <1>2 DEF ListVersions
  <2>2. \A v \in rows : Permitted(v, versions[v].status)
    BY DEF InDataset, Permitted, IsPublished, HasStatus, OwnsRetracted, SeenInv
  <2> HIDE DEF rows
  <2>3. /\ Says(403, {}).shown = {} /\ Says(404, {}).shown = {}
        /\ Says(200, {<<v, versions[v].status>> : v \in rows}).shown
             = {<<v, versions[v].status>> : v \in rows}
    BY DEF Says
  <2> QED BY <2>1, <2>2, <2>3 DEF Answer
<1> QED BY <1>1, <1>2

\* The row of a dataset tells its owner for good, and a latest version that is
\* committed at that moment.
LEMMA ReadDatasetSees ==
  ASSUME Context, SeenInv, ReadDataset
  PROVE  SeenInv'
<1>0. CatalogTypeOK /\ LatestIsCommitted /\ answer = NoAnswer
  BY DEF Context, TablesInv, FlowInv, ReadDataset
<1>1. UNCHANGED <<catalogVars, committedAt, scenario, withdrawn>>
  BY DEF ReadDataset, OnlyReads
<1>2. UNCHANGED <<datasets, versions, req>>
  BY <1>1 DEF catalogVars, req
<1>3. dataset' = IF req.dataset \in DOMAIN datasets
                 THEN {[owner |-> datasets[req.dataset].owner,
                        latest |-> datasets[req.dataset].latest]} ELSE {}
  BY DEF ReadDataset
<1>4. answer'.shown = {} /\ pc' \in {"answered", "versions", "version"}
  BY <1>0 DEF ReadDataset, Answer, GoTo, Says, NoAnswer
<1>5. ASSUME pc' = "version", req.kind = "detail"
      PROVE  /\ dataset' # {}
             /\ \A d \in dataset' : HasStatus(d.latest, "committed")
  <2>1. dataset' # {} /\ \A d \in dataset' : d.latest # NoVersion
    BY <1>5 DEF ReadDataset, Answer
  <2>2. req.dataset \in DOMAIN datasets /\ datasets[req.dataset].latest # NoVersion
    BY <1>3, <2>1
  <2>3. datasets[req.dataset].latest \in CommittedOf(req.dataset)
    BY <1>0, <2>2 DEF LatestIsCommitted
  <2> QED BY <1>3, <2>1, <2>3 DEF CommittedOf, HasStatus
<1>6. \A d \in dataset' :
        req'.dataset \in DOMAIN datasets' /\ d.owner = datasets'[req'.dataset].owner
  BY <1>2, <1>3
<1>7. \A v, status : HasStatus(v, status)' <=> HasStatus(v, status)
  BY <1>2 DEF HasStatus
<1>8. pc' = "version" /\ req'.kind = "detail" =>
        /\ dataset' # {}
        /\ \A d \in dataset' :
             \/ HasStatus(d.latest, "committed")'
             \/ HasStatus(d.latest, "retracted")' /\ d.latest \in withdrawn'
  BY <1>2, <1>5 DEF HasStatus
<1> QED BY <1>4, <1>6, <1>8 DEF SeenInv

\* What a page shows is permitted when it is shown.
LEMMA PageShows ==
  ASSUME Context, ListPage
  PROVE  /\ \A shown \in answer'.shown : Permitted(shown[1], shown[2])
         /\ pc' \in {"list", "answered"}
<1>0. CatalogTypeOK /\ ReaderTypeOK
  BY DEF Context, TablesInv
<1>1. CASE NoPage
  BY <1>1 DEF NoPage, Says
<1>2. ASSUME Has("browse"), NEW rows \in Ordered(Candidates), NEW items \in Seq(VersionIds),
             Page(rows, items)
      PROVE  /\ \A shown \in answer'.shown : Permitted(shown[1], shown[2])
             /\ pc' \in {"list", "answered"}
  <2>1. Candidates \in SUBSET VersionIds
    BY <1>0, AskedType DEF Candidates, CatalogTypeOK, IsTable
  <2>2. \A v \in ToSet(items) : v \in Listable
    BY <1>2, <2>1, RowsEnumerate DEF Page, ToSet, Candidates
  <2>3. \A v \in Listable : Permitted(v, versions[v].status)
    BY <1>2 DEF Listable, IsLatest, OwnRetracted, IncludesRetracted, Permitted, IsPublished,
                HasStatus
  <2>4. answer'.shown = {<<v, versions[v].status>> : v \in ToSet(items)}
    BY <1>2 DEF Page, Says
  <2>5. pc' \in {"list", "answered"}
    BY <1>2 DEF Page
  <2>6. \A shown \in answer'.shown : Permitted(shown[1], shown[2])
    BY <2>2, <2>3, <2>4
  <2> QED BY <2>5, <2>6
<1> QED BY <1>0, <1>1, <1>2, PageStep

\* The invariant of what is shown is inductive.
LEMMA SeenStep == Context /\ SeenInv /\ [BrowseNext]_browseVars => SeenInv'
<1> SUFFICES ASSUME Context, SeenInv, [BrowseNext]_browseVars PROVE SeenInv'
  OBVIOUS
<1>0. CatalogTypeOK /\ ReaderTypeOK /\ FilesFinite
  BY DEF Context, TablesInv
<1>1. CASE Begin
  <2>1. /\ UNCHANGED <<catalogVars, committedAt, scenario, dataset, answer>>
        /\ pc' \in {"list", "dataset"} /\ pc = "new"
    BY <1>1 DEF Begin, GoTo
  <2>2. dataset' = {} /\ answer'.shown = {}
    BY <2>1 DEF Context, FlowInv, NoAnswer, Says
  <2> QED BY <2>1, <2>2 DEF SeenInv
<1>2. ASSUME UNCHANGED <<catalogVars, committedAt, scenario, withdrawn, dataset>>,
             pc' # "version",
             \A shown \in answer'.shown : Permitted(shown[1], shown[2]),
             pc' \in {"files", "open", "stream"} =>
               \A row \in version' : Permitted(row.id, row.status)
      PROVE  SeenInv'
  <2>1. \A v, status : Permitted(v, status)' <=> Permitted(v, status)
    BY <1>2, PermittedRests
  <2>2. UNCHANGED <<datasets, req>>
    BY <1>2 DEF catalogVars, req
  <2> QED BY <1>2, <2>1, <2>2 DEF SeenInv
<1>3. CASE ListPage
  <2>1. UNCHANGED <<catalogVars, committedAt, scenario, withdrawn, dataset>>
    BY <1>3 DEF ListPage, OnlyReads
  <2> QED BY <1>2, <1>3, <2>1, PageShows
<1>4. CASE ReadDataset
  BY <1>4, ReadDatasetSees
<1>5. CASE ReadVersion \/ ListVersions
  <2>1. UNCHANGED <<catalogVars, committedAt, scenario, withdrawn, dataset>> /\ pc' # "version"
    BY <1>5 DEF ReadVersion, ListVersions, OnlyReads, Answer, GoTo
  <2> QED BY <1>2, <1>5, <2>1, ReadShows
<1>6. CASE ReadFiles \/ Open \/ SendManifest \/ SendChunk
  <2>1. /\ UNCHANGED <<catalogVars, committedAt, scenario, withdrawn, dataset, version>>
        /\ pc' # "version" /\ pc \in {"files", "open", "stream"}
    BY <1>6 DEF ReadFiles, Open, SendManifest, SendChunk, OnlyReads, Answer, GoTo
  <2>2. \A row \in version : Permitted(row.id, row.status)
    BY <2>1 DEF SeenInv
  <2>3. \A shown \in Shown(version) : Permitted(shown[1], shown[2])
    BY <2>2 DEF Shown
  <2>4. answer'.shown \in {{}, answer.shown, Shown(version)}
    <3>1. CASE ReadFiles
      BY <3>1 DEF ReadFiles, Answer, GoTo, Says
    <3>2. CASE Open
      BY <1>0, <3>2, OpenAnswers DEF Says
    <3>3. CASE SendManifest \/ SendChunk
      BY <1>0, <3>3, SendKeeps
    <3> QED BY <1>6, <3>1, <3>2, <3>3
  <2>5. \A shown \in answer'.shown : Permitted(shown[1], shown[2])
    BY <2>3, <2>4 DEF SeenInv
  <2> QED BY <1>2, <2>1, <2>2, <2>5
<1>7. CASE Write
  <2>1. UNCHANGED <<scenario, pc, dataset, version, answer>>
    BY <1>0, <1>7, WriteKeeps DEF readerVars
  <2>2. CASE pc = "new"
    <3>1. dataset' = {} /\ answer'.shown = {}
      BY <2>1, <2>2 DEF Context, FlowInv, NoAnswer, Says
    <3> QED BY <2>1, <2>2, <3>1 DEF SeenInv
  <2>3. CASE pc # "new"
    <3>1. \A v, status : Permitted(v, status) => Permitted(v, status)'
      BY <1>7, <2>3, PermittedStays
    <3>2. \A shown \in answer'.shown : Permitted(shown[1], shown[2])'
      <4>1. ASSUME NEW shown \in answer.shown
            PROVE  \E v, status : shown[1] = v /\ shown[2] = status /\ Permitted(v, status)'
        BY <3>1 DEF SeenInv
      <4> QED BY <2>1, <4>1 DEF Permitted
    <3>3. req' = req
      BY <2>1 DEF req
    <3>4. \A d \in dataset' :
            req'.dataset \in DOMAIN datasets' /\ d.owner = datasets'[req'.dataset].owner
      BY <1>0, <1>7, <2>1, <3>3, WriteKeeps DEF SeenInv
    <3>5. ASSUME NEW v, HasStatus(v, "committed") \/ (HasStatus(v, "retracted") /\ v \in withdrawn)
          PROVE  HasStatus(v, "committed")' \/ (HasStatus(v, "retracted")' /\ v \in withdrawn')
      BY <1>0, <1>7, <2>3, <3>5, WriteKeeps
    <3> QED BY <2>1, <3>1, <3>2, <3>3, <3>4, <3>5 DEF SeenInv
  <2> QED BY <2>2, <2>3
<1>8. CASE UNCHANGED browseVars
  <2>1. UNCHANGED <<catalogVars, committedAt, scenario, withdrawn, dataset, version, answer, pc>>
    BY <1>8 DEF browseVars, readerVars
  <2>2. \A v, status : Permitted(v, status)' <=> Permitted(v, status)
    BY <2>1, PermittedRests
  <2>3. UNCHANGED <<datasets, versions, req>>
    BY <2>1 DEF catalogVars, req
  <2> QED BY <2>1, <2>2, <2>3 DEF SeenInv, HasStatus
<1> QED BY <1>1, <1>3, <1>4, <1>5, <1>6, <1>7, <1>8 DEF BrowseNext, Serve

\* The inductive invariant of what is shown holds throughout.
THEOREM SeenInvariant == BrowseSpec => []SeenInv
<1>1. BrowseInit => SeenInv
  BY DEF BrowseInit, SeenInv, NoAnswer, Says
<1> QED BY <1>1, SeenStep, ContextHolds, PTL DEF BrowseSpec

\* For every request and every order of uploads and retractions beside it: a
\* pending version is never shown, a committed one to browsers only, and a
\* retracted one to the owner of its dataset or when it was retracted meanwhile.
THEOREM NobodySeesMore == BrowseSpec => []WhoSeesWhat
<1>1. SeenInv => WhoSeesWhat
  BY DEF SeenInv, WhoSeesWhat, Permitted
<1> QED BY <1>1, SeenInvariant, PTL

-----------------------------------------------------------------------------
(* What is steady is served *)

\* A steady version is there, in a dataset that is there, when a route that looks
\* for it looks.
LEMMA SteadyIsThere ==
  ASSUME Context, ServedInv, NEW v \in steady, req.kind # "list"
  PROVE  /\ v \in CommittedOf(req.dataset) /\ InDataset(v) /\ HasStatus(v, "committed")
         /\ req.dataset \in DOMAIN datasets /\ datasets[req.dataset].latest # NoVersion
         /\ req.kind \notin {"detail", "versions"} => v = req.version
<1>1. v \in CommittedOf(req.dataset) /\ (req.kind \notin {"detail", "versions"} => v = req.version)
  BY DEF ServedInv, Asked
<1>2. v \in DOMAIN versions /\ versions[v].dataset = req.dataset /\ versions[v].status = "committed"
  BY <1>1 DEF CommittedOf
<1>3. req.dataset \in DOMAIN datasets
  BY <1>2 DEF Context, TablesInv, NumbersUnique
<1>4. datasets[req.dataset].latest # NoVersion
  BY <1>1, <1>3, CatalogConstants
     DEF Context, TablesInv, LatestIsCommitted, CommittedOf, CatalogTypeOK, IsTable
<1> QED BY <1>1, <1>2, <1>3, <1>4 DEF InDataset, HasStatus

\* A step that ends a request with 403 or 404 does so with nothing steady, or for a
\* file that is not there.
LEMMA RefusedInVain ==
  ASSUME Context, ServedInv, BytesInv, Serve, pc' = "answered", Has("browse"), steady # {},
         answer'.code \in {403, 404}
  PROVE  req.kind = "file" /\ (req.path \in Lost \/ <<req.version, req.path>> \notin files)
<1>0. CatalogTypeOK /\ ReaderTypeOK
  BY DEF Context, TablesInv
<1>1. /\ \A code, shown : Says(code, shown).code = code
      /\ NoAnswer.code = 0
  BY DEF Says, NoAnswer
<1>2. CASE ListPage
  <2>1. answer'.code \in {200, 400}
    <3>1. CASE BadListing
      BY <1>1, <1>2, <3>1 DEF ListPage, Answer
    <3>2. CASE ~BadListing /\ NothingListed
      BY <1>1, <1>2, <3>2 DEF ListPage, Answer
    <3>3. CASE ~BadListing /\ ~NothingListed
      <4>1. PICK shown : answer' = Says(200, shown)
        BY <1>2, <3>3 DEF ListPage
      <4> QED BY <1>1, <4>1
    <3> QED BY <3>1, <3>2, <3>3
  <2> QED BY <2>1
<1>3. PICK v : v \in steady
  OBVIOUS
<1>4. CASE ReadDataset
  <2>1. req.kind # "list" /\ answer = NoAnswer
    BY <1>4 DEF Context, FlowInv, ReadDataset
  <2>2. req.dataset \in DOMAIN datasets /\ datasets[req.dataset].latest # NoVersion
    BY <1>3, <2>1, SteadyIsThere
  <2>3. dataset' = {[owner |-> datasets[req.dataset].owner,
                     latest |-> datasets[req.dataset].latest]}
    BY <1>4, <2>2 DEF ReadDataset
  <2>4. dataset' # {} /\ ~ \E row \in dataset' : row.latest = NoVersion
    BY <2>2, <2>3
  <2>5. pc' = IF req.kind = "versions" THEN "versions" ELSE "version"
    <3>1. /\ ~(req.kind \in {"detail", "versions"} /\ dataset' = {})
          /\ req.kind # "detail" \/ ~ \E row \in dataset' : row.latest = NoVersion
      BY <2>4
    <3> QED BY <1>4, <3>1 DEF ReadDataset, GoTo
  <2> QED BY <2>5
<1>5. CASE ReadVersion
  <2>1. /\ pc = "version" /\ req.kind \notin {"list", "versions"} /\ answer = NoAnswer
        /\ dataset # {}
    BY <1>5 DEF Context, FlowInv, ReadVersion, ServedInv
  <2> DEFINE rows == {[id |-> w, status |-> versions[w].status] :
                         w \in {x \in {Target} : InDataset(x)}}
  <2>2. /\ ~ \E row \in rows : RejectedWithoutBrowse(row)
        /\ req.kind # "detail" /\ ~ \E d \in dataset, row \in rows : CanRead(d, row)
    BY <1>1, <1>5 DEF ReadVersion, Answer, GoTo, RejectedWithoutBrowse
  <2>3. Target = req.version /\ v = req.version /\ InDataset(v) /\ HasStatus(v, "committed")
    BY <1>3, <2>1, <2>2, SteadyIsThere DEF Target
  <2>4. [id |-> v, status |-> versions[v].status] \in rows
    BY <2>3
  <2>5. \A d \in dataset : CanRead(d, [id |-> v, status |-> versions[v].status])
    BY <2>3 DEF CanRead, HasStatus
  <2> HIDE DEF rows
  <2> QED BY <2>1, <2>2, <2>4, <2>5
<1>6. CASE ListVersions
  <2>1. req.kind # "list"
    BY <1>6 DEF Context, FlowInv, ListVersions
  <2>2. v \in DOMAIN versions /\ InDataset(v) /\ HasStatus(v, "committed")
    BY <1>3, <2>1, SteadyIsThere DEF HasStatus
  <2>3. answer'.code = 200
    BY <1>1, <1>6, <2>2 DEF ListVersions, Answer
  <2> QED BY <2>3
<1>7. CASE ReadFiles
  <2>1. req.kind \in {"version", "file"} /\ answer = NoAnswer
    BY <1>7 DEF Context, FlowInv, ReadFiles
  <2> QED BY <1>1, <1>7, <2>1 DEF ReadFiles, Answer, GoTo
<1>8. CASE Open
  <2>1. IsFileIn(Lost)
    BY <1>0, <1>1, <1>8, OpenAnswers
  <2> QED BY <2>1 DEF IsFileIn
<1>9. CASE SendManifest \/ SendChunk
  <2>1. answer'.code = answer.code /\ pc = "stream"
    BY <1>0, <1>9, SendKeeps DEF SendManifest, SendChunk
  <2> QED BY <2>1 DEF BytesInv
<1> QED BY <1>2, <1>4, <1>5, <1>6, <1>7, <1>8, <1>9 DEF Serve

\* The invariant of what is served is inductive, given the one of downloads.
LEMMA ServedStep == Context /\ BytesInv /\ ServedInv /\ [BrowseNext]_browseVars => ServedInv'
<1> SUFFICES ASSUME Context, BytesInv, ServedInv, [BrowseNext]_browseVars PROVE ServedInv'
  OBVIOUS
<1>0. CatalogTypeOK /\ ReaderTypeOK /\ FilesFinite
  BY DEF Context, TablesInv
<1>1. CASE Begin
  <2>1. UNCHANGED <<catalogVars, committedAt, scenario>> /\ steady' = Asked
           /\ pc' \in {"list", "dataset"}
    BY <1>1 DEF Begin, GoTo
  <2>2. Asked' = Asked
    BY <2>1, TablesRest
  <2> QED BY <2>1, <2>2 DEF ServedInv, SteadyIsServed
<1>2. CASE Serve
  <2>1. UNCHANGED <<catalogVars, committedAt, scenario, steady>>
    BY <1>2 DEF Serve, ListPage, ReadDataset, ReadVersion, ListVersions, ReadFiles, Open,
                SendManifest, SendChunk, OnlyReads
  <2>2. Asked' = Asked /\ req' = req /\ files' = files
    BY <2>1, TablesRest DEF catalogVars
  <2>3. pc' = "answered" /\ Has("browse") /\ steady # {} /\ answer'.code \in {403, 404} =>
          req.kind = "file" /\ (req.path \in Lost \/ <<req.version, req.path>> \notin files)
    BY <1>2, RefusedInVain
  <2>4. pc' \in {"version", "versions"} /\ steady # {} => dataset' # {}
    <3>1. CASE ReadDataset
      <4>1. req.kind # "list"
        BY <3>1 DEF Context, FlowInv, ReadDataset
      <4>2. steady # {} => req.dataset \in DOMAIN datasets
        BY <4>1, SteadyIsThere
      <4> QED BY <3>1, <4>2 DEF ReadDataset
    <3>2. CASE ListPage
      BY <3>2 DEF ListPage, Answer
    <3>3. CASE ReadVersion
      BY <3>3 DEF ReadVersion, Answer, GoTo
    <3>4. CASE ListVersions \/ ReadFiles
      BY <3>4 DEF ListVersions, ReadFiles, Answer, GoTo
    <3>5. CASE Open \/ SendManifest
      BY <3>5 DEF Open, SendManifest, Answer
    <3>6. CASE SendChunk
      BY <3>6 DEF SendChunk, GoTo
    <3> QED BY <1>2, <3>1, <3>2, <3>3, <3>4, <3>5, <3>6 DEF Serve
  <2> QED BY <2>1, <2>2, <2>3, <2>4 DEF ServedInv, SteadyIsServed, Has
<1>3. CASE Write
  <2>1. UNCHANGED <<pc, dataset>> /\ pc # "answered" /\ steady' \subseteq steady
          /\ steady' \subseteq Asked'
    BY <1>0, <1>3, WriteKeeps DEF readerVars
  <2> QED BY <2>1 DEF ServedInv, SteadyIsServed
<1>4. CASE UNCHANGED browseVars
  <2>1. UNCHANGED <<catalogVars, committedAt, scenario, pc, dataset, answer, steady>>
    BY <1>4 DEF browseVars, readerVars
  <2>2. Asked' = Asked /\ req' = req /\ files' = files
    BY <2>1, TablesRest DEF catalogVars
  <2> QED BY <2>1, <2>2 DEF ServedInv, SteadyIsServed, Has
<1> QED BY <1>1, <1>2, <1>3, <1>4 DEF BrowseNext

-----------------------------------------------------------------------------
(* The bytes of a download *)

\* The bytes a download is asked for
Demanded == IF req.range.kind = "none" THEN 0 .. Size - 1 ELSE Wanted(req.range, Size)

\* What is selected is what is asked for.
LEMMA SelectionIsDemand ==
  ASSUME ReaderTypeOK
  PROVE  /\ Selects(Selection, Size) /\ Size \in Nat
         /\ req.range.kind = "none" <=> Selection.code = 200
         /\ WellFormed(req.range) => (Selection.code = 416 <=> Demanded = {})
         /\ Selection.code \in {200, 206} =>
              /\ Demanded = Selection.first .. Selection.last
              /\ Selection.first \in Nat /\ Selection.last \in Int
              /\ Selection.last >= Selection.first - 1 /\ Selection.last < Size
              /\ Bytes(Selection) \in Nat
<1> DEFINE h == req.range
<1>1. Size \in Nat /\ h \in RangeHeaders
  BY RequestType, SelectionType
<1>2. /\ Selects(Selection, Size)
      /\ Selection.code = 200 <=> h.kind = "none"
      /\ Selection.code = 206 => Wanted(h, Size) = Selection.first .. Selection.last
      /\ WellFormed(h) => (Selection.code = 416 <=> Wanted(h, Size) = {})
  BY <1>1, ParseSelects DEF Selection
<1>3. WellFormed(h) => h.kind # "none"
  BY DEF WellFormed
<1>4. Selection.code \in {200, 206} =>
        /\ Selection.first \in Nat /\ Selection.last \in Int
        /\ Selection.last >= Selection.first - 1 /\ Selection.last < Size
        /\ Bytes(Selection) \in Nat
  BY <1>1, <1>2 DEF Selects, Bytes
<1>5. Selection.code = 200 => Selection.first = 0 /\ Selection.last = Size - 1
  BY <1>2 DEF Selects
<1> HIDE DEF h
<1>6. Demanded = IF h.kind = "none" THEN 0 .. Size - 1 ELSE Wanted(h, Size)
  BY DEF Demanded, h
<1> QED BY <1>1, <1>2, <1>3, <1>4, <1>5, <1>6 DEF h

\* A body that is the whole selection is what was asked for.
LEMMA WholeBody ==
  ASSUME ReaderTypeOK, Selection.code \in {200, 206}, NEW sent,
         sent = Offsets(Selection.first, Selection.last)
  PROVE  InOrder(sent, Demanded) /\ Len(sent) = Selection.last - Selection.first + 1
<1>1. /\ Demanded = Selection.first .. Selection.last
      /\ Selection.first \in Int /\ Selection.last \in Int
      /\ Selection.last >= Selection.first - 1
  BY SelectionIsDemand
<1> DEFINE a == Selection.first
           b == Selection.last
<1> HIDE DEF a, b
<1>2. a \in Int /\ b \in Int /\ b >= a - 1
  BY <1>1 DEF a, b
<1>3. InOrder(Offsets(a, b), a .. b) /\ Len(Offsets(a, b)) = b - a + 1
  BY <1>2, OffsetsInOrder, OffsetsRun
<1> QED BY <1>1, <1>3 DEF a, b

\* The end of a download, said with the operators of this module.
LEMMA Delivered ==
  ASSUME ReaderTypeOK, UNCHANGED scenario,
         pc' = "answered" /\ answer'.code \in {200, 206, 416} /\ req.kind \in Downloads =>
           /\ answer'.code = Selection.code
           /\ answer'.code # 416 =>
                /\ InOrder(answer'.sent, Demanded)
                /\ Len(answer'.sent) = answer'.sel.last - answer'.sel.first + 1
  PROVE  BytesAsAsked'
<1>1. req' = req /\ Size' = Size
  BY DEF req, Size
<1>2. SUFFICES ASSUME pc' = "answered", answer'.code \in {200, 206, 416}, req.kind \in Downloads
               PROVE  /\ answer'.code # 416 =>
                           /\ InOrder(answer'.sent, Demanded)
                           /\ Len(answer'.sent) = answer'.sel.last - answer'.sel.first + 1
                      /\ req.range.kind = "none" <=> answer'.code = 200
                      /\ WellFormed(req.range) => (answer'.code = 416 <=> Demanded = {})
  BY <1>1 DEF BytesAsAsked, Demanded
<1> QED BY <1>2, SelectionIsDemand

\* One more chunk, or the end of the body
LEMMA SendChunkStep ==
  ASSUME Context, BytesInv, SendChunk
  PROVE  BytesInv'
<1>0. ReaderTypeOK /\ pc = "stream" /\ UNCHANGED scenario
  BY DEF Context, SendChunk, OnlyReads
<1>1. /\ answer.sel = Selection /\ answer.code = Selection.code
      /\ Selection.code \in {200, 206}
  BY <1>0 DEF BytesInv
<1>2. PICK n \in 0 .. Bytes(Selection) :
        answer.sent = Offsets(Selection.first, Selection.first + n - 1)
  BY <1>0 DEF BytesInv
<1>3. /\ Selection.first \in Nat /\ Selection.last \in Int /\ Bytes(Selection) \in Nat
      /\ Selects(Selection, Size) /\ Size \in Nat
  BY <1>0, <1>1, SelectionIsDemand
<1>4. Len(answer.sent) = n
  <2> DEFINE to == Selection.first + n - 1
  <2>1. to \in Int /\ to >= Selection.first - 1 /\ to - Selection.first + 1 = n
    BY <1>3
  <2>2. Selection.first \in Int
    BY <1>3
  <2> HIDE DEF to
  <2>3. Len(Offsets(Selection.first, to)) = to - Selection.first + 1
    BY <2>1, <2>2, OffsetsRun
  <2> QED BY <1>2, <2>1, <2>3 DEF to
<1> DEFINE chunk == NextRead(Selection, n, ChunkSize, Size)
<1>5. PICK m \in n .. Bytes(Selection) :
        /\ chunk = Offsets(Selection.first + n, Selection.first + m - 1)
        /\ m = n <=> n = Bytes(Selection)
  <2>1. ChunkSize \in Nat \ {0}
    BY BrowseConstants
  <2> DEFINE sel == Selection
             size == Size
  <2>2. size \in Nat /\ Selects(sel, size) /\ sel.code \in {200, 206} /\ n \in 0 .. Bytes(sel)
    BY <1>1, <1>3
  <2> HIDE DEF sel, size
  <2>3. \E k \in n .. Bytes(sel) :
          /\ NextRead(sel, n, ChunkSize, size) = Offsets(sel.first + n, sel.first + k - 1)
          /\ k = n <=> n = Bytes(sel)
    BY ONLY <2>1, <2>2, NextReadRuns
  <2> QED BY <2>3 DEF sel, size
<1>6. /\ chunk # <<>> => pc' = "stream" /\ answer' = WithBody(answer, answer.sent \o chunk)
      /\ chunk = <<>> => pc' = "answered" /\ answer' = answer
  BY <1>0, <1>1, <1>4 DEF SendChunk, IsEnd, GoTo, WithBody
<1> HIDE DEF chunk
<1> DEFINE a == Selection.first
           b == Selection.first + n - 1
           c == Selection.first + m - 1
<1>7. /\ a \in Int /\ b \in Int /\ c \in Int /\ b >= a - 1 /\ c >= b
      /\ b + 1 = Selection.first + n /\ c - (b + 1) + 1 = m - n
      /\ b + 1 \in Int /\ c >= (b + 1) - 1
  BY <1>3
<1>8. Selection' = Selection /\ req' = req
  BY <1>0 DEF Selection, Size, req
<1>9. CASE chunk = <<>>
  <2>1. m = n
    <3>1. Len(Offsets(b + 1, c)) = m - n /\ Offsets(b + 1, c) = <<>>
      <4> HIDE DEF b, c
      <4>1. Len(Offsets(b + 1, c)) = c - (b + 1) + 1
        BY <1>7, OffsetsRun
      <4> QED BY <1>5, <1>7, <1>9, <4>1 DEF b, c
    <3> QED BY <1>3, <3>1
  <2>2. Selection.first + n - 1 = Selection.last
    BY <1>3, <1>5, <2>1 DEF Bytes
  <2>3. answer.sent = Offsets(Selection.first, Selection.last)
    BY <1>2, <2>2
  <2>4. InOrder(answer.sent, Demanded) /\ Len(answer.sent) = Selection.last - Selection.first + 1
    BY <1>0, <1>1, <2>3, WholeBody
  <2>5. BytesAsAsked'
    BY <1>0, <1>1, <1>6, <1>9, <2>4, Delivered
  <2> QED BY <1>6, <1>9, <2>5 DEF BytesInv
<1>10. CASE chunk # <<>>
  <2>1. answer.sent \o chunk = Offsets(Selection.first, Selection.first + m - 1)
    <3>1. Offsets(a, b) \o Offsets(b + 1, c) = Offsets(a, c)
      <4> HIDE DEF a, b, c
      <4> QED BY <1>7, OffsetsJoin
    <3>2. answer.sent = Offsets(a, b) /\ chunk = Offsets(b + 1, c)
      BY <1>2, <1>5, <1>7
    <3> QED BY <3>1, <3>2
  <2>2. answer.sent \o chunk \in Seq(Int)
    <3> HIDE DEF a, b, c
    <3> QED BY <1>7, <2>1, OffsetsType DEF a, c
  <2>3. /\ answer'.sent = Offsets(Selection.first, Selection.first + m - 1)
        /\ answer'.sel = Selection /\ answer'.code = Selection.code
    BY <1>0, <1>1, <1>6, <1>10, <2>1, <2>2, BodyUpdate DEF ReaderTypeOK
  <2>4. m \in 0 .. Bytes(Selection)
    BY <1>3
  <2>5. pc' = "stream" /\ BytesAsAsked'
    BY <1>6, <1>10 DEF BytesAsAsked
  <2> QED BY <1>1, <1>8, <2>3, <2>4, <2>5 DEF BytesInv
<1> QED BY <1>9, <1>10

\* A manifest is sent in one piece.
LEMMA SendManifestStep ==
  ASSUME Context, BytesInv, SendManifest
  PROVE  BytesInv'
<1>0. ReaderTypeOK /\ pc = "stream" /\ UNCHANGED scenario /\ pc' = "answered"
  BY DEF Context, SendManifest, OnlyReads
<1>1. /\ answer.sel = Selection /\ answer.code = Selection.code
      /\ Selection.code \in {200, 206}
  BY <1>0 DEF BytesInv
<1>2. /\ Selection.first \in Nat /\ Selection.last \in Int /\ Selection.last < Size
      /\ Size \in Nat
  BY <1>0, <1>1, SelectionIsDemand
<1>3. Slice(Selection, Size) = Offsets(Selection.first, Selection.last)
  <2>1. Min({Selection.last + 1, Size}) = Selection.last + 1
    <3>1. Selection.last + 1 \in Int /\ Size \in Int /\ Selection.last + 1 <= Size
      BY <1>2
    <3> QED BY <3>1, MinMax
  <2>2. (Selection.last + 1) - 1 = Selection.last
    BY <1>2
  <2> QED BY <2>1, <2>2 DEF Slice
<1>4. Slice(Selection, Size) \in Seq(Int)
  <2> DEFINE a == Selection.first
             b == Selection.last
  <2>1. a \in Int /\ b \in Int
    BY <1>2
  <2> HIDE DEF a, b
  <2>2. Offsets(a, b) \in Seq(Int)
    BY <2>1, OffsetsType
  <2> QED BY <1>3, <2>2 DEF a, b
<1>5. answer' = WithBody(answer, Slice(Selection, Size))
  BY <1>1 DEF SendManifest, WithBody
<1>6. /\ answer'.sent = Offsets(Selection.first, Selection.last)
      /\ answer'.sel = Selection /\ answer'.code = Selection.code
  BY <1>0, <1>1, <1>3, <1>4, <1>5, BodyUpdate DEF ReaderTypeOK
<1>7. InOrder(answer'.sent, Demanded)
        /\ Len(answer'.sent) = Selection.last - Selection.first + 1
  BY <1>0, <1>1, <1>6, WholeBody
<1>8. BytesAsAsked'
  BY <1>0, <1>1, <1>6, <1>7, Delivered
<1> QED BY <1>0, <1>8 DEF BytesInv

\* A range that cannot be met, or an empty body to begin with
LEMMA OpenStep ==
  ASSUME Context, BytesInv, Open
  PROVE  BytesInv'
<1>0. ReaderTypeOK /\ UNCHANGED scenario
  BY DEF Context, Open, OnlyReads
<1>1. /\ \A code, shown : Says(code, shown).code = code
      /\ Selection' = Selection
  BY <1>0 DEF Says, Selection, Size, req
<1>2. CASE pc' = "answered"
  <2>1. answer'.code \in {200, 206, 416} => answer'.code = Selection.code /\ answer'.code = 416
    BY <1>0, <1>1, <1>2, OpenAnswers
  <2>2. BytesAsAsked'
    BY <1>0, <2>1, Delivered
  <2> QED BY <1>2, <2>2 DEF BytesInv
<1>3. CASE pc' # "answered"
  <2>1. /\ pc' = "stream" /\ Selection.code \in {200, 206}
        /\ answer'.code = Selection.code /\ answer'.sel = Selection /\ answer'.sent = <<>>
    BY <1>0, <1>3, OpenAnswers
  <2>2. Selection.first \in Nat /\ Bytes(Selection) \in Nat
    BY <1>0, <2>1, SelectionIsDemand
  <2>3. <<>> = Offsets(Selection.first, Selection.first + 0 - 1)
    <3> DEFINE to == Selection.first + 0 - 1
    <3>1. to \in Int /\ to >= Selection.first - 1 /\ to - Selection.first + 1 = 0
      BY <2>2
    <3>2. Selection.first \in Int
      BY <2>2
    <3> HIDE DEF to
    <3>3. Offsets(Selection.first, to) \in Seq(Int) /\ Len(Offsets(Selection.first, to)) = 0
      BY <3>1, <3>2, OffsetsRun
    <3>4. Offsets(Selection.first, to) = <<>>
      BY <3>3
    <3> QED BY <3>4 DEF to
  <2>4. 0 \in 0 .. Bytes(Selection)
    BY <2>2
  <2>5. \E n \in 0 .. Bytes(Selection) :
          answer'.sent = Offsets(Selection.first, Selection.first + n - 1)
    BY <2>1, <2>3, <2>4
  <2> QED BY <1>1, <2>1, <2>5 DEF BytesInv, BytesAsAsked
<1> QED BY <1>2, <1>3

\* The invariant of downloads is inductive.
LEMMA BytesStep == Context /\ BytesInv /\ [BrowseNext]_browseVars => BytesInv'
<1> SUFFICES ASSUME Context, BytesInv, [BrowseNext]_browseVars PROVE BytesInv'
  OBVIOUS
<1>0. CatalogTypeOK /\ ReaderTypeOK /\ FilesFinite /\ req.kind \in Kinds
  <2>1. ReaderTypeOK
    BY DEF Context
  <2> QED BY <2>1, RequestType DEF Context, TablesInv, Requests
<1>1. /\ \A code, shown : Says(code, shown).code = code
      /\ NoAnswer.code = 0
  BY DEF Says, NoAnswer
<1>2. ASSUME pc' # "stream", pc' = "answered" /\ req'.kind \in Downloads =>
                               answer'.code \notin {200, 206, 416}
      PROVE  BytesInv'
  BY <1>2 DEF BytesInv, BytesAsAsked
<1>3. CASE Begin
  BY <1>2, <1>3 DEF Begin, GoTo
<1>4. CASE ListPage \/ ListVersions
  <2>1. pc' \in {"list", "answered"} /\ req' = req
    BY <1>4 DEF ListPage, ListVersions, OnlyReads, Answer, req
  <2>2. req.kind \notin Downloads
    BY <1>4 DEF Context, FlowInv, ListPage, ListVersions, Downloads
  <2> QED BY <1>2, <2>1, <2>2
<1>5. CASE ReadDataset
  <2>1. req' = req /\ pc' # "stream"
    BY <1>5 DEF ReadDataset, OnlyReads, Answer, GoTo, req
  <2>2. req.kind \in Downloads /\ pc' = "answered" => answer'.code = 404
    BY <1>1, <1>5 DEF ReadDataset, Answer, GoTo, Downloads
  <2> QED BY <1>2, <2>1, <2>2
<1>6. CASE ReadVersion
  <2>1. req' = req /\ pc' # "stream"
    BY <1>6 DEF ReadVersion, OnlyReads, Answer, GoTo, req
  <2>2. req.kind \in Downloads /\ pc' = "answered" => answer'.code \in {403, 404}
    BY <1>1, <1>6 DEF ReadVersion, Answer, GoTo, Downloads
  <2> QED BY <1>2, <2>1, <2>2
<1>7. CASE ReadFiles
  <2>1. req' = req /\ pc' # "stream"
    BY <1>7 DEF ReadFiles, OnlyReads, Answer, GoTo, req
  <2>2. req.kind \in Downloads /\ pc' = "answered" => answer'.code = 404
    BY <1>1, <1>7 DEF ReadFiles, Answer, GoTo, Downloads
  <2> QED BY <1>2, <2>1, <2>2
<1>8. CASE Write
  <2>1. UNCHANGED <<scenario, pc, answer>>
    BY <1>0, <1>8, WriteKeeps DEF readerVars
  <2>2. req' = req /\ Selection' = Selection /\ Size' = Size
    BY <2>1 DEF req, Selection, Size
  <2> QED BY <2>1, <2>2 DEF BytesInv, BytesAsAsked
<1>9. CASE UNCHANGED browseVars
  <2>1. UNCHANGED <<scenario, pc, answer>>
    BY <1>9 DEF browseVars, readerVars
  <2>2. req' = req /\ Selection' = Selection /\ Size' = Size
    BY <2>1 DEF req, Selection, Size
  <2> QED BY <2>1, <2>2 DEF BytesInv, BytesAsAsked
<1> QED BY <1>3, <1>4, <1>5, <1>6, <1>7, <1>8, <1>9, OpenStep, SendManifestStep, SendChunkStep
        DEF BrowseNext, Serve

\* The inductive invariant of downloads holds throughout.
THEOREM BytesInvariant == BrowseSpec => []BytesInv
<1>1. BrowseInit => BytesInv
  BY DEF BrowseInit, BytesInv, BytesAsAsked
<1> QED BY <1>1, BytesStep, ContextHolds, PTL DEF BrowseSpec

\* For every file size, chunk size and Range header: the body of a download is the
\* bytes that were asked for, each once and in order, as many as Content-Length
\* says, and 416 is said only when there are none.
THEOREM DownloadsAreExact == BrowseSpec => []BytesAsAsked
<1>1. BytesInv => BytesAsAsked
  BY DEF BytesInv
<1> QED BY <1>1, BytesInvariant, PTL

\* The inductive invariant of what is served holds throughout.
THEOREM ServedInvariant == BrowseSpec => []ServedInv
<1>1. BrowseInit => ServedInv
  BY DEF BrowseInit, ServedInv, SteadyIsServed
<1> QED BY <1>1, ServedStep, BytesInvariant, ContextHolds, PTL DEF BrowseSpec

\* Whatever is committed and retracted between the reads of a route: a browser is
\* not refused a version that is committed from the first read to the last.
THEOREM SteadyIsAnswered == BrowseSpec => []SteadyIsServed
<1>1. ServedInv => SteadyIsServed
  BY DEF ServedInv
<1> QED BY <1>1, ServedInvariant, PTL

=============================================================================
