----------------------------- MODULE Canonical -----------------------------
(***************************************************************************)
(* Canonical values, their encoding and its strict decoder                 *)
(* (canonical.cpp, canonical.hpp).                                         *)
(*                                                                         *)
(* An encoding is a sequence of cells.  A cell is what one read takes: the *)
(* byte of a kind, the word of a length or a tag, the payload of a number  *)
(* or a UUID, a byte of a text.  Lengths count cells.  All values have one *)
(* form: the cells of a scalar, or the items of a record or a sequence (an *)
(* item of a sequence has tag 0).  The state is what a caller builds: the  *)
(* fields it has put and the last value it has made of them.               *)
(***************************************************************************)
EXTENDS Records

CONSTANTS Kind,        \* kinds of the scalars callers use
          Cell,        \* cells of the scalars that have one
          TextCells,   \* cells of texts
          NotFinite,   \* the cells that are no finite double
          MaxDepth     \* bound on values within values

VARIABLE value   \* the last value made

canonicalVars == <<fields, value>>

Kinds == <<"Null", "Uint", "Int", "Bool", "Str", "Bytes", "Uuid", "Float", "Record", "Sequence">>

Code(kind) == (CHOOSE i \in DOMAIN Kinds : Kinds[i] = kind) - 1

Texts == {"Str", "Bytes"}
Words == {"Uint", "Int", "Bool", "Uuid", "Float"}

\* What a payload of one cell can be: mk_float refuses NaN and the infinities,
\* and a Bool is written as 0 or 1.
Admits(kind, cell) == CASE kind = "Bool"  -> cell \in {0, 1}
                        [] kind = "Float" -> cell \notin NotFinite
                        [] OTHER          -> TRUE

MkSeq(items) ==
    [kind |-> "Sequence", cells |-> <<>>,
     items |-> [i \in DOMAIN items |-> [tag |-> 0, value |-> items[i].value]]]

\* A cell is a number, of 8 to 128 bits.
CellsAreNumbers == /\ TagsAreNumbers /\ Cell \subseteq Nat /\ TextCells \subseteq Seq(Nat)
                   /\ MaxDepth \in Nat \ {0}

\* The values that have no more than d others around their innermost.
Nested[d \in 0 .. MaxDepth] ==
    LET inner == IF d = 0 THEN {} ELSE Nested[d - 1]
    IN  [kind : ToSet(Kinds), cells : Seq(Nat), items : Seq([tag : Nat, value : inner])]

-----------------------------------------------------------------------------
(* The encoder.                                                            *)

\* append_element: kind, length, payload.  The elements within are f's.
ElementCells(v, f) ==
    LET items == IF v.kind = "Record" THEN SortByTag(v.items) ELSE v.items
        tagOf(item) == IF v.kind = "Record" THEN <<item.tag>> ELSE <<>>
        cells == IF v.kind \in {"Record", "Sequence"}
                 THEN FlattenSeq([i \in DOMAIN items |-> tagOf(items[i]) \o f[items[i].value]])
                 ELSE v.cells
    IN  <<Code(v.kind), Len(cells)>> \o cells

Element[d \in 0 .. MaxDepth] ==
    [v \in Nested[d] |-> ElementCells(v, IF d = 0 THEN <<>> ELSE Element[d - 1])]

Magic == 67     \* 'C', 'R', 'C', 'F'
Version == 1

Encode(v) == <<Magic, Version>> \o Element[MaxDepth][v]

-----------------------------------------------------------------------------
(* The decoder.  A parse gives what it has read and the position after it. *)

Made(v) == [ok |-> TRUE, value |-> v, next |-> 0]

\* What has been read beyond the buffer, or of it: anything may come of it.
Undefined == [Raises EXCEPT !.next = -1]

NoItems(ok) == [ok |-> ok, items |-> <<>>]

UndefinedItems == [ok |-> FALSE, items |-> <<Undefined>>]

\* What parse_element makes of a payload, a record's or a sequence's of items.
Payload(kind, body, inner) ==
    CASE kind = "Null"  -> IF body = <<>> THEN Made(Null) ELSE Raises
      [] kind \in Words -> IF Len(body) = 1 /\ Admits(kind, body[1])
                           THEN Made(Scalar(kind, body)) ELSE Raises
      [] kind \in Texts -> Made(Scalar(kind, body))
      [] OTHER -> IF inner = UndefinedItems THEN Undefined
                  ELSE IF ~inner.ok THEN Raises
                  ELSE IF kind = "Sequence" THEN Made(MkSeq(inner.items))
                  ELSE MkRecord(inner.items)

\* parse_element at position pos of a segment that ends at position end, with
\* the items of records and sequences from f.  The room left is unsigned: when
\* the header passes the end of the segment any length is taken for one that
\* fits, and a text, or what is in a record or a sequence, is then copied from
\* beyond the buffer.  A number is not: what reads it knows the buffer's end.
ElementAt(s, f, pos, end) ==
    IF pos + 1 > Len(s) \/ s[pos] + 1 \notin DOMAIN Kinds THEN Raises
    ELSE LET kind == Kinds[s[pos] + 1]
             last == pos + 1 + s[pos + 1]
             made == Payload(kind, SubSeq(s, pos + 2, last), f[pos + 2][kind = "Record"][last])
         IN  IF pos + 1 <= end /\ last > end THEN Raises
             ELSE IF last > Len(s) THEN IF kind \in Words \cup {"Null"} THEN Raises ELSE Undefined
             ELSE IF made.ok THEN [made EXCEPT !.next = last + 1]
             ELSE made

\* An item before others.  In a record each tag is above the one before.
Joined(tagged, tag, item, rest) ==
    IF item = Undefined \/ (item.ok /\ rest = UndefinedItems) THEN UndefinedItems
    ELSE IF \/ ~item.ok
            \/ ~rest.ok
            \/ tagged /\ rest.items # <<>> /\ rest.items[1].tag <= tag
    THEN NoItems(FALSE)
    ELSE [ok |-> TRUE, items |-> <<[tag |-> tag, value |-> item.value]>> \o rest.items]

\* The loop over the items of a record (which have tags) or a sequence, from
\* position pos up to position last.
ItemsAt(s, f, pos, tagged, last) ==
    IF pos > last THEN NoItems(pos = last + 1)
    ELSE LET item == ElementAt(s, f, IF tagged THEN pos + 1 ELSE pos, last)
         IN  Joined(tagged, IF tagged THEN s[pos] ELSE 0, item, f[item.next][tagged][last])

\* The items from each position of s on, each parsed with those after it.
Items(s) ==
    LET items[pos \in 1 .. Len(s) + 1] ==
            [tagged \in BOOLEAN |-> [last \in 0 .. Len(s) |-> ItemsAt(s, items, pos, tagged, last)]]
    IN  items

\* Fault: what follows the value is not looked at.
DecodeFirst(s) ==
    IF Len(s) < 4 \/ s[1] # Magic \/ s[2] # Version THEN Raises
    ELSE ElementAt(s, Items(s), 3, Len(s))

\* canonical_decode.
Decode(s) ==
    IF Len(s) < 4 \/ s[1] # Magic \/ s[2] # Version THEN Raises
    ELSE LET root == ElementAt(s, Items(s), 3, Len(s))
         IN  IF root.next = Len(s) + 1 \/ root = Undefined THEN root ELSE Raises

-----------------------------------------------------------------------------
(* What callers do.                                                        *)

Init == FieldsInit /\ value = Null

\* A caller that has made a value puts it where it belongs before it goes on.
Put(tag, v) == value = Null /\ PutField(tag, v) /\ UNCHANGED value

PutText(tag, kind, cells) == Put(tag, Scalar(kind, cells))

PutWord(tag, kind, cell) == Admits(kind, cell) /\ Put(tag, Scalar(kind, <<cell>>))

\* A value within a value: it is moved.
PutMade(tag) == /\ value \in Nested[MaxDepth - 1]
                /\ PutField(tag, value) /\ value' = Null

\* The fields are moved into the value; an exception leaves the caller with
\* neither.
MakeRecord == /\ value' = IF MkRecord(fields).ok THEN MkRecord(fields).value ELSE value
              /\ TakeFields

MakeSeq == value' = MkSeq(fields) /\ TakeFields

Next == \/ \E tag \in Tag :
              \/ PutMade(tag)
              \/ \E k \in Texts \cap Kind : \E cells \in TextCells : PutText(tag, k, cells)
              \/ \E k \in Words \cap Kind, c \in Cell : PutWord(tag, k, c)
        \/ MakeRecord \/ MakeSeq

Spec == Init /\ [][Next]_canonicalVars

-----------------------------------------------------------------------------
(* Properties.                                                             *)

\* What was encoded is decoded, and is the same: no two values share their
\* bytes, whatever their kinds, and a registry comes back as it was saved.
DecodesBack == LET d == Decode(Encode(value)) IN d.ok /\ d.value = value

\* Every proper prefix of an encoding is refused with an exception
\* (tests/hardening.cpp:20), and so is what has something after it: a torn file
\* or frame is never taken for a smaller value, nor read beyond its end.
TruncatedIsRefused ==
    LET e == Encode(value)
    IN  /\ \A n \in 0 .. Len(e) - 1 : Decode(SubSeq(e, 1, n)) = Raises
        /\ \A c \in Cell : Decode(Append(e, c)) = Raises
=============================================================================
