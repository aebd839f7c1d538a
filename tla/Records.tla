------------------------------ MODULE Records ------------------------------
(***************************************************************************)
(* A record of canonical values (Canon::Record, canonical.cpp:32-57): made *)
(* of fields that are put in any order, kept in the order of their tags,   *)
(* and searched by bisection.                                              *)
(***************************************************************************)
EXTENDS Integers, Sequences, SequencesExt, TaggedVectors

CONSTANTS Tag,         \* tags callers use
          MaxFields    \* bound on the fields of a record

VARIABLE fields   \* a Canon::Record before mk_record, in the order of put

\* A tag is an unsigned number of 32 bits.
TagsAreNumbers == Tag \subseteq Nat

Scalar(kind, cells) == [kind |-> kind, cells |-> cells, items |-> <<>>]

Null == Scalar("Null", <<>>)

\* Fault: the fields stay as they were put.
SortByTagNot(items) == items

\* The same fields in the order of their tags, which differ.
SortByTag(items) ==
    CHOOSE sorted \in [DOMAIN items -> ToSet(items)] :
        /\ ToSet(sorted) = ToSet(items)
        /\ \A i, j \in DOMAIN items : i < j => sorted[i].tag < sorted[j].tag

HasDuplicate(items) == \E i, j \in DOMAIN items : i # j /\ items[i].tag = items[j].tag

Raises == [ok |-> FALSE, value |-> Null, next |-> 0]

\* mk_record.
MkRecord(items) ==
    IF HasDuplicate(items) THEN Raises
    ELSE [ok |-> TRUE, next |-> 0,
          value |-> [kind |-> "Record", cells |-> <<>>, items |-> SortByTag(items)]]

\* field: the value with a tag, if there is one.
Field(v, tag) ==
    LET i == LowerBound(v.items, tag)
    IN  IF v.kind = "Record" /\ i <= Len(v.items) /\ v.items[i].tag = tag
        THEN <<v.items[i].value>> ELSE <<>>

-----------------------------------------------------------------------------
(* What callers do, with values of any set V.                              *)

FieldsInit == fields = <<>>

PutField(tag, v) == /\ Len(fields) < MaxFields
                    /\ fields' = Append(fields, [tag |-> tag, value |-> v])

\* mk_record and mk_seq move them into the value; an exception loses them.
TakeFields == fields' = <<>>

FieldsNext(V) == TakeFields \/ \E tag \in Tag, v \in V : PutField(tag, v)

FieldsSpec(V) == FieldsInit /\ [][FieldsNext(V)]_fields

-----------------------------------------------------------------------------
(* Properties of what has been put.                                        *)

\* "identical content always produces an identical fingerprint regardless of
\* insertion order" (README.md:49): the record is the same, and the encoding
\* and the digest are functions of it; a duplicate is refused in every order.
OrderOfPutIsForgotten ==
    \A p \in Bijection(DOMAIN fields, DOMAIN fields) :
        MkRecord([i \in DOMAIN fields |-> fields[p[i]]]) = MkRecord(fields)

\* A record gives each field the value that was put there and no other.
FieldsAreFound ==
    LET r == MkRecord(fields)
    IN  r.ok => \A t \in Tag :
                   Field(r.value, t) =
                       LET at == {i \in DOMAIN fields : fields[i].tag = t}
                       IN  IF at = {} THEN <<>> ELSE <<fields[CHOOSE i \in at : TRUE].value>>
=============================================================================
