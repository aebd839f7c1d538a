---------------------------- MODULE Capabilities ----------------------------
(***************************************************************************)
(* A CapabilitySet (include/compat/capability.hpp): tags and values in a   *)
(* vector that is kept in the order of the tags and searched by bisection. *)
(* A tag that nobody has set is unknown, which is not the same as false.   *)
(***************************************************************************)
EXTENDS Integers, Sequences, SequencesExt, TaggedVectors

CONSTANTS Tag,    \* the tags callers use
          Kind,   \* the kinds of values
          Value   \* the values, of each kind

VARIABLE caps   \* caps_

None == "nullopt"
Capability == [tag : Tag, kind : Kind, value : Value]

\* A tag is an unsigned number of 32 bits.
TagsAreNumbers == Tag \subseteq Nat

\* find_: the first position of a tag not below t, or one past the end.
Find(t) == LowerBound(caps, t)

-----------------------------------------------------------------------------

Init == caps = <<>>

\* Fault: the tag that is found is taken for the one that is looked for.
PutOver(c) ==
    LET i == LowerBound(caps, c.tag)
    IN  IF i <= Len(caps) THEN [caps EXCEPT ![i] = c] ELSE InsertAt(caps, i, c)

\* put_.
Put(c) ==
    LET i == LowerBound(caps, c.tag)
    IN  IF i <= Len(caps) /\ caps[i].tag = c.tag THEN [caps EXCEPT ![i] = c]
        ELSE InsertAt(caps, i, c)

\* set_bool, set_uint, set_float, set_str and set_record.
Set(c) == caps' = Put(c)

\* unset erases what find_ returns.
Unset(t) == caps' = IF Find(t) <= Len(caps) THEN RemoveAt(caps, Find(t)) ELSE caps

Next == \/ \E c \in Capability : Set(c)
        \/ \E t \in Tag : Unset(t)

Spec == Init /\ [][Next]_caps

-----------------------------------------------------------------------------
(* The queries.                                                            *)

\* get_bool, get_uint, get_float and get_str: find_ returns a position, which
\* is compared with the end, and with the kind.
Get(t, kind) ==
    LET i == Find(t)
    IN  IF i <= Len(caps) /\ caps[i].kind = kind THEN caps[i].value ELSE None

-----------------------------------------------------------------------------
(* A property of the steps.                                                *)

\* A tag that is set is answered, and the tags that were answered still are.
SetKeepsTheOthers ==
    \A c \in Capability :
        Set(c) => /\ Get(c.tag, c.kind)' = c.value
                  /\ \A other \in ToSet(caps) :
                        other.tag # c.tag => Get(other.tag, other.kind)' = other.value
=============================================================================
