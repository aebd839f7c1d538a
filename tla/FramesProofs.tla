---------------------------- MODULE FramesProofs ----------------------------
(***************************************************************************)
(* Proofs about Frames.tla: the calls of a client, in pieces over a        *)
(* connection that may break between any two of them, are exchanges, for   *)
(* every choice of message lengths and of the limit.                       *)
(*                                                                         *)
(* What an end has taken of a frame, what is on its way to it and what its *)
(* peer has yet to send are one stream.  The server only ever finds whole  *)
(* frames of later and later calls in its stream; a client that is in step *)
(* finds in its own nothing but the one response it waits for.             *)
(***************************************************************************)
EXTENDS Frames, SequenceTheorems, TLAPS

Piece == [call : Nat, part : Nat, size : Nat]

Of(i, k, n) == [call |-> i, part |-> k, size |-> n]

IsLast(p) == p.part = p.size + 1

\* p and q are neighbours in a stream of frames.
Follows(p, q) == IF IsLast(p) THEN q.part = 1 /\ p.call < q.call
                 ELSE q = Of(p.call, p.part + 1, p.size)

\* A stream of frames of later and later calls, from the middle of one on.
Chain(r) == /\ \A k \in DOMAIN r : r[k].part \in 1 .. r[k].size + 1
            /\ \A k \in DOMAIN r : k + 1 \in DOMAIN r => Follows(r[k], r[k + 1])
            /\ \A j, k \in DOMAIN r : j < k => r[j].call <= r[k].call

\* The beginning of a frame of n pieces.
Begins(t, n) == t # <<>> =>
    /\ n = t[1].size + 1 /\ Len(t) <= n
    /\ \A k \in DOMAIN t : t[k] = Of(t[1].call, k, t[1].size)

Joins(t, r) == r # <<>> => IF t = <<>> THEN r[1].part = 1 ELSE Follows(t[Len(t)], r[1])

\* No frame is cut off at the end.
Ended(t, r) == IF r # <<>> THEN IsLast(r[Len(r)]) ELSE t # <<>> => IsLast(t[Len(t)])

CallsOf(s) == {s[k].call : k \in DOMAIN s}

\* The single response to the call i, of n + 1 pieces or the first of them.
Response(t, r, i, n) ==
    /\ \A k \in DOMAIN t : t[k] = Of(i, k, n)
    /\ \A k \in DOMAIN r : r[k] = Of(i, Len(t) + k, n)
    /\ Len(t) + Len(r) <= n + 1

-----------------------------------------------------------------------------
(* Streams.                                                                *)

\* A turn of sock_send_all leaves the stream as it is.
LEMMA PushKeeps ==
  ASSUME NEW S, NEW a \in Seq(S), NEW b \in Seq(S), b # <<>>
  PROVE  Append(a, Head(b)) \o Tail(b) = a \o b
<1> DEFINE c == Append(a, Head(b))
<1>1. Head(b) \in S /\ Tail(b) \in Seq(S) /\ Len(Tail(b)) = Len(b) - 1
      /\ \A i \in 1 .. Len(Tail(b)) : Tail(b)[i] = b[i + 1]
  BY HeadTailProperties
<1>2. c \in Seq(S) /\ Len(c) = Len(a) + 1 /\ c[Len(a) + 1] = Head(b)
      /\ \A i \in 1 .. Len(a) : c[i] = a[i]
  BY <1>1, AppendProperties
<1>3. Head(b) = b[1] /\ Len(a) \in Nat /\ Len(b) \in Nat \ {0}
  BY EmptySeq, LenProperties
<1>4. /\ a \o b \in Seq(S) /\ Len(a \o b) = Len(a) + Len(b)
      /\ \A i \in 1 .. Len(a) + Len(b) :
            (a \o b)[i] = IF i <= Len(a) THEN a[i] ELSE b[i - Len(a)]
  BY ConcatProperties
<1>5. /\ c \o Tail(b) \in Seq(S) /\ Len(c \o Tail(b)) = Len(c) + Len(Tail(b))
      /\ \A i \in 1 .. Len(c) + Len(Tail(b)) :
            (c \o Tail(b))[i] = IF i <= Len(c) THEN c[i] ELSE Tail(b)[i - Len(c)]
  BY <1>1, <1>2, ConcatProperties
<1> HIDE DEF c
<1>6. ASSUME NEW i \in 1 .. Len(a) + Len(b)
      PROVE  (c \o Tail(b))[i] = (a \o b)[i]
  <2>1. CASE i <= Len(a)
    BY <2>1, <1>1, <1>2, <1>3, <1>4, <1>5
  <2>2. CASE i = Len(a) + 1
    BY <2>2, <1>1, <1>2, <1>3, <1>4, <1>5
  <2>3. CASE i > Len(a) + 1
    <3>1. i - Len(c) \in 1 .. Len(Tail(b)) /\ (i - Len(c)) + 1 = i - Len(a)
      BY <2>3, <1>1, <1>2, <1>3
    <3>2. (c \o Tail(b))[i] = Tail(b)[i - Len(c)]
      BY <2>3, <1>1, <1>2, <1>3, <1>5
    <3>3. Tail(b)[i - Len(c)] = b[i - Len(a)]
      BY <3>1, <1>1
    <3>4. (a \o b)[i] = b[i - Len(a)]
      BY <2>3, <1>3, <1>4
    <3> QED
      BY <3>2, <3>3, <3>4, Zenon
  <2>4. i <= Len(a) \/ i = Len(a) + 1 \/ i > Len(a) + 1
    BY <1>3
  <2> QED
    BY <2>1, <2>2, <2>3, <2>4, Zenon
<1>7. Len(c \o Tail(b)) = Len(a \o b)
  BY <1>1, <1>2, <1>3, <1>4, <1>5
<1> QED
  BY <1>4, <1>5, <1>6, <1>7, SeqEqual DEF c

\* Neither does a turn of sock_recv_exact, but for the piece it takes.
LEMMA TakeKeeps ==
  ASSUME NEW S, NEW a \in Seq(S), NEW b \in Seq(S), a # <<>>
  PROVE  /\ a \o b # <<>> /\ Head(a \o b) = Head(a)
         /\ Tail(a \o b) = Tail(a) \o b
<1>1. Head(a) \in S /\ Tail(a) \in Seq(S) /\ Len(Tail(a)) = Len(a) - 1
      /\ \A i \in 1 .. Len(Tail(a)) : Tail(a)[i] = a[i + 1]
  BY HeadTailProperties
<1>2. Head(a) = a[1] /\ Len(a) \in Nat \ {0} /\ Len(b) \in Nat
  BY EmptySeq, LenProperties
<1>3. /\ a \o b \in Seq(S) /\ Len(a \o b) = Len(a) + Len(b)
      /\ \A i \in 1 .. Len(a) + Len(b) :
            (a \o b)[i] = IF i <= Len(a) THEN a[i] ELSE b[i - Len(a)]
  BY ConcatProperties
<1>4. a \o b # <<>> /\ Head(a \o b) = Head(a)
  <2>1. a \o b # <<>>
    BY ConcatEqualIffEmpty
  <2>2. Head(a \o b) = (a \o b)[1]
    BY <2>1, <1>3
  <2> QED
    BY <2>1, <2>2, <1>2, <1>3
<1>5. /\ Tail(a \o b) \in Seq(S) /\ Len(Tail(a \o b)) = Len(a \o b) - 1
      /\ \A i \in 1 .. Len(Tail(a \o b)) : Tail(a \o b)[i] = (a \o b)[i + 1]
  BY <1>3, <1>4, HeadTailProperties
<1>6. /\ Tail(a) \o b \in Seq(S) /\ Len(Tail(a) \o b) = Len(Tail(a)) + Len(b)
      /\ \A i \in 1 .. Len(Tail(a)) + Len(b) :
            (Tail(a) \o b)[i] = IF i <= Len(Tail(a)) THEN Tail(a)[i] ELSE b[i - Len(Tail(a))]
  BY <1>1, ConcatProperties
<1>7. ASSUME NEW i \in 1 .. Len(Tail(a)) + Len(b)
      PROVE  (Tail(a) \o b)[i] = Tail(a \o b)[i]
  <2>0. i \in 1 .. Len(Tail(a \o b)) /\ i + 1 \in 1 .. Len(a) + Len(b)
    BY <1>1, <1>2, <1>3, <1>5
  <2>1. Tail(a \o b)[i] = IF i + 1 <= Len(a) THEN a[i + 1] ELSE b[(i + 1) - Len(a)]
    BY <2>0, <1>3, <1>5
  <2>2. (i + 1) - Len(a) = i - Len(Tail(a))
    BY <1>1, <1>2
  <2> QED
    BY <2>1, <2>2, <1>1, <1>2, <1>6
<1>8. Len(Tail(a) \o b) = Len(Tail(a \o b))
  BY <1>1, <1>2, <1>3, <1>5, <1>6
<1>9. Tail(a) \o b = Tail(a \o b)
  BY <1>5, <1>6, <1>7, <1>8, SeqEqual
<1> QED
  BY <1>4, <1>9

LEMMA CallsOfNothing ==
  ASSUME NEW s \in Seq(Piece)
  PROVE  CallsOf(s) = {} <=> s = <<>>
<1>1. DOMAIN s = 1 .. Len(s) /\ Len(s) \in Nat
  BY LenProperties
<1>2. Len(s) = 0 <=> s = <<>>
  BY EmptySeq
<1>3. CASE s = <<>>
  <2>1. DOMAIN s = {}
    BY <1>1, <1>2, <1>3
  <2> QED
    BY <2>1, <1>3 DEF CallsOf
<1>4. CASE s # <<>>
  <2>1. 1 \in DOMAIN s
    BY <1>1, <1>2, <1>4
  <2>2. s[1].call \in CallsOf(s)
    BY <2>1 DEF CallsOf
  <2> QED
    BY <2>2, <1>4
<1> QED
  BY <1>3, <1>4

LEMMA CallsOfBoth ==
  ASSUME NEW a \in Seq(Piece), NEW b \in Seq(Piece)
  PROVE  CallsOf(a \o b) = CallsOf(a) \cup CallsOf(b)
<1> DEFINE s == a \o b
<1>1. /\ DOMAIN s = 1 .. Len(a) + Len(b) /\ DOMAIN a = 1 .. Len(a) /\ DOMAIN b = 1 .. Len(b)
      /\ Len(a) \in Nat /\ Len(b) \in Nat
      /\ \A i \in 1 .. Len(a) + Len(b) : s[i] = IF i <= Len(a) THEN a[i] ELSE b[i - Len(a)]
  <2>1. s \in Seq(Piece) /\ Len(s) = Len(a) + Len(b)
    BY ConcatProperties
  <2> QED
    BY <2>1, ConcatProperties, LenProperties
<1> HIDE DEF s
<1>2. ASSUME NEW k \in DOMAIN a PROVE k \in DOMAIN s /\ s[k] = a[k]
  BY <1>1
<1>3. ASSUME NEW k \in DOMAIN b
      PROVE  Len(a) + k \in DOMAIN s /\ s[Len(a) + k] = b[k]
  <2>1. Len(a) + k \in DOMAIN s /\ ~(Len(a) + k <= Len(a)) /\ (Len(a) + k) - Len(a) = k
    BY <1>1
  <2> QED
    BY <2>1, <1>1
<1>4. ASSUME NEW k \in DOMAIN s
      PROVE  \/ k \in DOMAIN a /\ s[k] = a[k]
             \/ k - Len(a) \in DOMAIN b /\ s[k] = b[k - Len(a)]
  BY <1>1
<1>5. CallsOf(s) \subseteq CallsOf(a) \cup CallsOf(b)
  BY <1>4 DEF CallsOf
<1>6. CallsOf(a) \cup CallsOf(b) \subseteq CallsOf(s)
  BY <1>2, <1>3 DEF CallsOf
<1> QED
  BY <1>5, <1>6 DEF s

LEMMA CallsOfOne ==
  ASSUME NEW p \in Piece
  PROVE  <<p>> \in Seq(Piece) /\ CallsOf(<<p>>) = {p.call}
BY DEF CallsOf

\* What an end takes of its stream stays unread until the frame is complete.
LEMMA CallsOfTaken ==
  ASSUME NEW t \in Seq(Piece), NEW r \in Seq(Piece), r # <<>>
  PROVE  /\ Append(t, Head(r)) \in Seq(Piece) /\ Tail(r) \in Seq(Piece) /\ Head(r) \in Piece
         /\ CallsOf(Append(t, Head(r))) \cup CallsOf(Tail(r)) = CallsOf(t) \cup CallsOf(r)
<1>1. Head(r) \in Piece /\ Tail(r) \in Seq(Piece)
  BY HeadTailProperties
<1>2. <<Head(r)>> \in Seq(Piece) /\ CallsOf(<<Head(r)>>) = {Head(r).call}
  BY <1>1, CallsOfOne
<1>3. Append(t, Head(r)) = t \o <<Head(r)>> /\ Append(t, Head(r)) \in Seq(Piece)
  BY <1>1, AppendIsConcat, AppendProperties
<1>4. CallsOf(Append(t, Head(r)) \o Tail(r)) = CallsOf(t \o r)
  BY PushKeeps
<1>5. CallsOf(Append(t, Head(r)) \o Tail(r)) = CallsOf(Append(t, Head(r))) \cup CallsOf(Tail(r))
  BY <1>1, <1>3, CallsOfBoth, Zenon
<1>6. CallsOf(t \o r) = CallsOf(t) \cup CallsOf(r)
  BY CallsOfBoth, Zenon
<1> QED
  BY <1>1, <1>3, <1>4, <1>5, <1>6, Zenon

LEMMA FrameFacts ==
  ASSUME NEW i \in Nat, NEW n \in Nat
  PROVE  /\ Frame(i, n) \in Seq(Piece) /\ Len(Frame(i, n)) = n + 1
         /\ \A k \in 1 .. n + 1 : Frame(i, n)[k] = Of(i, k, n)
         /\ Frame(i, n) # <<>> /\ CallsOf(Frame(i, n)) = {i}
<1> DEFINE f == Frame(i, n)
<1>1. /\ f \in [1 .. n + 1 -> Piece] /\ DOMAIN f = 1 .. n + 1
      /\ \A k \in 1 .. n + 1 : f[k] = Of(i, k, n)
  BY DEF Frame, Of, Piece
<1> HIDE DEF f
<1>2. f \in Seq(Piece)
  BY <1>1
<1>3. Len(f) = n + 1
  BY <1>1, <1>2, LenProperties
<1>4. f # <<>>
  BY <1>2, <1>3, EmptySeq
<1>5. \A k \in DOMAIN f : f[k].call = i
  BY <1>1 DEF Of
<1>6. 1 \in DOMAIN f
  BY <1>1
<1>7. CallsOf(f) = {i}
  BY <1>5, <1>6 DEF CallsOf
<1> QED
  BY <1>1, <1>2, <1>3, <1>4, <1>7 DEF f

\* A piece that is taken leaves a stream of whole frames.
LEMMA TakeStream ==
  ASSUME NEW t \in Seq(Piece), NEW r \in Seq(Piece), r # <<>>, Chain(r)
  PROVE  /\ Chain(Tail(r)) /\ Joins(Append(t, Head(r)), Tail(r))
         /\ Ended(t, r) => Ended(Append(t, Head(r)), Tail(r))
<1> DEFINE q == Tail(r)
           u == Append(t, Head(r))
<1>1. /\ Head(r) = r[1] /\ q \in Seq(Piece) /\ Len(q) = Len(r) - 1
      /\ \A i \in 1 .. Len(q) : q[i] = r[i + 1]
  BY HeadTailProperties
<1>2. /\ u # <<>> /\ Len(u) = Len(t) + 1 /\ u[Len(u)] = r[1]
  BY <1>1, CallsOfTaken, HeadTailProperties, AppendProperties
<1>3. Len(r) \in Nat \ {0} /\ DOMAIN r = 1 .. Len(r) /\ DOMAIN q = 1 .. Len(q)
  BY <1>1, EmptySeq, LenProperties
<1>4. q = <<>> <=> Len(q) = 0
  BY <1>1, EmptySeq
<1> HIDE DEF q, u
<1>5. \A k \in DOMAIN q : k + 1 \in DOMAIN r /\ q[k] = r[k + 1]
  BY <1>1, <1>3
<1>6. Chain(q)
  <2>1. \A k \in DOMAIN q : q[k].part \in 1 .. q[k].size + 1
    BY <1>5 DEF Chain
  <2>2. ASSUME NEW k \in DOMAIN q, k + 1 \in DOMAIN q
        PROVE  Follows(q[k], q[k + 1])
    <3>1. k + 1 \in DOMAIN r /\ (k + 1) + 1 \in DOMAIN r /\ q[k] = r[k + 1] /\ q[k + 1] = r[(k + 1) + 1]
      BY <1>5, <2>2
    <3>2. Follows(r[k + 1], r[(k + 1) + 1])
      BY <3>1 DEF Chain
    <3> QED
      BY <3>1, <3>2
  <2>3. ASSUME NEW j \in DOMAIN q, NEW k \in DOMAIN q, j < k
        PROVE  q[j].call <= q[k].call
    <3>1. j + 1 \in DOMAIN r /\ k + 1 \in DOMAIN r /\ j + 1 < k + 1
      BY <1>3, <1>5, <2>3, <1>1
    <3>2. r[j + 1].call <= r[k + 1].call
      BY <3>1 DEF Chain
    <3> QED
      BY <3>2, <1>5
  <2> QED
    BY <2>1, <2>2, <2>3 DEF Chain
<1>7. Joins(u, q)
  <2>1. SUFFICES ASSUME q # <<>> PROVE Follows(r[1], q[1])
    BY <1>2 DEF Joins
  <2>2. 1 \in DOMAIN q /\ 1 \in DOMAIN r /\ 1 + 1 \in DOMAIN r
    BY <2>1, <1>1, <1>3, <1>4
  <2>3. Follows(r[1], r[1 + 1])
    BY <2>2 DEF Chain
  <2> QED
    BY <2>2, <2>3, <1>5
<1>8. ASSUME Ended(t, r) PROVE Ended(u, q)
  <2>1. IsLast(r[Len(r)])
    BY <1>8 DEF Ended
  <2>2. CASE q = <<>>
    <3>1. u[Len(u)] = r[Len(r)]
      BY <2>2, <1>1, <1>2, <1>3, <1>4
    <3> QED
      BY <2>1, <2>2, <3>1 DEF Ended
  <2>3. CASE q # <<>>
    <3>1. Len(q) \in DOMAIN q /\ Len(q) + 1 = Len(r)
      BY <2>3, <1>1, <1>3, <1>4
    <3>2. q[Len(q)] = r[Len(r)]
      BY <3>1, <1>5
    <3> QED
      BY <2>1, <2>3, <3>2 DEF Ended
  <2> QED
    BY <2>2, <2>3
<1> QED
  BY <1>6, <1>7, <1>8 DEF q, u

\* The first piece of a frame is the header of that frame.
LEMMA BeginsHeader ==
  ASSUME NEW r \in Seq(Piece), r # <<>>, Joins(<<>>, r)
  PROVE  /\ Head(r) \in Piece /\ Head(r).part = 1
         /\ Begins(<<Head(r)>>, Head(r).size + 1)
<1>1. Head(r) \in Piece /\ Head(r) = r[1]
  BY HeadTailProperties
<1>2. Head(r).part = 1
  BY <1>1 DEF Joins
<1>3. Head(r) = Of(Head(r).call, 1, Head(r).size)
  BY <1>1, <1>2 DEF Of, Piece
<1>4. Head(r).size \in Nat
  BY <1>1 DEF Piece
<1> QED
  BY <1>1, <1>2, <1>3, <1>4 DEF Begins

LEMMA BeginsMore ==
  ASSUME NEW t \in Seq(Piece), NEW r \in Seq(Piece), NEW n \in Nat, t # <<>>, r # <<>>,
         Begins(t, n), Len(t) < n, Joins(t, r)
  PROVE  Begins(Append(t, Head(r)), n)
<1> DEFINE u == Append(t, Head(r))
<1>1. Head(r) \in Piece /\ Head(r) = r[1]
  BY HeadTailProperties
<1>2. /\ u \in Seq(Piece) /\ Len(u) = Len(t) + 1 /\ \A i \in 1 .. Len(t) : u[i] = t[i]
      /\ u[Len(t) + 1] = r[1]
  BY <1>1, AppendProperties
<1>3. Len(t) \in Nat \ {0} /\ DOMAIN t = 1 .. Len(t) /\ DOMAIN u = 1 .. Len(u)
  BY <1>2, EmptySeq, LenProperties
<1>4. t[1] \in Piece
  BY <1>3, ElementOfSeq
<1> HIDE DEF u
<1>5. n = t[1].size + 1 /\ \A k \in DOMAIN t : t[k] = Of(t[1].call, k, t[1].size)
  BY DEF Begins
<1>6. u[1] = t[1]
  BY <1>2, <1>3
<1>7. u[Len(t) + 1] = Of(t[1].call, Len(t) + 1, t[1].size)
  <2>1. t[Len(t)] = Of(t[1].call, Len(t), t[1].size)
    BY <1>3, <1>5
  <2>2. ~IsLast(t[Len(t)])
    BY <2>1, <1>3, <1>4, <1>5 DEF IsLast, Of, Piece
  <2>3. r[1] = Of(t[Len(t)].call, t[Len(t)].part + 1, t[Len(t)].size)
    BY <2>2 DEF Joins, Follows
  <2> QED
    BY <2>1, <2>3, <1>2 DEF Of
<1>8. ASSUME NEW k \in DOMAIN u PROVE u[k] = Of(u[1].call, k, u[1].size)
  BY <1>2, <1>3, <1>5, <1>6, <1>7
<1>9. Len(u) <= n
  BY <1>2, <1>3, <1>5, <1>4 DEF Piece
<1> QED
  BY <1>5, <1>6, <1>8, <1>9 DEF Begins, u

\* Behind a whole frame begins another one, of a later call.
LEMMA ServeStream ==
  ASSUME NEW t \in Seq(Piece), NEW r \in Seq(Piece), NEW n \in Nat, t # <<>>,
         Begins(t, n), Len(t) = n, Chain(r), Joins(t, r)
  PROVE  /\ t[1] \in Piece /\ t[1].call \in CallsOf(t)
         /\ Joins(<<>>, r) /\ \A c \in CallsOf(r) : t[1].call < c
         /\ Ended(t, r) => Ended(<<>>, r)
<1>1. Len(t) \in Nat \ {0} /\ DOMAIN t = 1 .. Len(t)
  BY EmptySeq, LenProperties
<1>2. t[1] \in Piece /\ t[1].call \in CallsOf(t)
  <2>1. t[1] \in Piece
    BY <1>1, ElementOfSeq
  <2> QED
    BY <2>1, <1>1 DEF CallsOf
<1>3. IsLast(t[Len(t)]) /\ t[Len(t)].call = t[1].call
  <2>1. t[Len(t)] = Of(t[1].call, Len(t), t[1].size) /\ Len(t) = t[1].size + 1
    BY <1>1 DEF Begins
  <2> QED
    BY <2>1 DEF IsLast, Of
<1>4. CASE r = <<>>
  <2>1. CallsOf(r) = {}
    BY <1>4, CallsOfNothing
  <2> QED
    BY <2>1, <1>2, <1>4 DEF Joins, Ended
<1>5. CASE r # <<>>
  <2>1. r[1].part = 1 /\ t[1].call < r[1].call
    BY <1>3, <1>5 DEF Joins, Follows
  <2>2. Len(r) \in Nat \ {0} /\ DOMAIN r = 1 .. Len(r)
    BY <1>5, EmptySeq, LenProperties
  <2>3. ASSUME NEW k \in DOMAIN r PROVE t[1].call < r[k].call
    <3>1. r[1] \in Piece /\ r[k] \in Piece
      BY <2>2, ElementOfSeq
    <3>2. r[1].call <= r[k].call
      <4>1. CASE k = 1
        BY <3>1, <4>1 DEF Piece
      <4>2. CASE k # 1
        BY <2>2, <4>2 DEF Chain
      <4> QED
        BY <4>1, <4>2
    <3>3. t[1].call \in Nat /\ r[1].call \in Nat /\ r[k].call \in Nat
      BY <3>1, <1>2 DEF Piece
    <3> QED
      BY <2>1, <3>2, <3>3
  <2> QED
    BY <2>1, <2>3, <1>2, <1>5 DEF Joins, Ended, CallsOf
<1> QED
  BY <1>4, <1>5

\* What a broken connection loses is the end of the stream.
LEMMA CutStream ==
  ASSUME NEW t \in Seq(Piece), NEW a \in Seq(Piece), NEW b \in Seq(Piece)
  PROVE  /\ Chain(a \o b) => Chain(a)
         /\ Joins(t, a \o b) => Joins(t, a)
<1> DEFINE s == a \o b
<1>1. /\ DOMAIN s = 1 .. Len(a) + Len(b) /\ DOMAIN a = 1 .. Len(a)
      /\ Len(a) \in Nat /\ Len(b) \in Nat /\ (s = <<>> => a = <<>>) /\ (Len(a) = 0 => a = <<>>)
      /\ \A i \in 1 .. Len(a) + Len(b) : s[i] = IF i <= Len(a) THEN a[i] ELSE b[i - Len(a)]
  <2>1. s \in Seq(Piece) /\ Len(s) = Len(a) + Len(b)
    BY ConcatProperties
  <2> QED
    BY <2>1, ConcatProperties, LenProperties, ConcatEqualIffEmpty, EmptySeq
<1> HIDE DEF s
<1>2. \A k \in DOMAIN a : k \in DOMAIN s /\ s[k] = a[k]
  BY <1>1
<1>3. ASSUME Chain(s) PROVE Chain(a)
  <2>1. \A k \in DOMAIN a : a[k].part \in 1 .. a[k].size + 1
    BY <1>2, <1>3 DEF Chain
  <2>2. ASSUME NEW k \in DOMAIN a, k + 1 \in DOMAIN a PROVE Follows(a[k], a[k + 1])
    <3>1. k \in DOMAIN s /\ k + 1 \in DOMAIN s /\ s[k] = a[k] /\ s[k + 1] = a[k + 1]
      BY <1>2, <2>2
    <3>2. Follows(s[k], s[k + 1])
      BY <3>1, <1>3 DEF Chain
    <3> QED
      BY <3>1, <3>2
  <2>3. \A j, k \in DOMAIN a : j < k => a[j].call <= a[k].call
    BY <1>2, <1>3 DEF Chain
  <2> QED
    BY <2>1, <2>2, <2>3 DEF Chain
<1>4. ASSUME Joins(t, s), a # <<>>
      PROVE  Joins(t, a)
  <2>1. s # <<>> /\ 1 \in DOMAIN a
    BY <1>1, <1>4
  <2>2. s[1] = a[1]
    BY <2>1, <1>2
  <2> QED
    BY <2>1, <2>2, <1>4 DEF Joins
<1>5. Joins(t, <<>>)
  BY DEF Joins
<1> QED
  BY <1>3, <1>4, <1>5 DEF s

\* A frame of a later call behind whole frames.
LEMMA CallStream ==
  ASSUME NEW t \in Seq(Piece), NEW r \in Seq(Piece), NEW i \in Nat, NEW n \in Nat,
         Chain(r), Joins(t, r), Ended(t, r), \A c \in CallsOf(t) \cup CallsOf(r) : c < i
  PROVE  /\ Chain(r \o Frame(i, n)) /\ Joins(t, r \o Frame(i, n))
         /\ Ended(t, r \o Frame(i, n))
<1> DEFINE f == Frame(i, n)
           s == r \o f
<1>1. /\ f \in Seq(Piece) /\ Len(f) = n + 1 /\ \A k \in 1 .. n + 1 : f[k] = Of(i, k, n)
  BY FrameFacts
<1>2. /\ s \in Seq(Piece) /\ Len(s) = Len(r) + (n + 1) /\ DOMAIN s = 1 .. Len(r) + (n + 1)
      /\ \A k \in 1 .. Len(r) + (n + 1) : s[k] = IF k <= Len(r) THEN r[k] ELSE f[k - Len(r)]
      /\ DOMAIN r = 1 .. Len(r) /\ Len(r) \in Nat /\ (Len(r) = 0 <=> r = <<>>) /\ s # <<>>
  <2>1. s \in Seq(Piece) /\ Len(s) = Len(r) + (n + 1)
        /\ \A k \in 1 .. Len(r) + (n + 1) : s[k] = IF k <= Len(r) THEN r[k] ELSE f[k - Len(r)]
    <3>1. s \in Seq(Piece) /\ Len(s) = Len(r) + Len(f)
          /\ \A k \in 1 .. Len(r) + Len(f) : s[k] = IF k <= Len(r) THEN r[k] ELSE f[k - Len(r)]
      BY <1>1, ConcatProperties
    <3> QED
      BY <3>1, <1>1
  <2>2. DOMAIN r = 1 .. Len(r) /\ Len(r) \in Nat /\ (Len(r) = 0 <=> r = <<>>)
    BY LenProperties, EmptySeq
  <2>3. DOMAIN s = 1 .. Len(s) /\ s # <<>>
    BY <2>1, <2>2, LenProperties, EmptySeq
  <2> QED
    BY <2>1, <2>2, <2>3
<1> HIDE DEF s, f
<1>3. \A k \in DOMAIN r : k \in DOMAIN s /\ s[k] = r[k]
  BY <1>2
<1>4. \A k \in DOMAIN s : k \notin DOMAIN r => s[k] = Of(i, k - Len(r), n) /\ k - Len(r) \in 1 .. n + 1
  <2> SUFFICES ASSUME NEW k \in DOMAIN s, k \notin DOMAIN r
               PROVE  s[k] = Of(i, k - Len(r), n) /\ k - Len(r) \in 1 .. n + 1
    OBVIOUS
  <2>1. ~(k <= Len(r)) /\ k - Len(r) \in 1 .. n + 1
    BY <1>2
  <2> QED
    BY <2>1, <1>1, <1>2
<1>5. \A k \in DOMAIN r : r[k].call < i /\ r[k].call \in Nat
  <2> SUFFICES ASSUME NEW k \in DOMAIN r PROVE r[k].call < i /\ r[k].call \in Nat
    OBVIOUS
  <2>1. r[k] \in Piece
    BY <1>2, ElementOfSeq
  <2>2. r[k].call \in CallsOf(r)
    BY DEF CallsOf
  <2> QED
    BY <2>1, <2>2 DEF Piece
<1>6. \A k \in DOMAIN s : s[k].part \in 1 .. s[k].size + 1
  <2> SUFFICES ASSUME NEW k \in DOMAIN s PROVE s[k].part \in 1 .. s[k].size + 1
    OBVIOUS
  <2>1. CASE k \in DOMAIN r
    BY <2>1, <1>3 DEF Chain
  <2>2. CASE k \notin DOMAIN r
    BY <2>2, <1>4 DEF Of
  <2> QED
    BY <2>1, <2>2
<1>7. ASSUME NEW k \in DOMAIN s, k + 1 \in DOMAIN s PROVE Follows(s[k], s[k + 1])
  <2>1. CASE k + 1 \in DOMAIN r
    <3>1. k \in DOMAIN r
      BY <2>1, <1>2
    <3>2. Follows(r[k], r[k + 1])
      BY <3>1, <2>1 DEF Chain
    <3> QED
      BY <3>1, <3>2, <2>1, <1>3
  <2>2. CASE k \in DOMAIN r /\ k + 1 \notin DOMAIN r
    <3>1. k = Len(r) /\ (k + 1) - Len(r) = 1 /\ r # <<>>
      BY <2>2, <1>2, <1>7
    <3>2. IsLast(r[k])
      BY <3>1 DEF Ended
    <3>3. s[k] = r[k] /\ s[k + 1] = Of(i, 1, n)
      BY <3>1, <2>2, <1>3, <1>4, <1>7
    <3> QED
      BY <3>2, <3>3, <2>2, <1>5 DEF Follows, Of
  <2>3. CASE k \notin DOMAIN r /\ k + 1 \notin DOMAIN r
    <3>1. /\ k - Len(r) \in 1 .. n + 1 /\ (k + 1) - Len(r) = (k - Len(r)) + 1
          /\ (k - Len(r)) + 1 \in 1 .. n + 1
      BY <2>3, <1>2, <1>4, <1>7
    <3>2. s[k] = Of(i, k - Len(r), n) /\ s[k + 1] = Of(i, (k - Len(r)) + 1, n)
      BY <3>1, <2>3, <1>4, <1>7
    <3> QED
      BY <3>1, <3>2 DEF Follows, IsLast, Of
  <2>4. CASE k \notin DOMAIN r /\ k + 1 \in DOMAIN r
    BY <2>4, <1>2, <1>7
  <2> QED
    BY <2>1, <2>2, <2>3, <2>4
<1>8. ASSUME NEW j \in DOMAIN s, NEW k \in DOMAIN s, j < k
      PROVE  s[j].call <= s[k].call
  <2>1. CASE j \in DOMAIN r /\ k \in DOMAIN r
    BY <2>1, <1>3, <1>8 DEF Chain
  <2>2. CASE j \in DOMAIN r /\ k \notin DOMAIN r
    BY <2>2, <1>3, <1>4, <1>5 DEF Of
  <2>3. CASE j \notin DOMAIN r /\ k \notin DOMAIN r
    BY <2>3, <1>4 DEF Of
  <2>4. CASE j \notin DOMAIN r /\ k \in DOMAIN r
    BY <2>4, <1>2, <1>8
  <2> QED
    BY <2>1, <2>2, <2>3, <2>4
<1>9. Joins(t, s)
  <2>1. CASE r # <<>>
    <3>1. s[1] = r[1]
      BY <2>1, <1>2, <1>3
    <3> QED
      BY <2>1, <3>1, <1>2 DEF Joins
  <2>2. CASE r = <<>>
    <3>1. s[1] = Of(i, 1, n)
      BY <2>2, <1>2, <1>4
    <3>2. ASSUME t # <<>> PROVE Follows(t[Len(t)], s[1])
      <4>1. IsLast(t[Len(t)])
        BY <3>2, <2>2 DEF Ended
      <4>2. Len(t) \in DOMAIN t
        BY <3>2, LenProperties, EmptySeq
      <4>3. t[Len(t)].call < i
        BY <4>2 DEF CallsOf
      <4> QED
        BY <4>1, <4>3, <3>1 DEF Follows, Of
    <3> QED
      BY <3>1, <3>2 DEF Joins, Of
  <2> QED
    BY <2>1, <2>2
<1>10. Ended(t, s)
  <2>1. Len(s) \in DOMAIN s /\ Len(s) \notin DOMAIN r /\ Len(s) - Len(r) = n + 1
    BY <1>2
  <2>2. s[Len(s)] = Of(i, n + 1, n)
    BY <2>1, <1>4
  <2> QED
    BY <2>2, <1>2 DEF Ended, IsLast, Of
<1>11. Chain(s)
  BY <1>6, <1>7, <1>8 DEF Chain
<1> QED
  BY <1>9, <1>10, <1>11 DEF s, f

LEMMA ResponseCalls ==
  ASSUME NEW t, NEW r, NEW i \in Nat, NEW n \in Nat, Response(t, r, i, n)
  PROVE  CallsOf(t) \cup CallsOf(r) \subseteq {i}
BY DEF Response, CallsOf, Of

LEMMA NoResponse ==
  ASSUME NEW i \in Nat
  PROVE  Response(<<>>, <<>>, i, 0)
<1>1. Len(<<>>) = 0 /\ DOMAIN <<>> = {}
  OBVIOUS
<1> QED
  BY <1>1 DEF Response

LEMMA NewResponse ==
  ASSUME NEW i \in Nat, NEW n \in Nat
  PROVE  Response(<<>>, Frame(i, n), i, n)
<1> DEFINE f == Frame(i, n)
<1>1. Len(f) = n + 1 /\ DOMAIN f = 1 .. n + 1 /\ \A k \in 1 .. n + 1 : f[k] = Of(i, k, n)
  BY FrameFacts, LenProperties
<1>2. Len(<<>>) = 0 /\ DOMAIN <<>> = {}
  OBVIOUS
<1> HIDE DEF f
<1>3. \A k \in DOMAIN f : 0 + k = k
  BY <1>1
<1>4. Response(<<>>, f, i, n)
  BY <1>1, <1>2, <1>3 DEF Response
<1> QED
  BY <1>4 DEF f

LEMMA CutResponse ==
  ASSUME NEW t \in Seq(Piece), NEW a \in Seq(Piece), NEW b \in Seq(Piece),
         NEW i \in Nat, NEW n \in Nat, Response(t, a \o b, i, n)
  PROVE  Response(t, a, i, n)
<1>1. /\ Len(a) \in Nat /\ Len(b) \in Nat /\ Len(t) \in Nat
      /\ DOMAIN a = 1 .. Len(a)
  BY LenProperties
<1>2. /\ a \o b \in Seq(Piece) /\ Len(a \o b) = Len(a) + Len(b)
      /\ \A k \in 1 .. Len(a) + Len(b) : (a \o b)[k] = IF k <= Len(a) THEN a[k] ELSE b[k - Len(a)]
  BY ConcatProperties
<1>3. DOMAIN (a \o b) = 1 .. Len(a) + Len(b)
  BY <1>2, LenProperties
<1>4. \A k \in DOMAIN a : k \in DOMAIN (a \o b) /\ (a \o b)[k] = a[k]
  BY <1>1, <1>2, <1>3
<1> QED
  BY <1>1, <1>2, <1>4 DEF Response

LEMMA TakeResponse ==
  ASSUME NEW t \in Seq(Piece), NEW r \in Seq(Piece), NEW i \in Nat, NEW n \in Nat,
         r # <<>>, Response(t, r, i, n)
  PROVE  /\ Response(Append(t, Head(r)), Tail(r), i, n)
         /\ t = <<>> => Head(r).part = 1 /\ Head(r).size = n
<1> DEFINE q == Tail(r)
           u == Append(t, Head(r))
<1>1. /\ Head(r) = r[1] /\ Head(r) \in Piece /\ q \in Seq(Piece) /\ Len(q) = Len(r) - 1
      /\ \A k \in 1 .. Len(q) : q[k] = r[k + 1]
  BY HeadTailProperties
<1>2. /\ u \in Seq(Piece) /\ Len(u) = Len(t) + 1 /\ \A k \in 1 .. Len(t) : u[k] = t[k]
      /\ u[Len(t) + 1] = r[1]
  BY <1>1, AppendProperties
<1>3. /\ Len(r) \in Nat \ {0} /\ DOMAIN r = 1 .. Len(r) /\ DOMAIN q = 1 .. Len(q)
      /\ Len(t) \in Nat /\ DOMAIN t = 1 .. Len(t) /\ DOMAIN u = 1 .. Len(u)
      /\ (t = <<>> => Len(t) = 0)
  BY <1>1, <1>2, EmptySeq, LenProperties
<1> HIDE DEF q, u
<1>4. r[1] = Of(i, Len(t) + 1, n)
  BY <1>3 DEF Response
<1>5. \A k \in DOMAIN u : u[k] = Of(i, k, n)
  BY <1>2, <1>3, <1>4 DEF Response
<1>6. ASSUME NEW k \in DOMAIN q PROVE q[k] = Of(i, Len(u) + k, n)
  <2>1. k + 1 \in DOMAIN r /\ Len(t) + (k + 1) = Len(u) + k
    BY <1>1, <1>2, <1>3
  <2>2. r[k + 1] = Of(i, Len(t) + (k + 1), n)
    BY <2>1 DEF Response
  <2> QED
    BY <2>1, <2>2, <1>1, <1>3
<1>7. Len(u) + Len(q) <= n + 1
  BY <1>1, <1>2, <1>3 DEF Response
<1>8. t = <<>> => Head(r).part = 1 /\ Head(r).size = n
  BY <1>1, <1>3, <1>4 DEF Of
<1> QED
  BY <1>5, <1>6, <1>7, <1>8 DEF Response, q, u

LEMMA WholeResponse ==
  ASSUME NEW t \in Seq(Piece), NEW r \in Seq(Piece), NEW i \in Nat, NEW n \in Nat,
         Response(t, r, i, n), Len(t) = n + 1
  PROVE  r = <<>>
BY LenProperties, EmptySeq DEF Response

-----------------------------------------------------------------------------
(* The invariant.                                                          *)

Coming(e) == pipe[e] \o out[Peer(e)]

Unread(e) == CallsOf(taken[e]) \cup CallsOf(Coming(e))

Done == {applied[k] : k \in DOMAIN applied}

TypeOK == /\ open \in [End -> BOOLEAN] /\ inStep \in BOOLEAN
          /\ out \in [End -> Seq(Piece)] /\ pipe \in [End -> Seq(Piece)]
          /\ taken \in [End -> Seq(Piece)] /\ need \in [End -> Nat]
          /\ outcome \in Seq(Int) /\ applied \in Seq(Nat)

OnlyLastWaits == \A i \in DOMAIN outcome : outcome[i] = 0 => i = Len(outcome)

\* What is still to be sent is sent by an open end; a request is that of the
\* call that waits, and not carried out.
SendersOpen ==
    /\ \A e \in End : out[e] # <<>> => open[e]
    /\ out["client"] # <<>> => Calling /\ \A i \in Done : i < Len(outcome)
    /\ CallsOf(out["client"]) \subseteq {Len(outcome)}
    /\ Done \subseteq 1 .. Len(outcome)

ServerStream ==
    open["server"] =>
        LET t == taken["server"]
            r == Coming("server")
        IN  /\ Begins(t, need["server"]) /\ Chain(r) /\ Joins(t, r)
            /\ open["client"] => Ended(t, r)
            /\ \A c \in Unread("server") : c \in 1 .. Len(outcome) /\ \A i \in Done : i < c

ClientStream ==
    open["client"] =>
        /\ Unread("client") \subseteq Done
        /\ inStep =>
             /\ \E n \in Nat : /\ Response(taken["client"], Coming("client"), Len(outcome), n)
                               /\ taken["client"] # <<>> => need["client"] = n + 1
             /\ Unread("client") # {} => Calling
             /\ open["server"] /\ Unread("server") # {} =>
                    Calling /\ Unread("server") = {Len(outcome)}

FramesInv == TypeOK /\ OnlyLastWaits /\ SendersOpen /\ ServerStream /\ ClientStream
-----------------------------------------------------------------------------
(* Facts of a state.                                                       *)

LEMMA TwoEnds == End = {"client", "server"} /\ Peer("client") = "server" /\ Peer("server") = "client"
BY DEF End, Peer

LEMMA StreamTypes ==
  ASSUME TypeOK, NEW e \in End
  PROVE  /\ out[e] \in Seq(Piece) /\ pipe[e] \in Seq(Piece) /\ taken[e] \in Seq(Piece)
         /\ Peer(e) \in End /\ Coming(e) \in Seq(Piece) /\ need[e] \in Nat
         /\ open[e] \in BOOLEAN
<1>1. Peer(e) \in End
  BY TwoEnds
<1>2. out[e] \in Seq(Piece) /\ pipe[e] \in Seq(Piece) /\ taken[e] \in Seq(Piece) /\ need[e] \in Nat
      /\ open[e] \in BOOLEAN /\ out[Peer(e)] \in Seq(Piece)
  BY <1>1 DEF TypeOK
<1>3. Coming(e) \in Seq(Piece)
  BY <1>2, ConcatProperties DEF Coming
<1> QED
  BY <1>1, <1>2, <1>3

LEMMA NextStreamTypes ==
  ASSUME TypeOK', NEW e \in End
  PROVE  /\ out'[e] \in Seq(Piece) /\ pipe'[e] \in Seq(Piece) /\ taken'[e] \in Seq(Piece)
         /\ Coming(e)' \in Seq(Piece) /\ need'[e] \in Nat
<1>1. Peer(e) \in End
  BY TwoEnds
<1>2. out'[e] \in Seq(Piece) /\ pipe'[e] \in Seq(Piece) /\ taken'[e] \in Seq(Piece) /\ need'[e] \in Nat
      /\ out'[Peer(e)] \in Seq(Piece)
  BY <1>1 DEF TypeOK
<1>3. Coming(e)' \in Seq(Piece)
  BY <1>2, ConcatProperties DEF Coming
<1> QED
  BY <1>2, <1>3

LEMMA NothingIsAStream ==
  /\ <<>> \in Seq(Piece) /\ <<>> \o <<>> = <<>> /\ CallsOf(<<>>) = {}
  /\ Chain(<<>>) /\ Ended(<<>>, <<>>)
  /\ \A t : Joins(t, <<>>)
  /\ \A n : Begins(<<>>, n)
<1>1. DOMAIN <<>> = {} /\ <<>> \in Seq(Piece)
  OBVIOUS
<1>2. <<>> \o <<>> = <<>>
  BY <1>1, ConcatEmptySeq
<1> QED
  BY <1>1, <1>2 DEF CallsOf, Chain, Ended, Joins, Begins

LEMMA OutcomeFacts ==
  ASSUME TypeOK
  PROVE  /\ Len(outcome) \in Nat /\ DOMAIN outcome = 1 .. Len(outcome)
         /\ Calling => Len(outcome) \in DOMAIN outcome
<1>1. outcome \in Seq(Int)
  BY DEF TypeOK
<1>2. Len(outcome) \in Nat /\ DOMAIN outcome = 1 .. Len(outcome)
  BY <1>1, LenProperties
<1>3. outcome # <<>> => Len(outcome) \in Nat \ {0}
  BY <1>1, EmptySeq
<1> QED
  BY <1>2, <1>3 DEF Calling

\* The end of a call ends nothing else.
LEMMA EndsLast ==
  ASSUME TypeOK, OnlyLastWaits, NEW x \in Int, Ends(x)
  PROVE  /\ outcome' \in Seq(Int) /\ Len(outcome') = Len(outcome) /\ OnlyLastWaits'
         /\ x # 0 => ~Calling'
<1>1. Len(outcome) \in Nat /\ DOMAIN outcome = 1 .. Len(outcome) /\ outcome \in Seq(Int)
      /\ (Calling => Len(outcome) \in DOMAIN outcome)
  BY OutcomeFacts DEF TypeOK
<1>2. CASE ~Calling
  <2>1. outcome' = outcome
    BY <1>2 DEF Ends
  <2> QED
    BY <2>1, <1>1, <1>2 DEF OnlyLastWaits, Calling
<1>3. CASE Calling
  <2>1. outcome' = [outcome EXCEPT ![Len(outcome)] = x]
    BY <1>3 DEF Ends
  <2>2. /\ outcome' \in Seq(Int) /\ Len(outcome') = Len(outcome) /\ DOMAIN outcome' = DOMAIN outcome
        /\ \A j \in DOMAIN outcome : outcome'[j] = IF j = Len(outcome) THEN x ELSE outcome[j]
    <3>1. /\ outcome' \in Seq(Int) /\ Len(outcome') = Len(outcome)
          /\ \A j \in 1 .. Len(outcome) : outcome'[j] = IF j = Len(outcome) THEN x ELSE outcome[j]
      BY <2>1, <1>1, <1>3, ExceptSeq
    <3> QED
      BY <3>1, <1>1, LenProperties
  <2>3. OnlyLastWaits'
    BY <2>2 DEF OnlyLastWaits
  <2>4. outcome'[Len(outcome')] = x
    BY <2>2, <1>1, <1>3
  <2> QED
    BY <2>2, <2>3, <2>4 DEF Calling
<1> QED
  BY <1>2, <1>3

-----------------------------------------------------------------------------
(* Types.                                                                  *)

LEMMA FramesInit == Init => FramesInv
<1> SUFFICES ASSUME Init PROVE FramesInv
  OBVIOUS
<1>1. /\ out = Nothing /\ pipe = Nothing /\ taken = Nothing /\ outcome = <<>> /\ applied = <<>>
      /\ \A e \in End : ~open[e] /\ out[e] = <<>>
  BY DEF Init, Nothing
<1>2. TypeOK
  BY DEF Init, Nothing, TypeOK
<1>3. OnlyLastWaits
  BY <1>1 DEF OnlyLastWaits
<1>4. SendersOpen
  BY <1>1, TwoEnds, NothingIsAStream DEF SendersOpen, Done
<1>5. ServerStream /\ ClientStream
  BY <1>1, TwoEnds DEF ServerStream, ClientStream
<1> QED
  BY <1>2, <1>3, <1>4, <1>5 DEF FramesInv

LEMMA GiveUpType ==
  ASSUME TypeOK, OnlyLastWaits, NEW e \in End, GiveUp(e)
  PROVE  /\ open' \in [End -> BOOLEAN] /\ out' \in [End -> Seq(Piece)]
         /\ taken' \in [End -> Seq(Piece)] /\ outcome' \in Seq(Int) /\ OnlyLastWaits'
<1>1. <<>> \in Seq(Piece)
  OBVIOUS
<1>2. CASE e = "server"
  <2>1. Shut("server") /\ outcome' = outcome
    BY <1>2 DEF GiveUp
  <2> QED
    BY <2>1, <1>1 DEF Shut, TypeOK, OnlyLastWaits
<1>3. CASE e = "client"
  <2>1. /\ Ends(-1) /\ open' = open
        /\ out' = [out EXCEPT !["client"] = <<>>] /\ taken' = [taken EXCEPT !["client"] = <<>>]
    BY <1>3 DEF GiveUp
  <2>2. outcome' \in Seq(Int) /\ OnlyLastWaits'
    BY <2>1, EndsLast
  <2> QED
    BY <2>1, <2>2, <1>1 DEF TypeOK
<1> QED
  BY <1>2, <1>3, TwoEnds

LEMMA FrameType ==
  ASSUME NEW i \in Nat, NEW n \in Size
  PROVE  n \in Nat /\ Frame(i, n) \in Seq(Piece)
BY FramesAssumption, FrameFacts

LEMMA TypeStep ==
  ASSUME TypeOK, OnlyLastWaits, Next
  PROVE  TypeOK' /\ OnlyLastWaits'
<1> USE DEF frameVars
<1>1. ASSUME NEW e \in End, Push(e) PROVE TypeOK' /\ OnlyLastWaits'
  <2>1. out[e] \in Seq(Piece) /\ out[e] # <<>> /\ Peer(e) \in End /\ pipe[Peer(e)] \in Seq(Piece)
    BY <1>1, StreamTypes DEF Push, TypeOK
  <2>2. Head(out[e]) \in Piece /\ Tail(out[e]) \in Seq(Piece)
    BY <2>1, HeadTailProperties
  <2>3. Append(pipe[Peer(e)], Head(out[e])) \in Seq(Piece)
    BY <2>1, <2>2, AppendProperties
  <2> QED
    BY <1>1, <2>2, <2>3 DEF Push, TypeOK, OnlyLastWaits
<1>2. ASSUME NEW e \in End, SendFails(e) PROVE TypeOK' /\ OnlyLastWaits'
  BY <1>2, GiveUpType DEF SendFails, TypeOK
<1>3. ASSUME NEW e \in End, TakeHeader(e) PROVE TypeOK' /\ OnlyLastWaits'
  <2>1. pipe[e] \in Seq(Piece) /\ pipe[e] # <<>> /\ pipe' = [pipe EXCEPT ![e] = Tail(@)]
        /\ applied' = applied
    BY <1>3, StreamTypes DEF TakeHeader
  <2>2. Head(pipe[e]) \in Piece /\ Tail(pipe[e]) \in Seq(Piece) /\ <<Head(pipe[e])>> \in Seq(Piece)
    BY <2>1, HeadTailProperties
  <2>3. pipe' \in [End -> Seq(Piece)]
    BY <2>1, <2>2 DEF TypeOK
  <2>4. PICK n \in LengthIn(Head(pipe[e])) :
          IF TooLarge(n)
          THEN /\ GiveUp(e)
               /\ inStep' = (inStep /\ e = "server")
               /\ UNCHANGED need
          ELSE /\ taken' = [taken EXCEPT ![e] = <<Head(pipe[e])>>]
               /\ need' = [need EXCEPT ![e] = n + 1]
               /\ UNCHANGED <<open, out, outcome, inStep>>
    BY <1>3 DEF TakeHeader
  <2>5. n \in Nat
    BY <2>2, FramesAssumption DEF LengthIn, Piece
  <2>6. CASE TooLarge(n)
    <3>1. GiveUp(e) /\ inStep' = (inStep /\ e = "server") /\ need' = need
      BY <2>4, <2>6
    <3>2. inStep' \in BOOLEAN
      BY <3>1 DEF TypeOK
    <3> QED
      BY <3>1, <3>2, <2>1, <2>3, GiveUpType DEF TypeOK
  <2>7. CASE ~TooLarge(n)
    <3>1. /\ taken' = [taken EXCEPT ![e] = <<Head(pipe[e])>>]
          /\ need' = [need EXCEPT ![e] = n + 1]
          /\ UNCHANGED <<open, out, outcome, inStep>>
      BY <2>4, <2>7
    <3> QED
      BY <3>1, <2>1, <2>2, <2>3, <2>5 DEF TypeOK, OnlyLastWaits
  <2> QED
    BY <2>6, <2>7
<1>4. ASSUME NEW e \in End, TakeMore(e) PROVE TypeOK' /\ OnlyLastWaits'
  <2>1. pipe[e] \in Seq(Piece) /\ pipe[e] # <<>> /\ taken[e] \in Seq(Piece)
    BY <1>4, StreamTypes DEF TakeMore
  <2>2. Append(taken[e], Head(pipe[e])) \in Seq(Piece) /\ Tail(pipe[e]) \in Seq(Piece)
    BY <2>1, CallsOfTaken
  <2> QED
    BY <1>4, <2>2 DEF TakeMore, TypeOK, OnlyLastWaits
<1>5. ASSUME NEW e \in End, Malformed(e) PROVE TypeOK' /\ OnlyLastWaits'
  <2>1. inStep' \in BOOLEAN
    BY <1>5 DEF Malformed, TypeOK
  <2> QED
    BY <1>5, <2>1, GiveUpType DEF Malformed, TypeOK
<1>6. ASSUME NEW e \in End, EndOfStream(e) PROVE TypeOK' /\ OnlyLastWaits'
  BY <1>6, GiveUpType DEF EndOfStream, TypeOK
<1>7. ASSUME Answered PROVE TypeOK' /\ OnlyLastWaits'
  <2>1. taken["client"] \in Seq(Piece) /\ taken["client"] # <<>> /\ <<>> \in Seq(Piece)
    BY <1>7, StreamTypes, TwoEnds DEF Answered, Complete
  <2>2. taken["client"][1] \in Piece
    BY <2>1, EmptySeq, ElementOfSeq
  <2>3. taken["client"][1].call \in Int
    BY <2>2 DEF Piece
  <2>4. outcome' \in Seq(Int) /\ OnlyLastWaits'
    BY <1>7, <2>3, EndsLast DEF Answered
  <2> QED
    BY <1>7, <2>1, <2>4 DEF Answered, TypeOK
<1>8. ASSUME NEW n \in Size, Serve(n) PROVE TypeOK' /\ OnlyLastWaits'
  <2>1. taken["server"] \in Seq(Piece) /\ taken["server"] # <<>> /\ <<>> \in Seq(Piece)
    BY <1>8, StreamTypes, TwoEnds DEF Serve, Complete
  <2>2. taken["server"][1] \in Piece
    BY <2>1, EmptySeq, ElementOfSeq
  <2>3. taken["server"][1].call \in Nat
    BY <2>2 DEF Piece
  <2>4. Frame(taken["server"][1].call, n) \in Seq(Piece)
    BY <2>3, FrameType
  <2>5. applied' \in Seq(Nat)
    BY <1>8, <2>3, AppendProperties DEF Serve, TypeOK
  <2> QED
    BY <1>8, <2>1, <2>4, <2>5 DEF Serve, TypeOK, OnlyLastWaits
<1>9. ASSUME Connect PROVE TypeOK' /\ OnlyLastWaits'
  BY <1>9 DEF Connect, Nothing, TypeOK, OnlyLastWaits
<1>10. ASSUME NEW e \in End, Leave(e) PROVE TypeOK' /\ OnlyLastWaits'
  <2>1. outcome' \in Seq(Int) /\ OnlyLastWaits'
    <3>1. CASE e = "client"
      BY <3>1, <1>10, EndsLast DEF Leave
    <3>2. CASE e # "client"
      BY <3>2, <1>10 DEF Leave, TypeOK, OnlyLastWaits
    <3> QED
      BY <3>1, <3>2
  <2> QED
    BY <1>10, <2>1 DEF Leave, Shut, TypeOK
<1>11. ASSUME NEW e \in End, Reset(e) PROVE TypeOK' /\ OnlyLastWaits'
  BY <1>11 DEF Reset, TypeOK, OnlyLastWaits
<1>12. ASSUME NEW n \in Size, Call(n) PROVE TypeOK' /\ OnlyLastWaits'
  <2>1. outcome \in Seq(Int) /\ Len(outcome) \in Nat /\ DOMAIN outcome = 1 .. Len(outcome)
    BY OutcomeFacts DEF TypeOK
  <2>2. /\ outcome' \in Seq(Int) /\ Len(outcome') = Len(outcome) + 1
        /\ \A i \in 1 .. Len(outcome) : outcome'[i] = outcome[i]
    BY <1>12, <2>1, AppendProperties DEF Call
  <2>3. Frame(Len(outcome'), n) \in Seq(Piece)
    BY <2>1, <2>2, FrameType
  <2>4. \A i \in DOMAIN outcome : outcome[i] # 0
    <3> SUFFICES ASSUME NEW i \in DOMAIN outcome, outcome[i] = 0 PROVE FALSE
      OBVIOUS
    <3>1. i = Len(outcome)
      BY DEF OnlyLastWaits
    <3>2. outcome # <<>>
      BY <2>1, EmptySeq
    <3> QED
      BY <3>1, <3>2, <1>12 DEF Call, Calling
  <2>5. OnlyLastWaits'
    <3>1. DOMAIN outcome' = 1 .. Len(outcome')
      BY <2>2, LenProperties
    <3> QED
      BY <3>1, <2>1, <2>2, <2>4 DEF OnlyLastWaits
  <2> QED
    BY <1>12, <2>2, <2>3, <2>5 DEF Call, TypeOK
<1> QED
  BY <1>1, <1>2, <1>3, <1>4, <1>5, <1>6, <1>7, <1>8, <1>9, <1>10, <1>11, <1>12
  DEF Next, Step, EndStep

-----------------------------------------------------------------------------
(* Streams in the steps of the two ends.                                   *)

StreamsInv == SendersOpen /\ ServerStream /\ ClientStream

\* What a client that is in step can still read says whose turn it is.
LEMMA InStepFacts ==
  ASSUME FramesInv, open["client"], inStep
  PROVE  /\ Unread("client") \subseteq {Len(outcome)}
         /\ open["server"] /\ Unread("client") # {} => Unread("server") = {}
<1>1. Len(outcome) \in Nat
  BY OutcomeFacts DEF FramesInv
<1>2. Unread("client") \subseteq {Len(outcome)}
  <2>1. PICK n \in Nat : Response(taken["client"], Coming("client"), Len(outcome), n)
    BY DEF FramesInv, ClientStream
  <2> QED
    BY <2>1, <1>1, ResponseCalls DEF Unread
<1>3. ASSUME open["server"], Unread("client") # {} PROVE Unread("server") = {}
  <2>1. Len(outcome) \in Done
    BY <1>2, <1>3 DEF FramesInv, ClientStream
  <2>2. ASSUME Unread("server") # {} PROVE FALSE
    <3>1. Len(outcome) \in Unread("server")
      BY <1>3, <2>2 DEF FramesInv, ClientStream
    <3>2. Len(outcome) < Len(outcome)
      BY <3>1, <2>1, <1>3 DEF FramesInv, ServerStream
    <3> QED
      BY <3>2, <1>1
  <2> QED
    BY <2>2
<1> QED
  BY <1>2, <1>3

LEMMA PushStep ==
  ASSUME FramesInv, TypeOK', NEW e \in End, Push(e)
  PROVE  StreamsInv'
<1>1. /\ e \in {"client", "server"} /\ Peer("client") = "server" /\ Peer("server") = "client"
      /\ UNCHANGED <<open, taken, need, outcome, applied, inStep>>
  BY TwoEnds DEF Push
<1>2. /\ Peer(e) \in End /\ Peer(e) # e /\ out[e] \in Seq(Piece) /\ pipe[Peer(e)] \in Seq(Piece)
      /\ out[e] # <<>> /\ open[e]
  BY <1>1, TwoEnds, StreamTypes DEF Push, FramesInv, SendersOpen
<1>3. /\ out'[e] = Tail(out[e]) /\ out'[Peer(e)] = out[Peer(e)]
      /\ pipe'[Peer(e)] = Append(pipe[Peer(e)], Head(out[e])) /\ pipe'[e] = pipe[e]
  BY <1>2 DEF Push, FramesInv, TypeOK
<1>4. Coming(Peer(e))' = Coming(Peer(e))
  <2>1. Append(pipe[Peer(e)], Head(out[e])) \o Tail(out[e]) = pipe[Peer(e)] \o out[e]
    BY <1>2, PushKeeps
  <2>2. Peer(Peer(e)) = e
    BY <1>1
  <2> QED
    BY <2>1, <2>2, <1>3 DEF Coming
<1>5. Coming(e)' = Coming(e)
  BY <1>3 DEF Coming
<1>6. /\ Coming("client")' = Coming("client") /\ Coming("server")' = Coming("server")
  BY <1>1, <1>4, <1>5
<1>7. /\ Unread("client")' = Unread("client") /\ Unread("server")' = Unread("server")
      /\ Done' = Done /\ (Calling' <=> Calling)
  BY <1>1, <1>6 DEF Unread, Done, Calling
<1>8. CallsOf(Tail(out[e])) \subseteq CallsOf(out[e])
  BY <1>2, CallsOfTaken, NothingIsAStream
<1>9. SendersOpen'
  <2>1. \A x \in End : out'[x] # <<>> => open'[x]
    BY <1>1, <1>2, <1>3, TwoEnds DEF FramesInv, SendersOpen
  <2>2. out'["client"] # <<>> => out["client"] # <<>>
    BY <1>1, <1>2, <1>3
  <2>3. CallsOf(out'["client"]) \subseteq CallsOf(out["client"])
    BY <1>1, <1>3, <1>8
  <2> QED
    BY <2>1, <2>2, <2>3, <1>1, <1>7 DEF FramesInv, SendersOpen
<1>10. ServerStream'
  BY <1>1, <1>6, <1>7 DEF FramesInv, ServerStream
<1>11. ClientStream'
  BY <1>1, <1>6, <1>7 DEF FramesInv, ClientStream
<1> QED
  BY <1>9, <1>10, <1>11 DEF StreamsInv

LEMMA ServerShuts ==
  ASSUME FramesInv, TypeOK', Shut("server"), pipe'["client"] = pipe["client"],
         need'["client"] = need["client"], UNCHANGED <<outcome, applied, inStep>>
  PROVE  StreamsInv'
<1>1. /\ open'["client"] = open["client"] /\ ~open'["server"]
      /\ out'["client"] = out["client"] /\ out'["server"] = <<>>
      /\ taken'["client"] = taken["client"]
  BY TwoEnds DEF Shut, FramesInv, TypeOK
<1>2. Done' = Done /\ (Calling' <=> Calling)
  BY DEF Done, Calling
<1>3. SendersOpen'
  BY <1>1, <1>2, TwoEnds DEF FramesInv, SendersOpen
<1>4. ServerStream'
  BY <1>1 DEF ServerStream
<1>5. /\ pipe["client"] \in Seq(Piece) /\ out["server"] \in Seq(Piece)
      /\ taken["client"] \in Seq(Piece)
      /\ Coming("client") = pipe["client"] \o out["server"]
  BY TwoEnds, StreamTypes DEF FramesInv, Coming
<1>6. Coming("client")' = pipe["client"]
  BY <1>1, <1>5, TwoEnds, ConcatEmptySeq DEF Coming
<1>7. Unread("client")' \subseteq Unread("client")
  <2>1. CallsOf(pipe["client"]) \subseteq CallsOf(Coming("client"))
    <3>1. CallsOf(pipe["client"] \o out["server"]) = CallsOf(pipe["client"]) \cup CallsOf(out["server"])
      BY <1>5, CallsOfBoth, Zenon
    <3> QED
      BY <3>1, <1>5
  <2> QED
    BY <2>1, <1>1, <1>6 DEF Unread
<1>8. ClientStream'
  <2> SUFFICES ASSUME open["client"]
               PROVE  ClientStream'
    BY <1>1 DEF ClientStream
  <2>1. Unread("client")' \subseteq Done'
    BY <1>2, <1>7 DEF FramesInv, ClientStream
  <2>2. ASSUME inStep
        PROVE  \E n \in Nat : /\ Response(taken["client"]', Coming("client")', Len(outcome'), n)
                              /\ taken["client"]' # <<>> => need["client"]' = n + 1
    <3>1. PICK n \in Nat : /\ Response(taken["client"], Coming("client"), Len(outcome), n)
                           /\ taken["client"] # <<>> => need["client"] = n + 1
      BY <2>2 DEF FramesInv, ClientStream
    <3>2. Response(taken["client"], pipe["client"] \o out["server"], Len(outcome), n)
      BY <3>1, <1>5
    <3>3. Len(outcome) \in Nat
      BY OutcomeFacts DEF FramesInv
    <3>4. Response(taken["client"], pipe["client"], Len(outcome), n)
      BY <3>2, <3>3, <1>5, CutResponse, Zenon
    <3> QED
      BY <3>1, <3>4, <1>1, <1>6
  <2>3. inStep /\ Unread("client")' # {} => Calling'
    BY <1>2, <1>7 DEF FramesInv, ClientStream
  <2> QED
    BY <2>1, <2>2, <2>3, <1>1 DEF ClientStream
<1> QED
  BY <1>3, <1>4, <1>8 DEF StreamsInv

\* The client reports an error: whatever it has not read is not read any more
\* in step.
LEMMA ClientGivesUp ==
  ASSUME FramesInv, TypeOK', GiveUp("client"), pipe'["server"] = pipe["server"],
         need'["server"] = need["server"], UNCHANGED applied,
         Unread("client")' \subseteq Unread("client"),
         out["client"] = <<>> \/ ~open["server"],
         \/ ~inStep'
         \/ inStep' /\ inStep /\ ~open["server"] /\ taken'["client"] = <<>> /\ Coming("client")' = <<>>
  PROVE  StreamsInv'
<1>1. /\ open' = open /\ Ends(-1)
      /\ out'["server"] = out["server"] /\ out'["client"] = <<>>
      /\ taken'["server"] = taken["server"]
  BY TwoEnds DEF GiveUp, FramesInv, TypeOK
<1>2. Done' = Done /\ Len(outcome') = Len(outcome) /\ Len(outcome) \in Nat
  BY <1>1, EndsLast, OutcomeFacts DEF Done, FramesInv
<1>3. SendersOpen'
  <2>1. \A x \in End : out'[x] # <<>> => open'[x]
    BY <1>1, TwoEnds DEF FramesInv, SendersOpen
  <2> QED
    BY <2>1, <1>1, <1>2, NothingIsAStream DEF FramesInv, SendersOpen
<1>4. ServerStream'
  <2> SUFFICES ASSUME open["server"] PROVE ServerStream'
    BY <1>1 DEF ServerStream
  <2>1. Coming("server")' = Coming("server")
    BY <1>1, TwoEnds DEF Coming
  <2>2. Unread("server")' = Unread("server")
    BY <2>1, <1>1 DEF Unread
  <2> QED
    BY <2>1, <2>2, <1>1, <1>2 DEF FramesInv, ServerStream
<1>5. ClientStream'
  <2> SUFFICES ASSUME open["client"] PROVE ClientStream'
    BY <1>1 DEF ClientStream
  <2>1. Unread("client")' \subseteq Done'
    BY <1>2 DEF FramesInv, ClientStream
  <2>2. ASSUME inStep'
        PROVE  /\ Unread("client")' = {} /\ ~open["server"]
               /\ Response(taken["client"]', Coming("client")', Len(outcome'), 0)
               /\ taken["client"]' = <<>>
    BY <2>2, <1>2, NoResponse, NothingIsAStream DEF Unread
  <2> QED
    BY <2>1, <2>2, <1>1 DEF ClientStream
<1> QED
  BY <1>3, <1>4, <1>5 DEF StreamsInv

LEMMA ServerTakes ==
  ASSUME FramesInv, TypeOK', open["server"], pipe["server"] # <<>>,
         pipe' = [pipe EXCEPT !["server"] = Tail(@)],
         taken'["server"] = Append(taken["server"], Head(pipe["server"])),
         taken'["client"] = taken["client"], need'["client"] = need["client"],
         UNCHANGED <<open, out, outcome, applied, inStep>>,
         Begins(taken'["server"], need'["server"])
  PROVE  StreamsInv'
<1> DEFINE t == taken["server"]
           r == Coming("server")
<1>1. /\ t \in Seq(Piece) /\ r \in Seq(Piece) /\ pipe["server"] \in Seq(Piece)
      /\ out["client"] \in Seq(Piece) /\ r = pipe["server"] \o out["client"]
      /\ pipe'["server"] = Tail(pipe["server"]) /\ pipe'["client"] = pipe["client"]
  BY TwoEnds, StreamTypes DEF FramesInv, Coming, TypeOK
<1>2. r # <<>> /\ Head(r) = Head(pipe["server"]) /\ Tail(r) = Tail(pipe["server"]) \o out["client"]
  <2>0. pipe["server"] \in Seq(Piece) /\ pipe["server"] # <<>> /\ out["client"] \in Seq(Piece)
    BY <1>1
  <2>1. /\ pipe["server"] \o out["client"] # <<>>
        /\ Head(pipe["server"] \o out["client"]) = Head(pipe["server"])
        /\ Tail(pipe["server"] \o out["client"]) = Tail(pipe["server"]) \o out["client"]
    BY <2>0, TakeKeeps
  <2> HIDE DEF r
  <2> QED
    BY <2>1, <1>1
<1>3. Coming("server")' = Tail(r) /\ taken'["server"] = Append(t, Head(r))
  BY <1>1, <1>2, TwoEnds DEF Coming
<1>4. Coming("client")' = Coming("client")
  BY <1>1, TwoEnds DEF Coming
<1>5. /\ Unread("client")' = Unread("client") /\ Unread("server")' = Unread("server")
      /\ Done' = Done /\ (Calling' <=> Calling)
  <2>1. CallsOf(Append(t, Head(r))) \cup CallsOf(Tail(r)) = CallsOf(t) \cup CallsOf(r)
    BY <1>1, <1>2, CallsOfTaken
  <2> QED
    BY <2>1, <1>3, <1>4 DEF Unread, Done, Calling
<1>6. SendersOpen'
  BY <1>5 DEF FramesInv, SendersOpen
<1>7. ServerStream'
  <2>1. Chain(r) /\ (open["client"] => Ended(t, r))
    BY DEF FramesInv, ServerStream
  <2>2. /\ Chain(Tail(r)) /\ Joins(Append(t, Head(r)), Tail(r))
        /\ Ended(t, r) => Ended(Append(t, Head(r)), Tail(r))
    BY <2>1, <1>1, <1>2, TakeStream
  <2>3. \A c \in Unread("server") : c \in 1 .. Len(outcome) /\ \A i \in Done : i < c
    BY DEF FramesInv, ServerStream
  <2> HIDE DEF t, r
  <2> QED
    BY <2>1, <2>2, <2>3, <1>3, <1>5 DEF ServerStream
<1>8. ClientStream'
  BY <1>4, <1>5 DEF FramesInv, ClientStream
<1> QED
  BY <1>6, <1>7, <1>8 DEF StreamsInv

LEMMA ClientTakes ==
  ASSUME FramesInv, TypeOK', open["client"], pipe["client"] # <<>>, NEW n \in Nat,
         pipe' = [pipe EXCEPT !["client"] = Tail(@)],
         taken'["client"] = Append(taken["client"], Head(pipe["client"])),
         taken'["server"] = taken["server"], need'["server"] = need["server"],
         UNCHANGED <<open, out, outcome, applied, inStep>>,
         need'["client"] = n + 1,
         inStep => Response(taken["client"], Coming("client"), Len(outcome), n)
  PROVE  StreamsInv'
<1> DEFINE t == taken["client"]
           r == Coming("client")
<1>1. /\ t \in Seq(Piece) /\ r \in Seq(Piece) /\ pipe["client"] \in Seq(Piece)
      /\ out["server"] \in Seq(Piece) /\ r = pipe["client"] \o out["server"]
      /\ pipe'["client"] = Tail(pipe["client"]) /\ pipe'["server"] = pipe["server"]
  BY TwoEnds, StreamTypes DEF FramesInv, Coming, TypeOK
<1>2. r # <<>> /\ Head(r) = Head(pipe["client"]) /\ Tail(r) = Tail(pipe["client"]) \o out["server"]
  <2>0. pipe["client"] \in Seq(Piece) /\ pipe["client"] # <<>> /\ out["server"] \in Seq(Piece)
    BY <1>1
  <2>1. /\ pipe["client"] \o out["server"] # <<>>
        /\ Head(pipe["client"] \o out["server"]) = Head(pipe["client"])
        /\ Tail(pipe["client"] \o out["server"]) = Tail(pipe["client"]) \o out["server"]
    BY <2>0, TakeKeeps
  <2> HIDE DEF r
  <2> QED
    BY <2>1, <1>1
<1>3. Coming("client")' = Tail(r) /\ taken'["client"] = Append(t, Head(r))
  BY <1>1, <1>2, TwoEnds DEF Coming
<1>4. Coming("server")' = Coming("server")
  BY <1>1, TwoEnds DEF Coming
<1>5. /\ Unread("client")' = Unread("client") /\ Unread("server")' = Unread("server")
      /\ Done' = Done /\ (Calling' <=> Calling)
  <2>1. CallsOf(Append(t, Head(r))) \cup CallsOf(Tail(r)) = CallsOf(t) \cup CallsOf(r)
    BY <1>1, <1>2, CallsOfTaken
  <2> QED
    BY <2>1, <1>3, <1>4 DEF Unread, Done, Calling
<1>6. SendersOpen'
  BY <1>5 DEF FramesInv, SendersOpen
<1>7. ServerStream'
  BY <1>4, <1>5 DEF FramesInv, ServerStream
<1>8. inStep => Response(Append(t, Head(r)), Tail(r), Len(outcome), n)
  <2>1. Len(outcome) \in Nat
    BY OutcomeFacts DEF FramesInv
  <2> HIDE DEF t, r
  <2>2. ASSUME Response(t, r, Len(outcome), n)
        PROVE  Response(Append(t, Head(r)), Tail(r), Len(outcome), n)
    BY <2>1, <2>2, <1>1, <1>2, TakeResponse, Zenon
  <2> QED
    BY <2>2 DEF t, r
<1>9. ClientStream'
  <2> HIDE DEF t, r
  <2> QED
    BY <1>3, <1>5, <1>8 DEF FramesInv, ClientStream
<1> QED
  BY <1>6, <1>7, <1>9 DEF StreamsInv

LEMMA TakeHeaderStep ==
  ASSUME FramesInv, TypeOK', NEW e \in End, TakeHeader(e)
  PROVE  StreamsInv'
<1>1. /\ open[e] /\ out[e] = <<>> /\ taken[e] = <<>> /\ pipe[e] # <<>> /\ pipe[e] \in Seq(Piece)
      /\ pipe' = [pipe EXCEPT ![e] = Tail(@)] /\ applied' = applied /\ Coming(e) \in Seq(Piece)
      /\ out[Peer(e)] \in Seq(Piece) /\ Peer(e) \in End
  BY StreamTypes DEF TakeHeader, Receives, FramesInv
<1>2. PICK m \in LengthIn(Head(pipe[e])) :
        IF TooLarge(m)
        THEN /\ GiveUp(e)
             /\ inStep' = (inStep /\ e = "server")
             /\ UNCHANGED need
        ELSE /\ taken' = [taken EXCEPT ![e] = <<Head(pipe[e])>>]
             /\ need' = [need EXCEPT ![e] = m + 1]
             /\ UNCHANGED <<open, out, outcome, inStep>>
  BY DEF TakeHeader
<1>3. /\ Coming(e) # <<>> /\ Head(Coming(e)) = Head(pipe[e]) /\ Head(pipe[e]) \in Piece
      /\ Tail(pipe[e]) \in Seq(Piece)
      /\ Tail(Coming(e)) = Tail(pipe[e]) \o out[Peer(e)]
  BY <1>1, TakeKeeps, HeadTailProperties DEF Coming
<1>4. m \in Nat /\ (Head(pipe[e]).part = 1 => m = Head(pipe[e]).size)
  BY <1>3, FramesAssumption DEF LengthIn, Piece
<1>5. CASE TooLarge(m) /\ e = "server"
  <2>1. GiveUp("server") /\ need' = need /\ inStep' = inStep
    BY <1>2, <1>5 DEF FramesInv, TypeOK
  <2>2. pipe'["client"] = pipe["client"]
    BY <1>1, <1>5, TwoEnds DEF FramesInv, TypeOK
  <2> QED
    BY <2>1, <2>2, <1>1, ServerShuts DEF GiveUp
<1>6. CASE TooLarge(m) /\ e = "client"
  <2>1. GiveUp("client") /\ need' = need /\ ~inStep'
    BY <1>2, <1>6
  <2>2. pipe'["server"] = pipe["server"] /\ pipe'["client"] = Tail(pipe["client"])
    BY <1>1, <1>6, TwoEnds DEF FramesInv, TypeOK
  <2>3. Unread("client")' \subseteq Unread("client")
    <3>1. taken'["client"] = <<>> /\ out'["server"] = out["server"]
      BY <2>1, TwoEnds DEF GiveUp, FramesInv, TypeOK
    <3>2. Coming("client")' = Tail(Coming("client"))
      BY <3>1, <2>2, <1>3, <1>6, TwoEnds DEF Coming
    <3>3. CallsOf(Tail(Coming("client"))) \subseteq CallsOf(Coming("client"))
      BY <1>1, <1>3, <1>6, CallsOfTaken, NothingIsAStream
    <3> QED
      BY <3>1, <3>2, <3>3, NothingIsAStream DEF Unread
  <2> QED
    BY <2>1, <2>2, <2>3, <1>1, <1>6, ClientGivesUp
<1>7. Append(taken[e], Head(pipe[e])) = <<Head(pipe[e])>>
  BY <1>1
<1>8. CASE ~TooLarge(m) /\ e = "server"
  <2>1. /\ taken' = [taken EXCEPT !["server"] = <<Head(pipe["server"])>>]
        /\ need' = [need EXCEPT !["server"] = m + 1]
        /\ UNCHANGED <<open, out, outcome, inStep>>
    BY <1>2, <1>8
  <2>2. /\ taken'["server"] = Append(taken["server"], Head(pipe["server"]))
        /\ taken'["client"] = taken["client"] /\ need'["client"] = need["client"]
        /\ need'["server"] = m + 1
        /\ taken'["server"] = <<Head(pipe["server"])>>
    BY <2>1, <1>7, <1>8, TwoEnds DEF FramesInv, TypeOK
  <2>3. Joins(<<>>, Coming("server"))
    BY <1>1, <1>8 DEF FramesInv, ServerStream
  <2>4. /\ Head(Coming("server")).part = 1
        /\ Begins(<<Head(Coming("server"))>>, Head(Coming("server")).size + 1)
    BY <2>3, <1>1, <1>3, <1>8, BeginsHeader
  <2>5. Begins(taken'["server"], need'["server"])
    BY <2>2, <2>4, <1>3, <1>4, <1>8
  <2> QED
    BY <2>1, <2>2, <2>5, <1>1, <1>8, ServerTakes
<1>9. CASE ~TooLarge(m) /\ e = "client"
  <2>1. /\ taken' = [taken EXCEPT !["client"] = <<Head(pipe["client"])>>]
        /\ need' = [need EXCEPT !["client"] = m + 1]
        /\ UNCHANGED <<open, out, outcome, inStep>>
    BY <1>2, <1>9
  <2>2. /\ taken'["client"] = Append(taken["client"], Head(pipe["client"]))
        /\ taken'["server"] = taken["server"] /\ need'["server"] = need["server"]
        /\ need'["client"] = m + 1
    BY <2>1, <1>7, <1>9, TwoEnds DEF FramesInv, TypeOK
  <2>3. ASSUME inStep PROVE Response(taken["client"], Coming("client"), Len(outcome), m)
    <3>1. PICK n \in Nat : Response(taken["client"], Coming("client"), Len(outcome), n)
      BY <2>3, <1>1, <1>9 DEF FramesInv, ClientStream
    <3>2. Len(outcome) \in Nat /\ taken["client"] \in Seq(Piece)
      BY OutcomeFacts, StreamTypes, TwoEnds DEF FramesInv
    <3>3. Head(Coming("client")).part = 1 /\ Head(Coming("client")).size = n
      BY <3>1, <3>2, <1>1, <1>3, <1>9, TakeResponse
    <3> QED
      BY <3>1, <3>3, <1>3, <1>4, <1>9
  <2> QED
    BY <2>1, <2>2, <2>3, <1>1, <1>4, <1>9, ClientTakes
<1> QED
  BY <1>5, <1>6, <1>8, <1>9, TwoEnds

LEMMA TakeMoreStep ==
  ASSUME FramesInv, TypeOK', NEW e \in End, TakeMore(e)
  PROVE  StreamsInv'
<1>1. /\ open[e] /\ taken[e] # <<>> /\ Len(taken[e]) < need[e] /\ pipe[e] # <<>>
      /\ pipe' = [pipe EXCEPT ![e] = Tail(@)]
      /\ taken' = [taken EXCEPT ![e] = Append(@, Head(pipe[e]))]
      /\ UNCHANGED <<open, out, need, outcome, applied, inStep>>
  BY DEF TakeMore, Receives
<1>2. /\ pipe[e] \in Seq(Piece) /\ taken[e] \in Seq(Piece) /\ Coming(e) \in Seq(Piece)
      /\ out[Peer(e)] \in Seq(Piece) /\ Peer(e) \in End /\ need[e] \in Nat
  BY StreamTypes DEF FramesInv
<1>3. Coming(e) # <<>> /\ Head(Coming(e)) = Head(pipe[e])
  BY <1>1, <1>2, TakeKeeps DEF Coming
<1>4. CASE e = "server"
  <2>1. /\ taken'["server"] = Append(taken["server"], Head(pipe["server"]))
        /\ taken'["client"] = taken["client"]
    BY <1>1, <1>4, TwoEnds DEF FramesInv, TypeOK
  <2>2. Begins(taken["server"], need["server"]) /\ Joins(taken["server"], Coming("server"))
    BY <1>1, <1>4 DEF FramesInv, ServerStream
  <2>3. Begins(Append(taken["server"], Head(Coming("server"))), need["server"])
    BY <2>2, <1>1, <1>2, <1>3, <1>4, BeginsMore
  <2>4. Begins(taken'["server"], need'["server"])
    BY <2>1, <2>3, <1>1, <1>3, <1>4
  <2> QED
    BY <2>1, <2>4, <1>1, <1>4, ServerTakes
<1>5. CASE e = "client"
  <2>1. /\ taken'["client"] = Append(taken["client"], Head(pipe["client"]))
        /\ taken'["server"] = taken["server"]
    BY <1>1, <1>5, TwoEnds DEF FramesInv, TypeOK
  <2>2. PICK n \in Nat : /\ need["client"] = n + 1
                         /\ inStep => Response(taken["client"], Coming("client"), Len(outcome), n)
    <3>1. CASE inStep
      BY <3>1, <1>1, <1>5 DEF FramesInv, ClientStream
    <3>2. CASE ~inStep
      <4>1. Len(taken["client"]) \in Nat
        BY <1>2, <1>5, LenProperties
      <4>2. need["client"] - 1 \in Nat /\ need["client"] = (need["client"] - 1) + 1
        BY <4>1, <1>1, <1>2, <1>5
      <4> QED
        BY <4>2, <3>2
    <3> QED
      BY <3>1, <3>2
  <2> QED
    BY <2>1, <2>2, <1>1, <1>5, ClientTakes
<1> QED
  BY <1>4, <1>5, TwoEnds

LEMMA FailureStep ==
  ASSUME FramesInv, TypeOK', NEW e \in End, SendFails(e) \/ Malformed(e) \/ EndOfStream(e)
  PROVE  StreamsInv'
<1>1. GiveUp(e) /\ UNCHANGED <<pipe, need, applied>>
      /\ (Malformed(e) \/ inStep' = inStep) /\ (Malformed(e) => inStep' = (inStep /\ e = "server"))
  BY DEF SendFails, Malformed, EndOfStream
<1>2. CASE e = "server"
  <2>1. inStep' = inStep
    BY <1>1, <1>2 DEF FramesInv, TypeOK
  <2> QED
    BY <2>1, <1>1, <1>2, ServerShuts DEF GiveUp
<1>3. CASE e = "client"
  <2>1. taken'["client"] = <<>> /\ out' = [out EXCEPT !["client"] = <<>>]
    BY <1>1, <1>3, TwoEnds DEF GiveUp, FramesInv, TypeOK
  <2>2. Coming("client")' = Coming("client")
    BY <2>1, <1>1, TwoEnds DEF Coming, FramesInv, TypeOK
  <2>3. Unread("client")' \subseteq Unread("client")
    BY <2>1, <2>2, NothingIsAStream DEF Unread
  <2>4. CASE Malformed("client")
    <3>1. out["client"] = <<>> /\ ~inStep'
      BY <2>4, <1>1, <1>3 DEF Malformed, Receives
    <3> QED
      BY <3>1, <2>3, <1>1, <1>3, ClientGivesUp
  <2>5. CASE ~Malformed("client") /\ inStep
    <3>1. ~open["server"] /\ inStep' = inStep
      BY <2>5, <1>1, <1>3, TwoEnds DEF SendFails, EndOfStream
    <3>2. Coming("client") = <<>>
      <4>1. CASE SendFails("client")
        <5>1. open["client"] /\ ~(Len(outcome) \in Done) /\ Len(outcome) \in Nat
          <6>1. out["client"] # <<>> /\ Len(outcome) \in Nat
            BY <4>1, OutcomeFacts DEF SendFails, FramesInv
          <6> QED
            BY <6>1, TwoEnds DEF FramesInv, SendersOpen
        <5>2. Unread("client") = {}
          BY <5>1, <2>5, InStepFacts DEF FramesInv, ClientStream
        <5>3. Coming("client") \in Seq(Piece)
          BY StreamTypes, TwoEnds DEF FramesInv
        <5> QED
          BY <5>2, <5>3, CallsOfNothing DEF Unread
      <4>2. CASE EndOfStream("client")
        <5>1. pipe["client"] = <<>> /\ out["server"] = <<>>
          BY <4>2, <3>1, TwoEnds DEF EndOfStream, FramesInv, SendersOpen
        <5> QED
          BY <5>1, NothingIsAStream, TwoEnds DEF Coming
      <4> QED
        BY <4>1, <4>2, <2>5, <1>3
    <3>3. inStep' /\ taken'["client"] = <<>> /\ Coming("client")' = <<>>
      BY <3>1, <3>2, <2>1, <2>2, <2>5
    <3> QED
      BY <3>1, <3>3, <2>3, <2>5, <1>1, <1>3, ClientGivesUp
  <2>6. CASE ~Malformed("client") /\ ~inStep
    <3>1. ~open["server"] /\ ~inStep'
      BY <2>6, <1>1, <1>3, TwoEnds DEF SendFails, EndOfStream
    <3> QED
      BY <3>1, <2>3, <1>1, <1>3, ClientGivesUp
  <2> QED
    BY <2>4, <2>5, <2>6
<1> QED
  BY <1>2, <1>3, TwoEnds

LEMMA LeaveStep ==
  ASSUME FramesInv, TypeOK', NEW e \in End, Leave(e)
  PROVE  StreamsInv'
<1>1. CASE e = "server"
  BY <1>1, ServerShuts DEF Leave
<1>2. CASE e = "client"
  <2>1. /\ ~open'["client"] /\ open'["server"] = open["server"]
        /\ out'["client"] = <<>> /\ out'["server"] = out["server"]
        /\ taken'["server"] = taken["server"] /\ Ends(-1)
        /\ UNCHANGED <<pipe, need, applied, inStep>>
    BY <1>2, TwoEnds DEF Leave, Shut, FramesInv, TypeOK
  <2>2. Done' = Done /\ Len(outcome') = Len(outcome)
    BY <2>1, EndsLast DEF Done, FramesInv
  <2>3. /\ pipe["server"] \in Seq(Piece) /\ out["client"] \in Seq(Piece)
        /\ Coming("server") = pipe["server"] \o out["client"]
    BY StreamTypes, TwoEnds DEF FramesInv, Coming
  <2>4. Coming("server")' = pipe["server"]
    BY <2>1, <2>3, TwoEnds, ConcatEmptySeq DEF Coming
  <2>5. Unread("server")' \subseteq Unread("server")
    <3>1. CallsOf(pipe["server"]) \subseteq CallsOf(Coming("server"))
      <4>1. CallsOf(pipe["server"] \o out["client"]) = CallsOf(pipe["server"]) \cup CallsOf(out["client"])
        BY <2>3, CallsOfBoth, Zenon
      <4> QED
        BY <4>1, <2>3
    <3> QED
      BY <3>1, <2>1, <2>4 DEF Unread
  <2>6. SendersOpen'
    BY <2>1, <2>2, TwoEnds, NothingIsAStream DEF FramesInv, SendersOpen
  <2>7. ASSUME open["server"] PROVE ServerStream'
    <3>1. Chain(Coming("server")) /\ Joins(taken["server"], Coming("server"))
          /\ Begins(taken["server"], need["server"]) /\ taken["server"] \in Seq(Piece)
      BY <2>7, StreamTypes, TwoEnds DEF FramesInv, ServerStream
    <3>2. Chain(pipe["server"]) /\ Joins(taken["server"], pipe["server"])
      BY <3>1, <2>3, CutStream
    <3>3. \A c \in Unread("server") : c \in 1 .. Len(outcome) /\ \A i \in Done : i < c
      BY <2>7 DEF FramesInv, ServerStream
    <3> QED
      BY <3>1, <3>2, <3>3, <2>1, <2>2, <2>4, <2>5 DEF ServerStream
  <2>8. ServerStream' /\ ClientStream'
    BY <2>1, <2>7 DEF ServerStream, ClientStream
  <2> QED
    BY <2>6, <2>8 DEF StreamsInv
<1> QED
  BY <1>1, <1>2, TwoEnds

LEMMA ResetStep ==
  ASSUME FramesInv, TypeOK', NEW e \in End, Reset(e)
  PROVE  StreamsInv'
<1>1. /\ open[e] /\ ~open[Peer(e)] /\ pipe' = [pipe EXCEPT ![e] = <<>>]
      /\ UNCHANGED <<open, out, taken, need, outcome, applied, inStep>>
  BY DEF Reset
<1>2. Peer(e) \in End /\ out[Peer(e)] = <<>> /\ pipe'[e] = <<>> /\ pipe'[Peer(e)] = pipe[Peer(e)]
  BY <1>1, TwoEnds DEF FramesInv, SendersOpen, TypeOK
<1>3. Coming(e)' = <<>>
  BY <1>1, <1>2, NothingIsAStream DEF Coming
<1>4. /\ Done' = Done /\ (Calling' <=> Calling)
      /\ Unread(e)' = CallsOf(taken[e])
  BY <1>1, <1>3, NothingIsAStream DEF Done, Calling, Unread
<1>5. SendersOpen'
  BY <1>1, <1>4 DEF FramesInv, SendersOpen
<1>6. CASE e = "server"
  <2>1. ServerStream'
    BY <1>1, <1>3, <1>4, <1>6, TwoEnds, NothingIsAStream DEF FramesInv, ServerStream, Unread
  <2>2. ClientStream'
    BY <1>1, <1>6, TwoEnds DEF ClientStream
  <2> QED
    BY <2>1, <2>2, <1>5 DEF StreamsInv
<1>7. CASE e = "client"
  <2>1. ServerStream'
    BY <1>1, <1>7, TwoEnds DEF ServerStream
  <2>2. ASSUME inStep
        PROVE  \E n \in Nat : /\ Response(taken["client"], <<>>, Len(outcome), n)
                              /\ taken["client"] # <<>> => need["client"] = n + 1
    <3>1. PICK n \in Nat : /\ Response(taken["client"], Coming("client"), Len(outcome), n)
                           /\ taken["client"] # <<>> => need["client"] = n + 1
      BY <2>2, <1>1, <1>7 DEF FramesInv, ClientStream
    <3>2. /\ Coming("client") \in Seq(Piece) /\ taken["client"] \in Seq(Piece)
          /\ Len(outcome) \in Nat /\ <<>> \in Seq(Piece)
      BY StreamTypes, TwoEnds, OutcomeFacts DEF FramesInv
    <3>3. <<>> \o Coming("client") = Coming("client")
      BY <3>2, ConcatEmptySeq
    <3>4. Response(taken["client"], <<>> \o Coming("client"), Len(outcome), n)
      BY <3>1, <3>3
    <3>5. Response(taken["client"], <<>>, Len(outcome), n)
      BY <3>2, <3>4, CutResponse, Zenon
    <3> QED
      BY <3>1, <3>5
  <2>3. CallsOf(taken["client"]) \subseteq Unread("client")
    BY DEF Unread
  <2>4. ClientStream'
    BY <2>2, <2>3, <1>1, <1>3, <1>4, <1>7, TwoEnds DEF FramesInv, ClientStream
  <2> QED
    BY <2>1, <2>4, <1>5 DEF StreamsInv
<1> QED
  BY <1>6, <1>7, TwoEnds

LEMMA ConnectStep ==
  ASSUME FramesInv, TypeOK', Connect
  PROVE  StreamsInv'
<1>1. /\ \A e \in End : out'[e] = <<>> /\ pipe'[e] = <<>> /\ taken'[e] = <<>> /\ open'[e]
      /\ UNCHANGED <<outcome, applied>>
  BY DEF Connect, Nothing
<1>2. \A e \in End : Coming(e)' = <<>>
  BY <1>1, TwoEnds, NothingIsAStream DEF Coming
<1>3. \A e \in End : Unread(e)' = {}
  BY <1>1, <1>2, NothingIsAStream DEF Unread
<1>4. SendersOpen'
  BY <1>1, TwoEnds, NothingIsAStream DEF FramesInv, SendersOpen, Done
<1>5. ServerStream'
  BY <1>1, <1>2, <1>3, TwoEnds, NothingIsAStream DEF ServerStream
<1>6. ClientStream'
  <2>1. Response(<<>>, <<>>, Len(outcome), 0)
    BY OutcomeFacts, NoResponse DEF FramesInv
  <2> QED
    BY <2>1, <1>1, <1>2, <1>3, TwoEnds DEF ClientStream
<1> QED
  BY <1>4, <1>5, <1>6 DEF StreamsInv

LEMMA CallStep ==
  ASSUME FramesInv, TypeOK', NEW m \in Size, Call(m)
  PROVE  StreamsInv'
<1> DEFINE i == Len(outcome) + 1
           t == taken["server"]
           r == Coming("server")
<1>1. /\ open["client"] /\ ~Calling /\ outcome' = Append(outcome, 0)
      /\ out' = [out EXCEPT !["client"] = Frame(Len(outcome'), m)]
      /\ UNCHANGED <<open, pipe, taken, need, applied, inStep>>
  BY DEF Call
<1>2. Len(outcome) \in Nat /\ i \in Nat /\ Len(outcome') = i /\ Calling'
  <2>1. outcome \in Seq(Int) /\ Len(outcome) \in Nat
    BY OutcomeFacts DEF FramesInv, TypeOK
  <2> QED
    BY <2>1, <1>1, AppendProperties DEF Calling
<1>3. m \in Nat /\ Frame(i, m) \in Seq(Piece) /\ CallsOf(Frame(i, m)) = {i}
  BY <1>2, FrameType, FrameFacts
<1>4. /\ out["client"] = <<>> /\ out'["client"] = Frame(i, m) /\ out'["server"] = out["server"]
      /\ Done' = Done /\ Done \subseteq 1 .. Len(outcome)
  <2>1. out["client"] = <<>> /\ Done \subseteq 1 .. Len(outcome)
    BY <1>1 DEF FramesInv, SendersOpen
  <2>2. out'["client"] = Frame(i, m) /\ out'["server"] = out["server"]
    BY <1>1, <1>2, TwoEnds DEF FramesInv, TypeOK
  <2>3. Done' = Done
    BY <1>1 DEF Done
  <2> QED
    BY <2>1, <2>2, <2>3
<1>5. /\ t \in Seq(Piece) /\ r \in Seq(Piece) /\ pipe["server"] \in Seq(Piece)
      /\ r = pipe["server"]
  <2>1. t \in Seq(Piece) /\ r \in Seq(Piece) /\ pipe["server"] \in Seq(Piece)
    BY StreamTypes, TwoEnds DEF FramesInv
  <2>2. r = pipe["server"] \o <<>>
    BY <1>4, TwoEnds DEF Coming
  <2> QED
    BY <2>1, <2>2, ConcatEmptySeq
<1>6. Coming("server")' = r \o Frame(i, m) /\ Coming("client")' = Coming("client")
  BY <1>1, <1>4, <1>5, TwoEnds DEF Coming
<1>7. Unread("server")' = Unread("server") \cup {i} /\ Unread("client")' = Unread("client")
  <2>1. CallsOf(r \o Frame(i, m)) = CallsOf(r) \cup {i}
    BY <1>3, <1>5, CallsOfBoth
  <2> QED
    BY <2>1, <1>1, <1>6 DEF Unread
<1>8. SendersOpen'
  <2>1. \A e \in End : out'[e] # <<>> => open'[e]
    BY <1>1, <1>4, TwoEnds DEF FramesInv, SendersOpen
  <2>2. \A d \in Done : d \in 1 .. i /\ d < i
    BY <1>2, <1>4
  <2> QED
    BY <2>1, <2>2, <1>2, <1>3, <1>4 DEF SendersOpen
<1>9. ASSUME open["server"] PROVE ServerStream'
  <2>1. /\ Begins(t, need["server"]) /\ Chain(r) /\ Joins(t, r) /\ Ended(t, r)
        /\ \A c \in Unread("server") : c \in 1 .. Len(outcome) /\ \A d \in Done : d < c
    BY <1>1, <1>9 DEF FramesInv, ServerStream
  <2>2. \A c \in CallsOf(t) \cup CallsOf(r) : c < i
    BY <2>1, <1>2 DEF Unread
  <2> HIDE DEF t, r, i
  <2>3. Chain(r \o Frame(i, m)) /\ Joins(t, r \o Frame(i, m)) /\ Ended(t, r \o Frame(i, m))
    BY <2>1, <2>2, <1>2, <1>3, <1>5, CallStream, Zenon
  <2>4. \A c \in Unread("server") \cup {i} : c \in 1 .. i /\ \A d \in Done : d < c
    BY <2>1, <1>2, <1>4 DEF i
  <2> QED
    BY <2>1, <2>3, <2>4, <1>1, <1>2, <1>4, <1>6, <1>7 DEF ServerStream, t
<1>10. ClientStream'
  <2>1. Unread("client")' \subseteq Done'
    BY <1>1, <1>4, <1>7 DEF FramesInv, ClientStream
  <2>2. ASSUME inStep
        PROVE  /\ Unread("client") = {} /\ taken["client"] = <<>> /\ Coming("client") = <<>>
               /\ open["server"] => Unread("server") = {}
    <3>1. Unread("client") = {} /\ (open["server"] => Unread("server") = {})
      BY <2>2, <1>1 DEF FramesInv, ClientStream
    <3>2. taken["client"] \in Seq(Piece) /\ Coming("client") \in Seq(Piece)
      BY StreamTypes, TwoEnds DEF FramesInv
    <3> QED
      BY <3>1, <3>2, CallsOfNothing DEF Unread
  <2>3. Response(<<>>, <<>>, i, 0)
    BY <1>2, NoResponse
  <2>4. ASSUME inStep'
        PROVE  /\ Response(taken["client"]', Coming("client")', Len(outcome'), 0)
               /\ taken["client"]' = <<>> /\ Unread("client")' = {}
               /\ open["server"]' => Unread("server")' = {Len(outcome')}
    BY <2>2, <2>3, <2>4, <1>1, <1>2, <1>6, <1>7
  <2> QED
    BY <2>1, <2>4, <1>2 DEF ClientStream
<1>11. ServerStream'
  <2>1. CASE open["server"]
    BY <2>1, <1>9
  <2>2. CASE ~open["server"]
    BY <2>2, <1>1 DEF ServerStream
  <2> QED
    BY <2>1, <2>2
<1> QED
  BY <1>8, <1>10, <1>11 DEF StreamsInv

LEMMA AnsweredStep ==
  ASSUME FramesInv, TypeOK', Answered
  PROVE  StreamsInv'
<1> DEFINE t == taken["client"]
<1>1. /\ open["client"] /\ out["client"] = <<>> /\ t # <<>> /\ Len(t) = need["client"]
      /\ Ends(t[1].call) /\ taken' = [taken EXCEPT !["client"] = <<>>]
      /\ UNCHANGED <<open, out, pipe, need, applied, inStep>>
  BY DEF Answered, Receives, Complete
<1>2. t \in Seq(Piece) /\ Coming("client") \in Seq(Piece) /\ Len(outcome) \in Nat
  BY StreamTypes, TwoEnds, OutcomeFacts DEF FramesInv
<1>3. t[1].call \in Int
  <2>1. t[1] \in Piece
    BY <1>1, <1>2, EmptySeq, ElementOfSeq
  <2> QED
    BY <2>1 DEF Piece
<1>4. Done' = Done /\ Len(outcome') = Len(outcome)
  BY <1>1, <1>3, EndsLast DEF Done, FramesInv
<1>5. /\ taken'["client"] = <<>> /\ taken'["server"] = taken["server"]
      /\ Coming("client")' = Coming("client") /\ Coming("server")' = Coming("server")
  BY <1>1, TwoEnds DEF FramesInv, TypeOK, Coming
<1>6. Unread("server")' = Unread("server") /\ Unread("client")' = CallsOf(Coming("client"))
  BY <1>5, NothingIsAStream DEF Unread
<1>7. SendersOpen'
  BY <1>1, <1>4, NothingIsAStream DEF FramesInv, SendersOpen
<1>8. ServerStream'
  BY <1>1, <1>4, <1>5, <1>6 DEF FramesInv, ServerStream
<1>9. ClientStream'
  <2>1. Unread("client")' \subseteq Done'
    BY <1>1, <1>4, <1>6 DEF FramesInv, ClientStream, Unread
  <2>2. ASSUME inStep
        PROVE  Coming("client") = <<>> /\ (open["server"] => Unread("server") = {})
    <3>1. PICK n \in Nat : /\ Response(t, Coming("client"), Len(outcome), n)
                           /\ t # <<>> => need["client"] = n + 1
      BY <2>2, <1>1 DEF FramesInv, ClientStream
    <3>2. Coming("client") = <<>>
      BY <3>1, <1>1, <1>2, WholeResponse
    <3>3. Unread("client") # {}
      BY <1>1, <1>2, CallsOfNothing DEF Unread
    <3> QED
      BY <3>2, <3>3, <2>2, <1>1, InStepFacts
  <2>3. Response(<<>>, <<>>, Len(outcome), 0)
    BY <1>2, NoResponse
  <2>4. ASSUME inStep'
        PROVE  /\ Response(taken["client"]', Coming("client")', Len(outcome'), 0)
               /\ taken["client"]' = <<>> /\ Unread("client")' = {}
               /\ open["server"]' => Unread("server")' = {}
    BY <2>2, <2>3, <2>4, <1>1, <1>4, <1>5, <1>6, NothingIsAStream
  <2> QED
    BY <2>1, <2>4 DEF ClientStream
<1> QED
  BY <1>7, <1>8, <1>9 DEF StreamsInv

\* The request that is served is the oldest that the server can still read.
LEMMA Served ==
  ASSUME FramesInv, open["server"], Complete("server")
  PROVE  LET c == taken["server"][1].call
         IN  /\ c \in 1 .. Len(outcome) /\ c \in Unread("server") /\ \A d \in Done : d < c
             /\ Joins(<<>>, Coming("server")) /\ \A x \in CallsOf(Coming("server")) : c < x
             /\ open["client"] => Ended(<<>>, Coming("server"))
<1> DEFINE t == taken["server"]
           r == Coming("server")
<1>1. t \in Seq(Piece) /\ r \in Seq(Piece) /\ need["server"] \in Nat
  BY StreamTypes, TwoEnds DEF FramesInv
<1>2. t # <<>> /\ Len(t) = need["server"]
  BY DEF Complete
<1>3. /\ Begins(t, need["server"]) /\ Chain(r) /\ Joins(t, r) /\ (open["client"] => Ended(t, r))
      /\ \A c \in Unread("server") : c \in 1 .. Len(outcome) /\ \A d \in Done : d < c
  BY DEF FramesInv, ServerStream
<1> HIDE DEF t, r
<1>4. /\ t[1] \in Piece /\ t[1].call \in CallsOf(t)
      /\ Joins(<<>>, r) /\ \A c \in CallsOf(r) : t[1].call < c
      /\ Ended(t, r) => Ended(<<>>, r)
  BY <1>1, <1>2, <1>3, ServeStream
<1>5. t[1].call \in Unread("server")
  BY <1>4 DEF Unread, t
<1> QED
  BY <1>3, <1>4, <1>5 DEF t, r

LEMMA ServeStep ==
  ASSUME FramesInv, TypeOK', NEW m \in Size, Serve(m)
  PROVE  StreamsInv'
<1>1. PICK c : c = taken["server"][1].call
  OBVIOUS
<1>2. /\ open["server"] /\ out["server"] = <<>> /\ Complete("server")
      /\ applied' = Append(applied, c)
      /\ out' = [out EXCEPT !["server"] = Frame(c, m)]
      /\ taken' = [taken EXCEPT !["server"] = <<>>]
      /\ UNCHANGED <<open, pipe, need, outcome, inStep>>
  BY <1>1 DEF Serve, Receives
<1>3. /\ c \in 1 .. Len(outcome) /\ c \in Unread("server") /\ \A d \in Done : d < c
      /\ Joins(<<>>, Coming("server")) /\ \A x \in CallsOf(Coming("server")) : c < x
      /\ open["client"] => Ended(<<>>, Coming("server"))
  BY <1>1, <1>2, Served
<1>4. c \in Nat /\ m \in Nat /\ Frame(c, m) \in Seq(Piece) /\ CallsOf(Frame(c, m)) = {c}
      /\ Len(outcome) \in Nat
  <2>1. c \in Nat /\ Len(outcome) \in Nat
    BY <1>3, OutcomeFacts DEF FramesInv
  <2> QED
    BY <2>1, FrameType, FrameFacts
<1>5. Done' = Done \cup {c}
  <2>1. /\ applied \in Seq(Nat) /\ Len(applied) \in Nat /\ DOMAIN applied = 1 .. Len(applied)
    BY LenProperties DEF FramesInv, TypeOK
  <2>2. /\ DOMAIN applied' = 1 .. Len(applied) + 1 /\ applied'[Len(applied) + 1] = c
        /\ \A k \in 1 .. Len(applied) : applied'[k] = applied[k]
    <3>1. /\ applied' \in Seq(Nat) /\ Len(applied') = Len(applied) + 1
          /\ applied'[Len(applied) + 1] = c
          /\ \A k \in 1 .. Len(applied) : applied'[k] = applied[k]
      BY <2>1, <1>2, <1>4, AppendProperties
    <3> QED
      BY <3>1, LenProperties
  <2>3. Done' = {applied'[k] : k \in 1 .. Len(applied) + 1}
    BY <2>2 DEF Done
  <2>4. Done = {applied[k] : k \in 1 .. Len(applied)}
    BY <2>1 DEF Done
  <2> QED
    BY <2>1, <2>2, <2>3, <2>4
<1>6. /\ taken'["server"] = <<>> /\ taken'["client"] = taken["client"]
      /\ out'["server"] = Frame(c, m) /\ out'["client"] = out["client"]
  BY <1>2, TwoEnds DEF FramesInv, TypeOK
<1>7. /\ pipe["client"] \in Seq(Piece) /\ Coming("client") = pipe["client"]
      /\ pipe["server"] \in Seq(Piece) /\ out["client"] \in Seq(Piece)
      /\ taken["client"] \in Seq(Piece)
  <2>1. /\ pipe["client"] \in Seq(Piece) /\ pipe["server"] \in Seq(Piece)
        /\ out["client"] \in Seq(Piece) /\ taken["client"] \in Seq(Piece)
    BY StreamTypes, TwoEnds DEF FramesInv
  <2>2. Coming("client") = pipe["client"] \o <<>>
    BY <1>2, TwoEnds DEF Coming
  <2> QED
    BY <2>1, <2>2, ConcatEmptySeq
<1>8. Coming("client")' = pipe["client"] \o Frame(c, m) /\ Coming("server")' = Coming("server")
  BY <1>2, <1>6, TwoEnds DEF Coming
<1>9. /\ Unread("client")' = Unread("client") \cup {c}
      /\ Unread("server")' = CallsOf(Coming("server"))
  <2>1. CallsOf(pipe["client"] \o Frame(c, m)) = CallsOf(pipe["client"]) \cup {c}
    BY <1>4, <1>7, CallsOfBoth
  <2> QED
    BY <2>1, <1>6, <1>7, <1>8, NothingIsAStream DEF Unread
<1>10. SendersOpen'
  <2>1. \A e \in End : out'[e] # <<>> => open'[e]
    BY <1>2, <1>6, TwoEnds DEF FramesInv, SendersOpen
  <2>2. ASSUME out["client"] # <<>> PROVE Calling /\ \A d \in Done \cup {c} : d < Len(outcome)
    <3>1. CallsOf(out["client"]) # {} /\ CallsOf(out["client"]) \subseteq {Len(outcome)}
      BY <2>2, <1>7, CallsOfNothing DEF FramesInv, SendersOpen
    <3>2. CallsOf(out["client"]) \subseteq CallsOf(Coming("server"))
      BY <1>7, CallsOfBoth, TwoEnds DEF Coming
    <3>3. c < Len(outcome)
      BY <3>1, <3>2, <1>3
    <3> QED
      BY <3>3, <2>2 DEF FramesInv, SendersOpen
  <2>3. Calling' <=> Calling
    BY <1>2 DEF Calling
  <2>4. CallsOf(out["client"]) \subseteq {Len(outcome)} /\ Done \subseteq 1 .. Len(outcome)
    BY DEF FramesInv, SendersOpen
  <2> QED
    BY <2>1, <2>2, <2>3, <2>4, <1>2, <1>3, <1>5, <1>6 DEF SendersOpen
<1>11. ServerStream'
  <2>1. \A x \in CallsOf(Coming("server")) : x \in 1 .. Len(outcome) /\ \A d \in Done \cup {c} : d < x
    BY <1>2, <1>3 DEF FramesInv, ServerStream, Unread
  <2>2. Chain(Coming("server"))
    BY <1>2 DEF FramesInv, ServerStream
  <2> QED
    BY <2>1, <2>2, <1>2, <1>3, <1>5, <1>6, <1>8, <1>9, NothingIsAStream DEF ServerStream
<1>12. ASSUME open["client"] PROVE ClientStream'
  <2>1. Unread("client")' \subseteq Done'
    BY <1>5, <1>9, <1>12 DEF FramesInv, ClientStream
  <2>2. ASSUME inStep
        PROVE  /\ c = Len(outcome) /\ Calling /\ taken["client"] = <<>> /\ pipe["client"] = <<>>
               /\ CallsOf(Coming("server")) = {}
    <3>1. Calling /\ Unread("server") = {Len(outcome)}
      BY <2>2, <1>2, <1>3, <1>12 DEF FramesInv, ClientStream
    <3>2. c = Len(outcome)
      BY <3>1, <1>3
    <3>3. Unread("client") = {}
      BY <2>2, <1>2, <1>3, <1>12, InStepFacts
    <3>4. CallsOf(Coming("server")) = {}
      <4> SUFFICES ASSUME NEW x \in CallsOf(Coming("server")) PROVE FALSE
        OBVIOUS
      <4>1. c < x /\ x = Len(outcome)
        BY <3>1, <1>3 DEF Unread
      <4> QED
        BY <4>1, <3>2, <1>4
    <3> QED
      BY <3>1, <3>2, <3>3, <3>4, <1>7, CallsOfNothing DEF Unread
  <2>3. ASSUME inStep'
        PROVE  /\ Response(taken["client"]', Coming("client")', Len(outcome'), m)
               /\ taken["client"]' = <<>> /\ Calling'
               /\ Unread("server")' = {}
    <3>1. inStep /\ (Calling' <=> Calling)
      BY <2>3, <1>2 DEF Calling
    <3>2. Coming("client")' = Frame(Len(outcome), m)
      BY <3>1, <2>2, <1>4, <1>8, ConcatEmptySeq
    <3>3. Response(<<>>, Frame(Len(outcome), m), Len(outcome), m)
      BY <1>4, NewResponse
    <3> QED
      BY <3>1, <3>2, <3>3, <2>2, <1>2, <1>6, <1>9
  <2> QED
    BY <2>1, <2>3, <1>4 DEF ClientStream
<1>13. ClientStream'
  <2>1. CASE open["client"]
    BY <2>1, <1>12
  <2>2. CASE ~open["client"]
    BY <2>2, <1>2 DEF ClientStream
  <2> QED
    BY <2>1, <2>2
<1> QED
  BY <1>10, <1>11, <1>13 DEF StreamsInv

-----------------------------------------------------------------------------
(* The theorems.                                                           *)

LEMMA FramesStep == FramesInv /\ [Next]_frameVars => FramesInv'
<1> SUFFICES ASSUME FramesInv, [Next]_frameVars PROVE FramesInv'
  OBVIOUS
<1>1. CASE Next
  <2>1. TypeOK' /\ OnlyLastWaits'
    BY <1>1, TypeStep DEF FramesInv
  <2>2. ASSUME NEW e \in End, EndStep(e) PROVE StreamsInv'
    BY <2>1, <2>2, PushStep, FailureStep, TakeHeaderStep, TakeMoreStep DEF EndStep
  <2>3. ASSUME Answered PROVE StreamsInv'
    BY <2>1, <2>3, AnsweredStep
  <2>4. ASSUME NEW m \in Size, Serve(m) PROVE StreamsInv'
    BY <2>1, <2>4, ServeStep
  <2>5. ASSUME Connect PROVE StreamsInv'
    BY <2>1, <2>5, ConnectStep
  <2>6. ASSUME NEW e \in End, Leave(e) \/ Reset(e) PROVE StreamsInv'
    BY <2>1, <2>6, LeaveStep, ResetStep
  <2>7. ASSUME NEW m \in Size, Call(m) PROVE StreamsInv'
    BY <2>1, <2>7, CallStep
  <2>8. StreamsInv'
    BY <1>1, <2>2, <2>3, <2>4, <2>5, <2>6, <2>7 DEF Next, Step
  <2> QED
    BY <2>1, <2>8 DEF FramesInv, StreamsInv
<1>2. CASE UNCHANGED frameVars
  <2>1. UNCHANGED <<open, out, pipe, taken, need, outcome, applied, inStep>>
    BY <1>2 DEF frameVars
  <2>2. TypeOK' /\ OnlyLastWaits'
    BY <2>1 DEF FramesInv, TypeOK, OnlyLastWaits
  <2>3. /\ Coming("client")' = Coming("client") /\ Coming("server")' = Coming("server")
        /\ Done' = Done /\ (Calling' <=> Calling)
    BY <2>1 DEF Coming, Done, Calling
  <2>4. Unread("client")' = Unread("client") /\ Unread("server")' = Unread("server")
    BY <2>1, <2>3 DEF Unread
  <2>5. SendersOpen'
    BY <2>1, <2>3 DEF FramesInv, SendersOpen
  <2>6. ServerStream'
    BY <2>1, <2>3, <2>4 DEF FramesInv, ServerStream
  <2>7. ClientStream'
    BY <2>1, <2>3, <2>4 DEF FramesInv, ClientStream
  <2> QED
    BY <2>2, <2>5, <2>6, <2>7 DEF FramesInv
<1> QED
  BY <1>1, <1>2

\* Of the bytes between the two ends: the server finds in its stream whole
\* frames of later and later calls, none carried out yet, and a client that is
\* in step finds in its own nothing but the response it waits for
\* (net.cpp:42-136, 161-188 and 343-352).
THEOREM FramesInvariant == Spec => []FramesInv
<1>1. Init => FramesInv
  BY FramesInit
<1>2. FramesInv /\ [Next]_frameVars => FramesInv'
  BY FramesStep
<1> QED
  BY <1>1, <1>2, PTL DEF Spec

\* The steps of the frames, seen as steps of the calls.
LEMMA FailsOrStays ==
  ASSUME FramesInv, Ends(-1), inStep' \in {inStep, FALSE}, applied' = applied,
         Calling \/ inStep' = inStep
  PROVE  [Calls!Next]_(Calls!exchangeVars)
<1>1. CASE Calling
  <2>1. Calls!Fail(Len(outcome))
    BY <1>1, OutcomeFacts DEF FramesInv, Ends, Calling, Calls!Fail, Calls!Waits
  <2> QED
    BY <2>1, <1>1, OutcomeFacts DEF FramesInv, Calls!Next
<1>2. CASE ~Calling
  BY <1>2 DEF Ends, Calls!exchangeVars
<1> QED
  BY <1>1, <1>2

LEMMA GivesUpOrStays ==
  ASSUME FramesInv, NEW e \in End, GiveUp(e), applied' = applied,
         inStep' = inStep \/ inStep' = (inStep /\ e = "server"),
         e = "client" => Calling \/ inStep' = inStep
  PROVE  [Calls!Next]_(Calls!exchangeVars)
<1>1. CASE e = "client"
  <2>1. Ends(-1) /\ inStep' \in {inStep, FALSE}
    BY <1>1 DEF GiveUp, FramesInv, TypeOK
  <2> QED
    BY <2>1, <1>1, FailsOrStays
<1>2. CASE e = "server"
  <2>1. UNCHANGED <<outcome, applied, inStep>>
    BY <1>2 DEF GiveUp, FramesInv, TypeOK
  <2> QED
    BY <2>1 DEF Calls!exchangeVars
<1> QED
  BY <1>1, <1>2, TwoEnds

LEMMA CallsStep ==
  ASSUME FramesInv, Next
  PROVE  [Calls!Next]_(Calls!exchangeVars)
<1>1. ASSUME NEW e \in End, Push(e) PROVE [Calls!Next]_(Calls!exchangeVars)
  BY <1>1 DEF Push, Calls!exchangeVars
<1>2. ASSUME NEW e \in End, SendFails(e) PROVE [Calls!Next]_(Calls!exchangeVars)
  BY <1>2, GivesUpOrStays DEF SendFails
<1>3. ASSUME NEW e \in End, TakeHeader(e) PROVE [Calls!Next]_(Calls!exchangeVars)
  <2>1. PICK n \in LengthIn(Head(pipe[e])) :
          IF TooLarge(n)
          THEN /\ GiveUp(e)
               /\ inStep' = (inStep /\ e = "server")
               /\ UNCHANGED need
          ELSE /\ taken' = [taken EXCEPT ![e] = <<Head(pipe[e])>>]
               /\ need' = [need EXCEPT ![e] = n + 1]
               /\ UNCHANGED <<open, out, outcome, inStep>>
    BY <1>3 DEF TakeHeader
  <2>2. applied' = applied /\ (e = "client" => Calling)
    BY <1>3 DEF TakeHeader, Receives
  <2>3. CASE TooLarge(n)
    BY <2>1, <2>2, <2>3, GivesUpOrStays
  <2>4. CASE ~TooLarge(n)
    BY <2>1, <2>2, <2>4 DEF Calls!exchangeVars
  <2> QED
    BY <2>3, <2>4
<1>4. ASSUME NEW e \in End, TakeMore(e) PROVE [Calls!Next]_(Calls!exchangeVars)
  BY <1>4 DEF TakeMore, Calls!exchangeVars
<1>5. ASSUME NEW e \in End, Malformed(e) PROVE [Calls!Next]_(Calls!exchangeVars)
  BY <1>5, GivesUpOrStays DEF Malformed, Receives
<1>6. ASSUME NEW e \in End, EndOfStream(e) PROVE [Calls!Next]_(Calls!exchangeVars)
  BY <1>6, GivesUpOrStays DEF EndOfStream
<1>7. ASSUME Answered PROVE Calls!Answer(Len(outcome)) /\ Len(outcome) \in DOMAIN outcome
  <2>1. PICK c : c = taken["client"][1].call
    OBVIOUS
  <2>2. /\ open["client"] /\ Calling /\ taken["client"] # <<>> /\ Ends(c)
        /\ UNCHANGED <<applied, inStep>>
    BY <1>7, <2>1 DEF Answered, Receives, Complete
  <2>3. outcome' = [outcome EXCEPT ![Len(outcome)] = c]
    BY <2>2 DEF Ends
  <2>4. c \in Unread("client")
    <3>1. 1 \in DOMAIN taken["client"]
      BY <2>2, StreamTypes, TwoEnds, EmptySeq, LenProperties DEF FramesInv
    <3> QED
      BY <3>1, <2>1 DEF Unread, CallsOf
  <2>5. PICK k \in DOMAIN applied : applied[k] = c
    BY <2>2, <2>4 DEF FramesInv, ClientStream, Done
  <2>6. inStep => c = Len(outcome)
    BY <2>2, <2>4, InStepFacts
  <2>7. Len(outcome) \in DOMAIN outcome /\ outcome[Len(outcome)] = 0
    BY <2>2, OutcomeFacts DEF FramesInv, Calling
  <2> QED
    BY <2>2, <2>3, <2>5, <2>6, <2>7 DEF Calls!Answer, Calls!Waits
<1>8. ASSUME NEW m \in Size, Serve(m)
      PROVE  \E i \in DOMAIN outcome : Calls!Apply(i)
  <2>1. PICK c : c = taken["server"][1].call
    OBVIOUS
  <2>2. /\ open["server"] /\ Complete("server") /\ applied' = Append(applied, c)
        /\ UNCHANGED <<outcome, inStep>>
    BY <1>8, <2>1 DEF Serve, Receives
  <2>3. c \in DOMAIN outcome /\ \A d \in Done : d < c
    BY <2>1, <2>2, Served, OutcomeFacts DEF FramesInv
  <2>4. Calls!Apply(c)
    BY <2>2, <2>3 DEF Done, Calls!Apply
  <2> QED
    BY <2>3, <2>4
<1>9. ASSUME Connect PROVE Calls!Connect
  BY <1>9 DEF Connect, Calls!Connect
<1>10. ASSUME NEW e \in End, Leave(e) PROVE [Calls!Next]_(Calls!exchangeVars)
  <2>1. CASE e = "client"
    BY <1>10, <2>1, FailsOrStays DEF Leave
  <2>2. CASE e # "client"
    BY <1>10, <2>2 DEF Leave, Calls!exchangeVars
  <2> QED
    BY <2>1, <2>2
<1>11. ASSUME NEW e \in End, Reset(e) PROVE [Calls!Next]_(Calls!exchangeVars)
  BY <1>11 DEF Reset, Calls!exchangeVars
<1>12. ASSUME NEW m \in Size, Call(m) PROVE Calls!Ask
  <2>1. ASSUME NEW i \in DOMAIN outcome, outcome[i] = 0 PROVE FALSE
    <3>1. i = Len(outcome)
      BY <2>1 DEF FramesInv, OnlyLastWaits
    <3>2. outcome # <<>>
      OBVIOUS
    <3> QED
      BY <3>1, <3>2, <2>1, <1>12 DEF Call, Calling
  <2> QED
    BY <2>1, <1>12 DEF Call, Calls!Ask, Calls!Waits
<1> QED
  BY <1>1, <1>2, <1>3, <1>4, <1>5, <1>6, <1>7, <1>8, <1>9, <1>10, <1>11, <1>12
  DEF Next, Step, EndStep, Calls!Next

\* Frames.tla implements Exchange.tla: over any number of connections, with
\* messages of any lengths and a break between any two of their pieces, no
\* request is carried out in part, twice or out of order, and an answer that a
\* client in step receives is that of the call it made (net.cpp:161-188 and
\* 343-352).
THEOREM CallsAreExchangesOnTheWire == Spec => CallsAreExchanges
<1>1. Init => Calls!Init
  BY DEF Init, Calls!Init
<1>2. FramesInv /\ [Next]_frameVars => [Calls!Next]_(Calls!exchangeVars)
  <2> SUFFICES ASSUME FramesInv, [Next]_frameVars PROVE [Calls!Next]_(Calls!exchangeVars)
    OBVIOUS
  <2>1. CASE Next
    BY <2>1, CallsStep
  <2>2. CASE UNCHANGED frameVars
    BY <2>2 DEF frameVars, Calls!exchangeVars
  <2> QED
    BY <2>1, <2>2
<1>3. Spec => []FramesInv
  BY FramesInvariant
<1> QED
  BY <1>1, <1>2, <1>3, PTL DEF Spec, CallsAreExchanges, Calls!Spec

=============================================================================
