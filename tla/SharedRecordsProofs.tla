------------------------ MODULE SharedRecordsProofs ------------------------
(***************************************************************************)
(* What a thread may rely on that reads through a pointer find_profile     *)
(* gave it, for every set of threads, identities and payloads              *)
(* (SharedRecords.tla).                                                    *)
(***************************************************************************)
EXTENDS SharedRecords, SequenceTheorems, TLAPS

-----------------------------------------------------------------------------
(* What a call of the registry does to a history.                          *)

WellFormed(hist) == \A i \in DOMAIN hist : /\ hist[i].generation = i
                                           /\ hist[i].active => i = Len(hist)

\* It grows, and of what it holds only the flag changes, which is not set
\* again.
Grown(old, new) ==
    /\ new \in Seq(P!Record) /\ WellFormed(new)
    /\ Len(old) <= Len(new)
    /\ \A i \in DOMAIN old : /\ Version(new[i]) = Version(old[i])
                             /\ new[i].active => old[i].active

LEMMA SeqFacts ==
    ASSUME NEW S, NEW s \in Seq(S)
    PROVE  Len(s) \in Nat /\ DOMAIN s = 1 .. Len(s) /\ \A i \in DOMAIN s : s[i] \in S
OBVIOUS

LEMMA StandingGrows ==
    ASSUME NEW hist \in Seq(P!Record), WellFormed(hist) PROVE Grown(hist, hist)
BY SeqFacts DEF Grown

LEMMA RetireGrows ==
    ASSUME NEW hist \in Seq(P!Record), WellFormed(hist)
    PROVE  /\ Grown(hist, P!Retire(hist))
           /\ Len(P!Retire(hist)) = Len(hist)
           /\ \A i \in DOMAIN hist : P!Retire(hist)[i].active = FALSE
<1> DEFINE n == Len(hist)
           out == [i \in 1 .. n |-> [hist[i] EXCEPT !.active = FALSE]]
<1>1. n \in Nat /\ DOMAIN hist = 1 .. n /\ \A i \in 1 .. n : hist[i] \in P!Record
  BY SeqFacts
<1>2. P!Retire(hist) = out
  BY <1>1 DEF P!Retire
<1>3. \A i \in 1 .. n : [hist[i] EXCEPT !.active = FALSE] \in P!Record
  BY <1>1 DEF P!Record
<1>4. out \in Seq(P!Record) /\ Len(out) = n
  <2>1. out \in [1 .. n -> P!Record]
    BY <1>3
  <2>. QED  BY <1>1, <2>1, SeqDef
<1>5. \A i \in 1 .. n : /\ out[i].content = hist[i].content
                        /\ out[i].generation = hist[i].generation
                        /\ out[i].active = FALSE
  BY <1>1 DEF P!Record
<1>6. WellFormed(out)
  BY <1>1, <1>5 DEF WellFormed
<1>. QED  BY <1>1, <1>2, <1>4, <1>5, <1>6 DEF Grown, Version

LEMMA NewGenerationGrows ==
    ASSUME NEW hist \in Seq(P!Record), WellFormed(hist),
           NEW c \in P!Content, NEW isActive \in BOOLEAN
    PROVE  Grown(hist, P!NewGeneration(hist, c, isActive))
<1> DEFINE n == Len(hist)
           rec == [content |-> c, generation |-> P!NextGeneration(hist), active |-> isActive]
           out == Append(P!Retire(hist), rec)
<1>1. n \in Nat /\ DOMAIN hist = 1 .. n
  BY SeqFacts
<1>2. P!NextGeneration(hist) = n + 1
  BY <1>1 DEF P!NextGeneration, P!Latest, WellFormed
<1>3. rec = [content |-> c, generation |-> n + 1, active |-> isActive]
  BY <1>2
<1>4. P!NewGeneration(hist, c, isActive) = out
  BY DEF P!NewGeneration
<1> HIDE DEF rec
<1>3a. rec \in P!Record /\ rec.generation = n + 1
  BY <1>1, <1>3 DEF P!Record
<1>5. /\ P!Retire(hist) \in Seq(P!Record) /\ Len(P!Retire(hist)) = n
      /\ \A i \in 1 .. n : /\ P!Retire(hist)[i].active = FALSE
                           /\ Version(P!Retire(hist)[i]) = Version(hist[i])
      /\ \A i \in 1 .. n : P!Retire(hist)[i].generation = i
  <2>1. /\ P!Retire(hist) \in Seq(P!Record) /\ WellFormed(P!Retire(hist))
        /\ Len(P!Retire(hist)) = n
        /\ \A i \in 1 .. n : /\ P!Retire(hist)[i].active = FALSE
                             /\ Version(P!Retire(hist)[i]) = Version(hist[i])
    BY <1>1, RetireGrows DEF Grown
  <2>2. DOMAIN P!Retire(hist) = 1 .. n
    BY <1>1, <2>1, SeqFacts
  <2>. QED  BY <2>1, <2>2 DEF WellFormed
<1>6. /\ out \in Seq(P!Record) /\ Len(out) = n + 1 /\ out[n + 1] = rec
      /\ \A i \in 1 .. n : out[i] = P!Retire(hist)[i]
  BY <1>3a, <1>5, AppendProperties
<1>7. DOMAIN out = 1 .. n + 1
  BY <1>1, <1>6, SeqFacts
<1>8. WellFormed(out)
  <2> SUFFICES ASSUME NEW i \in 1 .. n + 1
               PROVE  out[i].generation = i /\ (out[i].active => i = n + 1)
    BY <1>6, <1>7 DEF WellFormed
  <2>1. CASE i = n + 1
    BY <1>3a, <1>6, <2>1
  <2>2. CASE i \in 1 .. n
    BY <1>5, <1>6, <2>2
  <2>3. i = n + 1 \/ i \in 1 .. n
    BY <1>1
  <2>. QED  BY <2>1, <2>2, <2>3
<1>9. \A i \in DOMAIN hist : Version(out[i]) = Version(hist[i]) /\ out[i].active = FALSE
  BY <1>1, <1>5, <1>6
<1>. QED  BY <1>1, <1>4, <1>6, <1>8, <1>9 DEF Grown

\* The newest record in use of a history is its last one.
LEMMA ResolvedFacts ==
    ASSUME NEW hist \in Seq(P!Record), WellFormed(hist)
    PROVE  \/ /\ P!NewestActive(hist) = {}
              /\ \A i \in DOMAIN hist : ~hist[i].active
           \/ /\ Len(hist) \in DOMAIN hist /\ hist[Len(hist)].active
              /\ P!NewestActive(hist) = {hist[Len(hist)]}
<1>1. Len(hist) \in Nat /\ DOMAIN hist = 1 .. Len(hist)
  BY SeqFacts
<1>2. CASE \A i \in DOMAIN hist : ~hist[i].active
  BY <1>2 DEF P!NewestActive
<1>3. CASE \E i \in DOMAIN hist : hist[i].active
  <2>1. Len(hist) \in DOMAIN hist /\ hist[Len(hist)].active
    BY <1>3 DEF WellFormed
  <2>2. \A i \in DOMAIN hist : hist[i].active => i = Len(hist)
    BY DEF WellFormed
  <2>3. P!NewestActive(hist) = {hist[Len(hist)]}
    BY <1>1, <2>1, <2>2 DEF P!NewestActive
  <2>. QED  BY <2>1, <2>3
<1>. QED  BY <1>2, <1>3

-----------------------------------------------------------------------------
(* The invariant.                                                          *)

Histories == /\ profiles \in [Id -> Seq(P!Record)]
             /\ \A id \in Id : WellFormed(profiles[id])

\* The answers a thread has had that found the n-th record of a history:
\* none is of an earlier record, and once the record was found out of use, or
\* a later one in its place, it is not found again.
Tells(call, hist, n) ==
    /\ n \in DOMAIN hist /\ call.found = {Version(hist[n])}
    /\ \/ call.used = {}
       \/ call.used = {{}} /\ ~hist[n].active
       \/ \E k \in n .. Len(hist) : call.used = {{Version(hist[k])}}
    /\ \/ call.again = {} \/ call.again = {{}}
       \/ \E k \in n .. Len(hist) : /\ call.again = {{Version(hist[k])}}
                                    /\ k = n => call.used = {{Version(hist[n])}}
    /\ call.used = {} => call.again = {}

CallInv ==
    \A t \in Reader :
        \/ calls[t] = Idle
        \/ \E id \in Id, n \in Nat : /\ calls[t].pointer = {<<id, n>>}
                                     /\ Tells(calls[t], profiles[id], n)

Inv == /\ Histories /\ CallInv
       /\ \E S : calls \in [Reader -> [pointer : S, found : S, used : S, again : S]]

LEMMA InvInit == CallersInit => Inv
<1> SUFFICES ASSUME CallersInit PROVE Inv
  OBVIOUS
<1>1. Histories
  <2>1. profiles = [id \in Id |-> <<>>]
    BY DEF CallersInit, P!Init
  <2>. QED  BY <2>1 DEF Histories, WellFormed
<1>2. calls \in [Reader -> [pointer : {{}}, found : {{}}, used : {{}}, again : {{}}]]
  BY DEF CallersInit, Idle
<1>3. CallInv
  BY DEF CallersInit, CallInv
<1>. QED  BY <1>1, <1>2, <1>3 DEF Inv

\* Every call of the lifecycle lets every history grow.
LEMMA ProfileCallGrows ==
    ASSUME Histories, P!Next
    PROVE  /\ profiles' \in [Id -> Seq(P!Record)]
           /\ \A id \in Id : Grown(profiles[id], profiles'[id])
<1>1. \A id \in Id : /\ profiles[id] \in Seq(P!Record) /\ WellFormed(profiles[id])
                     /\ Grown(profiles[id], profiles[id])
                     /\ Grown(profiles[id], P!Retire(profiles[id]))
  BY StandingGrows, RetireGrows DEF Histories
<1>2. ASSUME NEW id \in Id, NEW c \in P!Content, NEW isActive \in BOOLEAN,
             profiles' = [profiles EXCEPT ![id] = P!NewGeneration(@, c, isActive)]
      PROVE  \A x \in Id : Grown(profiles[x], profiles'[x])
  <2>1. Grown(profiles[id], P!NewGeneration(profiles[id], c, isActive))
    BY <1>1, NewGenerationGrows
  <2>. QED  BY <1>1, <1>2, <2>1 DEF Histories
<1>3. ASSUME NEW R \in SUBSET Id,
             profiles' = [x \in Id |-> IF x \in R THEN P!Retire(profiles[x]) ELSE profiles[x]]
      PROVE  \A x \in Id : Grown(profiles[x], profiles'[x])
  BY <1>1, <1>3
<1>4. ASSUME NEW id \in Id, profiles' = [profiles EXCEPT ![id] = P!Retire(@)]
      PROVE  \A x \in Id : Grown(profiles[x], profiles'[x])
  BY <1>1, <1>4 DEF Histories
<1>5. DOMAIN profiles' = Id /\ profiles' = [x \in Id |-> profiles'[x]]
  BY DEF Histories, P!Next, P!ProfileCall, P!OtherMutation, P!RegisterAccepted,
         P!RegisterRejected, P!SupersedeAccepted, P!SupersedeRejected,
         P!InvalidateProfile, P!PropagateInvalidation
<1>6. \A x \in Id : Grown(profiles[x], profiles'[x])
  <2>1. CASE P!OtherMutation
    BY <1>1, <2>1 DEF P!OtherMutation
  <2>2. ASSUME NEW id \in Id, NEW c \in P!Content,
               \/ \E isActive \in BOOLEAN : P!RegisterAccepted(id, c, isActive)
               \/ P!SupersedeAccepted(id, c)
        PROVE  \A x \in Id : Grown(profiles[x], profiles'[x])
    BY <1>2, <2>2 DEF P!RegisterAccepted, P!SupersedeAccepted
  <2>3. ASSUME NEW id \in Id, NEW c \in P!Content,
               P!RegisterRejected(id, c) \/ P!SupersedeRejected(id, c)
        PROVE  \A x \in Id : Grown(profiles[x], profiles'[x])
    BY <1>4, <2>3 DEF P!RegisterRejected, P!SupersedeRejected
  <2>4. ASSUME NEW id \in Id, P!InvalidateProfile(id)
        PROVE  \A x \in Id : Grown(profiles[x], profiles'[x])
    BY <1>4, <2>4 DEF P!InvalidateProfile
  <2>5. ASSUME NEW id \in Id, P!PropagateInvalidation(id)
        PROVE  \A x \in Id : Grown(profiles[x], profiles'[x])
    <3> DEFINE R == {x \in P!Closure(reverse, id) : profiles[x] # <<>>} \cap Id
    <3>1. profiles' = [x \in Id |-> IF x \in R THEN P!Retire(profiles[x]) ELSE profiles[x]]
      BY <2>5 DEF P!PropagateInvalidation
    <3>. QED  BY <1>3, <3>1
  <2>. QED  BY <2>1, <2>2, <2>3, <2>4, <2>5 DEF P!Next, P!ProfileCall
<1>. QED  BY <1>5, <1>6 DEF Grown

\* What a thread was told stays as it was while histories grow.
LEMMA GrowthKeepsTells ==
    ASSUME NEW old \in Seq(P!Record), NEW new, Grown(old, new),
           NEW call, NEW n, Tells(call, old, n)
    PROVE  Tells(call, new, n)
<1>1. /\ DOMAIN old = 1 .. Len(old) /\ Len(old) \in Nat
      /\ DOMAIN new = 1 .. Len(new) /\ Len(new) \in Nat /\ Len(old) <= Len(new)
  BY SeqFacts DEF Grown
<1>2. n \in DOMAIN old /\ n \in DOMAIN new
  BY <1>1 DEF Tells
<1>3. \A k \in n .. Len(old) : k \in n .. Len(new) /\ k \in DOMAIN old
  BY <1>1, <1>2
<1>4. \A k \in DOMAIN old : Version(new[k]) = Version(old[k])
  BY DEF Grown
<1>5. ~old[n].active => ~new[n].active
  BY <1>2 DEF Grown
<1>6. call.found = {Version(new[n])}
  BY <1>2, <1>4 DEF Tells
<1>7. \/ call.used = {}
      \/ call.used = {{}} /\ ~new[n].active
      \/ \E k \in n .. Len(new) : call.used = {{Version(new[k])}}
  BY <1>3, <1>4, <1>5 DEF Tells
<1>8. \/ call.again = {} \/ call.again = {{}}
      \/ \E k \in n .. Len(new) : /\ call.again = {{Version(new[k])}}
                                  /\ k = n => call.used = {{Version(new[n])}}
  <2>1. CASE call.again = {} \/ call.again = {{}}
    BY <2>1
  <2>2. CASE \E k \in n .. Len(old) : /\ call.again = {{Version(old[k])}}
                                      /\ k = n => call.used = {{Version(old[n])}}
    <3>1. PICK k \in n .. Len(old) : /\ call.again = {{Version(old[k])}}
                                     /\ k = n => call.used = {{Version(old[n])}}
      BY <2>2
    <3>2. k \in n .. Len(new) /\ Version(new[k]) = Version(old[k])
          /\ Version(new[n]) = Version(old[n])
      BY <1>2, <1>3, <1>4
    <3>. QED  BY <3>1, <3>2
  <2>. QED  BY <2>1, <2>2 DEF Tells
<1>. QED  BY <1>2, <1>6, <1>7, <1>8 DEF Tells

LEMMA ProfileCallKeepsInv ==
    ASSUME Inv, ProfileCall PROVE Inv'
<1>1. /\ profiles' \in [Id -> Seq(P!Record)]
      /\ \A id \in Id : Grown(profiles[id], profiles'[id])
      /\ calls' = calls
  BY ProfileCallGrows DEF Inv, ProfileCall
<1>2. Histories'
  BY <1>1 DEF Histories, Grown
<1>3. ASSUME NEW t \in Reader, calls[t] # Idle
      PROVE  \E id \in Id, n \in Nat : /\ calls'[t].pointer = {<<id, n>>}
                                       /\ Tells(calls'[t], profiles'[id], n)
  <2>1. PICK id \in Id, n \in Nat : /\ calls[t].pointer = {<<id, n>>}
                                    /\ Tells(calls[t], profiles[id], n)
    BY <1>3 DEF Inv, CallInv
  <2>2. profiles[id] \in Seq(P!Record)
    BY DEF Inv, Histories
  <2>3. Tells(calls[t], profiles'[id], n)
    BY <1>1, <2>1, <2>2, GrowthKeepsTells
  <2>. QED  BY <1>1, <2>1, <2>3
<1>4. CallInv'
  BY <1>1, <1>3 DEF CallInv
<1>. QED  BY <1>1, <1>2, <1>4 DEF Inv

\* What an evaluation, or a find, reads of a history.
LEMMA ResolvedVersion ==
    ASSUME Histories, NEW id \in Id
    PROVE  \/ Resolved(id) = {} /\ \A i \in DOMAIN profiles[id] : ~profiles[id][i].active
           \/ /\ Len(profiles[id]) \in DOMAIN profiles[id]
              /\ profiles[id][Len(profiles[id])].active
              /\ Resolved(id) = {Version(profiles[id][Len(profiles[id])])}
<1>1. profiles[id] \in Seq(P!Record) /\ WellFormed(profiles[id])
  BY DEF Histories
<1>. QED  BY <1>1, ResolvedFacts DEF Resolved

LEMMA FindKeepsInv ==
    ASSUME Inv, NEW t \in Reader, NEW id \in Id, Find(t, id) PROVE Inv'
<1> DEFINE hist == profiles[id]
           n    == Len(hist)
<1>1. /\ hist \in Seq(P!Record) /\ WellFormed(hist) /\ n \in Nat /\ DOMAIN hist = 1 .. n
  BY SeqFacts DEF Inv, Histories
<1>2. PICK k \in DOMAIN hist : hist[k] \in P!NewestActive(hist)
  BY DEF Find, Pointer
<1>3. /\ n \in DOMAIN hist /\ hist[n].active /\ P!NewestActive(hist) = {hist[n]}
  BY <1>1, <1>2, ResolvedFacts
<1>4. \A i \in DOMAIN hist : hist[i] \in P!NewestActive(hist) <=> i = n
  BY <1>1, <1>3 DEF WellFormed
<1>5. Pointer(id) = {<<id, n>>}
  BY <1>3, <1>4 DEF Pointer
<1>6. Resolved(id) = {Version(hist[n])}
  BY <1>3 DEF Resolved
<1>7. PICK S : calls \in [Reader -> [pointer : S, found : S, used : S, again : S]]
  BY DEF Inv
<1>8. /\ calls' = [calls EXCEPT ![t].pointer = Pointer(id), ![t].found = Resolved(id)]
      /\ calls[t] = Idle /\ profiles' = profiles
  BY DEF Find, store
<1>9. /\ calls'[t].pointer = {<<id, n>>} /\ calls'[t].found = {Version(hist[n])}
      /\ calls'[t].used = {} /\ calls'[t].again = {}
      /\ \A x \in Reader \ {t} : calls'[x] = calls[x]
  BY <1>5, <1>6, <1>7, <1>8 DEF Idle
<1>10. calls' \in [Reader -> [pointer : S \cup {Pointer(id), Resolved(id)},
                              found : S \cup {Pointer(id), Resolved(id)},
                              used : S \cup {Pointer(id), Resolved(id)},
                              again : S \cup {Pointer(id), Resolved(id)}]]
  BY <1>7, <1>8
<1>11. Tells(calls'[t], profiles'[id], n)
  BY <1>3, <1>8, <1>9 DEF Tells
<1>12. CallInv'
  BY <1>1, <1>8, <1>9, <1>11 DEF Inv, CallInv
<1>13. Histories'
  BY <1>8 DEF Inv, Histories
<1>. QED  BY <1>10, <1>12, <1>13 DEF Inv

\* Evaluate and FindAgain: the thread that takes the step has found a record.
LEMMA TargetFacts ==
    ASSUME Inv, NEW t \in Reader, calls[t].found # {}
    PROVE  \E id \in Id, n \in Nat : /\ calls[t].pointer = {<<id, n>>} /\ Target(t) = id
                                     /\ Tells(calls[t], profiles[id], n)
<1>1. calls[t] # Idle
  BY DEF Idle
<1>2. PICK id \in Id, n \in Nat : /\ calls[t].pointer = {<<id, n>>}
                                  /\ Tells(calls[t], profiles[id], n)
  BY <1>1 DEF Inv, CallInv
<1>3. (CHOOSE at \in {<<id, n>>} : TRUE) = <<id, n>>
  OBVIOUS
<1>4. Target(t) = id
  BY <1>2, <1>3 DEF Target
<1>. QED  BY <1>2, <1>4

LEMMA EvaluateKeepsInv ==
    ASSUME Inv, NEW t \in Reader, Evaluate(t) PROVE Inv'
<1>1. PICK id \in Id, n \in Nat : /\ calls[t].pointer = {<<id, n>>} /\ Target(t) = id
                                  /\ Tells(calls[t], profiles[id], n)
  BY TargetFacts DEF Evaluate
<1> DEFINE hist == profiles[id]
<1>2. /\ hist \in Seq(P!Record) /\ Len(hist) \in Nat /\ DOMAIN hist = 1 .. Len(hist)
  BY SeqFacts DEF Inv, Histories
<1>3. PICK S : calls \in [Reader -> [pointer : S, found : S, used : S, again : S]]
  BY DEF Inv
<1>4. /\ calls' = [calls EXCEPT ![t].used = {Resolved(id)}]
      /\ calls[t].used = {} /\ profiles' = profiles
  BY <1>1 DEF Evaluate, store
<1>5. /\ calls'[t].pointer = {<<id, n>>} /\ calls'[t].found = calls[t].found
      /\ calls'[t].used = {Resolved(id)} /\ calls'[t].again = calls[t].again
      /\ \A x \in Reader \ {t} : calls'[x] = calls[x]
  BY <1>1, <1>3, <1>4
<1>6. calls' \in [Reader -> [pointer : S \cup {{Resolved(id)}}, found : S \cup {{Resolved(id)}},
                             used : S \cup {{Resolved(id)}}, again : S \cup {{Resolved(id)}}]]
  BY <1>3, <1>4
<1>7. n \in DOMAIN hist /\ n \in n .. Len(hist) /\ Len(hist) \in n .. Len(hist)
  BY <1>1, <1>2 DEF Tells
<1>8. \/ {Resolved(id)} = {{}} /\ ~hist[n].active
      \/ \E k \in n .. Len(hist) : {Resolved(id)} = {{Version(hist[k])}}
  BY <1>7, ResolvedVersion DEF Inv
<1>9. calls[t].again = {}
  BY <1>1, <1>4 DEF Tells
<1>10. Tells(calls'[t], profiles'[id], n)
  <2>1. calls[t].found = {Version(hist[n])}
    BY <1>1 DEF Tells
  <2>2. /\ calls'[t].found = {Version(hist[n])} /\ calls'[t].again = {}
        /\ calls'[t].used # {}
    BY <1>5, <1>9, <2>1
  <2>3. \/ calls'[t].used = {{}} /\ ~hist[n].active
        \/ \E k \in n .. Len(hist) : calls'[t].used = {{Version(hist[k])}}
    BY <1>5, <1>8
  <2>4. Tells(calls'[t], hist, n)
    BY <1>7, <2>2, <2>3 DEF Tells
  <2>. QED  BY <1>4, <2>4
<1>11. CallInv'
  BY <1>1, <1>4, <1>5, <1>10 DEF Inv, CallInv
<1>12. Histories'
  BY <1>4 DEF Inv, Histories
<1>. QED  BY <1>6, <1>11, <1>12 DEF Inv

LEMMA FindAgainKeepsInv ==
    ASSUME Inv, NEW t \in Reader, FindAgain(t) PROVE Inv'
<1>0. calls[t].found # {}
  <2>1. calls[t] # Idle
    BY DEF FindAgain, Idle
  <2>. QED  BY <2>1 DEF Inv, CallInv, Tells
<1>1. PICK id \in Id, n \in Nat : /\ calls[t].pointer = {<<id, n>>} /\ Target(t) = id
                                  /\ Tells(calls[t], profiles[id], n)
  BY <1>0, TargetFacts
<1> DEFINE hist == profiles[id]
           last == Len(hist)
<1>2. /\ hist \in Seq(P!Record) /\ last \in Nat /\ DOMAIN hist = 1 .. last /\ WellFormed(hist)
  BY SeqFacts DEF Inv, Histories
<1>3. PICK S : calls \in [Reader -> [pointer : S, found : S, used : S, again : S]]
  BY DEF Inv
<1>4. /\ calls' = [calls EXCEPT ![t].again = {Resolved(id)}]
      /\ calls[t].used # {} /\ profiles' = profiles
  BY <1>1 DEF FindAgain, store
<1>5. /\ calls'[t].pointer = {<<id, n>>} /\ calls'[t].found = calls[t].found
      /\ calls'[t].again = {Resolved(id)} /\ calls'[t].used = calls[t].used
      /\ \A x \in Reader \ {t} : calls'[x] = calls[x]
  BY <1>1, <1>3, <1>4
<1>6. calls' \in [Reader -> [pointer : S \cup {{Resolved(id)}}, found : S \cup {{Resolved(id)}},
                             used : S \cup {{Resolved(id)}}, again : S \cup {{Resolved(id)}}]]
  BY <1>3, <1>4
<1>7. n \in DOMAIN hist /\ last \in n .. last
  BY <1>1, <1>2 DEF Tells
<1>8. \/ calls'[t].again = {{}}
      \/ /\ calls'[t].again = {{Version(hist[last])}}
         /\ last = n => calls[t].used = {{Version(hist[n])}}
  <2>1. CASE Resolved(id) = {}
    BY <1>5, <2>1
  <2>2. CASE hist[last].active /\ Resolved(id) = {Version(hist[last])}
    <3>1. ASSUME last = n PROVE calls[t].used = {{Version(hist[n])}}
      <4>1. \A k \in n .. last : k = n
        BY <1>2, <1>7, <3>1
      <4>2. hist[n].active
        BY <2>2, <3>1
      <4>. QED  BY <1>1, <1>4, <4>1, <4>2 DEF Tells
    <3>. QED  BY <1>5, <2>2, <3>1
  <2>. QED  BY <2>1, <2>2, ResolvedVersion DEF Inv
<1>9. Tells(calls'[t], profiles'[id], n)
  <2>1. /\ n \in DOMAIN hist /\ calls'[t].found = {Version(hist[n])}
        /\ \/ calls'[t].used = {{}} /\ ~hist[n].active
           \/ \E k \in n .. last : calls'[t].used = {{Version(hist[k])}}
    <3>1. calls[t].found = {Version(hist[n])}
      BY <1>1 DEF Tells
    <3>2. \/ calls[t].used = {{}} /\ ~hist[n].active
          \/ \E k \in n .. last : calls[t].used = {{Version(hist[k])}}
      BY <1>1, <1>4 DEF Tells
    <3>. QED  BY <1>5, <1>7, <3>1, <3>2
  <2>2. \/ calls'[t].again = {{}}
        \/ \E k \in n .. last : /\ calls'[t].again = {{Version(hist[k])}}
                                /\ k = n => calls'[t].used = {{Version(hist[n])}}
    BY <1>5, <1>7, <1>8
  <2>3. profiles'[id] = hist
    BY <1>4
  <2>4. calls'[t].used # {}
    BY <1>4, <1>5
  <2>5. Tells(calls'[t], hist, n)
    BY <2>1, <2>2, <2>4 DEF Tells
  <2>. QED  BY <2>3, <2>5
<1>10. CallInv'
  BY <1>1, <1>4, <1>5, <1>9 DEF Inv, CallInv
<1>11. Histories'
  BY <1>4 DEF Inv, Histories
<1>. QED  BY <1>6, <1>10, <1>11 DEF Inv

LEMMA Invariant == CallersSpec => []Inv
<1>1. Inv /\ [CallersNext]_sharedVars => Inv'
  <2> SUFFICES ASSUME Inv, [CallersNext]_sharedVars PROVE Inv'
    OBVIOUS
  <2>1. CASE ProfileCall
    BY <2>1, ProfileCallKeepsInv
  <2>2. CASE \E t \in Reader : (\E id \in Id : Find(t, id)) \/ Evaluate(t) \/ FindAgain(t)
    BY <2>2, FindKeepsInv, EvaluateKeepsInv, FindAgainKeepsInv
  <2>3. CASE UNCHANGED sharedVars
    BY <2>3 DEF Inv, Histories, CallInv, sharedVars, store
  <2>. QED  BY <2>1, <2>2, <2>3 DEF CallersNext
<1>. QED  BY <1>1, InvInit, PTL DEF CallersSpec

\* The pointer find_profile returned shows the profile that was found for as
\* long as the registry lives, whatever other threads call in the meantime.
THEOREM PointersStayGood == CallersSpec => []PointersKeepTheirRecord
<1>1. Inv => PointersKeepTheirRecord
  BY DEF Inv, CallInv, Tells, Idle, PointersKeepTheirRecord
<1>. QED  BY <1>1, Invariant, PTL

\* A caller that finds the same generation before and after evaluate_pair
\* knows that the decision is about the profile it has seen: a generation
\* that went out of use in between does not come back.
THEOREM EqualFindsVouch == CallersSpec => []EqualFindsBracketEvaluation
<1>1. Inv => EqualFindsBracketEvaluation
  <2> SUFFICES ASSUME Inv, NEW t \in Reader, NEW before \in calls[t].found,
                      NEW used \in calls[t].used, NEW after \in calls[t].again,
                      NEW v \in after, v.generation = before.generation
               PROVE  used = {before} /\ after = {before}
    BY DEF EqualFindsBracketEvaluation
  <2>1. PICK id \in Id, n \in Nat : Tells(calls[t], profiles[id], n)
    BY DEF Inv, CallInv, Idle
  <2> DEFINE hist == profiles[id]
  <2>2. /\ hist \in Seq(P!Record) /\ WellFormed(hist)
        /\ DOMAIN hist = 1 .. Len(hist) /\ Len(hist) \in Nat
    BY SeqFacts DEF Inv, Histories
  <2>3. n \in DOMAIN hist /\ before = Version(hist[n])
    BY <2>1 DEF Tells
  <2>4. PICK k \in n .. Len(hist) : /\ calls[t].again = {{Version(hist[k])}}
                                    /\ k = n => calls[t].used = {{Version(hist[n])}}
    BY <2>1 DEF Tells
  <2>5. k \in DOMAIN hist /\ v = Version(hist[k]) /\ after = {v}
    BY <2>2, <2>3, <2>4
  <2>6. k = n
    BY <2>2, <2>3, <2>5 DEF WellFormed, Version
  <2>. QED  BY <2>3, <2>4, <2>5, <2>6
<1>. QED  BY <1>1, Invariant, PTL
=============================================================================
