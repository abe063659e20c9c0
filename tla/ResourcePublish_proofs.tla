------------------------ MODULE ResourcePublish_proofs ------------------------
(***************************************************************************)
(* For every set of resources, capacities, tolerances and amounts: the     *)
(* list of changed resources, the map of places into it and the flags      *)
(* agree, and a resource that is not listed differs from what readers last *)
(* saw by no more than its tolerance. For every number of publishes: an    *)
(* entry of the buffer pool has one holder, and a reader that has taken    *)
(* every transport is up to date, however late it took them.               *)
(***************************************************************************)
EXTENDS ResourcePublish, FiniteSetTheorems, SequenceTheorems, WellFoundedInduction, TLAPS

Record ==
    [amount: Int, capacity: Int, tolerance: Nat, flags: SUBSET Flags,
     income: Int, expense: Int, net: Int, tickDelta: Int]

(* What the calls on the resources change.                                  *)
TrackedState ==
    [live: [Indices -> Record], scratch: Seq(Indices), positions: [Indices -> Nat],
     dirtyFlags: SUBSET Indices]

(* Every index on the list has its place, and no other index has one.       *)
Places(list, at) ==
    /\ \A i \in Indices : at[i] # 0 <=> i \in ToSet(list)
    /\ \A n \in 1..Len(list) : at[list[n]] = n

(* CleanIsPublished of one resource.                                        *)
Agree(l, p) ==
    /\ Near(l.amount, p.amount, l.tolerance)
    /\ Near(l.capacity, p.capacity, l.tolerance)
    /\ l.flags = p.flags /\ l.tolerance = p.tolerance

(* DirtyListMissesNothing, against the records at, but for the resource i   *)
(* while a call is writing it.                                              *)
SoundBut(s, at, i) ==
    /\ s \in TrackedState
    /\ s.dirtyFlags = ToSet(s.scratch)
    /\ Places(s.scratch, s.positions)
    /\ \A j \in Indices \ ToSet(s.scratch) : j # i => Agree(s.live[j], at[j])

Sound(s, at) ==
    /\ s \in TrackedState
    /\ s.dirtyFlags = ToSet(s.scratch)
    /\ Places(s.scratch, s.positions)
    /\ \A j \in Indices \ ToSet(s.scratch) : Agree(s.live[j], at[j])

-----------------------------------------------------------------------------
(* The list and the places.                                                 *)

(* What is on a list has a number there.                                    *)
LEMMA InList ==
    ASSUME NEW S, NEW list \in Seq(S)
    PROVE  /\ Len(list) \in Nat
           /\ \A j : j \in ToSet(list) <=> \E n \in 1..Len(list) : list[n] = j
           /\ \A n \in 1..Len(list) : list[n] \in S /\ list[n] \in ToSet(list)
BY LenProperties DEF ToSet

(* Append puts one element on the list.                                     *)
LEMMA AppendList ==
    ASSUME NEW S, NEW list \in Seq(S), NEW e \in S
    PROVE  Append(list, e) \in Seq(S) /\ ToSet(Append(list, e)) = ToSet(list) \cup {e}
<1> DEFINE q == Append(list, e)
<1>1. /\ q \in Seq(S) /\ Len(q) = Len(list) + 1 /\ Len(list) \in Nat
      /\ \A n \in 1..Len(list) : q[n] = list[n]
      /\ q[Len(list) + 1] = e
  BY AppendProperties, LenProperties
<1> HIDE DEF q
<1>2. /\ \A j : j \in ToSet(list) <=> \E n \in 1..Len(list) : list[n] = j
      /\ \A j : j \in ToSet(q) <=> \E n \in 1..Len(q) : q[n] = j
      /\ \A n \in 1..Len(list) : list[n] \in ToSet(list)
  BY <1>1, InList
<1>3. \A n \in 1..Len(q) : q[n] \in ToSet(list) \cup {e}
  BY <1>1, <1>2
<1>4. /\ \A n \in 1..Len(list) : n \in 1..Len(q)
      /\ Len(list) + 1 \in 1..Len(q)
  BY <1>1
<1> QED
  BY <1>1, <1>2, <1>3, <1>4 DEF q

(* markDirty puts an index at the end.                                      *)
LEMMA Listed ==
    ASSUME NEW list \in Seq(Indices), NEW at \in [Indices -> Nat], Places(list, at),
           NEW i \in Indices, at[i] = 0
    PROVE  /\ Append(list, i) \in Seq(Indices)
           /\ [at EXCEPT ![i] = Len(list) + 1] \in [Indices -> Nat]
           /\ ToSet(Append(list, i)) = ToSet(list) \cup {i}
           /\ Places(Append(list, i), [at EXCEPT ![i] = Len(list) + 1])
<1> DEFINE q == Append(list, i)
           b == [at EXCEPT ![i] = Len(list) + 1]
<1>1. /\ q \in Seq(Indices) /\ Len(q) = Len(list) + 1 /\ Len(list) \in Nat
      /\ \A n \in 1..Len(list) : q[n] = list[n]
      /\ q[Len(list) + 1] = i
  BY AppendProperties, LenProperties
<1>2. /\ \A j : j \in ToSet(list) <=> \E n \in 1..Len(list) : list[n] = j
      /\ \A n \in 1..Len(list) : list[n] \in Indices /\ list[n] \in ToSet(list)
  BY InList
<1>3. /\ b \in [Indices -> Nat] /\ b[i] = Len(list) + 1
      /\ \A j \in Indices : j # i => b[j] = at[j]
  BY <1>1
<1> HIDE DEF q, b
<1>4. ToSet(q) = ToSet(list) \cup {i}
  BY AppendList DEF q
<1>5. \A n \in 1..Len(list) : list[n] \in Indices /\ list[n] # i
  BY <1>2 DEF Places
<1>6. ASSUME NEW n \in 1..Len(q) PROVE b[q[n]] = n
  <2>1. CASE n \in 1..Len(list)
    <3>1. q[n] = list[n] /\ list[n] \in Indices /\ list[n] # i
      BY <1>1, <1>5, <2>1
    <3>2. at[list[n]] = n
      BY <2>1 DEF Places
    <3> QED
      BY <1>3, <3>1, <3>2
  <2>2. CASE n = Len(list) + 1
    BY <1>1, <1>3, <2>2
  <2> QED
    BY <1>1, <2>1, <2>2
<1>7. \A j \in Indices : b[j] # 0 <=> j \in ToSet(q)
  BY <1>1, <1>3, <1>4 DEF Places
<1> QED
  BY <1>1, <1>3, <1>4, <1>6, <1>7 DEF Places, q, b

(* unmarkIfClean fills the gap with the last index.                         *)
LEMMA Unlisted ==
    ASSUME NEW list \in Seq(Indices), NEW at \in [Indices -> Nat], Places(list, at),
           NEW i \in Indices, at[i] > 0
    PROVE  LET r == SubSeq([list EXCEPT ![at[i]] = Last(list)], 1, Len(list) - 1)
               b == [at EXCEPT ![Last(list)] = at[i], ![i] = 0]
           IN  /\ r \in Seq(Indices) /\ b \in [Indices -> Nat]
               /\ ToSet(r) = ToSet(list) \ {i}
               /\ Places(r, b)
<1> DEFINE c == [list EXCEPT ![at[i]] = Last(list)]
           r == SubSeq(c, 1, Len(list) - 1)
           b == [at EXCEPT ![Last(list)] = at[i], ![i] = 0]
<1>0. /\ Len(list) \in Nat
      /\ \A j : j \in ToSet(list) <=> \E n \in 1..Len(list) : list[n] = j
      /\ \A n \in 1..Len(list) : list[n] \in Indices /\ list[n] \in ToSet(list)
  BY InList
<1>1. PICK p \in 1..Len(list) : p = at[i] /\ list[p] = i
  BY <1>0 DEF Places
<1>2. PICK L \in Nat : L = Len(list) /\ L >= 1 /\ p \in 1..L
  BY <1>1
<1>3. PICK last \in Indices : last = list[L] /\ last = Last(list) /\ at[last] = L
  BY <1>2 DEF Last, Places
<1>4. /\ c \in Seq(Indices) /\ Len(c) = L
      /\ \A n \in 1..L : c[n] = IF n = p THEN last ELSE list[n]
  BY <1>1, <1>2, <1>3, ExceptSeq
<1> HIDE DEF c
<1>5. /\ r \in Seq(Indices) /\ Len(r) = L - 1
      /\ \A n \in 1..(L - 1) : r[n] = IF n = p THEN last ELSE list[n]
  BY <1>2, <1>4, SubSeqProperties
<1>6. /\ b \in [Indices -> Nat] /\ b[i] = 0
      /\ \A j \in Indices : j # i => b[j] = IF j = last THEN p ELSE at[j]
  BY <1>1, <1>2, <1>3
<1> HIDE DEF r, b
<1>7. \A n, m \in 1..L : list[n] = list[m] => n = m
  BY <1>2 DEF Places
<1>8. \A j : j \in ToSet(list) <=> \E n \in 1..L : list[n] = j
  BY <1>0, <1>2
<1>9. /\ \A j : j \in ToSet(r) <=> \E n \in 1..(L - 1) : r[n] = j
      /\ \A n \in 1..(L - 1) : r[n] \in Indices /\ r[n] \in ToSet(r)
  BY <1>5, InList
<1>10. ToSet(r) = ToSet(list) \ {i}
  <2>1. ASSUME NEW n \in 1..(L - 1) PROVE r[n] # i /\ r[n] \in ToSet(list)
    <3> DEFINE m == IF n = p THEN L ELSE n
    <3>1. m \in 1..L /\ m # p
      BY <1>2
    <3>2. r[n] = list[m]
      BY <1>3, <1>5
    <3> HIDE DEF m
    <3> QED
      BY <1>1, <1>2, <1>7, <1>8, <3>1, <3>2
  <2>2. ASSUME NEW n \in 1..L, list[n] # i PROVE list[n] \in ToSet(r)
    <3>1. n # p
      BY <1>1, <2>2
    <3> DEFINE m == IF n = L THEN p ELSE n
    <3>2. m \in 1..(L - 1)
      BY <1>2, <3>1
    <3>3. r[m] = list[n]
      BY <1>2, <1>3, <1>5, <3>1, <3>2
    <3> HIDE DEF m
    <3> QED
      BY <1>9, <3>2, <3>3
  <2> QED
    BY <1>8, <1>9, <2>1, <2>2
<1>11. \A n \in 1..Len(r) : b[r[n]] = n
  <2> SUFFICES ASSUME NEW n \in 1..(L - 1) PROVE b[r[n]] = n
    BY <1>5
  <2>1. r[n] # i /\ r[n] \in Indices
    BY <1>9, <1>10
  <2>2. CASE n = p
    BY <1>5, <1>6, <2>1, <2>2
  <2>3. CASE n # p
    <3>1. r[n] = list[n] /\ n \in 1..L /\ n # L
      BY <1>2, <1>5, <2>3
    <3>2. list[n] # last /\ at[list[n]] = n
      BY <1>2, <1>3, <1>7, <3>1 DEF Places
    <3> QED
      BY <1>6, <2>1, <3>1, <3>2
  <2> QED
    BY <2>2, <2>3
<1>12. \A j \in Indices : b[j] # 0 <=> j \in ToSet(r)
  <2> TAKE j \in Indices
  <2>1. CASE j = i
    BY <1>6, <1>10, <2>1
  <2>2. CASE j # i
    <3>1. last \in ToSet(list)
      <4>1. L \in 1..Len(list)
        BY <1>2
      <4> QED
        BY <1>0, <1>3, <4>1
    <3>2. p # 0
      BY <1>2
    <3>3. b[j] = IF j = last THEN p ELSE at[j]
      BY <1>6, <2>2
    <3>4. at[j] # 0 <=> j \in ToSet(list)
      BY DEF Places
    <3>5. j \in ToSet(r) <=> j \in ToSet(list)
      BY <1>10, <2>2
    <3>6. CASE j = last
      BY <3>1, <3>2, <3>3, <3>5, <3>6
    <3>7. CASE j # last
      BY <3>3, <3>4, <3>5, <3>7
    <3> QED
      BY <3>6, <3>7
  <2> QED
    BY <2>1, <2>2
<1> QED
  BY <1>5, <1>6, <1>10, <1>11, <1>12 DEF Places, r, b, c

-----------------------------------------------------------------------------
(* Dirty tracking.                                                          *)

(* The fields of the state of a call.                                       *)
LEMMA StateFields ==
    ASSUME NEW s \in TrackedState
    PROVE  /\ s.live \in [Indices -> Record] /\ s.scratch \in Seq(Indices)
           /\ s.positions \in [Indices -> Nat] /\ s.dirtyFlags \in SUBSET Indices
BY DEF TrackedState

(* An index is marked whatever was written to it.                           *)
LEMMA MarkSound ==
    ASSUME NEW s, NEW at, NEW i \in Indices, SoundBut(s, at, i)
    PROVE  Sound(markDirty(s, i), at) /\ markDirty(s, i).live = s.live
<1> DEFINE q == Append(s.scratch, i)
           b == [s.positions EXCEPT ![i] = Len(s.scratch) + 1]
           t == markDirty(s, i)
<1>1. /\ s \in TrackedState
      /\ s.dirtyFlags = ToSet(s.scratch)
      /\ Places(s.scratch, s.positions)
      /\ \A j \in Indices \ ToSet(s.scratch) : j # i => Agree(s.live[j], at[j])
  BY DEF SoundBut
<1>2. /\ s.live \in [Indices -> Record] /\ s.scratch \in Seq(Indices)
      /\ s.positions \in [Indices -> Nat] /\ s.dirtyFlags \in SUBSET Indices
  BY <1>1, StateFields
<1>3. CASE s.positions[i] > 0
  <2>1. t = [s EXCEPT !.dirtyFlags = @ \cup {i}]
    BY <1>3 DEF markDirty
  <2>2. i \in ToSet(s.scratch)
    BY <1>1, <1>3 DEF Places
  <2>3. t = s
    BY <1>1, <2>1, <2>2 DEF TrackedState
  <2> QED
    BY <1>1, <2>2, <2>3 DEF Sound
<1>4. CASE ~(s.positions[i] > 0)
  <2>1. t = [s EXCEPT !.dirtyFlags = @ \cup {i}, !.scratch = q, !.positions = b]
    BY <1>4 DEF markDirty
  <2>2. s.positions[i] = 0
    BY <1>2, <1>4
  <2>3. /\ q \in Seq(Indices) /\ b \in [Indices -> Nat]
        /\ ToSet(q) = ToSet(s.scratch) \cup {i} /\ Places(q, b)
    BY <1>1, <1>2, <2>2, Listed
  <2> HIDE DEF q, b
  <2>4. /\ t \in TrackedState /\ t.live = s.live /\ t.scratch = q /\ t.positions = b
        /\ t.dirtyFlags = s.dirtyFlags \cup {i}
    <3>1. s.dirtyFlags \cup {i} \in SUBSET Indices
      BY <1>2
    <3> QED
      BY <1>1, <1>2, <2>1, <2>3, <3>1 DEF TrackedState
  <2> HIDE DEF t
  <2> QED
    BY <1>1, <2>3, <2>4 DEF Sound, t
<1> QED
  BY <1>3, <1>4

(* An index is unmarked when all that was written to it agrees.             *)
LEMMA UnmarkSound ==
    ASSUME NEW s, NEW i \in Indices, SoundBut(s, source.at, i),
           i \in ToSet(s.scratch) \/ Agree(s.live[i], source.at[i])
    PROVE  Sound(unmarkIfClean(s, i), source.at) /\ unmarkIfClean(s, i).live = s.live
<1> DEFINE at == source.at
           q == SubSeq([s.scratch EXCEPT ![s.positions[i]] = Last(s.scratch)], 1, Len(s.scratch) - 1)
           b == [s.positions EXCEPT ![Last(s.scratch)] = s.positions[i], ![i] = 0]
           t == unmarkIfClean(s, i)
<1>1. /\ s \in TrackedState
      /\ s.dirtyFlags = ToSet(s.scratch)
      /\ Places(s.scratch, s.positions)
      /\ \A j \in Indices \ ToSet(s.scratch) : j # i => Agree(s.live[j], at[j])
  BY DEF SoundBut
<1>2. /\ s.live \in [Indices -> Record] /\ s.scratch \in Seq(Indices)
      /\ s.positions \in [Indices -> Nat] /\ s.dirtyFlags \in SUBSET Indices
  BY <1>1, StateFields
<1>3. CASE Dirty(s.live[i], at[i])
  BY <1>1, <1>3 DEF unmarkIfClean, Sound
<1>4. CASE ~Dirty(s.live[i], at[i])
  <2>1. Agree(s.live[i], at[i])
    BY <1>4 DEF Dirty, Agree, epsilonEquals, FloatFields
  <2>2. CASE s.positions[i] > 0
    <3>1. t = [s EXCEPT !.scratch = q, !.positions = b, !.dirtyFlags = @ \ {i}]
      BY <1>1, <1>4, <2>2 DEF unmarkIfClean, Removed, SCRATCH_UNSET, TrackedState
    <3>2. /\ q \in Seq(Indices) /\ b \in [Indices -> Nat]
          /\ ToSet(q) = ToSet(s.scratch) \ {i} /\ Places(q, b)
      BY <1>1, <1>2, <2>2, Unlisted
    <3> HIDE DEF q, b
    <3>3. /\ t \in TrackedState /\ t.live = s.live /\ t.scratch = q /\ t.positions = b
          /\ t.dirtyFlags = s.dirtyFlags \ {i}
      BY <1>1, <1>2, <3>1, <3>2 DEF TrackedState
    <3> HIDE DEF t
    <3> QED
      BY <1>1, <2>1, <3>2, <3>3 DEF Sound, t
  <2>3. CASE ~(s.positions[i] > 0)
    <3>1. t = [s EXCEPT !.dirtyFlags = @ \ {i}]
      BY <1>4, <2>3 DEF unmarkIfClean
    <3>2. i \notin ToSet(s.scratch)
      BY <1>1, <1>2, <2>3 DEF Places
    <3>3. t = s
      BY <1>1, <3>1, <3>2 DEF TrackedState
    <3> QED
      BY <1>1, <2>1, <3>3 DEF Sound
  <2> QED
    BY <2>2, <2>3
<1> QED
  BY <1>3, <1>4

(* A field written, and the index marked or unmarked as it asks for.        *)
LEMMA WriteSound ==
    ASSUME NEW s, Sound(s, source.at), NEW i \in Indices, NEW field \in FloatFields,
           NEW value \in Int
    PROVE  Sound(Write(s, i, field, value), source.at)
<1> DEFINE at == source.at
           w == [s EXCEPT !.live[i][field] = value]
<1>1. CASE s.live[i][field] = value
  BY <1>1 DEF Write
<1>2. CASE s.live[i][field] # value
  <2>1. /\ s \in TrackedState
        /\ s.dirtyFlags = ToSet(s.scratch)
        /\ Places(s.scratch, s.positions)
        /\ \A j \in Indices \ ToSet(s.scratch) : Agree(s.live[j], at[j])
        /\ s.live \in [Indices -> Record]
    BY StateFields DEF Sound
  <2>2. [s.live[i] EXCEPT ![field] = value] \in Record
    BY <2>1 DEF Record, FloatFields
  <2>3. /\ w \in TrackedState /\ w.scratch = s.scratch /\ w.positions = s.positions
        /\ w.dirtyFlags = s.dirtyFlags
        /\ w.live = [s.live EXCEPT ![i] = [s.live[i] EXCEPT ![field] = value]]
    BY <2>1, <2>2 DEF TrackedState
  <2> HIDE DEF w
  <2>4. /\ w.live[i] = [s.live[i] EXCEPT ![field] = value]
        /\ \A j \in Indices : j # i => w.live[j] = s.live[j]
    BY <2>1, <2>3
  <2>5. SoundBut(w, at, i)
    BY <2>1, <2>3, <2>4 DEF SoundBut
  <2>6. CASE epsilonEquals(value, at[i][field], w.live[i])
    <3>1. i \in ToSet(w.scratch) \/ Agree(w.live[i], at[i])
      <4> SUFFICES ASSUME i \notin ToSet(s.scratch) PROVE Agree(w.live[i], at[i])
        BY <2>3
      <4>1. Agree(s.live[i], at[i])
        BY <2>1
      <4>2. s.live[i] \in Record
        BY <2>1
      <4> QED
        BY <2>4, <2>6, <4>1, <4>2 DEF Agree, epsilonEquals, Record, FloatFields
    <3>2. Write(s, i, field, value) = unmarkIfClean(w, i)
      BY <1>2, <2>6 DEF Write, w
    <3> QED
      BY <2>5, <3>1, <3>2, UnmarkSound
  <2>7. CASE ~epsilonEquals(value, at[i][field], w.live[i])
    <3>1. Write(s, i, field, value) = markDirty(w, i)
      BY <1>2, <2>7 DEF Write, w
    <3> QED
      BY <2>5, <3>1, MarkSound
  <2> QED
    BY <2>6, <2>7
<1> QED
  BY <1>1, <1>2

(* The numbers of a record are integers, written or read by name.           *)
LEMMA LiveFields ==
    ASSUME NEW s, NEW at, Sound(s, at), NEW i \in Indices
    PROVE  /\ \A field \in FloatFields : s.live[i][field] \in Int
           /\ s.live[i].amount \in Int /\ s.live[i].tickDelta \in Int
           /\ s.live[i].income \in Int /\ s.live[i].expense \in Int
           /\ s.live[i].capacity \in Int /\ s.live[i].flags \in SUBSET Flags
           /\ s.live[i].tolerance \in Nat
<1>1. s.live[i] \in Record
  BY StateFields DEF Sound
<1> QED
  BY <1>1 DEF Record, FloatFields

(* An amount written with its delta: two writes, each of them reconciled.   *)
LEMMA MovedSound ==
    ASSUME NEW s, Sound(s, source.at), NEW i \in Indices, NEW amount \in Int
    PROVE  Sound(Moved(s, i, amount), source.at)
<1> DEFINE w == Write(s, i, "amount", amount)
<1>1. Sound(w, source.at)
  BY WriteSound DEF FloatFields
<1>2. w.live[i].tickDelta \in Int /\ s.live[i].amount \in Int
  BY <1>1, LiveFields
<1>3. PICK n \in Int : n = w.live[i].tickDelta + (amount - s.live[i].amount)
  BY <1>2
<1>4. Moved(s, i, amount) = Write(w, i, "tickDelta", n)
  BY <1>3 DEF Moved, accumulateTickDelta
<1> QED
  BY <1>1, <1>4, WriteSound DEF FloatFields

-----------------------------------------------------------------------------
(* The list misses nothing.                                                 *)

Buffer == [dirty: Seq(Indices), at: [Indices -> Record]]

(* All but the tick's delta.                                                *)
Same(p, q) == \A field \in (DOMAIN p) \ {"tickDelta"} : p[field] = q[field]

(* The standby buffer is behind only where the last publish changed.        *)
Buffers ==
    /\ activePublishIndex \in {0, 1}
    /\ publish \in [{0, 1} -> Buffer]
    /\ \A i \in Indices \ ToSet(source.dirty) :
          Same(source.at[i], publish[1 - activePublishIndex].at[i])

ResourceInv == Buffers /\ Sound(Tracked, source.at)

(* What a call leaves sound stays so as the new state.                      *)
LEMMA ApplySound ==
    ASSUME ResourceInv, NEW s, Sound(s, source.at), Apply(s),
           UNCHANGED <<publish, activePublishIndex>>
    PROVE  ResourceInv'
<1>1. s \in TrackedState
  BY DEF Sound
<1>2. Tracked' = s
  BY <1>1 DEF Apply, Tracked, TrackedState
<1>3. source' = source
  BY DEF source
<1>4. Buffers'
  BY <1>3 DEF ResourceInv, Buffers
<1>5. Sound(Tracked', source'.at)
  BY <1>2, <1>3
<1> QED
  BY <1>4, <1>5 DEF ResourceInv

(* The state of a call is the state at its start.                           *)
LEMMA TrackedFields ==
    /\ Tracked.live = live /\ Tracked.scratch = scratch
    /\ Tracked.positions = positions /\ Tracked.dirtyFlags = dirtyFlags
BY DEF Tracked

(* A write to a field that publishes compare by value.                      *)
LEMMA TouchedSound ==
    ASSUME Sound(Tracked, source.at), NEW i \in Indices,
           NEW field \in {"tolerance", "flags"}, NEW value,
           field = "tolerance" => value \in Nat,
           field = "flags" => value \in SUBSET Flags
    PROVE  LET s == [Tracked EXCEPT !.live[i][field] = value]
           IN  SoundBut(s, source.at, i) /\ s.scratch = scratch
               /\ s.live[i] = [live[i] EXCEPT ![field] = value]
<1> DEFINE s == [Tracked EXCEPT !.live[i][field] = value]
<1>1. /\ Tracked \in TrackedState
      /\ dirtyFlags = ToSet(scratch)
      /\ Places(scratch, positions)
      /\ \A j \in Indices \ ToSet(scratch) : Agree(live[j], source.at[j])
  BY TrackedFields DEF Sound
<1>2. live \in [Indices -> Record]
  BY <1>1, StateFields, TrackedFields
<1>3. [live[i] EXCEPT ![field] = value] \in Record
  BY <1>2 DEF Record
<1>4. /\ s \in TrackedState /\ s.scratch = scratch /\ s.positions = positions
      /\ s.dirtyFlags = dirtyFlags
      /\ s.live = [live EXCEPT ![i] = [live[i] EXCEPT ![field] = value]]
  BY <1>1, <1>2, <1>3 DEF Tracked, TrackedState
<1> HIDE DEF s
<1>5. /\ s.live[i] = [live[i] EXCEPT ![field] = value]
      /\ \A j \in Indices : j # i => s.live[j] = live[j]
  BY <1>2, <1>4
<1>6. SoundBut(s, source.at, i)
  BY <1>1, <1>4, <1>5 DEF SoundBut
<1> QED
  BY <1>4, <1>5, <1>6 DEF s

(* A flag set or cleared: marked or unmarked by the flags alone.            *)
LEMMA FlagSound ==
    ASSUME ResourceInv, NEW i \in Indices, NEW mask \in Flags, NEW shouldSet \in BOOLEAN,
           setFlagField(i, mask, shouldSet)
    PROVE  ResourceInv'
<1> DEFINE flags == IF shouldSet THEN live[i].flags \cup {mask} ELSE live[i].flags \ {mask}
           s == [Tracked EXCEPT !.live[i]["flags"] = flags]
           t == IF flags = source.at[i].flags THEN unmarkIfClean(s, i) ELSE markDirty(s, i)
<1>1. Sound(Tracked, source.at)
  BY DEF ResourceInv
<1>2. flags \in SUBSET Flags
  <2>1. live[i].flags \in SUBSET Flags
    BY <1>1, LiveFields, TrackedFields
  <2> QED
    BY <2>1
<1>3. Call(t)
  BY DEF setFlagField
<1> HIDE DEF flags
<1>4. /\ SoundBut(s, source.at, i) /\ s.scratch = scratch
      /\ s.live[i] = [live[i] EXCEPT !["flags"] = flags]
  BY <1>1, <1>2, TouchedSound
<1> HIDE DEF s
<1>5. CASE flags = source.at[i].flags
  <2>1. i \in ToSet(s.scratch) \/ Agree(s.live[i], source.at[i])
    <3> SUFFICES ASSUME i \notin ToSet(scratch) PROVE Agree(s.live[i], source.at[i])
      BY <1>4
    <3>1. Agree(live[i], source.at[i])
      BY <1>1, TrackedFields DEF Sound
    <3>2. live[i] \in Record
      BY <1>1, StateFields, TrackedFields DEF Sound
    <3> QED
      BY <1>4, <1>5, <3>1, <3>2 DEF Agree, Record
  <2>2. Sound(t, source.at)
    BY <1>4, <1>5, <2>1, UnmarkSound
  <2> QED
    BY <1>3, <2>2, ApplySound DEF Call
<1>6. CASE flags # source.at[i].flags
  <2>1. Sound(t, source.at)
    BY <1>4, <1>6, MarkSound
  <2> QED
    BY <1>3, <2>1, ApplySound DEF Call
<1> QED
  BY <1>5, <1>6

(* Every call on the resources.                                             *)
LEMMA CallsSound ==
    ASSUME ResourceInv, Calls
    PROVE  ResourceInv'
<1>1. Sound(Tracked, source.at)
  BY DEF ResourceInv
<1>2. PICK i \in Indices :
        \/ \E capacity \in Capacities : setCapacity(i, capacity)
        \/ \E tolerance \in Tolerances : setDirtyTolerance(i, tolerance)
        \/ \E amount \in Amounts : \/ addAmount(i, amount)
                                   \/ spendAmount(i, amount)
                                   \/ writeAmountDirect(i, amount)
                                   \/ applyRate(i, "income", amount)
                                   \/ applyRate(i, "expense", amount)
        \/ \E mask \in Flags, shouldSet \in BOOLEAN : setFlagField(i, mask, shouldSet)
  BY DEF Calls
<1>3. /\ live[i].amount \in Int /\ live[i].capacity \in Int
      /\ live[i].income \in Int /\ live[i].expense \in Int
  BY <1>1, LiveFields, TrackedFields
<1>4. /\ \A c \in Capacities : c \in Int
      /\ \A n \in Amounts : n \in Int
      /\ \A t \in Tolerances : t \in Nat
  BY ResourceAssumption DEF ResourceAssumption
<1>5. ASSUME NEW capacity \in Capacities, setCapacity(i, capacity) PROVE ResourceInv'
  <2> DEFINE s == Write(Tracked, i, "capacity", capacity)
             t == IF live[i].amount > capacity THEN Moved(s, i, capacity) ELSE s
  <2>1. Sound(s, source.at)
    BY <1>1, <1>4, WriteSound DEF FloatFields
  <2>2. Call(t)
    BY <1>5 DEF setCapacity
  <2> HIDE DEF s
  <2>3. Sound(t, source.at)
    BY <1>4, <2>1, MovedSound
  <2> QED
    BY <2>2, <2>3, ApplySound DEF Call
<1>6. ASSUME NEW tolerance \in Tolerances, setDirtyTolerance(i, tolerance) PROVE ResourceInv'
  <2> DEFINE s == [Tracked EXCEPT !.live[i]["tolerance"] = tolerance]
  <2>1. SoundBut(s, source.at, i)
    BY <1>1, <1>4, TouchedSound
  <2>2. Call(markDirty(s, i))
    BY <1>6 DEF setDirtyTolerance
  <2> HIDE DEF s
  <2> QED
    BY <2>1, <2>2, MarkSound, ApplySound DEF Call
<1>7. ASSUME NEW amount \in Int, Call(Moved(Tracked, i, amount)) PROVE ResourceInv'
  BY <1>1, <1>7, MovedSound, ApplySound DEF Call
<1>8. ASSUME NEW amount \in Amounts, addAmount(i, amount) PROVE ResourceInv'
  <2> DEFINE clamped == IF live[i].amount + amount < live[i].capacity
                        THEN live[i].amount + amount ELSE live[i].capacity
  <2>1. clamped \in Int
    BY <1>3, <1>4
  <2>2. Call(Moved(Tracked, i, clamped))
    BY <1>8 DEF addAmount
  <2> HIDE DEF clamped
  <2> QED
    BY <1>7, <2>1, <2>2
<1>9. ASSUME NEW amount \in Amounts, spendAmount(i, amount) PROVE ResourceInv'
  <2>1. live[i].amount - amount \in Int
    BY <1>3, <1>4
  <2> QED
    BY <1>7, <1>9, <2>1 DEF spendAmount
<1>10. ASSUME NEW amount \in Amounts, writeAmountDirect(i, amount) PROVE ResourceInv'
  <2>1. Sound(Write(Tracked, i, "amount", amount), source.at)
    BY <1>1, <1>4, WriteSound DEF FloatFields
  <2> QED
    BY <1>10, <2>1, ApplySound DEF writeAmountDirect, Call
<1>11. ASSUME NEW amount \in Amounts, NEW field \in {"income", "expense"},
              applyRate(i, field, amount)
       PROVE  ResourceInv'
  <2> DEFINE s == Write(Tracked, i, field, live[i][field] + amount)
             net == s.live[i].income - s.live[i].expense
  <2>1. live[i][field] + amount \in Int /\ field \in FloatFields
    BY <1>3, <1>4 DEF FloatFields
  <2>2. Sound(s, source.at)
    BY <1>1, <2>1, WriteSound
  <2>3. Call(Write(s, i, "net", net))
    BY <1>11 DEF applyRate
  <2> HIDE DEF s
  <2>4. net \in Int
    BY <2>2, LiveFields
  <2> HIDE DEF net
  <2>5. Sound(Write(s, i, "net", net), source.at)
    BY <2>2, <2>4, WriteSound DEF FloatFields
  <2> QED
    BY <2>3, <2>5, ApplySound DEF Call
<1> QED
  BY <1>2, <1>5, <1>6, <1>8, <1>9, <1>10, <1>11, FlagSound

(* One index of finalizeTick.                                               *)
LEMMA FinalizedSound ==
    ASSUME NEW s, Sound(s, source.at), NEW i \in Indices
    PROVE  Sound(Finalized(s, i), source.at)
<1> DEFINE l == s.live[i]
           amount == clampAmount(l.amount + l.income - l.expense, l.capacity)
           net == l.income - l.expense
           t == Write(Moved(s, i, amount), i, "net", net)
<1>1. /\ l.amount \in Int /\ l.income \in Int /\ l.expense \in Int /\ l.capacity \in Int
  BY LiveFields
<1>2. amount \in Int /\ net \in Int
  BY <1>1 DEF clampAmount
<1>3. Finalized(s, i) = t \/ Finalized(s, i) = markDirty(t, i)
  BY DEF Finalized
<1> HIDE DEF amount, net
<1>4. Sound(Moved(s, i, amount), source.at)
  BY <1>2, MovedSound
<1>5. Sound(t, source.at)
  BY <1>2, <1>4, WriteSound DEF FloatFields
<1> HIDE DEF t
<1>6. SoundBut(t, source.at, i)
  BY <1>5 DEF Sound, SoundBut
<1> QED
  BY <1>3, <1>5, <1>6, MarkSound

(* Every set of numbers has a least one.                                    *)
LEMMA Least ==
    ASSUME NEW T, T \subseteq Nat, T # {}
    PROVE  \E n \in T : \A m \in T : n <= m
<1>1. \E x \in T : \A y \in T : ~(<<y, x>> \in OpToRel(<, Nat))
  BY NatLessThanWellFounded, WFMin, Zenon
<1>2. \A x, y \in Nat : <<y, x>> \in OpToRel(<, Nat) <=> y < x
  BY Zenon DEF OpToRel
<1>3. PICK n \in T : \A m \in T : ~(m < n)
  BY <1>1, <1>2
<1>4. \A m \in T : n <= m
  <2> TAKE m \in T
  <2>1. m \in Nat /\ n \in Nat /\ ~(m < n)
    BY <1>3
  <2> QED
    BY <2>1
<1> QED
  BY <1>4

(* Induction over a list. The library's induction theorems take an operator;*)
(* this one takes the set of the numbers for which a claim holds.           *)
LEMMA SetInduction ==
    ASSUME NEW S, 0 \in S, \A n \in Nat : n \in S => n + 1 \in S
    PROVE  Nat \subseteq S
<1>2. SUFFICES ASSUME Nat \ S # {} PROVE FALSE
  OBVIOUS
<1>3. PICK n \in Nat \ S : \A m \in Nat \ S : n <= m
  <2> DEFINE T == Nat \ S
  <2>1. T \subseteq Nat /\ T # {}
    BY <1>2
  <2> HIDE DEF T
  <2>2. \E n \in T : \A m \in T : n <= m
    BY <2>1, Least
  <2> QED
    BY <2>2 DEF T
<1>4. n # 0
  BY <1>3
<1>5. n - 1 \in Nat /\ n - 1 \in S
  BY <1>3, <1>4
<1> QED
  BY <1>3, <1>5

(* finalizeTick: the loop over the indices, by induction on their number.   *)
LEMMA FinalizeSound ==
    ASSUME ResourceInv, finalizeTick
    PROVE  ResourceInv'
<1> DEFINE N == Len(Definitions)
           Step(f, i) == IF i = 0 THEN Tracked ELSE Finalized(f[i - 1], i)
           Defined == {n \in Nat : \E f : f = [i \in 0..n |-> Step(f, i)]}
<1>1. N \in Nat /\ Indices = 1..N
  BY ResourceAssumption DEF ResourceAssumption, Indices
<1>2. 0 \in Defined
  <2> DEFINE f == [i \in 0..0 |-> Tracked]
  <2>1. f = [i \in 0..0 |-> Step(f, i)]
    OBVIOUS
  <2> HIDE DEF f
  <2> QED
    BY <2>1
<1>3. ASSUME NEW n \in Nat, n \in Defined PROVE n + 1 \in Defined
  <2>1. PICK f : f = [i \in 0..n |-> Step(f, i)]
    BY <1>3
  <2> DEFINE h == [i \in 0..(n + 1) |-> IF i = n + 1 THEN Step(f, i) ELSE f[i]]
  <2>2. \A i \in 0..(n + 1) : i # 0 => h[i - 1] = f[i - 1]
    OBVIOUS
  <2> HIDE DEF h
  <2>3. \A i \in 0..(n + 1) : Step(h, i) = Step(f, i)
    BY <2>2
  <2> HIDE DEF Step
  <2>4. \A i \in 0..n : f[i] = Step(f, i)
    BY <2>1
  <2>5. h = [i \in 0..(n + 1) |-> h[i]] /\ \A i \in 0..(n + 1) : h[i] = Step(f, i)
    BY <2>4 DEF h
  <2>6. h = [i \in 0..(n + 1) |-> Step(h, i)]
    BY <2>3, <2>5
  <2>7. \E g : g = [i \in 0..(n + 1) |-> Step(g, i)]
    BY <2>6
  <2> QED
    BY <2>7
<1>4. Nat \subseteq Defined
  BY <1>2, <1>3, SetInduction
<1> DEFINE F == FinalizedUpTo
<1>5. F = [i \in 0..N |-> Step(F, i)]
  <2>1. F = CHOOSE f : f = [i \in 0..N |-> Step(f, i)]
    BY DEF FinalizedUpTo
  <2> HIDE DEF F
  <2> QED
    BY <1>1, <1>4, <2>1
<1> HIDE DEF F
<1>6. \A i \in 0..N : F[i] = Step(F, i)
  BY <1>5
<1> DEFINE Right == {n \in Nat : n <= N => Sound(F[n], source.at)}
<1>7. 0 \in Right
  <2>1. F[0] = Tracked
    BY <1>1, <1>6
  <2> QED
    BY <2>1 DEF ResourceInv
<1>8. ASSUME NEW n \in Nat, n \in Right PROVE n + 1 \in Right
  <2> SUFFICES ASSUME n + 1 <= N PROVE Sound(F[n + 1], source.at)
    OBVIOUS
  <2>1. n + 1 \in 0..N /\ n + 1 \in Indices /\ n + 1 # 0 /\ (n + 1) - 1 = n /\ n <= N
    BY <1>1
  <2>2. F[n + 1] = Finalized(F[n], n + 1)
    BY <1>6, <2>1
  <2>3. Sound(F[n], source.at)
    BY <1>8, <2>1
  <2> QED
    BY <2>1, <2>2, <2>3, FinalizedSound
<1>9. Nat \subseteq Right
  <2> HIDE DEF Right
  <2> QED
    BY <1>7, <1>8, SetInduction
<1>10. Sound(F[N], source.at)
  BY <1>1, <1>9
<1>11. Apply(F[N]) /\ UNCHANGED <<publish, activePublishIndex>>
  BY DEF finalizeTick, F
<1> QED
  BY <1>10, <1>11, ApplySound

-----------------------------------------------------------------------------
(* Publishing.                                                              *)

(* What a publish lists are the indices on the dirty list that still differ.*)
LEMMA PublishedFacts ==
    ASSUME scratch \in Seq(Indices)
    PROVE  /\ Published \in Seq(Indices)
           /\ \A i : i \in ToSet(Published) <=> i \in ToSet(scratch) /\ Dirty(live[i], source.at[i])
<1> DEFINE L == Len(scratch)
           Differs(i) == Dirty(live[i], source.at[i])
           Step(f, n) == IF n = 0 THEN <<>>
                         ELSE IF Differs(scratch[n]) THEN Append(f[n - 1], scratch[n])
                              ELSE f[n - 1]
           Defined == {n \in Nat : \E f : f = [m \in 0..n |-> Step(f, m)]}
<1>1. L \in Nat /\ \A n \in 1..L : scratch[n] \in Indices
  BY InList
<1>2. 0 \in Defined
  <2> DEFINE f == [m \in 0..0 |-> <<>>]
  <2>1. f = [m \in 0..0 |-> Step(f, m)]
    OBVIOUS
  <2> HIDE DEF f
  <2> QED
    BY <2>1
<1>3. ASSUME NEW n \in Nat, n \in Defined PROVE n + 1 \in Defined
  <2>1. PICK f : f = [m \in 0..n |-> Step(f, m)]
    BY <1>3
  <2> DEFINE h == [m \in 0..(n + 1) |-> IF m = n + 1 THEN Step(f, m) ELSE f[m]]
  <2>2. \A m \in 0..(n + 1) : m # 0 => h[m - 1] = f[m - 1]
    OBVIOUS
  <2> HIDE DEF h, Differs
  <2>3. \A m \in 0..(n + 1) : Step(h, m) = Step(f, m)
    BY <2>2
  <2> HIDE DEF Step
  <2>4. \A m \in 0..n : f[m] = Step(f, m)
    BY <2>1
  <2>5. h = [m \in 0..(n + 1) |-> h[m]] /\ \A m \in 0..(n + 1) : h[m] = Step(f, m)
    BY <2>4 DEF h
  <2>6. h = [m \in 0..(n + 1) |-> Step(h, m)]
    BY <2>3, <2>5
  <2>7. \E g : g = [m \in 0..(n + 1) |-> Step(g, m)]
    BY <2>6
  <2> QED
    BY <2>7
<1>4. Nat \subseteq Defined
  BY <1>2, <1>3, SetInduction
<1> DEFINE F == CHOOSE f : f = [m \in 0..L |-> Step(f, m)]
<1>5. F = [m \in 0..L |-> Step(F, m)]
  BY <1>1, <1>4
<1>6. Published = F[L]
  BY DEF Published
<1> HIDE DEF F, Differs
<1>7. \A m \in 0..L : F[m] = Step(F, m)
  BY <1>5
<1>8. F[0] = <<>>
  BY <1>1, <1>7
<1>9. ASSUME NEW n \in Nat, n + 1 <= L
      PROVE  F[n + 1] = IF Differs(scratch[n + 1]) THEN Append(F[n], scratch[n + 1]) ELSE F[n]
  <2>1. n + 1 \in 0..L /\ n + 1 # 0 /\ (n + 1) - 1 = n
    BY <1>1, <1>9
  <2>2. F[n + 1] = Step(F, n + 1)
    BY <1>7, <2>1, Zenon
  <2> QED
    BY <2>1, <2>2
<1> DEFINE Kept(n) == {scratch[m] : m \in {k \in 1..n : Differs(scratch[k])}}
           Right == {n \in Nat : n <= L => F[n] \in Seq(Indices) /\ ToSet(F[n]) = Kept(n)}
<1> HIDE DEF L, Step
<1>10. 0 \in Right
  <2>1. F[0] \in Seq(Indices)
    BY <1>8, EmptySeq
  <2>2. ToSet(F[0]) = {}
    BY <1>8 DEF ToSet
  <2>3. Kept(0) = {}
    OBVIOUS
  <2> QED
    BY <2>1, <2>2, <2>3
<1>11. ASSUME NEW n \in Nat, n \in Right PROVE n + 1 \in Right
  <2> SUFFICES ASSUME n + 1 <= L
               PROVE  F[n + 1] \in Seq(Indices) /\ ToSet(F[n + 1]) = Kept(n + 1)
    OBVIOUS
  <2>1. F[n] \in Seq(Indices) /\ ToSet(F[n]) = Kept(n)
    BY <1>1, <1>11
  <2>2. n + 1 \in 1..L /\ scratch[n + 1] \in Indices
    BY <1>1
  <2>3. Kept(n + 1) = Kept(n) \cup (IF Differs(scratch[n + 1]) THEN {scratch[n + 1]} ELSE {})
    <3>1. \A k \in 1..(n + 1) : k \in 1..n \/ k = n + 1
      OBVIOUS
    <3>2. \A k \in 1..n : k \in 1..(n + 1)
      OBVIOUS
    <3>3. n + 1 \in 1..(n + 1)
      OBVIOUS
    <3> QED
      BY <3>1, <3>2, <3>3
  <2> HIDE DEF Kept
  <2>4. CASE Differs(scratch[n + 1])
    <3>1. F[n + 1] = Append(F[n], scratch[n + 1])
      BY <1>9, <2>4
    <3>2. /\ Append(F[n], scratch[n + 1]) \in Seq(Indices)
          /\ ToSet(Append(F[n], scratch[n + 1])) = ToSet(F[n]) \cup {scratch[n + 1]}
      BY <2>1, <2>2, AppendList
    <3> QED
      BY <2>1, <2>3, <2>4, <3>1, <3>2
  <2>5. CASE ~Differs(scratch[n + 1])
    BY <1>9, <2>1, <2>3, <2>5
  <2> QED
    BY <2>4, <2>5
<1>12. Nat \subseteq Right
  <2> HIDE DEF Right
  <2> QED
    BY <1>10, <1>11, SetInduction
<1>13. Published \in Seq(Indices) /\ ToSet(Published) = Kept(L)
  <2> HIDE DEF Kept
  <2> QED
    BY <1>1, <1>6, <1>12
<1>14. \A i : i \in ToSet(scratch) <=> \E n \in 1..L : scratch[n] = i
  BY InList DEF L
<1>15. \A i : i \in Kept(L) <=> \E n \in 1..L : Differs(scratch[n]) /\ scratch[n] = i
  OBVIOUS
<1> HIDE DEF Kept
<1>16. \A i : i \in ToSet(Published) <=> i \in ToSet(scratch) /\ Differs(i)
  BY <1>13, <1>14, <1>15
<1> QED
  BY <1>13, <1>16 DEF Differs

(* What a publish has just copied agrees with its original.                 *)
LEMMA NearSelf ==
    ASSUME NEW l \in Record
    PROVE  Agree(l, l) /\ Same(l, l)
BY DEF Agree, Same, Near, Record

(* Records that are the same but for the tick's delta agree with the same.  *)
LEMMA SameAgrees ==
    ASSUME NEW l \in Record, NEW p \in Record, NEW q \in Record, Same(p, q), Agree(l, p)
    PROVE  Agree(l, q)
BY DEF Agree, Same, Near, Record

(* Zeroing the tick's delta leaves the same record.                         *)
LEMMA SameFacts ==
    ASSUME NEW p \in Record, NEW q \in Record, NEW r \in Record
    PROVE  /\ Same(p, q) => Same(q, p)
           /\ Same(p, q) /\ Same(q, r) => Same(p, r)
           /\ [p EXCEPT !.tickDelta = 0] \in Record
           /\ Same(p, [p EXCEPT !.tickDelta = 0])
BY DEF Same, Record

(* createPublishSnapshot: the standby buffer, caught up, becomes the source.*)
LEMMA PublishSound ==
    ASSUME ResourceInv, createPublishSnapshot
    PROVE  /\ ResourceInv'
           /\ source' = PublishedBuffer
           /\ \A i \in Indices : IF i \in ToSet(Published) THEN source'.at[i] = live[i]
                               ELSE Same(source'.at[i], source.at[i])
<1> DEFINE a == activePublishIndex
           new == PublishedBuffer
           old == publish[1 - a]
<1>1. /\ a \in {0, 1} /\ 1 - a \in {0, 1} /\ 1 - a # a /\ 1 - (1 - a) = a
      /\ publish \in [{0, 1} -> Buffer]
  BY DEF ResourceInv, Buffers
<1>2. /\ live \in [Indices -> Record] /\ scratch \in Seq(Indices)
      /\ positions \in [Indices -> Nat] /\ dirtyFlags = ToSet(scratch)
      /\ Places(scratch, positions)
      /\ \A j \in Indices \ ToSet(scratch) : Agree(live[j], source.at[j])
  BY StateFields, TrackedFields DEF ResourceInv, Sound
<1>3. /\ source \in Buffer /\ old \in Buffer
  BY <1>1 DEF source
<1>4. /\ source.at \in [Indices -> Record] /\ old.at \in [Indices -> Record]
  BY <1>3 DEF Buffer
<1>5. \A i \in Indices \ ToSet(source.dirty) : Same(source.at[i], old.at[i])
  BY DEF ResourceInv, Buffers
<1>6. /\ Published \in Seq(Indices)
      /\ \A i : i \in ToSet(Published) <=> i \in ToSet(scratch) /\ Dirty(live[i], source.at[i])
  BY <1>2, PublishedFacts
<1> DEFINE CaughtUp(i) ==
             IF i \in ToSet(source.dirty) THEN [source.at[i] EXCEPT !.tickDelta = 0]
             ELSE IF i \in ToSet(scratch) THEN [old.at[i] EXCEPT !.tickDelta = 0]
             ELSE old.at[i]
<1>7. new = [dirty |-> Published,
             at |-> [i \in Indices |-> IF i \in ToSet(Published) THEN live[i] ELSE CaughtUp(i)]]
  BY DEF PublishedBuffer
<1> HIDE DEF old
<1>8. ASSUME NEW i \in Indices PROVE CaughtUp(i) \in Record /\ Same(CaughtUp(i), source.at[i])
  <2>1. source.at[i] \in Record /\ old.at[i] \in Record
    BY <1>4
  <2>2. /\ [source.at[i] EXCEPT !.tickDelta = 0] \in Record
        /\ Same(source.at[i], [source.at[i] EXCEPT !.tickDelta = 0])
    BY <2>1, SameFacts
  <2>3. CASE i \in ToSet(source.dirty)
    BY <2>1, <2>2, <2>3, SameFacts
  <2>4. CASE i \notin ToSet(source.dirty)
    <3>1. Same(source.at[i], old.at[i])
      BY <1>5, <2>4
    <3>2. /\ [old.at[i] EXCEPT !.tickDelta = 0] \in Record
          /\ Same(old.at[i], [old.at[i] EXCEPT !.tickDelta = 0])
      BY <2>1, SameFacts
    <3>3. CaughtUp(i) \in {old.at[i], [old.at[i] EXCEPT !.tickDelta = 0]}
      BY <2>4
    <3>4. Same(source.at[i], CaughtUp(i)) /\ CaughtUp(i) \in Record
      <4> HIDE DEF CaughtUp
      <4>1. PICK p \in Record, q \in Record, r \in Record :
              /\ source.at[i] = p /\ old.at[i] = q /\ [old.at[i] EXCEPT !.tickDelta = 0] = r
        BY <2>1, <3>2
      <4>2. Same(p, q) /\ Same(q, r) /\ CaughtUp(i) \in {q, r}
        BY <3>1, <3>2, <3>3, <4>1
      <4>3. Same(p, r)
        BY <4>2, SameFacts
      <4> QED
        BY <4>1, <4>2, <4>3
    <3> HIDE DEF CaughtUp
    <3> QED
      BY <2>1, <3>4, SameFacts
  <2> QED
    BY <2>3, <2>4
<1> HIDE DEF CaughtUp, new
<1>9. /\ new \in Buffer /\ new.dirty = Published
      /\ \A i \in Indices : new.at[i] = IF i \in ToSet(Published) THEN live[i] ELSE CaughtUp(i)
  BY <1>2, <1>6, <1>7, <1>8 DEF Buffer
<1>10. /\ publish' = [publish EXCEPT ![1 - a] = new] /\ activePublishIndex' = 1 - a
       /\ scratch' = <<>> /\ live' = live
       /\ positions' = [i \in Indices |->
                           IF i \in ToSet(source.dirty) \cup ToSet(scratch)
                           THEN SCRATCH_UNSET ELSE positions[i]]
       /\ dirtyFlags' = dirtyFlags \ (ToSet(source.dirty) \cup ToSet(scratch))
  BY DEF createPublishSnapshot, new
<1>11. source' = new /\ publish'[1 - activePublishIndex'] = source
  BY <1>1, <1>10 DEF source
<1>12. \A i \in Indices : IF i \in ToSet(Published) THEN source'.at[i] = live[i]
                         ELSE Same(source'.at[i], source.at[i])
  BY <1>8, <1>9, <1>11
<1>13. Buffers'
  <2>1. publish' \in [{0, 1} -> Buffer] /\ activePublishIndex' \in {0, 1}
    BY <1>1, <1>9, <1>10
  <2>2. \A i \in Indices \ ToSet(source'.dirty) :
           Same(source'.at[i], (publish'[1 - activePublishIndex']).at[i])
    BY <1>9, <1>11, <1>12
  <2> QED
    BY <2>1, <2>2 DEF Buffers
<1>14. Sound(Tracked', source'.at)
  <2>1. ToSet(scratch') = {} /\ scratch' \in Seq(Indices) /\ Len(scratch') = 0
    BY <1>10, EmptySeq DEF ToSet
  <2>2. dirtyFlags' = {}
    BY <1>2, <1>10
  <2>3. /\ positions' \in [Indices -> Nat]
        /\ \A i \in Indices : positions'[i] = 0
    BY <1>2, <1>10 DEF Places, SCRATCH_UNSET
  <2>4. ASSUME NEW j \in Indices PROVE Agree(live[j], source'.at[j])
    <3>1. live[j] \in Record /\ source.at[j] \in Record /\ source'.at[j] \in Record
      BY <1>2, <1>4, <1>9, <1>11 DEF Buffer
    <3>2. CASE j \in ToSet(Published)
      BY <1>12, <3>1, <3>2, NearSelf
    <3>3. CASE j \notin ToSet(Published)
      <4>1. Agree(live[j], source.at[j])
        <5>1. CASE j \in ToSet(scratch)
          BY <1>6, <3>3, <5>1 DEF Dirty, Agree, epsilonEquals, FloatFields
        <5>2. CASE j \notin ToSet(scratch)
          BY <1>2, <5>2
        <5> QED
          BY <5>1, <5>2
      <4>2. Same(source'.at[j], source.at[j])
        BY <1>12, <3>3
      <4> QED
        BY <3>1, <4>1, <4>2, SameAgrees, SameFacts
    <3> QED
      BY <3>2, <3>3
  <2>5. Tracked' \in TrackedState
    BY <1>2, <1>10, <2>1, <2>2, <2>3 DEF Tracked, TrackedState
  <2>6. /\ Tracked'.live = live /\ Tracked'.scratch = scratch'
        /\ Tracked'.positions = positions' /\ Tracked'.dirtyFlags = dirtyFlags'
    BY <1>10 DEF Tracked
  <2> QED
    BY <2>1, <2>2, <2>3, <2>4, <2>5, <2>6 DEF Sound, Places
<1> QED
  BY <1>11, <1>12, <1>13, <1>14 DEF ResourceInv, new

(* The reset of a tick's rates changes no field that publishes compare.     *)
LEMMA ResetSound ==
    ASSUME ResourceInv, resetPerTickAccumulators
    PROVE  ResourceInv'
<1> DEFINE zero(l) == [l EXCEPT !.income = 0, !.expense = 0, !.net = 0, !.tickDelta = 0]
           zeroed(i) == zero(live[i])
<1>1. /\ Tracked \in TrackedState /\ live \in [Indices -> Record]
      /\ dirtyFlags = ToSet(scratch) /\ Places(scratch, positions)
      /\ \A j \in Indices \ ToSet(scratch) : Agree(live[j], source.at[j])
  BY StateFields, TrackedFields DEF ResourceInv, Sound
<1>2. ASSUME NEW i \in Indices
      PROVE  /\ zeroed(i) \in Record /\ zeroed(i).amount = live[i].amount
             /\ zeroed(i).capacity = live[i].capacity
             /\ zeroed(i).tolerance = live[i].tolerance /\ zeroed(i).flags = live[i].flags
  <2>1. PICK l \in Record : l = live[i]
    BY <1>1
  <2> DEFINE a == [l EXCEPT !.income = 0]
             b == [a EXCEPT !.expense = 0]
             c == [b EXCEPT !.net = 0]
             d == [c EXCEPT !.tickDelta = 0]
  <2>2. a \in Record /\ a.amount = l.amount /\ a.capacity = l.capacity
        /\ a.tolerance = l.tolerance /\ a.flags = l.flags
    BY DEF Record
  <2>3. b \in Record /\ b.amount = a.amount /\ b.capacity = a.capacity
        /\ b.tolerance = a.tolerance /\ b.flags = a.flags
    <3> HIDE DEF a
    <3> QED
      BY <2>2 DEF Record
  <2>4. c \in Record /\ c.amount = b.amount /\ c.capacity = b.capacity
        /\ c.tolerance = b.tolerance /\ c.flags = b.flags
    <3> HIDE DEF b
    <3> QED
      BY <2>3 DEF Record
  <2>5. d \in Record /\ d.amount = c.amount /\ d.capacity = c.capacity
        /\ d.tolerance = c.tolerance /\ d.flags = c.flags
    <3> HIDE DEF c
    <3> QED
      BY <2>4 DEF Record
  <2>6. zero(l) = d
    OBVIOUS
  <2> HIDE DEF a, b, c, d
  <2> QED
    BY <2>1, <2>2, <2>3, <2>4, <2>5, <2>6
<1>3. /\ live' = [i \in Indices |-> zeroed(i)]
      /\ UNCHANGED <<scratch, positions, dirtyFlags, publish, activePublishIndex>>
  BY DEF resetPerTickAccumulators
<1> HIDE DEF zeroed
<1>4. live' \in [Indices -> Record] /\ \A i \in Indices : live'[i] = zeroed(i)
  BY <1>2, <1>3
<1>5. \A j \in Indices \ ToSet(scratch) : Agree(live'[j], source.at[j])
  BY <1>1, <1>2, <1>4 DEF Agree
<1>6. Tracked' \in TrackedState
  BY <1>1, <1>3, <1>4 DEF Tracked, TrackedState
<1>7. source' = source
  BY <1>3 DEF source
<1>8. /\ Tracked'.live = live' /\ Tracked'.scratch = scratch
      /\ Tracked'.positions = positions /\ Tracked'.dirtyFlags = dirtyFlags
  BY <1>3 DEF Tracked
<1>9. Sound(Tracked', source'.at)
  BY <1>1, <1>5, <1>6, <1>7, <1>8 DEF Sound
<1>10. Buffers'
  BY <1>3, <1>7 DEF ResourceInv, Buffers
<1> QED
  BY <1>9, <1>10 DEF ResourceInv

(* The initial buffers agree.                                               *)
LEMMA InitSound == Init => ResourceInv
<1> SUFFICES ASSUME Init PROVE ResourceInv
  OBVIOUS
<1>1. live \in [Indices -> Record]
  <2>1. ASSUME NEW i \in Indices
        PROVE  [amount |-> Definitions[i].amount, capacity |-> Definitions[i].capacity,
                tolerance |-> Definitions[i].tolerance, flags |-> Flags,
                income |-> 0, expense |-> 0, net |-> 0, tickDelta |-> 0] \in Record
    <3>1. PICK d \in [amount : Nat, capacity : Capacities, tolerance : Tolerances] :
            d = Definitions[i]
      <4>1. Definitions \in Seq([amount : Nat, capacity : Capacities, tolerance : Tolerances])
        BY ResourceAssumption DEF ResourceAssumption
      <4>2. i \in 1..Len(Definitions)
        BY <4>1, LenProperties DEF Indices
      <4> QED
        BY <4>1, <4>2, ElementOfSeq
    <3>2. d.amount \in Nat /\ d.capacity \in Capacities /\ d.tolerance \in Tolerances
      OBVIOUS
    <3>3. PICK amount \in Nat, capacity \in Nat, tolerance \in Nat :
            /\ Definitions[i].amount = amount /\ Definitions[i].capacity = capacity
            /\ Definitions[i].tolerance = tolerance
      <4>1. Capacities \subseteq Nat /\ Tolerances \subseteq Nat
        BY ResourceAssumption DEF ResourceAssumption
      <4> QED
        BY <3>1, <3>2, <4>1, Zenon
    <3>4. [amount |-> amount, capacity |-> capacity, tolerance |-> tolerance, flags |-> Flags,
           income |-> 0, expense |-> 0, net |-> 0, tickDelta |-> 0] \in Record
      BY DEF Record
    <3> QED
      BY <3>3, <3>4
  <2> QED
    BY <2>1 DEF Init, ResourceInit
<1>2. /\ scratch = <<>> /\ positions = [i \in Indices |-> 0] /\ dirtyFlags = {}
      /\ publish = [b \in {0, 1} |-> [dirty |-> <<>>, at |-> live]] /\ activePublishIndex = 0
  BY DEF Init, ResourceInit, SCRATCH_UNSET
<1>3. scratch \in Seq(Indices) /\ ToSet(scratch) = {} /\ Len(scratch) = 0
  BY <1>2, EmptySeq DEF ToSet
<1>4. [dirty |-> <<>>, at |-> live] \in Buffer
  BY <1>1, EmptySeq DEF Buffer
<1>5. publish \in [{0, 1} -> Buffer] /\ publish[0].at = live /\ publish[1].at = live
  BY <1>2, <1>4
<1>6. \A i \in Indices : Agree(live[i], live[i]) /\ Same(live[i], live[i])
  BY <1>1, NearSelf
<1>7. Buffers
  BY <1>2, <1>5, <1>6 DEF Buffers, source
<1>8. Tracked \in TrackedState
  BY <1>1, <1>2, <1>3 DEF Tracked, TrackedState
<1>9. Sound(Tracked, source.at)
  BY <1>2, <1>3, <1>5, <1>6, <1>8, TrackedFields DEF Sound, Places, source
<1> QED
  BY <1>7, <1>9 DEF ResourceInv

(* Every step, those of the transport and its reader included.              *)
LEMMA ResourceStep == ResourceInv /\ [Next]_vars => ResourceInv'
<1> SUFFICES ASSUME ResourceInv, [Next]_vars PROVE ResourceInv'
  OBVIOUS
<1>1. CASE Calls
  BY <1>1, CallsSound
<1>2. CASE finalizeTick
  BY <1>2, FinalizeSound
<1>3. CASE resetPerTickAccumulators
  BY <1>3, ResetSound
<1>4. CASE createPublishSnapshot
  BY <1>4, PublishSound
<1>5. CASE UNCHANGED resourceVars
  <2>1. UNCHANGED <<live, scratch, positions, dirtyFlags, publish, activePublishIndex>>
    BY <1>5 DEF resourceVars, liveVars
  <2> QED
    BY <2>1 DEF ResourceInv, Buffers, Tracked, source
<1> QED
  BY <1>1, <1>2, <1>3, <1>4, <1>5
  DEF Next, createResourcePublishTransport, EmptyTransport, PublishUnsent, Publishing,
      ReaderApplies, ReaderReleases, vars

(* DirtyListMissesNothing: whatever calls, ticks and publishes put on the   *)
(* dirty list and take off it (resource-state.ts), the list, its map of     *)
(* places and the flags agree, and what is not listed has been published    *)
(* within its tolerance.                                                    *)
THEOREM DirtyListCorrect == Spec => []DirtyListMissesNothing
<1>1. ResourceInv => DirtyListMissesNothing
  BY TrackedFields
  DEF ResourceInv, Sound, Places, Agree, DirtyListMissesNothing, ScratchExact,
      CleanIsPublished, SCRATCH_UNSET
<1> QED
  BY <1>1, InitSound, ResourceStep, PTL DEF Spec
-----------------------------------------------------------------------------
(* The pool's lists.                                                        *)

Uniq(list) == \A m, n \in 1..Len(list) : list[m] = list[n] => m = n

(* An element put anywhere into a list.                                     *)
LEMMA Inserted ==
    ASSUME NEW S, NEW list \in Seq(S), NEW e \in S, NEW k \in 1..(Len(list) + 1)
    PROVE  /\ InsertAt(list, k, e) \in Seq(S)
           /\ ToSet(InsertAt(list, k, e)) = ToSet(list) \cup {e}
           /\ Uniq(list) /\ e \notin ToSet(list) => Uniq(InsertAt(list, k, e))
<1> DEFINE front == SubSeq(list, 1, k - 1)
           back == SubSeq(list, k, Len(list))
           r == InsertAt(list, k, e)
<1>0. /\ Len(list) \in Nat /\ k \in Nat
      /\ \A n \in 1..Len(list) : list[n] \in S
  BY LenProperties
<1>1. /\ front \in Seq(S) /\ Len(front) = k - 1
      /\ \A n \in 1..(k - 1) : front[n] = list[n]
  <2>1. \A n \in 1..(k - 1) : list[n] \in S
    BY <1>0
  <2> QED
    BY <1>0, <2>1, SubSeqProperties
<1>2. /\ back \in Seq(S) /\ Len(back) = Len(list) - k + 1
      /\ \A n \in 1..(Len(list) - k + 1) : back[n] = list[k + n - 1]
  <2>1. \A n \in k..Len(list) : list[n] \in S
    BY <1>0
  <2> QED
    BY <1>0, <2>1, SubSeqProperties
<1>3. <<e>> \in Seq(S) /\ Len(<<e>>) = 1 /\ <<e>>[1] = e
  OBVIOUS
<1>4. r = (front \o <<e>>) \o back
  BY DEF InsertAt
<1> HIDE DEF front, back, r
<1>5. /\ front \o <<e>> \in Seq(S) /\ Len(front \o <<e>>) = k
      /\ \A n \in 1..k : (front \o <<e>>)[n] = IF n < k THEN list[n] ELSE e
  <2>1. /\ front \o <<e>> \in Seq(S) /\ Len(front \o <<e>>) = Len(front) + 1
        /\ \A n \in 1..(Len(front) + 1) : (front \o <<e>>)[n] =
              IF n <= Len(front) THEN front[n] ELSE <<e>>[n - Len(front)]
    BY <1>1, <1>3, ConcatProperties
  <2> QED
    BY <1>0, <1>1, <1>3, <2>1
<1>6. /\ r \in Seq(S) /\ Len(r) = Len(list) + 1
      /\ \A n \in 1..(Len(list) + 1) :
            r[n] = IF n < k THEN list[n] ELSE IF n = k THEN e ELSE list[n - 1]
  <2>1. /\ r \in Seq(S) /\ Len(r) = k + Len(back)
        /\ \A n \in 1..(k + Len(back)) : r[n] =
              IF n <= k THEN (front \o <<e>>)[n] ELSE back[n - k]
    BY <1>2, <1>4, <1>5, ConcatProperties
  <2>2. Len(r) = Len(list) + 1
    BY <1>0, <1>2, <2>1
  <2>3. ASSUME NEW n \in 1..(Len(list) + 1)
        PROVE  r[n] = IF n < k THEN list[n] ELSE IF n = k THEN e ELSE list[n - 1]
    <3>1. CASE n <= k
      <4>1. n \in 1..k /\ n \in 1..(k + Len(back))
        BY <1>0, <1>2, <3>1
      <4>2. r[n] = (front \o <<e>>)[n]
        BY <2>1, <3>1, <4>1
      <4> QED
        BY <1>0, <1>5, <3>1, <4>1, <4>2
    <3>2. CASE n > k
      <4>1. PICK m \in 1..(Len(list) - k + 1) : m = n - k
        BY <1>0, <3>2
      <4>2. n \in 1..(k + Len(back)) /\ k + m - 1 = n - 1 /\ ~(n <= k) /\ ~(n < k) /\ n # k
        BY <1>0, <1>2, <3>2, <4>1
      <4>3. r[n] = back[m] /\ back[m] = list[k + m - 1]
        BY <1>2, <2>1, <4>1, <4>2
      <4> QED
        BY <4>2, <4>3
    <3> QED
      BY <1>0, <3>1, <3>2
  <2> QED
    BY <2>1, <2>2, <2>3
<1>7. /\ \A j : j \in ToSet(list) <=> \E n \in 1..Len(list) : list[n] = j
      /\ \A j : j \in ToSet(r) <=> \E n \in 1..Len(r) : r[n] = j
  BY <1>6, InList
<1>8. ToSet(r) = ToSet(list) \cup {e}
  <2>1. ASSUME NEW j \in ToSet(r) PROVE j \in ToSet(list) \cup {e}
    <3>1. PICK n \in 1..Len(r) : r[n] = j
      BY <1>7
    <3>2. \/ j = e \/ (n \in 1..Len(list) /\ list[n] = j)
          \/ (n - 1 \in 1..Len(list) /\ list[n - 1] = j)
      BY <1>0, <1>6, <3>1
    <3> QED
      BY <1>7, <3>2
  <2>2. ASSUME NEW j \in ToSet(list) PROVE j \in ToSet(r)
    <3>1. PICK n \in 1..Len(list) : list[n] = j
      BY <1>7
    <3>2. \E m \in 1..Len(r) : r[m] = j
      <4>1. CASE n < k
        BY <1>0, <1>6, <3>1, <4>1
      <4>2. CASE n >= k
        <5>1. n + 1 \in 1..Len(r) /\ r[n + 1] = j
          BY <1>0, <1>6, <3>1, <4>2
        <5> QED
          BY <5>1
      <4> QED
        BY <1>0, <4>1, <4>2
    <3> QED
      BY <1>7, <3>2
  <2>3. e \in ToSet(r)
    <3>1. k \in 1..Len(r) /\ r[k] = e
      BY <1>0, <1>6
    <3> QED
      BY <1>7, <3>1
  <2> QED
    BY <2>1, <2>2, <2>3
<1>9. ASSUME Uniq(list), e \notin ToSet(list), NEW m \in 1..Len(r), NEW n \in 1..Len(r),
             r[m] = r[n]
      PROVE  m = n
  <2>1. \A x \in 1..Len(list) : list[x] # e
    BY <1>7, <1>9
  <2>2. \A x, y \in 1..Len(list) : list[x] = list[y] => x = y
    BY <1>9 DEF Uniq
  <2>3. PICK x \in Int : x = IF m < k THEN m ELSE m - 1
    BY <1>0
  <2>4. PICK y \in Int : y = IF n < k THEN n ELSE n - 1
    BY <1>0
  <2>5. /\ m # k => x \in 1..Len(list) /\ r[m] = list[x]
        /\ n # k => y \in 1..Len(list) /\ r[n] = list[y]
    BY <1>0, <1>6, <2>3, <2>4
  <2>6. r[k] = e
    BY <1>0, <1>6
  <2>7. (m = k) <=> (n = k)
    BY <1>9, <2>1, <2>5, <2>6
  <2>8. CASE m # k
    <3>1. x = y
      BY <1>9, <2>2, <2>5, <2>7, <2>8
    <3> QED
      BY <1>0, <2>3, <2>4, <2>7, <2>8, <3>1
  <2> QED
    BY <2>7, <2>8
<1> QED
  BY <1>6, <1>8, <1>9 DEF r, Uniq

(* An element taken out of a list.                                          *)
LEMMA RemovedAt ==
    ASSUME NEW S, NEW list \in Seq(S), NEW k \in 1..Len(list), Uniq(list)
    PROVE  /\ RemoveAt(list, k) \in Seq(S)
           /\ ToSet(RemoveAt(list, k)) = ToSet(list) \ {list[k]}
           /\ Uniq(RemoveAt(list, k))
<1> DEFINE front == SubSeq(list, 1, k - 1)
           back == SubSeq(list, k + 1, Len(list))
           r == RemoveAt(list, k)
<1>0. /\ Len(list) \in Nat /\ k \in Nat
      /\ \A n \in 1..Len(list) : list[n] \in S
  BY LenProperties
<1>1. /\ front \in Seq(S) /\ Len(front) = k - 1
      /\ \A n \in 1..(k - 1) : front[n] = list[n]
  <2>1. \A n \in 1..(k - 1) : list[n] \in S
    BY <1>0
  <2> QED
    BY <1>0, <2>1, SubSeqProperties
<1>2. /\ back \in Seq(S) /\ Len(back) = Len(list) - k
      /\ \A n \in 1..(Len(list) - k) : back[n] = list[k + n]
  <2>1. \A n \in (k + 1)..Len(list) : list[n] \in S
    BY <1>0
  <2> QED
    BY <1>0, <2>1, SubSeqProperties
<1>3. r = front \o back
  BY DEF RemoveAt
<1> HIDE DEF front, back, r
<1>4. /\ r \in Seq(S) /\ Len(r) = Len(list) - 1
      /\ \A n \in 1..(Len(list) - 1) : r[n] = IF n < k THEN list[n] ELSE list[n + 1]
  <2>1. /\ r \in Seq(S) /\ Len(r) = Len(front) + Len(back)
        /\ \A n \in 1..(Len(front) + Len(back)) :
              r[n] = IF n <= Len(front) THEN front[n] ELSE back[n - Len(front)]
    BY <1>1, <1>2, <1>3, ConcatProperties
  <2>2. Len(r) = Len(list) - 1
    BY <1>0, <1>1, <1>2, <2>1
  <2>3. ASSUME NEW n \in 1..(Len(list) - 1)
        PROVE  r[n] = IF n < k THEN list[n] ELSE list[n + 1]
    <3>1. CASE n < k
      <4>1. n \in 1..(k - 1) /\ n <= Len(front) /\ n \in 1..(Len(front) + Len(back))
        BY <1>0, <1>1, <1>2, <3>1
      <4> QED
        BY <1>1, <2>1, <3>1, <4>1
    <3>2. CASE n >= k
      <4>1. PICK m \in 1..(Len(list) - k) : m = n - (k - 1)
        BY <1>0, <3>2
      <4>2. n \in 1..(Len(front) + Len(back)) /\ k + m = n + 1 /\ ~(n <= Len(front)) /\ ~(n < k)
            /\ n - Len(front) = m
        BY <1>0, <1>1, <1>2, <3>2, <4>1
      <4>3. r[n] = back[m] /\ back[m] = list[k + m]
        BY <1>2, <2>1, <4>1, <4>2
      <4> QED
        BY <4>2, <4>3
    <3> QED
      BY <1>0, <3>1, <3>2
  <2> QED
    BY <2>1, <2>2, <2>3
<1>5. /\ \A j : j \in ToSet(list) <=> \E n \in 1..Len(list) : list[n] = j
      /\ \A j : j \in ToSet(r) <=> \E n \in 1..Len(r) : r[n] = j
  BY <1>4, InList
<1>6. \A m, n \in 1..Len(list) : list[m] = list[n] => m = n
  BY DEF Uniq
<1>7. ASSUME NEW j \in ToSet(r) PROVE j \in ToSet(list) /\ j # list[k]
  <2>1. PICK n \in 1..Len(r) : r[n] = j
    BY <1>5
  <2>2. PICK m \in 1..Len(list) : m = (IF n < k THEN n ELSE n + 1)
    BY <1>0, <1>4
  <2>3. m # k /\ list[m] = j
    BY <1>0, <1>4, <2>1, <2>2
  <2> QED
    BY <1>5, <1>6, <2>3
<1>8. ASSUME NEW j \in ToSet(list), j # list[k] PROVE j \in ToSet(r)
  <2>1. PICK n \in 1..Len(list) : list[n] = j /\ n # k
    BY <1>5, <1>8
  <2>2. PICK m \in 1..Len(r) : m = (IF n < k THEN n ELSE n - 1)
    BY <1>0, <1>4, <2>1
  <2>3. r[m] = j
    BY <1>0, <1>4, <2>1, <2>2
  <2> QED
    BY <1>5, <2>3
<1>9. ASSUME NEW m \in 1..Len(r), NEW n \in 1..Len(r), r[m] = r[n] PROVE m = n
  <2>1. PICK x \in 1..Len(list) : x = (IF m < k THEN m ELSE m + 1)
    BY <1>0, <1>4
  <2>2. PICK y \in 1..Len(list) : y = (IF n < k THEN n ELSE n + 1)
    BY <1>0, <1>4
  <2>3. list[x] = r[m] /\ list[y] = r[n]
    BY <1>0, <1>4, <2>1, <2>2
  <2>4. x = y
    BY <1>6, <1>9, <2>3
  <2> QED
    BY <1>0, <2>1, <2>2, <2>4
<1> QED
  BY <1>4, <1>7, <1>8, <1>9 DEF r, Uniq
-----------------------------------------------------------------------------
(* The pool.                                                                *)

Item == [index: Indices, record: Record]
Entry == [kind: Kinds, capacity: Nat, holds: Seq(Item)]
PoolState == [entries: Seq(Entry), available: [Kinds -> Seq(Nat)], active: SUBSET Nat]

(* A list has entries of its kind that nobody holds, each of them once.     *)
PoolSound(p) ==
    /\ p \in PoolState
    /\ p.active \subseteq 1..Len(p.entries)
    /\ \A kind \in Kinds : Uniq(p.available[kind])
    /\ \A kind \in Kinds : \A id \in ToSet(p.available[kind]) :
          /\ id \in 1..Len(p.entries) /\ id \notin p.active
          /\ p.entries[id].kind = kind

(* The fields of a pool.                                                    *)
LEMMA PoolFields ==
    ASSUME NEW p \in PoolState
    PROVE  /\ p.entries \in Seq(Entry) /\ p.available \in [Kinds -> Seq(Nat)]
           /\ p.active \subseteq Nat /\ Len(p.entries) \in Nat
           /\ \A id \in 1..Len(p.entries) : p.entries[id] \in Entry
BY ElementOfSeq, LenProperties DEF PoolState

(* acquire hands out an entry nobody holds and touches no other.            *)
LEMMA AcquireSound ==
    ASSUME NEW p, PoolSound(p), NEW kind \in Kinds, NEW length \in Nat
    PROVE  LET a == acquire(p, kind, length)
           IN  /\ PoolSound(a.pool)
               /\ a.id \in Nat /\ a.id \notin p.active
               /\ a.pool.active = p.active \cup {a.id}
               /\ Len(p.entries) <= Len(a.pool.entries)
               /\ \A id \in 1..Len(p.entries) : a.pool.entries[id] = p.entries[id]
<1> DEFINE list == p.available[kind]
           fits == {n \in 1..Len(p.available[kind]) :
                       p.entries[p.available[kind][n]].capacity >= length}
           created == Len(p.entries) + 1
           fresh == [kind |-> kind, capacity |-> length, holds |-> <<>>]
           first == CHOOSE n \in fits : \A m \in fits : n <= m
           grown == [p EXCEPT !.entries = Append(@, fresh), !.active = @ \cup {created}]
           taken == [p EXCEPT !.available[kind] = RemoveAt(@, first),
                              !.active = @ \cup {p.available[kind][first]}]
           a == acquire(p, kind, length)
<1>1. /\ p \in PoolState /\ p.active \subseteq 1..Len(p.entries)
      /\ \A k \in Kinds : Uniq(p.available[k])
      /\ \A k \in Kinds : \A id \in ToSet(p.available[k]) :
            id \in 1..Len(p.entries) /\ id \notin p.active /\ p.entries[id].kind = k
  BY DEF PoolSound
<1>2. /\ p.entries \in Seq(Entry) /\ p.available \in [Kinds -> Seq(Nat)]
      /\ p.active \subseteq Nat /\ Len(p.entries) \in Nat
  BY <1>1, PoolFields
<1>3. a = IF fits = {} THEN [id |-> created, pool |-> grown]
          ELSE [id |-> list[first], pool |-> taken]
  BY DEF acquire
<1> HIDE DEF a
<1>4. CASE fits = {}
  <2>1. a.id = created /\ a.pool = grown
    BY <1>3, <1>4
  <2>2. fresh \in Entry
    BY EmptySeq DEF Entry
  <2> HIDE DEF fresh
  <2>3. /\ Append(p.entries, fresh) \in Seq(Entry)
        /\ Len(Append(p.entries, fresh)) = Len(p.entries) + 1
        /\ \A id \in 1..Len(p.entries) : Append(p.entries, fresh)[id] = p.entries[id]
    BY <1>2, <2>2, AppendProperties
  <2>4. /\ grown.entries = Append(p.entries, fresh) /\ grown.available = p.available
        /\ grown.active = p.active \cup {created} /\ grown \in PoolState
    <3> DEFINE q == [p EXCEPT !.entries = Append(@, fresh)]
    <3>1. /\ q.entries = Append(p.entries, fresh) /\ q.available = p.available
          /\ q.active = p.active /\ q \in PoolState
      BY <1>1, <2>3 DEF PoolState
    <3>2. grown = [q EXCEPT !.active = @ \cup {created}]
      OBVIOUS
    <3>3. p.active \cup {created} \in SUBSET Nat
      BY <1>2
    <3> HIDE DEF q, created, grown
    <3> QED
      BY <3>1, <3>2, <3>3 DEF PoolState
  <2> HIDE DEF grown
  <2>5. created \notin p.active /\ created \in Nat
    BY <1>1, <1>2
  <2>6. /\ grown.active \subseteq 1..Len(grown.entries)
        /\ Len(p.entries) <= Len(grown.entries)
    BY <1>1, <1>2, <2>3, <2>4
  <2>7. ASSUME NEW k \in Kinds, NEW id \in ToSet(grown.available[k])
        PROVE  id \in 1..Len(grown.entries) /\ id \notin grown.active
               /\ grown.entries[id].kind = k
    <3>1. id \in 1..Len(p.entries) /\ id \notin p.active /\ p.entries[id].kind = k
      BY <1>1, <2>4, <2>7
    <3> QED
      BY <1>2, <2>3, <2>4, <3>1
  <2>8. PoolSound(grown)
    BY <1>1, <2>4, <2>6, <2>7 DEF PoolSound
  <2> QED
    BY <2>1, <2>3, <2>4, <2>5, <2>6, <2>8 DEF a
<1>5. CASE fits # {}
  <2>1. a.id = list[first] /\ a.pool = taken
    BY <1>3, <1>5
  <2>2. list \in Seq(Nat) /\ Uniq(list)
    BY <1>1, <1>2
  <2>3. first \in 1..Len(list)
    <3>1. fits \subseteq Nat
      OBVIOUS
    <3> HIDE DEF fits
    <3>2. \E n \in fits : \A m \in fits : n <= m
      BY <1>5, <3>1, Least
    <3>3. first \in fits
      BY <3>2
    <3> QED
      BY <3>3 DEF fits
  <2> HIDE DEF first, fits
  <2>4. list[first] \in Nat /\ list[first] \in ToSet(list)
    BY <2>2, <2>3, InList
  <2>5. list[first] \in 1..Len(p.entries) /\ list[first] \notin p.active
    BY <1>1, <2>4
  <2> DEFINE rest == RemoveAt(list, first)
  <2>6. rest \in Seq(Nat) /\ ToSet(rest) = ToSet(list) \ {list[first]} /\ Uniq(rest)
    BY <2>2, <2>3, RemovedAt
  <2> HIDE DEF rest
  <2>7. /\ taken.entries = p.entries /\ taken.active = p.active \cup {list[first]}
        /\ taken.available = [p.available EXCEPT ![kind] = rest] /\ taken \in PoolState
    BY <1>1, <1>2, <2>4, <2>6 DEF PoolState, rest
  <2> HIDE DEF taken
  <2>8. /\ taken.available[kind] = rest
        /\ \A k \in Kinds \ {kind} : taken.available[k] = p.available[k]
    BY <1>2, <2>7
  <2>9. taken.active \subseteq 1..Len(taken.entries)
    BY <1>1, <2>5, <2>7
  <2>10. ASSUME NEW k \in Kinds, NEW id \in ToSet(taken.available[k])
         PROVE  id \in 1..Len(taken.entries) /\ id \notin taken.active
                /\ taken.entries[id].kind = k
    <3>1. id \in ToSet(p.available[k]) /\ id # list[first]
      <4>1. CASE k = kind
        BY <2>6, <2>8, <2>10, <4>1
      <4>2. CASE k # kind
        <5>1. id \in ToSet(p.available[k])
          BY <2>8, <2>10, <4>2
        <5>2. p.entries[id].kind = k /\ p.entries[list[first]].kind = kind
          BY <1>1, <2>4, <5>1
        <5> QED
          BY <4>2, <5>1, <5>2
      <4> QED
        BY <4>1, <4>2
    <3> QED
      BY <1>1, <2>7, <3>1
  <2>11. \A k \in Kinds : Uniq(taken.available[k])
    BY <1>1, <2>6, <2>8
  <2>12. PoolSound(taken)
    BY <2>7, <2>9, <2>10, <2>11 DEF PoolSound
  <2>13. Len(p.entries) <= Len(taken.entries)
    BY <1>2, <2>7
  <2> QED
    BY <2>1, <2>4, <2>5, <2>7, <2>12, <2>13 DEF a
<1> QED
  BY <1>4, <1>5

(* release puts the entry on the list of its kind and touches no other.     *)
LEMMA ReleaseSound ==
    ASSUME NEW p, PoolSound(p), NEW id, NEW replacement \in Nat
    PROVE  LET r == release(p, id, replacement)
           IN  /\ PoolSound(r)
               /\ r.active = p.active \ {id}
               /\ Len(r.entries) = Len(p.entries)
               /\ \A other \in 1..Len(p.entries) : other # id => r.entries[other] = p.entries[other]
<1> DEFINE all == IF replacement = 0 THEN p.entries
                  ELSE [p.entries EXCEPT ![id].capacity = replacement, ![id].holds = <<>>]
           kind == p.entries[id].kind
           list == p.available[kind]
           longer == Shelved(list, all, id)
           r == release(p, id, replacement)
           fields == [entries |-> all, active |-> p.active \ {id},
                      available |-> [p.available EXCEPT ![kind] = longer]]
<1>1. /\ p \in PoolState /\ p.active \subseteq 1..Len(p.entries)
      /\ \A k \in Kinds : Uniq(p.available[k])
      /\ \A k \in Kinds : \A i \in ToSet(p.available[k]) :
            i \in 1..Len(p.entries) /\ i \notin p.active /\ p.entries[i].kind = k
  BY DEF PoolSound
<1>2. /\ p.entries \in Seq(Entry) /\ p.available \in [Kinds -> Seq(Nat)]
      /\ p.active \subseteq Nat /\ Len(p.entries) \in Nat
      /\ \A i \in 1..Len(p.entries) : p.entries[i] \in Entry
  BY <1>1, PoolFields
<1>3. CASE id \notin p.active
  <2>1. r = p
    BY <1>3 DEF release
  <2> HIDE DEF r
  <2> QED
    BY <1>3, <2>1 DEF r
<1>4. CASE id \in p.active
  <2>1. r = fields
    BY <1>4 DEF release
  <2>2. id \in 1..Len(p.entries) /\ id \in Nat /\ kind \in Kinds
    BY <1>1, <1>2, <1>4 DEF Entry
  <2>3. /\ all \in Seq(Entry) /\ Len(all) = Len(p.entries)
        /\ \A i \in 1..Len(p.entries) :
              all[i].kind = p.entries[i].kind /\ (i # id => all[i] = p.entries[i])
    <3>1. CASE replacement = 0
      BY <1>2, <3>1
    <3>2. CASE replacement # 0
      <4> DEFINE e == [p.entries[id] EXCEPT !.capacity = replacement, !.holds = <<>>]
      <4>1. e \in Entry /\ e.kind = p.entries[id].kind
        <5>1. PICK x \in Entry : x = p.entries[id]
          BY <1>2, <2>2
        <5>2. <<>> \in Seq(Item)
          BY EmptySeq
        <5> QED
          BY <5>1, <5>2 DEF Entry
      <4>2. all = [p.entries EXCEPT ![id] = e]
        BY <3>2
      <4> HIDE DEF e, all
      <4>3. /\ [p.entries EXCEPT ![id] = e] \in Seq(Entry)
            /\ Len([p.entries EXCEPT ![id] = e]) = Len(p.entries)
            /\ \A i \in 1..Len(p.entries) : [p.entries EXCEPT ![id] = e][i] =
                  IF i = id THEN e ELSE p.entries[i]
        BY <1>2, <2>2, <4>1, ExceptSeq
      <4> QED
        BY <4>1, <4>2, <4>3
    <3> QED
      BY <3>1, <3>2
  <2> HIDE DEF all
  <2>4. list \in Seq(Nat) /\ Uniq(list) /\ id \notin ToSet(list)
    BY <1>1, <1>2, <1>4, <2>2
  <2>5. /\ longer \in Seq(Nat) /\ ToSet(longer) = ToSet(list) \cup {id} /\ Uniq(longer)
    <3> DEFINE before == {n \in 1..Len(list) : all[list[n]].capacity <= all[id].capacity}
               place == 1 + Cardinality(before)
    <3>1. Len(list) \in Nat
      BY <2>4, LenProperties
    <3>2. place \in 1..(Len(list) + 1)
      <4>1. IsFiniteSet(1..Len(list)) /\ Cardinality(1..Len(list)) = Len(list)
        <5>1. ASSUME NEW L \in Nat PROVE IsFiniteSet(1..L) /\ Cardinality(1..L) = L
          <6>1. 1 \in Int /\ L \in Int /\ (IF 1 > L THEN 0 ELSE L - 1 + 1) = L
            OBVIOUS
          <6> QED
            BY <6>1, FS_Interval
        <5> QED
          BY <3>1, <5>1
      <4>2. before \subseteq 1..Len(list)
        OBVIOUS
      <4> HIDE DEF before
      <4>3. Cardinality(before) <= Len(list) /\ IsFiniteSet(before)
        BY <4>1, <4>2, FS_Subset
      <4>4. PICK c \in Nat : c = Cardinality(before)
        BY <4>3, FS_CardinalityType
      <4>5. c <= Len(list) /\ place = 1 + c
        BY <4>3, <4>4
      <4> HIDE DEF list, place
      <4> QED
        BY <3>1, <4>5
    <3>3. longer = InsertAt(list, place, id)
      BY DEF Shelved
    <3> HIDE DEF place, longer, list, kind
    <3>4. \A S : list \in Seq(S) /\ id \in S =>
             /\ InsertAt(list, place, id) \in Seq(S)
             /\ ToSet(InsertAt(list, place, id)) = ToSet(list) \cup {id}
             /\ Uniq(list) /\ id \notin ToSet(list) => Uniq(InsertAt(list, place, id))
      BY <3>2, Inserted
    <3> QED
      BY <2>2, <2>4, <3>3, <3>4, Zenon
  <2> HIDE DEF longer
  <2>6. /\ fields.entries = all /\ fields.active = p.active \ {id}
        /\ fields.available = [p.available EXCEPT ![kind] = longer]
    OBVIOUS
  <2>7. fields \in PoolState
    BY <1>2, <2>3, <2>5 DEF PoolState
  <2> HIDE DEF fields
  <2>8. /\ fields.available[kind] = longer
        /\ \A k \in Kinds \ {kind} : fields.available[k] = p.available[k]
    BY <1>2, <2>2, <2>6
  <2>9. ASSUME NEW k \in Kinds, NEW i \in ToSet(fields.available[k])
        PROVE  i \in 1..Len(fields.entries) /\ i \notin fields.active
               /\ fields.entries[i].kind = k
    <3>1. CASE k = kind /\ i = id
      BY <2>2, <2>3, <2>6, <3>1
    <3>2. CASE ~(k = kind /\ i = id)
      <4>1. i \in ToSet(p.available[k])
        <5>1. CASE k = kind
          BY <2>5, <2>8, <2>9, <3>2, <5>1
        <5>2. CASE k # kind
          BY <2>8, <2>9, <5>2
        <5> QED
          BY <5>1, <5>2
      <4>2. i \in 1..Len(p.entries) /\ i \notin p.active /\ p.entries[i].kind = k
        BY <1>1, <4>1
      <4> QED
        BY <2>3, <2>6, <4>2
    <3> QED
      BY <3>1, <3>2
  <2>10. \A k \in Kinds : Uniq(fields.available[k])
    BY <1>1, <2>5, <2>8
  <2>11. PoolSound(fields)
    BY <1>1, <2>3, <2>6, <2>7, <2>9, <2>10 DEF PoolSound
  <2> HIDE DEF r
  <2> QED
    BY <2>1, <2>3, <2>6, <2>11 DEF r
<1> QED
  BY <1>3, <1>4
(* The pool is the pool's variables.                                        *)
LEMMA PoolIs ==
    Pool.entries = entries /\ Pool.available = available /\ Pool.active = activeLeases
BY DEF Pool

Extended(r, kind, length) ==
    LET a == acquire(r.pool, kind, length)
    IN  [ids |-> Append(r.ids, a.id), pool |-> a.pool]

(* The first n leases of a transport.                                       *)
LeasesTaken(r, n) ==
    /\ PoolSound(r.pool)
    /\ r.ids \in Seq(Nat) /\ Len(r.ids) = n /\ Uniq(r.ids)
    /\ ToSet(r.ids) \cap activeLeases = {}
    /\ r.pool.active = activeLeases \cup ToSet(r.ids)
    /\ Len(entries) <= Len(r.pool.entries)
    /\ \A id \in 1..Len(entries) : r.pool.entries[id] = entries[id]

(* One lease more.                                                          *)
LEMMA LeaseStep ==
    ASSUME NEW r, NEW n \in Nat, LeasesTaken(r, n), NEW kind \in Kinds, NEW length \in Nat,
           Len(entries) \in Nat
    PROVE  LeasesTaken(Extended(r, kind, length), n + 1)
<1> DEFINE a == acquire(r.pool, kind, length)
           q == Append(r.ids, a.id)
           e == Extended(r, kind, length)
<1>1. /\ PoolSound(r.pool)
      /\ r.ids \in Seq(Nat) /\ Len(r.ids) = n /\ Uniq(r.ids)
      /\ ToSet(r.ids) \cap activeLeases = {}
      /\ r.pool.active = activeLeases \cup ToSet(r.ids)
      /\ Len(entries) <= Len(r.pool.entries)
      /\ \A id \in 1..Len(entries) : r.pool.entries[id] = entries[id]
  BY DEF LeasesTaken
<1>2. /\ PoolSound(a.pool)
      /\ a.id \in Nat /\ a.id \notin r.pool.active
      /\ a.pool.active = r.pool.active \cup {a.id}
      /\ Len(r.pool.entries) <= Len(a.pool.entries)
      /\ \A id \in 1..Len(r.pool.entries) : a.pool.entries[id] = r.pool.entries[id]
  BY <1>1, AcquireSound
<1>3. e.ids = q /\ e.pool = a.pool
  BY DEF Extended
<1>4. Len(r.pool.entries) \in Nat /\ Len(a.pool.entries) \in Nat
  BY <1>1, <1>2, PoolFields DEF PoolSound
<1> HIDE DEF a, e
<1>5. /\ q \in Seq(Nat) /\ Len(q) = n + 1
      /\ \A m \in 1..n : q[m] = r.ids[m]
      /\ q[n + 1] = a.id
  BY <1>1, <1>2, AppendProperties
<1>6. ToSet(q) = ToSet(r.ids) \cup {a.id}
  BY <1>1, <1>2, AppendList
<1>7. \A m \in 1..n : r.ids[m] # a.id
  <2>1. \A m \in 1..n : r.ids[m] \in ToSet(r.ids)
    BY <1>1, InList
  <2> QED
    BY <1>1, <1>2, <2>1
<1>8. Uniq(q)
  <2> SUFFICES ASSUME NEW k \in 1..(n + 1), NEW m \in 1..(n + 1), q[k] = q[m] PROVE k = m
    BY <1>5 DEF Uniq
  <2> HIDE DEF q
  <2>1. CASE k \in 1..n /\ m \in 1..n
    BY <1>1, <1>5, <2>1 DEF Uniq
  <2>2. CASE k \in 1..n /\ m = n + 1
    BY <1>5, <1>7, <2>2
  <2>3. CASE k = n + 1 /\ m \in 1..n
    BY <1>5, <1>7, <2>3
  <2> QED
    BY <2>1, <2>2, <2>3
<1> HIDE DEF q
<1>9. Len(entries) <= Len(a.pool.entries)
  BY <1>1, <1>2, <1>4
<1>10. ASSUME NEW id \in 1..Len(entries) PROVE a.pool.entries[id] = entries[id]
  <2>1. id \in 1..Len(r.pool.entries)
    BY <1>1, <1>4
  <2> QED
    BY <1>1, <1>2, <2>1
<1>11. ToSet(q) \cap activeLeases = {} /\ a.pool.active = activeLeases \cup ToSet(q)
  BY <1>1, <1>2, <1>6
<1> QED
  BY <1>2, <1>3, <1>5, <1>8, <1>9, <1>10, <1>11 DEF LeasesTaken, e

(* The leases of a transport are distinct entries that nobody held.         *)
LEMMA LeasedSound ==
    ASSUME PoolSound(Pool), NEW length \in Nat
    PROVE  LeasesTaken(Leased(length), Len(LeaseKinds))
<1> DEFINE L == Len(LeaseKinds)
           none == [ids |-> <<>>, pool |-> Pool]
           Step(f, n) == IF n = 0 THEN none ELSE Extended(f[n - 1], LeaseKinds[n], length)
           Defined == {n \in Nat : \E f : f = [m \in 0..n |-> Step(f, m)]}
<1>1. L \in Nat /\ \A n \in 1..L : LeaseKinds[n] \in Kinds
  <2>1. LeaseKinds \in Seq(Kinds)
    BY PublishAssumption DEF PublishAssumption, Kinds
  <2> QED
    BY <2>1, InList
<1>2. 0 \in Defined
  <2> DEFINE f == [m \in 0..0 |-> none]
  <2>1. f = [m \in 0..0 |-> Step(f, m)]
    OBVIOUS
  <2> HIDE DEF f
  <2> QED
    BY <2>1
<1> HIDE DEF none
<1>3. ASSUME NEW n \in Nat, n \in Defined PROVE n + 1 \in Defined
  <2>1. PICK f : f = [m \in 0..n |-> Step(f, m)]
    BY <1>3
  <2> DEFINE h == [m \in 0..(n + 1) |-> IF m = n + 1 THEN Step(f, m) ELSE f[m]]
  <2>2. \A m \in 0..(n + 1) : m # 0 => h[m - 1] = f[m - 1]
    OBVIOUS
  <2> HIDE DEF h
  <2>3. \A m \in 0..(n + 1) : Step(h, m) = Step(f, m)
    BY <2>2
  <2> HIDE DEF Step
  <2>4. \A m \in 0..n : f[m] = Step(f, m)
    BY <2>1
  <2>5. h = [m \in 0..(n + 1) |-> h[m]] /\ \A m \in 0..(n + 1) : h[m] = Step(f, m)
    BY <2>4 DEF h
  <2>6. h = [m \in 0..(n + 1) |-> Step(h, m)]
    BY <2>3, <2>5
  <2>7. \E g : g = [m \in 0..(n + 1) |-> Step(g, m)]
    BY <2>6
  <2> QED
    BY <2>7
<1>4. Nat \subseteq Defined
  BY <1>2, <1>3, SetInduction
<1> DEFINE F == CHOOSE f : f = [m \in 0..L |-> Step(f, m)]
<1>5. F = [m \in 0..L |-> Step(F, m)]
  BY <1>1, <1>4
<1>6. Leased(length) = F[L]
  BY DEF Leased, Extended, none
<1> HIDE DEF F
<1>7. \A m \in 0..L : F[m] = Step(F, m)
  BY <1>5
<1> DEFINE Right == {n \in Nat : n <= L => LeasesTaken(F[n], n)}
<1>8. Len(entries) \in Nat
  BY PoolFields, PoolIs DEF PoolSound
<1>9. 0 \in Right
  <2>1. F[0] = none
    BY <1>1, <1>7
  <2>2. /\ none.ids = <<>> /\ none.pool = Pool /\ <<>> \in Seq(Nat) /\ Len(<<>>) = 0
        /\ ToSet(<<>>) = {} /\ Uniq(<<>>)
    BY EmptySeq DEF none, ToSet, Uniq
  <2>3. LeasesTaken(none, 0)
    BY <1>8, <2>2, PoolIs DEF LeasesTaken
  <2> QED
    BY <2>1, <2>3
<1>10. ASSUME NEW n \in Nat, n \in Right PROVE n + 1 \in Right
  <2> SUFFICES ASSUME n + 1 <= L PROVE LeasesTaken(F[n + 1], n + 1)
    OBVIOUS
  <2>1. n + 1 \in 0..L /\ n + 1 \in 1..L /\ n + 1 # 0 /\ (n + 1) - 1 = n /\ n <= L
    BY <1>1
  <2>2. F[n + 1] = Extended(F[n], LeaseKinds[n + 1], length)
    BY <1>7, <2>1
  <2>3. LeasesTaken(F[n], n)
    BY <1>10, <2>1
  <2> QED
    BY <1>1, <1>8, <2>1, <2>2, <2>3, LeaseStep
<1>11. Nat \subseteq Right
  <2> HIDE DEF Right
  <2> QED
    BY <1>9, <1>10, SetInduction
<1> QED
  BY <1>1, <1>6, <1>11

(* The first n leases returned.                                             *)
LeasesBack(p, leases, n) ==
    /\ PoolSound(p)
    /\ p.active = activeLeases \ {leases[m] : m \in 1..n}
    /\ Len(p.entries) = Len(entries)
    /\ \A id \in 1..Len(entries) : id \notin ToSet(leases) => p.entries[id] = entries[id]

(* A transport's leases are returned, and nothing else.                     *)
LEMMA ReturnedSound ==
    ASSUME PoolSound(Pool), NEW leases \in Seq(Nat), NEW replacement \in Nat
    PROVE  LeasesBack(Returned(leases, replacement), leases, Len(leases))
<1> DEFINE L == Len(leases)
           Step(f, n) == IF n = 0 THEN Pool ELSE release(f[n - 1], leases[n], replacement)
           Defined == {n \in Nat : \E f : f = [m \in 0..n |-> Step(f, m)]}
<1>1. L \in Nat /\ \A n \in 1..L : leases[n] \in ToSet(leases)
  BY InList
<1>2. 0 \in Defined
  <2> DEFINE f == [m \in 0..0 |-> Pool]
  <2>1. f = [m \in 0..0 |-> Step(f, m)]
    OBVIOUS
  <2> HIDE DEF f
  <2> QED
    BY <2>1
<1>3. ASSUME NEW n \in Nat, n \in Defined PROVE n + 1 \in Defined
  <2>1. PICK f : f = [m \in 0..n |-> Step(f, m)]
    BY <1>3
  <2> DEFINE h == [m \in 0..(n + 1) |-> IF m = n + 1 THEN Step(f, m) ELSE f[m]]
  <2>2. \A m \in 0..(n + 1) : m # 0 => h[m - 1] = f[m - 1]
    OBVIOUS
  <2> HIDE DEF h
  <2>3. \A m \in 0..(n + 1) : Step(h, m) = Step(f, m)
    BY <2>2
  <2> HIDE DEF Step
  <2>4. \A m \in 0..n : f[m] = Step(f, m)
    BY <2>1
  <2>5. h = [m \in 0..(n + 1) |-> h[m]] /\ \A m \in 0..(n + 1) : h[m] = Step(f, m)
    BY <2>4 DEF h
  <2>6. h = [m \in 0..(n + 1) |-> Step(h, m)]
    BY <2>3, <2>5
  <2>7. \E g : g = [m \in 0..(n + 1) |-> Step(g, m)]
    BY <2>6
  <2> QED
    BY <2>7
<1>4. Nat \subseteq Defined
  BY <1>2, <1>3, SetInduction
<1> DEFINE F == CHOOSE f : f = [m \in 0..L |-> Step(f, m)]
<1>5. F = [m \in 0..L |-> Step(F, m)]
  BY <1>1, <1>4
<1>6. Returned(leases, replacement) = F[L]
  BY DEF Returned
<1> HIDE DEF F
<1>7. \A m \in 0..L : F[m] = Step(F, m)
  BY <1>5
<1> DEFINE Right == {n \in Nat : n <= L => LeasesBack(F[n], leases, n)}
<1>8. 0 \in Right
  <2>1. F[0] = Pool
    BY <1>1, <1>7
  <2>2. {leases[m] : m \in 1..0} = {}
    OBVIOUS
  <2>3. LeasesBack(Pool, leases, 0)
    BY <2>2, PoolIs DEF LeasesBack
  <2> QED
    BY <2>1, <2>3
<1>9. ASSUME NEW n \in Nat, n \in Right PROVE n + 1 \in Right
  <2> SUFFICES ASSUME n + 1 <= L PROVE LeasesBack(F[n + 1], leases, n + 1)
    OBVIOUS
  <2> DEFINE id == leases[n + 1]
             r == release(F[n], id, replacement)
  <2>1. n + 1 \in 0..L /\ n + 1 \in 1..L /\ n + 1 # 0 /\ (n + 1) - 1 = n /\ n <= L
    BY <1>1
  <2>2. F[n + 1] = r
    BY <1>7, <2>1
  <2>3. /\ PoolSound(F[n])
        /\ F[n].active = activeLeases \ {leases[m] : m \in 1..n}
        /\ Len(F[n].entries) = Len(entries)
        /\ \A i \in 1..Len(entries) : i \notin ToSet(leases) => F[n].entries[i] = entries[i]
    BY <1>9, <2>1 DEF LeasesBack
  <2>4. /\ PoolSound(r) /\ r.active = F[n].active \ {id}
        /\ Len(r.entries) = Len(F[n].entries)
        /\ \A i \in 1..Len(F[n].entries) : i # id => r.entries[i] = F[n].entries[i]
    <3> DEFINE p == F[n]
    <3>1. PoolSound(p)
      BY <2>3
    <3> HIDE DEF p, id
    <3>2. LET q == release(p, id, replacement)
          IN  /\ PoolSound(q) /\ q.active = p.active \ {id}
              /\ Len(q.entries) = Len(p.entries)
              /\ \A i \in 1..Len(p.entries) : i # id => q.entries[i] = p.entries[i]
      BY <3>1, ReleaseSound
    <3> QED
      BY <3>2 DEF p
  <2> HIDE DEF r
  <2>5. {leases[m] : m \in 1..(n + 1)} = {leases[m] : m \in 1..n} \cup {id}
    <3>1. 1..(n + 1) = (1..n) \cup {n + 1}
      OBVIOUS
    <3> QED
      BY <3>1
  <2>6. r.active = activeLeases \ {leases[m] : m \in 1..(n + 1)}
    BY <2>3, <2>4, <2>5
  <2>7. \A i \in 1..Len(entries) : i \notin ToSet(leases) => r.entries[i] = entries[i]
    BY <1>1, <2>1, <2>3, <2>4
  <2> QED
    BY <2>2, <2>3, <2>4, <2>6, <2>7 DEF LeasesBack
<1>10. Nat \subseteq Right
  <2> HIDE DEF Right
  <2> QED
    BY <1>8, <1>9, SetInduction
<1> QED
  BY <1>1, <1>6, <1>10
-----------------------------------------------------------------------------
(* The transports.                                                          *)

Transport == [leases: Seq(Nat), length: Nat, applied: BOOLEAN, released: BOOLEAN]

Holding == {t \in 1..Len(transports) : ~transports[t].released}
Pending == {t \in 1..Len(transports) : ~transports[t].applied}
Held(transport) == ToSet(transport.leases)

(* OneHolder, with what it takes to return every lease.                     *)
TransportsKept ==
    /\ PoolSound(Pool)
    /\ transports \in Seq(Transport)
    /\ Pending \subseteq Holding
    /\ \A t \in 1..Len(transports) :
          Len(transports[t].leases) = Len(LeaseKinds) /\ Uniq(transports[t].leases)
    /\ \A t \in Holding : Held(transports[t]) \subseteq activeLeases
    /\ \A t, u \in Holding : t # u => Held(transports[t]) \cap Held(transports[u]) = {}

(* The fields of the pool and of a transport.                               *)
LEMMA KeptFields ==
    ASSUME TransportsKept
    PROVE  /\ entries \in Seq(Entry) /\ Len(entries) \in Nat
           /\ \A id \in 1..Len(entries) : entries[id] \in Entry
           /\ activeLeases \subseteq 1..Len(entries)
           /\ Len(transports) \in Nat
           /\ \A t \in 1..Len(transports) :
                 /\ transports[t] \in Transport
                 /\ transports[t].leases \in Seq(Nat) /\ transports[t].length \in Nat
                 /\ Len(transports[t].leases) = Len(LeaseKinds)
           /\ Len(LeaseKinds) \in Nat /\ Len(LeaseKinds) >= 1
<1>1. /\ entries \in Seq(Entry) /\ Len(entries) \in Nat
      /\ \A id \in 1..Len(entries) : entries[id] \in Entry
      /\ activeLeases \subseteq 1..Len(entries)
  BY PoolFields, PoolIs DEF TransportsKept, PoolSound
<1>2. Len(transports) \in Nat
  BY LenProperties DEF TransportsKept
<1>3. \A t \in 1..Len(transports) :
         /\ transports[t] \in Transport
         /\ transports[t].leases \in Seq(Nat) /\ transports[t].length \in Nat
         /\ Len(transports[t].leases) = Len(LeaseKinds)
  <2>1. transports \in Seq(Transport)
    BY DEF TransportsKept
  <2>2. \A t \in 1..Len(transports) : transports[t] \in Transport
    BY <2>1, ElementOfSeq
  <2> QED
    BY <2>2 DEF Transport, TransportsKept
<1>4. Len(LeaseKinds) \in Nat /\ Len(LeaseKinds) >= 1
  <2>1. LeaseKinds \in Seq(Kinds) /\ LeaseKinds # <<>>
    BY PublishAssumption DEF PublishAssumption, Kinds
  <2>2. Len(LeaseKinds) \in Nat /\ Len(LeaseKinds) # 0
    BY <2>1, EmptySeq, LenProperties
  <2> QED
    BY <2>2
<1> QED
  BY <1>1, <1>2, <1>3, <1>4

(* The arrays a reader opens are among the leases.                          *)
LEMMA ArraysAreLeased ==
    ASSUME TransportsKept, NEW t \in 1..Len(transports)
    PROVE  /\ transports[t].leases[1] \in Held(transports[t])
           /\ Last(transports[t].leases) \in Held(transports[t])
<1>1. /\ transports[t].leases \in Seq(Nat)
      /\ Len(transports[t].leases) \in Nat /\ Len(transports[t].leases) >= 1
  BY KeptFields
<1>2. \A n \in 1..Len(transports[t].leases) : transports[t].leases[n] \in Held(transports[t])
  BY <1>1, InList DEF Held
<1>3. 1 \in 1..Len(transports[t].leases)
      /\ Len(transports[t].leases) \in 1..Len(transports[t].leases)
  BY <1>1
<1> QED
  BY <1>2, <1>3 DEF Last

(* As many leases as kinds are that many entries.                           *)
LEMMA UniqCount ==
    ASSUME NEW list \in Seq(Nat), Uniq(list)
    PROVE  Cardinality(ToSet(list)) = Len(list)
<1>1. Len(list) \in Nat
  BY LenProperties
<1>2. IsFiniteSet(1..Len(list)) /\ Cardinality(1..Len(list)) = Len(list)
  <2>1. ASSUME NEW L \in Nat PROVE IsFiniteSet(1..L) /\ Cardinality(1..L) = L
    <3>1. 1 \in Int /\ L \in Int /\ (IF 1 > L THEN 0 ELSE L - 1 + 1) = L
      OBVIOUS
    <3> QED
      BY <3>1, FS_Interval
  <2> QED
    BY <1>1, <2>1
<1> DEFINE f == [n \in 1..Len(list) |-> list[n]]
<1>3. f \in Bijection(1..Len(list), ToSet(list))
  <2>1. \A j : j \in ToSet(list) <=> \E n \in 1..Len(list) : list[n] = j
    BY InList
  <2>2. f \in [1..Len(list) -> ToSet(list)]
    BY <2>1
  <2>3. \A m, n \in 1..Len(list) : f[m] = f[n] => m = n
    BY DEF Uniq
  <2>4. \A j \in ToSet(list) : \E n \in 1..Len(list) : f[n] = j
    BY <2>1
  <2> HIDE DEF f
  <2> QED
    BY <2>2, <2>3, <2>4 DEF Bijection, Injection, Surjection, IsInjective
<1> HIDE DEF f
<1>4. ExistsBijection(1..Len(list), ToSet(list))
  BY <1>3 DEF ExistsBijection
<1> QED
  BY <1>2, <1>4, FS_Bijection

(* What is kept of the transports is OneHolder and more.                    *)
LEMMA KeptHolder == TransportsKept => OneHolder
<1> SUFFICES ASSUME TransportsKept, NEW t \in 1..Len(transports), ~transports[t].released
             PROVE  /\ Held(transports[t]) \subseteq activeLeases
                    /\ Cardinality(Held(transports[t])) = Len(LeaseKinds)
                    /\ \A u \in 1..Len(transports) : u # t /\ ~transports[u].released =>
                          Held(transports[t]) \cap Held(transports[u]) = {}
                    /\ \A kind \in Kinds : Held(transports[t]) \cap ToSet(available[kind]) = {}
  BY DEF OneHolder, Held
<1>1. t \in Holding /\ Held(transports[t]) \subseteq activeLeases
  BY DEF Holding, TransportsKept
<1>2. Cardinality(Held(transports[t])) = Len(LeaseKinds)
  BY KeptFields, UniqCount DEF TransportsKept, Held
<1>3. \A u \in 1..Len(transports) : u # t /\ ~transports[u].released =>
         Held(transports[t]) \cap Held(transports[u]) = {}
  BY <1>1 DEF Holding, TransportsKept
<1>4. \A kind \in Kinds : Held(transports[t]) \cap ToSet(available[kind]) = {}
  BY <1>1, PoolIs DEF TransportsKept, PoolSound
<1> QED
  BY <1>1, <1>2, <1>3, <1>4

(* Behind the delta a buffer keeps what it held.                            *)
LEMMA FilledFacts ==
    ASSUME NEW holds \in Seq(Item), NEW delta \in Seq(Item)
    PROVE  /\ Filled(holds, delta) \in Seq(Item)
           /\ Len(delta) <= Len(Filled(holds, delta))
           /\ \A n \in 1..Len(delta) : Filled(holds, delta)[n] = delta[n]
<1> DEFINE rest == SubSeq(holds, Len(delta) + 1, Len(holds))
<1>1. /\ Len(holds) \in Nat /\ Len(delta) \in Nat
      /\ \A n \in 1..Len(holds) : holds[n] \in Item
  BY InList
<1>2. rest \in Seq(Item) /\ Len(rest) \in Nat
  <2>1. \A n \in (Len(delta) + 1)..Len(holds) : holds[n] \in Item
    BY <1>1
  <2>2. rest \in Seq(Item)
    BY <1>1, <2>1, SubSeqProperties
  <2> QED
    BY <2>2, LenProperties
<1>3. Filled(holds, delta) = delta \o rest
  BY DEF Filled
<1> HIDE DEF rest
<1>4. /\ delta \o rest \in Seq(Item)
      /\ Len(delta \o rest) = Len(delta) + Len(rest)
      /\ \A n \in 1..(Len(delta) + Len(rest)) : (delta \o rest)[n] =
            IF n <= Len(delta) THEN delta[n] ELSE rest[n - Len(delta)]
  BY <1>2, ConcatProperties
<1> QED
  BY <1>1, <1>2, <1>3, <1>4

(* The delta has the live values of what is published.                      *)
LEMMA DeltaFacts ==
    ASSUME Published \in Seq(Indices), live \in [Indices -> Record]
    PROVE  /\ Delta \in Seq(Item) /\ Len(Delta) = Len(Published)
           /\ \A n \in 1..Len(Delta) :
                 /\ Delta[n].index = Published[n]
                 /\ Delta[n].record = live[Published[n]]
<1>1. Len(Published) \in Nat /\ \A n \in 1..Len(Published) : Published[n] \in Indices
  BY InList
<1>2. \A n \in 1..Len(Published) :
         [index |-> Published[n], record |-> live[Published[n]]] \in Item
  BY <1>1 DEF Item
<1> DEFINE list == Published
<1>3. Delta = [n \in 1..Len(list) |-> [index |-> list[n], record |-> live[list[n]]]]
  BY DEF Delta
<1> HIDE DEF list
<1>4. Delta \in Seq(Item) /\ Len(Delta) = Len(list)
  BY <1>1, <1>2, <1>3, IsASeq DEF list
<1> QED
  BY <1>3, <1>4 DEF list
(* A function on 1..n is a sequence.                                        *)
LEMMA FunctionSeq ==
    ASSUME NEW S, NEW n \in Nat, NEW f \in [1..n -> S]
    PROVE  f \in Seq(S) /\ Len(f) = n
<1>1. f = [i \in 1..n |-> f[i]] /\ \A i \in 1..n : f[i] \in S
  OBVIOUS
<1>2. [i \in 1..n |-> f[i]] \in Seq(S)
  BY <1>1, IsASeq
<1>3. f \in Seq(S) /\ DOMAIN f = 1..n
  BY <1>1, <1>2
<1> QED
  BY <1>3, LenProperties

(* createResourcePublishTransport leases entries nobody holds, fills them   *)
(* with the delta and leaves the buffers of every other transport alone.    *)
LEMMA PublishKept ==
    ASSUME TransportsKept, createResourcePublishTransport,
           Published \in Seq(Indices), live \in [Indices -> Record]
    PROVE  LET T == Len(transports) + 1
           IN  /\ TransportsKept'
               /\ Len(transports') = T
               /\ \A t \in 1..Len(transports) : transports'[t] = transports[t]
               /\ \A t \in Holding : \A id \in Held(transports[t]) : entries'[id] = entries[id]
               /\ transports'[T] \in Transport
               /\ transports'[T].length = Len(Published)
               /\ transports'[T].applied = FALSE
               /\ \A id \in ToSet(transports'[T].leases) :
                     /\ entries'[id] \in Entry
                     /\ Len(Published) <= Len(entries'[id].holds)
                     /\ \A n \in 1..Len(Published) : entries'[id].holds[n] = Delta[n]
<1> DEFINE len == Len(Published)
           l == Leased(len)
           all == l.pool.entries
           filled == Written(all, ToSet(l.ids))
           new == [leases |-> l.ids, length |-> len, applied |-> FALSE, released |-> FALSE]
           T == Len(transports) + 1
<1>1. /\ PoolSound(Pool) /\ transports \in Seq(Transport) /\ Len(transports) \in Nat
      /\ entries \in Seq(Entry) /\ Len(entries) \in Nat /\ activeLeases \subseteq 1..Len(entries)
  BY KeptFields DEF TransportsKept
<1>2. len \in Nat
  BY LenProperties
<1>3. LeasesTaken(l, Len(LeaseKinds))
  BY <1>1, <1>2, LeasedSound
<1> DEFINE set == [l.pool EXCEPT !.entries = filled]
<1>4. SetPool(set) /\ transports' = Append(transports, new)
  BY DEF createResourcePublishTransport
<1> HIDE DEF l
<1>5. /\ PoolSound(l.pool)
      /\ l.ids \in Seq(Nat) /\ Len(l.ids) = Len(LeaseKinds) /\ Uniq(l.ids)
      /\ ToSet(l.ids) \cap activeLeases = {}
      /\ l.pool.active = activeLeases \cup ToSet(l.ids)
      /\ Len(entries) <= Len(all)
      /\ \A id \in 1..Len(entries) : all[id] = entries[id]
  BY <1>3 DEF LeasesTaken
<1>6. /\ l.pool \in PoolState /\ all \in Seq(Entry) /\ Len(all) \in Nat
      /\ l.pool.available \in [Kinds -> Seq(Nat)] /\ DOMAIN all = 1..Len(all)
      /\ \A id \in 1..Len(all) : all[id] \in Entry
      /\ \A id \in ToSet(l.ids) : id \in 1..Len(all)
  BY <1>5, PoolFields, LenProperties DEF PoolSound
<1> HIDE DEF all
<1>7. /\ Delta \in Seq(Item) /\ Len(Delta) = len
  BY DeltaFacts
<1>8. ASSUME NEW e \in Entry
      PROVE  LET d == [e EXCEPT !.holds = Filled(@, Delta)]
             IN  /\ d \in Entry /\ d.kind = e.kind
                 /\ len <= Len(d.holds)
                 /\ \A n \in 1..len : d.holds[n] = Delta[n]
  <2> DEFINE h == Filled(e.holds, Delta)
  <2>1. e.holds \in Seq(Item)
    BY DEF Entry
  <2>2. h \in Seq(Item) /\ len <= Len(h) /\ \A n \in 1..len : h[n] = Delta[n]
    BY <1>7, <2>1, FilledFacts
  <2> HIDE DEF h
  <2>3. [e EXCEPT !.holds = h] \in Entry /\ [e EXCEPT !.holds = h].kind = e.kind
        /\ [e EXCEPT !.holds = h].holds = h
    BY <2>2 DEF Entry
  <2> QED
    BY <2>2, <2>3 DEF h
<1>9. ASSUME NEW id \in 1..Len(all)
      PROVE  /\ filled[id] \in Entry /\ filled[id].kind = all[id].kind
             /\ id \in ToSet(l.ids) =>
                   /\ len <= Len(filled[id].holds)
                   /\ \A n \in 1..len : filled[id].holds[n] = Delta[n]
             /\ id \notin ToSet(l.ids) => filled[id] = all[id]
  <2>1. all[id] \in Entry
    BY <1>6
  <2>2. CASE id \in ToSet(l.ids)
    <3>1. filled[id] = [all[id] EXCEPT !.holds = Filled(@, Delta)]
      BY <1>6, <2>2 DEF Written
    <3> HIDE DEF filled
    <3> QED
      BY <1>8, <2>1, <2>2, <3>1
  <2>3. CASE id \notin ToSet(l.ids)
    <3>1. filled[id] = all[id]
      BY <1>6, <2>3 DEF Written
    <3> HIDE DEF filled
    <3> QED
      BY <2>1, <2>3, <3>1
  <2> QED
    BY <2>2, <2>3
<1>10. filled \in Seq(Entry) /\ Len(filled) = Len(all)
  <2>1. filled = [id \in 1..Len(all) |-> filled[id]]
    BY <1>6 DEF Written
  <2> HIDE DEF filled
  <2>2. filled \in [1..Len(all) -> Entry]
    BY <1>9, <2>1
  <2> QED
    BY <1>6, <2>2, FunctionSeq
<1> HIDE DEF filled
<1>11. /\ entries' = filled /\ available' = l.pool.available
       /\ activeLeases' = activeLeases \cup ToSet(l.ids)
  <2>1. set.entries = filled /\ set.available = l.pool.available /\ set.active = l.pool.active
    BY <1>6 DEF PoolState
  <2> HIDE DEF set
  <2> QED
    BY <1>4, <1>5, <2>1 DEF SetPool
<1>12. PoolSound(Pool')
  <2>1. /\ Pool'.entries = filled /\ Pool'.available = l.pool.available
        /\ Pool'.active = l.pool.active
        /\ Pool' = [entries |-> filled, available |-> l.pool.available,
                    active |-> l.pool.active]
    BY <1>5, <1>11 DEF Pool
  <2>2. Pool' \in PoolState
    <3>1. l.pool.active \in SUBSET Nat
      BY <1>6, PoolFields
    <3> QED
      BY <1>6, <1>10, <2>1, <3>1 DEF PoolState
  <2>3. /\ l.pool.active \subseteq 1..Len(filled)
        /\ \A kind \in Kinds : Uniq(l.pool.available[kind])
        /\ \A kind \in Kinds : \A id \in ToSet(l.pool.available[kind]) :
              /\ id \in 1..Len(filled) /\ id \notin l.pool.active
              /\ filled[id].kind = kind
    BY <1>5, <1>9, <1>10 DEF PoolSound, all
  <2> QED
    BY <2>1, <2>2, <2>3 DEF PoolSound
<1>13. /\ new \in Transport /\ new.leases = l.ids /\ new.length = len
       /\ new.applied = FALSE /\ new.released = FALSE
  BY <1>2, <1>5 DEF Transport
<1> HIDE DEF new
<1>14. /\ transports' \in Seq(Transport) /\ Len(transports') = T
       /\ \A t \in 1..Len(transports) : transports'[t] = transports[t]
       /\ transports'[T] = new
  BY <1>1, <1>4, <1>13, AppendProperties
<1>15. /\ Holding' = Holding \cup {T} /\ Pending' = Pending \cup {T}
       /\ \A t \in 1..Len(transports) : Held(transports'[t]) = Held(transports[t]) /\ t # T
       /\ Held(transports'[T]) = ToSet(l.ids)
  <2>1. 1..T = 1..Len(transports) \cup {T} /\ T \notin 1..Len(transports)
    BY <1>1
  <2> HIDE DEF T
  <2>2. Holding' = Holding \cup {T}
    BY <1>13, <1>14, <2>1 DEF Holding
  <2>3. Pending' = Pending \cup {T}
    BY <1>13, <1>14, <2>1 DEF Pending
  <2> QED
    BY <1>13, <1>14, <2>1, <2>2, <2>3 DEF Held
<1>16. Holding \subseteq 1..Len(transports) /\ \A t \in Holding : Held(transports[t]) \subseteq activeLeases
  BY DEF Holding, TransportsKept
<1>17. TransportsKept'
  <2>1. Pending' \subseteq Holding'
    BY <1>15 DEF TransportsKept
  <2>2. ASSUME NEW t \in 1..T
        PROVE  Len(transports'[t].leases) = Len(LeaseKinds) /\ Uniq(transports'[t].leases)
    <3>1. CASE t = T
      BY <1>5, <1>13, <1>14, <3>1
    <3>2. CASE t # T
      <4>1. t \in 1..Len(transports)
        BY <1>1, <3>2
      <4> QED
        BY <1>14, <4>1 DEF TransportsKept
    <3> QED
      BY <3>1, <3>2
  <2>3. \A t \in Holding' : Held(transports'[t]) \subseteq activeLeases'
    BY <1>11, <1>15, <1>16
  <2>4. ASSUME NEW t \in Holding', NEW u \in Holding', t # u
        PROVE  Held(transports'[t]) \cap Held(transports'[u]) = {}
    <3>1. CASE t \in Holding /\ u \in Holding
      BY <1>15, <1>16, <2>4, <3>1 DEF TransportsKept
    <3>2. CASE t \in Holding /\ u = T
      BY <1>5, <1>15, <1>16, <3>2
    <3>3. CASE t = T /\ u \in Holding
      BY <1>5, <1>15, <1>16, <3>3
    <3> QED
      BY <1>15, <2>4, <3>1, <3>2, <3>3
  <2> QED
    BY <1>12, <1>14, <2>1, <2>2, <2>3, <2>4 DEF TransportsKept
<1>18. \A t \in Holding : \A id \in Held(transports[t]) : entries'[id] = entries[id]
  <2> SUFFICES ASSUME NEW t \in Holding, NEW id \in Held(transports[t]) PROVE entries'[id] = entries[id]
    OBVIOUS
  <2>1. id \in activeLeases
    BY <1>16
  <2>2. id \in 1..Len(entries) /\ id \notin ToSet(l.ids)
    BY <1>1, <1>5, <2>1
  <2>3. id \in 1..Len(all)
    BY <1>1, <1>5, <1>6, <2>2 DEF all
  <2> QED
    BY <1>5, <1>9, <1>11, <2>2, <2>3 DEF all
<1>19. ASSUME NEW id \in ToSet(l.ids)
       PROVE  /\ entries'[id] \in Entry /\ len <= Len(entries'[id].holds)
              /\ \A n \in 1..len : entries'[id].holds[n] = Delta[n]
  BY <1>6, <1>9, <1>11
<1> QED
  BY <1>13, <1>14, <1>17, <1>18, <1>19
(* A publish that sends nothing leaves the transports alone.                *)
LEMMA SamePoolKept ==
    ASSUME TransportsKept, UNCHANGED <<poolVars, transports>>
    PROVE  TransportsKept'
<1>1. UNCHANGED <<entries, available, activeLeases>>
  BY DEF poolVars
<1> QED
  BY <1>1 DEF TransportsKept, Holding, Pending, Pool

(* ReaderApplies opens the buffers and keeps the leases.                    *)
LEMMA ApplyKept ==
    ASSUME TransportsKept, NEW t \in 1..Len(transports), ReaderApplies(t)
    PROVE  /\ TransportsKept'
           /\ Len(transports') = Len(transports)
           /\ Pending' = Pending \ {t} /\ t \in Pending
           /\ \A u \in 1..Len(transports) :
                 /\ transports'[u].leases = transports[u].leases
                 /\ transports'[u].length = transports[u].length
<1> DEFINE x == [transports[t] EXCEPT !.applied = TRUE]
<1>1. transports \in Seq(Transport) /\ transports[t] \in Transport /\ Len(transports) \in Nat
  BY KeptFields DEF TransportsKept
<1>2. /\ x \in Transport /\ x.leases = transports[t].leases /\ x.length = transports[t].length
      /\ x.released = transports[t].released /\ x.applied = TRUE
  BY <1>1 DEF Transport
<1>3. transports' = [transports EXCEPT ![t] = x] /\ UNCHANGED <<entries, available, activeLeases>>
  BY DEF ReaderApplies, poolVars
<1> HIDE DEF x
<1>4. /\ transports' \in Seq(Transport) /\ Len(transports') = Len(transports)
      /\ \A u \in 1..Len(transports) : transports'[u] = IF u = t THEN x ELSE transports[u]
  BY <1>1, <1>2, <1>3, ExceptSeq
<1>5. \A u \in 1..Len(transports) :
         /\ transports'[u].leases = transports[u].leases
         /\ transports'[u].length = transports[u].length
         /\ transports'[u].released = transports[u].released
         /\ Held(transports'[u]) = Held(transports[u])
  BY <1>2, <1>4 DEF Held
<1>6. Holding' = Holding
  BY <1>4, <1>5 DEF Holding
<1>7. Pending' = Pending \ {t}
  BY <1>2, <1>4 DEF Pending
<1>8. t \in Pending
  BY DEF ReaderApplies, Pending
<1>9. Holding \subseteq 1..Len(transports) /\ Pool' = Pool
  BY <1>3 DEF Holding, Pool
<1>10. TransportsKept'
  <2>1. \A u \in 1..Len(transports') :
           Len(transports'[u].leases) = Len(LeaseKinds) /\ Uniq(transports'[u].leases)
    BY <1>4, <1>5 DEF TransportsKept
  <2>2. \A u \in Holding' : Held(transports'[u]) \subseteq activeLeases'
    BY <1>3, <1>5, <1>6, <1>9 DEF TransportsKept
  <2>3. \A u, v \in Holding' : u # v => Held(transports'[u]) \cap Held(transports'[v]) = {}
    BY <1>5, <1>6, <1>9 DEF TransportsKept
  <2>4. Pending' \subseteq Holding'
    BY <1>6, <1>7 DEF TransportsKept
  <2>5. PoolSound(Pool')
    BY <1>9 DEF TransportsKept
  <2> QED
    BY <1>4, <2>1, <2>2, <2>3, <2>4, <2>5 DEF TransportsKept
<1> QED
  BY <1>4, <1>5, <1>7, <1>8, <1>10

(* ReaderReleases returns its own leases and touches no other buffer.       *)
LEMMA ReleaseKept ==
    ASSUME TransportsKept, NEW t \in 1..Len(transports), NEW replacement \in Replacements \cup {0},
           ReaderReleases(t, replacement)
    PROVE  /\ TransportsKept'
           /\ Len(transports') = Len(transports)
           /\ Pending' = Pending
           /\ \A u \in 1..Len(transports) :
                 /\ transports'[u].leases = transports[u].leases
                 /\ transports'[u].length = transports[u].length
           /\ \A u \in Pending : \A id \in Held(transports[u]) : entries'[id] = entries[id]
<1> DEFINE x == [transports[t] EXCEPT !.released = TRUE]
           leases == transports[t].leases
           r == Returned(leases, replacement)
<1>1. /\ transports \in Seq(Transport) /\ transports[t] \in Transport /\ Len(transports) \in Nat
      /\ leases \in Seq(Nat) /\ Len(entries) \in Nat /\ activeLeases \subseteq 1..Len(entries)
      /\ PoolSound(Pool)
  BY KeptFields DEF TransportsKept
<1>2. /\ x \in Transport /\ x.leases = transports[t].leases /\ x.length = transports[t].length
      /\ x.released = TRUE /\ x.applied = transports[t].applied
  BY <1>1 DEF Transport
<1>3. /\ transports' = [transports EXCEPT ![t] = x] /\ SetPool(r)
      /\ transports[t].applied /\ ~transports[t].released
  BY DEF ReaderReleases
<1> HIDE DEF x
<1>4. /\ transports' \in Seq(Transport) /\ Len(transports') = Len(transports)
      /\ \A u \in 1..Len(transports) : transports'[u] = IF u = t THEN x ELSE transports[u]
  BY <1>1, <1>2, <1>3, ExceptSeq
<1>5. \A u \in 1..Len(transports) :
         /\ transports'[u].leases = transports[u].leases
         /\ transports'[u].length = transports[u].length
         /\ transports'[u].applied = transports[u].applied
         /\ Held(transports'[u]) = Held(transports[u])
  BY <1>2, <1>4 DEF Held
<1>6. Holding' = Holding \ {t} /\ t \in Holding
  BY <1>2, <1>3, <1>4 DEF Holding
<1>7. Pending' = Pending /\ t \notin Pending
  BY <1>3, <1>4, <1>5 DEF Pending
<1>8. Holding \subseteq 1..Len(transports) /\ Pending \subseteq Holding
  BY DEF Holding, TransportsKept
<1>9. replacement \in Nat
  BY PublishAssumption DEF PublishAssumption
<1>10. LeasesBack(r, leases, Len(leases))
  BY <1>1, <1>9, ReturnedSound
<1>11. {leases[m] : m \in 1..Len(leases)} = Held(transports[t])
  <2>1. \A j : j \in ToSet(leases) <=> \E n \in 1..Len(leases) : leases[n] = j
    BY <1>1, InList
  <2>2. Held(transports[t]) = ToSet(leases)
    BY DEF Held
  <2> HIDE DEF leases
  <2> QED
    BY <2>1, <2>2
<1> HIDE DEF r
<1>12. /\ PoolSound(r) /\ r.active = activeLeases \ Held(transports[t])
       /\ Len(r.entries) = Len(entries)
       /\ \A id \in 1..Len(entries) : id \notin Held(transports[t]) => r.entries[id] = entries[id]
  BY <1>10, <1>11 DEF LeasesBack, Held
<1>13. /\ entries' = r.entries /\ available' = r.available
       /\ activeLeases' = activeLeases \ Held(transports[t])
  BY <1>3, <1>12 DEF SetPool
<1>14. PoolSound(Pool')
  <2>1. Pool' = [entries |-> r.entries, available |-> r.available, active |-> r.active]
    BY <1>12, <1>13 DEF Pool
  <2>2. r = [entries |-> r.entries, available |-> r.available, active |-> r.active]
    BY <1>12 DEF PoolSound, PoolState
  <2> QED
    BY <1>12, <2>1, <2>2
<1>15. \A u \in Holding \ {t} : Held(transports[u]) \cap Held(transports[t]) = {}
  BY <1>6 DEF TransportsKept
<1>16. TransportsKept'
  <2>1. \A u \in 1..Len(transports') :
           Len(transports'[u].leases) = Len(LeaseKinds) /\ Uniq(transports'[u].leases)
    BY <1>4, <1>5 DEF TransportsKept
  <2>2. \A u \in Holding' : Held(transports'[u]) \subseteq activeLeases'
    <3> SUFFICES ASSUME NEW u \in Holding \ {t}
                 PROVE  Held(transports'[u]) \subseteq activeLeases'
      BY <1>6
    <3>1. Held(transports'[u]) = Held(transports[u]) /\ Held(transports[u]) \subseteq activeLeases
      BY <1>5, <1>8 DEF TransportsKept
    <3> QED
      BY <1>13, <1>15, <3>1
  <2>3. \A u, v \in Holding' : u # v => Held(transports'[u]) \cap Held(transports'[v]) = {}
    BY <1>5, <1>6, <1>8 DEF TransportsKept
  <2>4. Pending' \subseteq Holding'
    BY <1>6, <1>7, <1>8
  <2> QED
    BY <1>4, <1>14, <2>1, <2>2, <2>3, <2>4 DEF TransportsKept
<1>17. ASSUME NEW u \in Pending, NEW id \in Held(transports[u]) PROVE entries'[id] = entries[id]
  <2>1. u \in Holding \ {t}
    BY <1>7, <1>8
  <2>2. id \in activeLeases /\ id \notin Held(transports[t])
    BY <1>15, <2>1 DEF TransportsKept
  <2> QED
    BY <1>1, <1>12, <1>13, <2>2
<1> QED
  BY <1>4, <1>5, <1>7, <1>16, <1>17
-----------------------------------------------------------------------------
(* The reader.                                                              *)

(* The n-th item of a transport, as its buffers read now.                   *)
Shown(all, transport, n) == all[transport.leases[1]].holds[n]
Carries(all, transport, i) ==
    \E n \in 1..transport.length : Shown(all, transport, n).index = i

(* A transport's first and last array agree on the delta, and the delta has *)
(* one record for an index.                                                 *)
SameDelta(first, last, len) ==
    /\ len \in Nat
    /\ first \in Seq(Item) /\ last \in Seq(Item)
    /\ len <= Len(first) /\ len <= Len(last)
    /\ \A n \in 1..len : last[n] = first[n]
    /\ \A m, n \in 1..len : first[m].index = first[n].index => first[m] = first[n]

Readable(all, transport) ==
    SameDelta(all[transport.leases[1]].holds, all[Last(transport.leases)].holds,
              transport.length)

Buffered == \A t \in Pending : Readable(entries, transports[t])

(* What was last published of a resource has reached the reader or is in    *)
(* the last pending transport that carries the resource.                    *)
Reached(i) ==
    /\ Same(reader[i], source.at[i])
    /\ \A t \in Pending : ~Carries(entries, transports[t], i)
OnItsWay(i) ==
    \E t \in Pending :
        /\ \A u \in Pending : u > t => ~Carries(entries, transports[u], i)
        /\ \E n \in 1..transports[t].length :
              /\ Shown(entries, transports[t], n).index = i
              /\ Same(Shown(entries, transports[t], n).record, source.at[i])

News ==
    /\ reader \in [Indices -> Record]
    /\ \A i \in Indices \ missed : Reached(i) \/ OnItsWay(i)

PublishInv == ResourceInv /\ TransportsKept /\ Buffered /\ News

(* What a transport shows, its buffers being left alone.                    *)
LEMMA ShownFrame ==
    ASSUME TransportsKept, NEW t \in 1..Len(transports),
           transports'[t].leases = transports[t].leases,
           transports'[t].length = transports[t].length,
           \A id \in Held(transports[t]) : entries'[id] = entries[id]
    PROVE  /\ \A n : Shown(entries', transports'[t], n) = Shown(entries, transports[t], n)
           /\ \A i : Carries(entries', transports'[t], i) <=> Carries(entries, transports[t], i)
           /\ Readable(entries, transports[t]) => Readable(entries', transports'[t])
<1> DEFINE first == transports[t].leases[1]
           last == Last(transports[t].leases)
<1>1. first \in Held(transports[t]) /\ last \in Held(transports[t])
  BY ArraysAreLeased
<1>2. entries'[first] = entries[first] /\ entries'[last] = entries[last]
  BY <1>1
<1>3. transports'[t].leases[1] = first /\ Last(transports'[t].leases) = last
  OBVIOUS
<1> HIDE DEF first, last
<1>4. \A n : Shown(entries', transports'[t], n) = Shown(entries, transports[t], n)
  BY <1>2, <1>3 DEF Shown, first
<1>5. \A i : Carries(entries', transports'[t], i) <=> Carries(entries, transports[t], i)
  BY <1>4 DEF Carries
<1>6. Readable(entries, transports[t]) => Readable(entries', transports'[t])
  <2>1. transports[t].leases[1] = first /\ Last(transports[t].leases) = last
    BY DEF first, last
  <2>2. /\ entries'[transports'[t].leases[1]].holds = entries[transports[t].leases[1]].holds
        /\ entries'[Last(transports'[t].leases)].holds = entries[Last(transports[t].leases)].holds
    BY <1>2, <1>3, <2>1
  <2> QED
    BY <2>2 DEF Readable
<1> QED
  BY <1>4, <1>5, <1>6

(* The shown items are indices with records.                                *)
LEMMA ShownItems ==
    ASSUME Buffered, NEW t \in Pending, NEW n \in 1..transports[t].length
    PROVE  /\ Shown(entries, transports[t], n) \in Item
           /\ Shown(entries, transports[t], n).record \in Record
<1> DEFINE first == entries[transports[t].leases[1]].holds
<1>1. /\ transports[t].length \in Nat /\ first \in Seq(Item)
      /\ transports[t].length <= Len(first)
  BY DEF Buffered, Readable, SameDelta
<1>2. n \in 1..Len(first) /\ Shown(entries, transports[t], n) = first[n]
  <2>1. Len(first) \in Nat
    BY <1>1, LenProperties
  <2> QED
    BY <1>1, <2>1 DEF Shown
<1> HIDE DEF first
<1>3. first[n] \in Item
  BY <1>1, <1>2, ElementOfSeq
<1> QED
  BY <1>2, <1>3 DEF Item

(* A step that changes neither what is published nor what transports show.  *)
LEMMA QuietNews ==
    ASSUME TransportsKept, Buffered, News, Pending' = Pending,
           \A t \in Pending :
              /\ transports'[t].leases = transports[t].leases
              /\ transports'[t].length = transports[t].length
              /\ \A id \in Held(transports[t]) : entries'[id] = entries[id],
           source' = source, reader' = reader, missed' = missed
    PROVE  Buffered' /\ News'
<1>1. Pending \subseteq 1..Len(transports)
  BY DEF Pending
<1>2. \A t \in Pending :
         /\ \A n : Shown(entries', transports'[t], n) = Shown(entries, transports[t], n)
         /\ \A i : Carries(entries', transports'[t], i) <=> Carries(entries, transports[t], i)
         /\ Readable(entries, transports[t]) => Readable(entries', transports'[t])
  BY <1>1, ShownFrame
<1>3. Buffered'
  BY <1>2 DEF Buffered
<1>4. ASSUME NEW i \in Indices \ missed PROVE Reached(i)' \/ OnItsWay(i)'
  <2>1. CASE Reached(i)
    <3>1. Same(reader'[i], source'.at[i])
      BY <2>1 DEF Reached
    <3>2. \A t \in Pending' : ~Carries(entries', transports'[t], i)
      BY <1>2, <2>1 DEF Reached
    <3> QED
      BY <3>1, <3>2 DEF Reached
  <2>2. CASE OnItsWay(i)
    <3>1. PICK t \in Pending :
            /\ \A u \in Pending : u > t => ~Carries(entries, transports[u], i)
            /\ \E n \in 1..transports[t].length :
                  /\ Shown(entries, transports[t], n).index = i
                  /\ Same(Shown(entries, transports[t], n).record, source.at[i])
      BY <2>2 DEF OnItsWay
    <3>2. \A u \in Pending' : u > t => ~Carries(entries', transports'[u], i)
      BY <1>2, <3>1
    <3>3. \E n \in 1..transports'[t].length :
             /\ Shown(entries', transports'[t], n).index = i
             /\ Same(Shown(entries', transports'[t], n).record, source'.at[i])
      BY <1>2, <3>1
    <3> QED
      BY <3>2, <3>3 DEF OnItsWay
  <2> QED
    BY <2>1, <2>2 DEF News
<1> QED
  BY <1>3, <1>4 DEF News

(* A publish without a transport: what it listed is missed from now on.     *)
LEMMA UnsentNews ==
    ASSUME PublishInv, createPublishSnapshot, UNCHANGED <<entries, transports, reader>>,
           missed' = missed \cup ToSet(Published)
    PROVE  Buffered' /\ News'
<1>1. /\ ResourceInv /\ TransportsKept /\ Buffered /\ News
  BY DEF PublishInv
<1>2. \A i \in Indices \ ToSet(Published) : Same(source'.at[i], source.at[i])
  BY <1>1, PublishSound
<1>3. source.at \in [Indices -> Record] /\ source'.at \in [Indices -> Record]
  <2>1. source \in Buffer
    BY <1>1 DEF ResourceInv, Buffers, source
  <2>2. ResourceInv'
    BY <1>1, PublishSound
  <2>3. source' \in Buffer
    BY <2>2 DEF ResourceInv, Buffers, source
  <2> QED
    BY <2>1, <2>3 DEF Buffer
<1>4. Pending' = Pending
  BY DEF Pending
<1>5. Buffered'
  BY <1>1, <1>4 DEF Buffered
<1>6. ASSUME NEW i \in Indices \ missed' PROVE Reached(i)' \/ OnItsWay(i)'
  <2>1. i \in Indices \ missed /\ i \notin ToSet(Published)
    OBVIOUS
  <2>2. /\ Same(source'.at[i], source.at[i])
        /\ source.at[i] \in Record /\ source'.at[i] \in Record
    BY <1>2, <1>3, <2>1
  <2>3. \A q \in Record : Same(q, source.at[i]) => Same(q, source'.at[i])
    BY <2>2, SameFacts
  <2>4. CASE Reached(i)
    <3>1. Same(reader[i], source'.at[i])
      BY <1>1, <2>1, <2>3, <2>4 DEF Reached, News
    <3>2. \A t \in Pending' : ~Carries(entries', transports'[t], i)
      BY <1>4, <2>4 DEF Reached
    <3> QED
      BY <3>1, <3>2 DEF Reached
  <2>5. CASE OnItsWay(i)
    <3>1. PICK t \in Pending :
            /\ \A u \in Pending : u > t => ~Carries(entries, transports[u], i)
            /\ \E n \in 1..transports[t].length :
                  /\ Shown(entries, transports[t], n).index = i
                  /\ Same(Shown(entries, transports[t], n).record, source.at[i])
      BY <2>5 DEF OnItsWay
    <3>2. PICK n \in 1..transports[t].length :
             /\ Shown(entries, transports[t], n).index = i
             /\ Same(Shown(entries, transports[t], n).record, source.at[i])
      BY <3>1
    <3>3. Same(Shown(entries, transports[t], n).record, source'.at[i])
      BY <1>1, <2>3, <3>2, ShownItems
    <3>4. \A u \in Pending' : u > t => ~Carries(entries', transports'[u], i)
      BY <1>4, <3>1
    <3> QED
      BY <1>4, <3>2, <3>3, <3>4 DEF OnItsWay
  <2> QED
    BY <1>1, <2>1, <2>4, <2>5 DEF News
<1> QED
  BY <1>1, <1>5, <1>6 DEF News
(* A transport carries what the publish listed, and nothing behind it does. *)
LEMMA SentNews ==
    ASSUME PublishInv, createResourcePublishTransport
    PROVE  TransportsKept' /\ Buffered' /\ News'
<1> DEFINE T == Len(transports) + 1
           list == Published
           sent == transports'[T]
<1>1. /\ ResourceInv /\ TransportsKept /\ Buffered /\ News
  BY DEF PublishInv
<1>2. /\ createPublishSnapshot /\ missed' = missed \ ToSet(list) /\ reader' = reader
  BY DEF createResourcePublishTransport, Publishing
<1>3. live \in [Indices -> Record] /\ scratch \in Seq(Indices)
  BY <1>1, StateFields, TrackedFields DEF ResourceInv, Sound
<1>4. list \in Seq(Indices)
  BY <1>3, PublishedFacts
<1>5. /\ \A i \in ToSet(list) : source'.at[i] = live[i]
      /\ \A i \in Indices \ ToSet(list) : Same(source'.at[i], source.at[i])
      /\ ToSet(list) \subseteq Indices
  <2>1. ToSet(list) \subseteq Indices
    BY <1>4, InList
  <2> QED
    BY <1>1, <1>2, <2>1, PublishSound
<1>6. /\ Delta \in Seq(Item) /\ Len(Delta) = Len(list)
      /\ \A n \in 1..Len(Delta) : Delta[n].index = list[n] /\ Delta[n].record = live[list[n]]
  BY <1>3, <1>4, DeltaFacts
<1> HIDE DEF list
<1>7. /\ TransportsKept'
      /\ Len(transports') = T
      /\ \A t \in 1..Len(transports) : transports'[t] = transports[t]
      /\ \A t \in Holding : \A id \in Held(transports[t]) : entries'[id] = entries[id]
      /\ sent \in Transport /\ sent.length = Len(list) /\ sent.applied = FALSE
      /\ \A id \in ToSet(sent.leases) :
            /\ entries'[id] \in Entry
            /\ Len(list) <= Len(entries'[id].holds)
            /\ \A n \in 1..Len(list) : entries'[id].holds[n] = Delta[n]
  BY <1>1, <1>3, <1>4, PublishKept DEF list
<1>8. Len(transports) \in Nat /\ Pending \subseteq Holding /\ Pending \subseteq 1..Len(transports)
  BY <1>1, KeptFields DEF TransportsKept, Pending
<1>9. sent.leases[1] \in ToSet(sent.leases) /\ Last(sent.leases) \in ToSet(sent.leases)
  <2>1. Len(LeaseKinds) \in Nat /\ Len(LeaseKinds) >= 1
    BY <1>1, KeptFields
  <2>2. T \in 1..Len(transports')
    BY <1>7, <1>8
  <2>3. sent.leases \in Seq(Nat) /\ Len(sent.leases) = Len(LeaseKinds)
    BY <1>7, <2>2 DEF TransportsKept, Transport
  <2> HIDE DEF sent
  <2>4. \A n \in 1..Len(sent.leases) : sent.leases[n] \in ToSet(sent.leases)
    BY <2>3, InList
  <2>5. 1 \in 1..Len(sent.leases) /\ Len(sent.leases) \in 1..Len(sent.leases)
    BY <2>1, <2>3
  <2> QED
    BY <2>4, <2>5 DEF Last
<1>10. Pending' = Pending \cup {T}
  <2>1. 1..T = 1..Len(transports) \cup {T}
    BY <1>8
  <2> HIDE DEF T
  <2> QED
    BY <1>7, <2>1 DEF Pending
<1> HIDE DEF sent
<1> DEFINE first == entries'[sent.leases[1]].holds
           last == entries'[Last(sent.leases)].holds
<1>11. /\ first \in Seq(Item) /\ last \in Seq(Item)
       /\ Len(list) <= Len(first) /\ Len(list) <= Len(last)
       /\ \A n \in 1..Len(list) : first[n] = Delta[n] /\ last[n] = Delta[n]
  BY <1>7, <1>9 DEF Entry
<1> HIDE DEF first, last
<1>12. Len(list) \in Nat /\ \A n \in 1..Len(list) : Delta[n] \in Item
  BY <1>4, <1>6, InList
<1>13. Readable(entries', sent)
  <2>1. \A n \in 1..Len(list) : last[n] = first[n]
    BY <1>11
  <2>2. ASSUME NEW m \in 1..Len(list), NEW n \in 1..Len(list), first[m].index = first[n].index
        PROVE  first[m] = first[n]
    <3>1. first[m] = Delta[m] /\ first[n] = Delta[n] /\ Delta[m] \in Item /\ Delta[n] \in Item
      BY <1>11, <1>12
    <3>2. Delta[m].index = Delta[n].index /\ Delta[m].record = Delta[n].record
      BY <1>6, <2>2, <3>1
    <3>3. \A x, y \in Item : x.index = y.index /\ x.record = y.record => x = y
      BY DEF Item
    <3> QED
      BY <3>1, <3>2, <3>3
  <2> QED
    BY <1>7, <1>11, <1>12, <2>1, <2>2 DEF Readable, SameDelta, first, last
<1>14. \A n \in 1..Len(list) : Shown(entries', sent, n) = Delta[n]
  BY <1>11 DEF Shown, first
<1>15. \A i : Carries(entries', sent, i) <=> i \in ToSet(list)
  <2>1. \A i : i \in ToSet(list) <=> \E n \in 1..Len(list) : list[n] = i
    BY <1>4, InList
  <2> QED
    BY <1>6, <1>7, <1>14, <2>1 DEF Carries
<1>16. \A t \in Pending :
          /\ transports'[t] = transports[t] /\ t # T /\ ~(t > T)
          /\ \A n : Shown(entries', transports'[t], n) = Shown(entries, transports[t], n)
          /\ \A i : Carries(entries', transports'[t], i) <=> Carries(entries, transports[t], i)
          /\ Readable(entries', transports'[t])
  <2> SUFFICES ASSUME NEW t \in Pending
               PROVE  /\ transports'[t] = transports[t] /\ t # T /\ ~(t > T)
                      /\ \A n : Shown(entries', transports'[t], n) = Shown(entries, transports[t], n)
                      /\ \A i : Carries(entries', transports'[t], i)
                                   <=> Carries(entries, transports[t], i)
                      /\ Readable(entries', transports'[t])
    OBVIOUS
  <2>1. t \in 1..Len(transports) /\ t \in Holding
    BY <1>8
  <2>2. transports'[t] = transports[t] /\ t # T /\ ~(t > T)
    BY <1>7, <1>8, <2>1
  <2>3. Readable(entries, transports[t])
    BY <1>1 DEF Buffered
  <2> QED
    BY <1>1, <1>7, <2>1, <2>2, <2>3, ShownFrame
<1>17. Buffered'
  BY <1>10, <1>13, <1>16 DEF Buffered, sent
<1>18. source.at \in [Indices -> Record] /\ source'.at \in [Indices -> Record]
  <2>1. source \in Buffer
    BY <1>1 DEF ResourceInv, Buffers, source
  <2>2. ResourceInv'
    BY <1>1, <1>2, PublishSound
  <2>3. source' \in Buffer
    BY <2>2 DEF ResourceInv, Buffers, source
  <2> QED
    BY <2>1, <2>3 DEF Buffer
<1>19. ASSUME NEW i \in Indices \ missed' PROVE Reached(i)' \/ OnItsWay(i)'
  <2>1. CASE i \in ToSet(list)
    <3>1. PICK n \in 1..Len(list) : list[n] = i
      BY <1>4, <2>1, InList
    <3>2. /\ Shown(entries', sent, n).index = i
          /\ Shown(entries', sent, n).record = source'.at[i]
      BY <1>5, <1>6, <1>14, <2>1, <3>1
    <3>3. Same(Shown(entries', sent, n).record, source'.at[i])
      BY <1>18, <3>2, NearSelf
    <3>4. \A u \in Pending' : ~(u > T)
      BY <1>8, <1>10, <1>16
    <3>5. T \in Pending' /\ n \in 1..sent.length
      BY <1>7, <1>10, <3>1
    <3> QED
      BY <3>2, <3>3, <3>4, <3>5 DEF OnItsWay, sent
  <2>2. CASE i \notin ToSet(list)
    <3>1. i \in Indices \ missed
      BY <1>2, <2>2
    <3>2. /\ Same(source'.at[i], source.at[i])
          /\ source.at[i] \in Record /\ source'.at[i] \in Record
      BY <1>5, <1>18, <2>2
    <3>3. \A q \in Record : Same(q, source.at[i]) => Same(q, source'.at[i])
      BY <3>2, SameFacts
    <3>4. CASE Reached(i)
      <4>1. Same(reader'[i], source'.at[i])
        BY <1>1, <1>2, <3>1, <3>3, <3>4 DEF Reached, News
      <4>2. \A t \in Pending' : ~Carries(entries', transports'[t], i)
        BY <1>10, <1>15, <1>16, <2>2, <3>4 DEF Reached, sent
      <4> QED
        BY <4>1, <4>2 DEF Reached
    <3>5. CASE OnItsWay(i)
      <4>1. PICK t \in Pending :
              /\ \A u \in Pending : u > t => ~Carries(entries, transports[u], i)
              /\ \E n \in 1..transports[t].length :
                    /\ Shown(entries, transports[t], n).index = i
                    /\ Same(Shown(entries, transports[t], n).record, source.at[i])
        BY <3>5 DEF OnItsWay
      <4>2. PICK n \in 1..transports[t].length :
               /\ Shown(entries, transports[t], n).index = i
               /\ Same(Shown(entries, transports[t], n).record, source.at[i])
        BY <4>1
      <4>3. Same(Shown(entries, transports[t], n).record, source'.at[i])
        BY <1>1, <3>3, <4>2, ShownItems
      <4>4. \A u \in Pending' : u > t => ~Carries(entries', transports'[u], i)
        BY <1>10, <1>15, <1>16, <2>2, <4>1 DEF sent
      <4>5. /\ t \in Pending' /\ n \in 1..transports'[t].length
            /\ Shown(entries', transports'[t], n).index = i
            /\ Same(Shown(entries', transports'[t], n).record, source'.at[i])
        BY <1>10, <1>16, <4>2, <4>3
      <4> QED
        BY <4>4, <4>5 DEF OnItsWay
    <3> QED
      BY <1>1, <3>1, <3>4, <3>5 DEF News
  <2> QED
    BY <2>1, <2>2
<1>20. reader' \in [Indices -> Record]
  BY <1>1, <1>2 DEF News
<1> QED
  BY <1>7, <1>17, <1>19, <1>20 DEF News

(* The reader takes the first pending transport.                            *)
LEMMA AppliedNews ==
    ASSUME PublishInv, NEW t \in 1..Len(transports), ReaderApplies(t)
    PROVE  Buffered' /\ News'
<1> DEFINE first == entries[transports[t].leases[1]].holds
           last == entries[Last(transports[t].leases)].holds
           len == transports[t].length
<1>1. /\ ResourceInv /\ TransportsKept /\ Buffered /\ News
  BY DEF PublishInv
<1>2. /\ Len(transports') = Len(transports)
      /\ Pending' = Pending \ {t} /\ t \in Pending
      /\ \A u \in 1..Len(transports) :
            /\ transports'[u].leases = transports[u].leases
            /\ transports'[u].length = transports[u].length
  BY <1>1, ApplyKept
<1>3. /\ \A u \in 1..(t - 1) : u \notin Pending
      /\ entries' = entries /\ missed' = missed /\ source' = source
  BY DEF ReaderApplies, Pending, poolVars, resourceVars, source
<1>4. Pending \subseteq 1..Len(transports) /\ Len(transports) \in Nat
  BY <1>1, KeptFields DEF Pending
<1>5. \A u \in Pending' : u > t /\ u \in Pending
  BY <1>2, <1>3, <1>4
<1>6. \A u \in Pending :
         /\ \A n : Shown(entries', transports'[u], n) = Shown(entries, transports[u], n)
         /\ \A i : Carries(entries', transports'[u], i) <=> Carries(entries, transports[u], i)
         /\ Readable(entries, transports[u]) => Readable(entries', transports'[u])
  BY <1>1, <1>2, <1>3, <1>4, ShownFrame
<1>7. Buffered'
  BY <1>1, <1>2, <1>6 DEF Buffered
<1>8. /\ len \in Nat /\ first \in Seq(Item) /\ last \in Seq(Item)
      /\ len <= Len(first) /\ len <= Len(last)
      /\ \A n \in 1..len : last[n] = first[n]
      /\ \A m, n \in 1..len : first[m].index = first[n].index => first[m] = first[n]
  BY <1>1, <1>2 DEF Buffered, Readable, SameDelta
<1>9. \A n \in 1..len : Shown(entries, transports[t], n) = first[n]
  BY DEF Shown
<1> DEFINE indices == SubSeq(first, 1, len)
           values == SubSeq(last, 1, len)
           At(i) == CHOOSE n \in 1..Len(indices) : indices[n].index = i
<1>10. reader' = [i \in Indices |-> IF \E n \in 1..Len(indices) : indices[n].index = i
                                   THEN values[At(i)].record ELSE reader[i]]
  BY DEF ReaderApplies
<1> HIDE DEF first, last, len
<1>11. ASSUME NEW h \in Seq(Item), len <= Len(h)
       PROVE  /\ Len(SubSeq(h, 1, len)) = len
              /\ \A n \in 1..len : SubSeq(h, 1, len)[n] = h[n]
  <2>1. Len(h) \in Nat /\ \A n \in 1..Len(h) : h[n] \in Item
    BY InList
  <2>2. \A n \in 1..len : h[n] \in Item
    BY <1>8, <1>11, <2>1
  <2>3. /\ Len(SubSeq(h, 1, len)) = IF 1 <= len THEN len - 1 + 1 ELSE 0
        /\ \A n \in 1..(len - 1 + 1) : SubSeq(h, 1, len)[n] = h[1 + n - 1]
    BY <1>8, <2>2, SubSeqProperties
  <2> QED
    BY <1>8, <2>3
<1>12. /\ Len(indices) = len
       /\ \A n \in 1..len : indices[n] = first[n] /\ values[n] = first[n]
  BY <1>8, <1>11
<1> HIDE DEF indices, values
<1>13. ASSUME NEW i \in Indices, NEW n \in 1..len, first[n].index = i
       PROVE  reader'[i] = first[n].record
  <2>1. At(i) \in 1..len /\ indices[At(i)].index = i
    BY <1>12, <1>13
  <2>2. reader'[i] = values[At(i)].record
    BY <1>10, <1>12, <1>13
  <2> HIDE DEF At
  <2>3. values[At(i)] = first[At(i)] /\ first[At(i)].index = first[n].index
    BY <1>12, <1>13, <2>1
  <2>4. first[At(i)] = first[n]
    BY <1>8, <2>1, <2>3
  <2> QED
    BY <2>2, <2>3, <2>4
<1>14. ASSUME NEW i \in Indices, \A n \in 1..len : first[n].index # i
       PROVE  reader'[i] = reader[i]
  BY <1>10, <1>12, <1>14
<1>15. reader' \in [Indices -> Record]
  <2>1. ASSUME NEW i \in Indices PROVE reader'[i] \in Record
    <3>1. CASE \E n \in 1..len : first[n].index = i
      <4>1. PICK n \in 1..len : first[n].index = i
        BY <3>1
      <4>2. first[n] \in Item
        <5>1. Len(first) \in Nat
          BY <1>8, LenProperties
        <5>2. n \in 1..Len(first)
          BY <1>8, <5>1
        <5> QED
          BY <1>8, <5>2, ElementOfSeq
      <4> QED
        BY <1>13, <4>1, <4>2 DEF Item
    <3>2. CASE ~\E n \in 1..len : first[n].index = i
      BY <1>1, <1>14, <3>2 DEF News
    <3> QED
      BY <3>1, <3>2
  <2>2. reader' = [i \in Indices |-> reader'[i]]
    BY <1>10
  <2> QED
    BY <2>1, <2>2
<1>16. ASSUME NEW i \in Indices \ missed' PROVE Reached(i)' \/ OnItsWay(i)'
  <2>1. i \in Indices \ missed
    BY <1>3
  <2>2. \A j : Carries(entries, transports[t], j) <=> \E n \in 1..len : first[n].index = j
    BY <1>9 DEF Carries, len
  <2>3. CASE Reached(i)
    <3>1. ~Carries(entries, transports[t], i)
      BY <1>2, <2>3 DEF Reached
    <3>2. reader'[i] = reader[i]
      BY <1>14, <2>1, <2>2, <3>1
    <3>3. \A u \in Pending' : ~Carries(entries', transports'[u], i)
      BY <1>5, <1>6, <2>3 DEF Reached
    <3> QED
      BY <1>3, <2>3, <3>2, <3>3 DEF Reached
  <2>4. CASE OnItsWay(i)
    <3>1. PICK v \in Pending :
            /\ \A u \in Pending : u > v => ~Carries(entries, transports[u], i)
            /\ \E n \in 1..transports[v].length :
                  /\ Shown(entries, transports[v], n).index = i
                  /\ Same(Shown(entries, transports[v], n).record, source.at[i])
      BY <2>4 DEF OnItsWay
    <3>2. PICK n \in 1..transports[v].length :
             /\ Shown(entries, transports[v], n).index = i
             /\ Same(Shown(entries, transports[v], n).record, source.at[i])
      BY <3>1
    <3>3. CASE v = t
      <4>1. n \in 1..len /\ first[n].index = i /\ Same(first[n].record, source.at[i])
        BY <1>9, <3>2, <3>3 DEF len
      <4>2. reader'[i] = first[n].record
        BY <1>13, <2>1, <4>1
      <4>3. \A u \in Pending' : ~Carries(entries', transports'[u], i)
        BY <1>5, <1>6, <3>1, <3>3
      <4> QED
        BY <1>3, <4>1, <4>2, <4>3 DEF Reached
    <3>4. CASE v # t
      <4>1. v \in Pending' /\ v \in 1..Len(transports)
        BY <1>2, <1>4, <3>4
      <4>2. /\ n \in 1..transports'[v].length
            /\ Shown(entries', transports'[v], n).index = i
            /\ Same(Shown(entries', transports'[v], n).record, source'.at[i])
        BY <1>2, <1>3, <1>6, <3>2, <4>1
      <4>3. \A u \in Pending' : u > v => ~Carries(entries', transports'[u], i)
        BY <1>5, <1>6, <3>1
      <4> QED
        BY <4>1, <4>2, <4>3 DEF OnItsWay
    <3> QED
      BY <3>3, <3>4
  <2> QED
    BY <1>1, <2>1, <2>3, <2>4 DEF News
<1> QED
  BY <1>7, <1>15, <1>16 DEF News
(* Calls, finalizeTick and the reset publish nothing.                       *)
LEMMA SameSource ==
    ASSUME Calls \/ finalizeTick \/ resetPerTickAccumulators
    PROVE  source' = source
<1>1. ASSUME NEW s, Call(s) PROVE UNCHANGED <<publish, activePublishIndex>>
  BY <1>1 DEF Call
<1>2. CASE Calls
  <2>1. PICK i \in Indices :
          \/ \E capacity \in Capacities : setCapacity(i, capacity)
          \/ \E tolerance \in Tolerances : setDirtyTolerance(i, tolerance)
          \/ \E amount \in Amounts : \/ addAmount(i, amount)
                                     \/ spendAmount(i, amount)
                                     \/ writeAmountDirect(i, amount)
                                     \/ applyRate(i, "income", amount)
                                     \/ applyRate(i, "expense", amount)
          \/ \E mask \in Flags, shouldSet \in BOOLEAN : setFlagField(i, mask, shouldSet)
    BY <1>2 DEF Calls
  <2>2. ASSUME NEW capacity, setCapacity(i, capacity)
        PROVE  UNCHANGED <<publish, activePublishIndex>>
    BY <2>2 DEF setCapacity, Call
  <2>3. ASSUME NEW tolerance, setDirtyTolerance(i, tolerance)
        PROVE  UNCHANGED <<publish, activePublishIndex>>
    BY <2>3 DEF setDirtyTolerance, Call
  <2>4. ASSUME NEW amount, \/ addAmount(i, amount) \/ spendAmount(i, amount)
                           \/ writeAmountDirect(i, amount)
        PROVE  UNCHANGED <<publish, activePublishIndex>>
    BY <2>4 DEF addAmount, spendAmount, writeAmountDirect, Call
  <2>5. ASSUME NEW amount, NEW field, applyRate(i, field, amount)
        PROVE  UNCHANGED <<publish, activePublishIndex>>
    BY <2>5 DEF applyRate, Call
  <2>6. ASSUME NEW mask, NEW shouldSet, setFlagField(i, mask, shouldSet)
        PROVE  UNCHANGED <<publish, activePublishIndex>>
    BY <2>6 DEF setFlagField, Call
  <2>7. UNCHANGED <<publish, activePublishIndex>>
    BY <2>1, <2>2, <2>3, <2>4, <2>5, <2>6
  <2> QED
    BY <2>7 DEF source
<1>3. CASE finalizeTick
  BY <1>3 DEF finalizeTick, source
<1>4. CASE resetPerTickAccumulators
  BY <1>4 DEF resetPerTickAccumulators, source
<1> QED
  BY <1>2, <1>3, <1>4

(* Nothing is held, nothing is on its way, the reader starts with the live  *)
(* values.                                                                  *)
LEMMA PublishInit == Init => PublishInv
<1> SUFFICES ASSUME Init PROVE PublishInv
  OBVIOUS
<1>1. ResourceInv
  BY InitSound
<1>2. /\ entries = <<>> /\ available = [kind \in Kinds |-> <<>>] /\ activeLeases = {}
      /\ transports = <<>> /\ reader = live /\ source.at = live
  <2>1. publish = [b \in {0, 1} |-> [dirty |-> <<>>, at |-> live]] /\ activePublishIndex = 0
    BY DEF Init, ResourceInit
  <2> QED
    BY <2>1 DEF Init, source
<1>3. PoolSound(Pool)
  <2>1. /\ <<>> \in Seq(Entry) /\ <<>> \in Seq(Nat) /\ Len(<<>>) = 0
        /\ ToSet(<<>>) = {} /\ Uniq(<<>>)
    BY EmptySeq DEF ToSet, Uniq
  <2>2. Pool \in PoolState
    BY <1>2, <2>1 DEF Pool, PoolState
  <2>3. \A kind \in Kinds : Pool.available[kind] = <<>>
    BY <1>2, PoolIs
  <2> QED
    BY <1>2, <2>1, <2>2, <2>3, PoolIs DEF PoolSound
<1>4. Pending = {} /\ Holding = {} /\ transports \in Seq(Transport) /\ 1..Len(transports) = {}
  <2>1. transports \in Seq(Transport) /\ Len(transports) = 0
    BY <1>2, EmptySeq
  <2> QED
    BY <2>1 DEF Pending, Holding
<1>5. TransportsKept
  BY <1>3, <1>4 DEF TransportsKept
<1>6. live \in [Indices -> Record]
  BY <1>1, StateFields, TrackedFields DEF ResourceInv, Sound
<1>7. \A i \in Indices : Reached(i)
  BY <1>2, <1>4, <1>6, NearSelf DEF Reached
<1>8. Buffered /\ News
  BY <1>2, <1>4, <1>6, <1>7 DEF Buffered, News
<1> QED
  BY <1>1, <1>5, <1>8 DEF PublishInv

(* Every step of the resources, the transports and the reader.              *)
LEMMA PublishStep == PublishInv /\ [Next]_vars => PublishInv'
<1> SUFFICES ASSUME PublishInv, [Next]_vars PROVE PublishInv'
  OBVIOUS
<1>1. ResourceInv /\ TransportsKept /\ Buffered /\ News
  BY DEF PublishInv
<1>2. ResourceInv'
  BY <1>1, ResourceStep
<1>3. ASSUME UNCHANGED unpublished, source' = source PROVE PublishInv'
  <2>1. /\ UNCHANGED <<poolVars, transports>>
        /\ entries' = entries /\ transports' = transports /\ reader' = reader /\ missed' = missed
    BY <1>3 DEF unpublished, poolVars
  <2>2. Pending' = Pending
    BY <2>1 DEF Pending
  <2>3. TransportsKept'
    BY <1>1, <2>1, SamePoolKept
  <2>4. Buffered' /\ News'
    BY <1>1, <1>3, <2>1, <2>2, QuietNews
  <2> QED
    BY <1>2, <2>3, <2>4 DEF PublishInv
<1>4. CASE (Calls \/ finalizeTick \/ resetPerTickAccumulators) /\ UNCHANGED unpublished
  BY <1>3, <1>4, SameSource
<1>5. CASE createResourcePublishTransport
  BY <1>2, <1>5, SentNews DEF PublishInv
<1>6. CASE EmptyTransport
  <2>1. /\ createPublishSnapshot /\ Published = <<>>
        /\ UNCHANGED <<poolVars, transports, reader, missed>>
    BY <1>6 DEF EmptyTransport, Publishing
  <2>2. missed' = missed \cup ToSet(Published)
    BY <2>1 DEF ToSet
  <2>3. UNCHANGED <<entries, transports, reader>> /\ UNCHANGED <<poolVars, transports>>
    BY <2>1 DEF poolVars
  <2>4. Buffered' /\ News'
    BY <2>1, <2>2, <2>3, UnsentNews
  <2>5. TransportsKept'
    BY <1>1, <2>3, SamePoolKept
  <2> QED
    BY <1>2, <2>4, <2>5 DEF PublishInv
<1>7. CASE PublishUnsent
  <2>1. /\ createPublishSnapshot /\ missed' = missed \cup ToSet(Published)
        /\ UNCHANGED <<poolVars, transports, reader>>
    BY <1>7 DEF PublishUnsent, Publishing
  <2>2. UNCHANGED <<entries, transports, reader>> /\ UNCHANGED <<poolVars, transports>>
    BY <2>1 DEF poolVars
  <2>3. Buffered' /\ News'
    BY <2>1, <2>2, UnsentNews
  <2>4. TransportsKept'
    BY <1>1, <2>2, SamePoolKept
  <2> QED
    BY <1>2, <2>3, <2>4 DEF PublishInv
<1>8. ASSUME NEW t \in 1..Len(transports), ReaderApplies(t) PROVE PublishInv'
  BY <1>1, <1>2, <1>8, ApplyKept, AppliedNews DEF PublishInv
<1>9. ASSUME NEW t \in 1..Len(transports), NEW replacement \in Replacements \cup {0},
             ReaderReleases(t, replacement)
      PROVE  PublishInv'
  <2>1. /\ TransportsKept' /\ Pending' = Pending
        /\ \A u \in 1..Len(transports) :
              /\ transports'[u].leases = transports[u].leases
              /\ transports'[u].length = transports[u].length
        /\ \A u \in Pending : \A id \in Held(transports[u]) : entries'[id] = entries[id]
    BY <1>1, <1>9, ReleaseKept
  <2>2. source' = source /\ reader' = reader /\ missed' = missed
    BY <1>9 DEF ReaderReleases, resourceVars, source
  <2>3. Pending \subseteq 1..Len(transports)
    BY DEF Pending
  <2>4. Buffered' /\ News'
    BY <1>1, <2>1, <2>2, <2>3, QuietNews
  <2> QED
    BY <1>2, <2>1, <2>4 DEF PublishInv
<1>10. CASE UNCHANGED vars
  <2>1. UNCHANGED unpublished /\ source' = source
    BY <1>10 DEF vars, unpublished, resourceVars, poolVars, source
  <2> QED
    BY <1>3, <2>1
<1> QED
  BY <1>4, <1>5, <1>6, <1>7, <1>8, <1>9, <1>10 DEF Next

(* OneHolder: an entry of the pool (transport-buffer-pool.ts) is held by    *)
(* one transport that has not been released, or by none and then at most    *)
(* once on the list of its kind, whatever buffers a reader returns and in   *)
(* whichever order, for any number of transports and kinds of arrays.       *)
THEOREM HolderCorrect == Spec => []OneHolder
<1>1. PublishInv => OneHolder
  BY KeptHolder DEF PublishInv
<1> QED
  BY <1>1, PublishInit, PublishStep, PTL DEF Spec

(* ReaderIsCurrent: a reader that has taken every transport                 *)
(* (resource-publish-transport.ts) has what was last published of every     *)
(* resource, except those that a publish without a transport took from the  *)
(* dirty list, however late it read the shared buffers.                     *)
THEOREM ReaderCorrect == Spec => []ReaderIsCurrent
<1>1. PublishInv => ReaderIsCurrent
  <2> SUFFICES ASSUME PublishInv, \A t \in 1..Len(transports) : transports[t].applied,
                      NEW i \in Indices \ missed
               PROVE  \A f \in (DOMAIN reader[i]) \ {"tickDelta"} : reader[i][f] = source.at[i][f]
    BY DEF ReaderIsCurrent
  <2>1. Pending = {}
    BY DEF Pending
  <2>2. Reached(i)
    BY <2>1 DEF PublishInv, News, OnItsWay
  <2> QED
    BY <2>2 DEF Reached, Same
<1> QED
  BY <1>1, PublishInit, PublishStep, PTL DEF Spec
=============================================================================
