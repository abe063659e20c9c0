--------------------------- MODULE ResourcePublish ---------------------------
(***************************************************************************)
(* Deltas on their way to a reader: createResourcePublishTransport copies  *)
(* the indices a publish lists into buffers leased from a pool             *)
(* (resource-publish-transport.ts, transport-buffer-pool.ts); the reader   *)
(* takes the deltas in order, as late as it likes, out of the shared       *)
(* buffers, and releases each transport once, in any order. Parts of the   *)
(* engine publish for themselves in between (prestige formulas, offline    *)
(* production, the resource views), and a publish with more changes than   *)
(* the pool serves fails after it has cleared the dirty list.              *)
(***************************************************************************)
EXTENDS ResourceState

CONSTANTS
    LeaseKinds,         \* the kinds of the arrays of a transport, in the order leased
    MaxDirtyCount,      \* maxDirtyCount of the pool
    Replacements,       \* sizes of the buffers a reader may return in place of an entry's
    MaxTransports       \* bound: publishes, for a transport or not

ASSUME PublishAssumption ==
    /\ LeaseKinds \in Seq(ToSet(LeaseKinds)) /\ LeaseKinds # <<>>
    /\ MaxDirtyCount \in Nat /\ MaxTransports \in Nat
    /\ Replacements \subseteq Nat \ {0}

VARIABLES
    entries,        \* pool entries by id: [kind, capacity, holds]
    available,      \* [kind -> ids, by capacity]
    activeLeases,   \* ids leased
    transports,     \* those built: [leases, length, applied, released]
    reader,         \* the reader's view, [Indices -> record]
    missed,         \* ghost: indices published without a transport since their last
    publishes       \* publishes so far

poolVars == <<entries, available, activeLeases>>
vars == <<resourceVars, poolVars, transports, reader, missed, publishes>>

Kinds == ToSet(LeaseKinds)
Pool == [entries |-> entries, available |-> available, active |-> activeLeases]

SetPool(p) ==
    /\ entries' = p.entries /\ available' = p.available /\ activeLeases' = p.active

-----------------------------------------------------------------------------
(* The pool                                                                 *)

\* list.push and the sort, which is stable, of a list in order but for its end.
Shelved(ids, all, id) ==
    InsertAt(ids, 1 + Cardinality({n \in 1..Len(ids) :
                                       all[ids[n]].capacity <= all[id].capacity}), id)

\* Wrong on purpose (mutant): an entry of the list is used but not taken off it.
AcquireKept(p, kind, length) ==
    LET fits == {n \in 1..Len(p.available[kind]) :
                    p.entries[p.available[kind][n]].capacity >= length}
        created == Len(p.entries) + 1
        first == CHOOSE n \in fits : \A m \in fits : n <= m
    IN  IF fits = {}
        THEN [id |-> created,
              pool |-> [p EXCEPT !.entries = Append(@, [kind |-> kind, capacity |-> length,
                                                         holds |-> <<>>]),
                                 !.active = @ \cup {created}]]
        ELSE [id |-> p.available[kind][first],
              pool |-> [p EXCEPT !.active = @ \cup {p.available[kind][first]}]]

\* acquire: the smallest entry that is large enough, or a new one.
acquire(p, kind, length) ==
    LET fits == {n \in 1..Len(p.available[kind]) :
                    p.entries[p.available[kind][n]].capacity >= length}
        created == Len(p.entries) + 1
        first == CHOOSE n \in fits : \A m \in fits : n <= m
    IN  IF fits = {}
        THEN [id |-> created,
              pool |-> [p EXCEPT !.entries = Append(@, [kind |-> kind, capacity |-> length,
                                                         holds |-> <<>>]),
                                 !.active = @ \cup {created}]]
        ELSE [id |-> p.available[kind][first],
              pool |-> [p EXCEPT !.available[kind] = RemoveAt(@, first),
                                 !.active = @ \cup {p.available[kind][first]}]]

\* release, with the buffer the holder gives back if it is not the entry's own.
release(p, id, replacement) ==
    IF id \notin p.active THEN p
    ELSE LET all == IF replacement = 0 THEN p.entries
                    ELSE [p.entries EXCEPT ![id].capacity = replacement, ![id].holds = <<>>]
             kind == p.entries[id].kind
         IN  [entries |-> all, active |-> p.active \ {id},
              available |-> [p.available EXCEPT ![kind] = Shelved(@, all, id)]]

-----------------------------------------------------------------------------
(* Publishing                                                               *)

\* The leases of a transport, one array after the other.
Leased(length) ==
    LET took[n \in 0..Len(LeaseKinds)] ==
          IF n = 0 THEN [ids |-> <<>>, pool |-> Pool]
          ELSE LET a == acquire(took[n - 1].pool, LeaseKinds[n], length)
               IN  [ids |-> Append(took[n - 1].ids, a.id), pool |-> a.pool]
    IN  took[Len(LeaseKinds)]

\* Wrong on purpose (mutant): the values of the other publish buffer.
DeltaBefore ==
    [n \in 1..Len(Published) |-> [index |-> Published[n], record |-> source.at[Published[n]]]]

\* populateComponentBuffers: index and record, in the order of the dirty list.
Delta == [n \in 1..Len(Published) |-> [index |-> Published[n], record |-> live[Published[n]]]]

\* A buffer longer than the delta keeps what it held behind it.
Filled(holds, delta) == delta \o SubSeq(holds, Len(delta) + 1, Len(holds))

Written(all, ids) ==
    [id \in DOMAIN all |-> IF id \in ids THEN [all[id] EXCEPT !.holds = Filled(@, Delta)]
                           ELSE all[id]]

Publishing ==
    /\ publishes < MaxTransports /\ publishes' = publishes + 1
    /\ createPublishSnapshot

createResourcePublishTransport ==
    /\ Publishing
    /\ Len(Published) \in 1..MaxDirtyCount
    /\ LET l == Leased(Len(Published))
       IN  /\ SetPool([l.pool EXCEPT !.entries = Written(l.pool.entries, ToSet(l.ids))])
           /\ transports' = Append(transports, [leases |-> l.ids, length |-> Len(Published),
                                                applied |-> FALSE, released |-> FALSE])
    /\ missed' = missed \ ToSet(Published)
    /\ UNCHANGED reader

\* Nothing changed: buildEmptyTransport leases nothing.
EmptyTransport ==
    /\ Publishing
    /\ Published = <<>>
    /\ UNCHANGED <<poolVars, transports, reader, missed>>

\* A publish nobody sends: the engine's own, or one the pool throws on.
PublishUnsent ==
    /\ Publishing
    /\ Published # <<>>
    /\ missed' = missed \cup ToSet(Published)
    /\ UNCHANGED <<poolVars, transports, reader>>

-----------------------------------------------------------------------------
(* The reader                                                               *)

\* The next transport, as its buffers read now: the last index written wins.
ReaderApplies(t) ==
    /\ ~transports[t].applied /\ \A u \in 1..(t - 1) : transports[u].applied
    /\ LET Read(lease) == SubSeq(entries[lease].holds, 1, transports[t].length)
           indices == Read(transports[t].leases[1])
           values == Read(Last(transports[t].leases))
       IN  reader' = [i \in Indices |->
                         IF \E n \in 1..Len(indices) : indices[n].index = i
                         THEN values[CHOOSE n \in 1..Len(indices) : indices[n].index = i].record
                         ELSE reader[i]]
    /\ transports' = [transports EXCEPT ![t].applied = TRUE]
    /\ UNCHANGED <<resourceVars, poolVars, missed, publishes>>

\* release of the transport, of all its leases.
Returned(leases, replacement) ==
    LET pool[n \in 0..Len(leases)] ==
          IF n = 0 THEN Pool ELSE release(pool[n - 1], leases[n], replacement)
    IN  pool[Len(leases)]

ReaderReleases(t, replacement) ==
    /\ transports[t].applied /\ ~transports[t].released
    /\ SetPool(Returned(transports[t].leases, replacement))
    /\ transports' = [transports EXCEPT ![t].released = TRUE]
    /\ UNCHANGED <<resourceVars, reader, missed, publishes>>

-----------------------------------------------------------------------------
Init ==
    /\ ResourceInit
    /\ entries = <<>>
    /\ available = [kind \in Kinds |-> <<>>]
    /\ activeLeases = {}
    /\ transports = <<>>
    /\ reader = live
    /\ missed = {}
    /\ publishes = 0

unpublished == <<poolVars, transports, reader, missed, publishes>>

Next ==
    \/ (Calls \/ finalizeTick \/ resetPerTickAccumulators) /\ UNCHANGED unpublished
    \/ createResourcePublishTransport
    \/ EmptyTransport
    \/ PublishUnsent
    \/ \E t \in 1..Len(transports) :
          \/ ReaderApplies(t)
          \/ \E replacement \in Replacements \cup {0} : ReaderReleases(t, replacement)

Spec == Init /\ [][Next]_vars

-----------------------------------------------------------------------------
(* A reader that takes every transport in order holds what was last         *)
(* published of every resource, however late it reads the shared buffers    *)
(* and in whichever order it returns them, but for the resources a publish  *)
(* that sent no transport took from the dirty list. The tick's delta of a   *)
(* resource that is not listed is no news.                                  *)
ReaderIsCurrent ==
    (\A t \in 1..Len(transports) : transports[t].applied) =>
        \A i \in Indices \ missed :
            \A f \in (DOMAIN reader[i]) \ {"tickDelta"} : reader[i][f] = source.at[i][f]

(* An entry has one holder: a transport not released holds all its leases,  *)
(* no other transport holds one of them, and the pool has it on no list.    *)
OneHolder ==
    \A t \in 1..Len(transports) : ~transports[t].released =>
        /\ ToSet(transports[t].leases) \subseteq activeLeases
        /\ Cardinality(ToSet(transports[t].leases)) = Len(LeaseKinds)
        /\ \A u \in 1..Len(transports) : u # t /\ ~transports[u].released =>
              ToSet(transports[t].leases) \cap ToSet(transports[u].leases) = {}
        /\ \A kind \in Kinds : ToSet(transports[t].leases) \cap ToSet(available[kind]) = {}
=============================================================================
