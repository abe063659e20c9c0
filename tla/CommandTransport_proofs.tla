------------------------ MODULE CommandTransport_proofs ------------------------
(***************************************************************************)
(* The command queue, by itself and behind the transport server, for every *)
(* size of queue, authorization table and set of commands. By itself: its  *)
(* variables keep their types, its counter is the number of queued entries *)
(* and stays within maxSize, an overflow never drops an entry more         *)
(* important than what it keeps or admits, and a restore keeps the order   *)
(* of the save. Behind the server, for every set of clients and request    *)
(* ids and every ttl: two commands of one request enter the queue a ttl    *)
(* apart, a client is never told the outcome of another client's command   *)
(* unless some outcome took a ttl, and a pending request can be answered.  *)
(* (Both specifications extend QueueOperations; Spec is that of            *)
(* CommandQueue, TransportSpec that of CommandTransport.)                  *)
(***************************************************************************)
EXTENDS CommandTransport, CommandQueue, QueueOperations_proofs, SequenceTheorems,
        WellFoundedInduction

-----------------------------------------------------------------------------
(* The queue by itself: CommandQueue                                        *)

(* Between restores nothing is left to re-enqueue, so taking a new save     *)
(* cannot strand entries of the previous one.                               *)
RestoreFinished == ~inRestore => restoring = {}

QueueInv == WellFormed /\ TypeInv /\ RestoreFinished

(* What the restore loop hands to enqueue is a command, its step clamped.   *)
LEMMA RestoredType ==
    ASSUME NEW e \in Entry, rebase \in Int
    PROVE  Restored(e) \in Command
<1>1. RebasedStep(e.step) \in Nat
  BY DEF RebasedStep, Entry
<1> QED
  BY <1>1 DEF Restored, Entry, Command

(* What a caller may hand to enqueue is a command.                          *)
LEMMA CallerCommandType ==
    ASSUME NEW t \in Types, NEW x \in Payloads, NEW p \in Priority,
           NEW ts \in Timestamps, NEW s \in Steps
    PROVE  [type |-> t, payload |-> x, priority |-> p, timestamp |-> ts, step |-> s] \in Command
BY QueueAssumption, SaveAssumption DEF QueueAssumption, SaveAssumption, Command

LEMMA InitQueueInv == Init => QueueInv
<1> SUFFICES ASSUME Init PROVE QueueInv
  OBVIOUS
<1>1. WellFormed
  BY QueueInitWellFormed, QueueAssumption DEF Init
<1>2. saved \in SUBSET Entry /\ restoring \in SUBSET saved /\ rebase \in Int
  BY DEF Init
<1>3. inRestore \in BOOLEAN
  BY Zenon DEF Init
<1>4. RestoreFinished
  BY DEF Init, RestoreFinished
<1> QED
  BY <1>1, <1>2, <1>3, <1>4, Zenon DEF QueueInv, WellFormed, TypeInv

LEMMA QueueInvStep ==
    ASSUME QueueInv, [Next]_vars
    PROVE  QueueInv'
<1> USE QueueAssumption DEF QueueInv, RestoreFinished
<1>1. CASE CallerEnqueues
  <2>1. WellFormed'
    BY <1>1, EnqueuePreserves, CallerCommandType DEF CallerEnqueues
  <2> QED
    BY <1>1, <2>1 DEF CallerEnqueues, TypeInv, WellFormed, saveVars
<1>2. CASE CallerDequeues
  <2>1. WellFormed'
    BY <1>2, DequeuePreserves DEF CallerDequeues
  <2> QED
    BY <1>2, <2>1 DEF CallerDequeues, TypeInv, WellFormed, saveVars
<1>3. CASE CallerClears
  <2>1. WellFormed'
    BY <1>3, ClearPreserves DEF CallerClears
  <2> QED
    BY <1>3, <2>1 DEF CallerClears, TypeInv, WellFormed, saveVars
<1>4. CASE CallerSaves
  <2>1. /\ UNCHANGED <<entries, nextSequence, totalSize, restoring, rebase, inRestore>>
        /\ saved' \in SUBSET Entry
        /\ restoring = {}
    BY <1>4 DEF CallerSaves, ExportForSave, Idle, queueVars, TypeInv, QueueTypes
  <2>2. WellFormed'
    BY <2>1 DEF WellFormed, QueueTypes, SizeInv, SequencesBelow
  <2> QED
    BY <2>1, <2>2 DEF TypeInv, WellFormed
<1>5. CASE CallerRestores
  <2>1. PICK savedStep \in Steps, currentStep \in Steps : RestoreBegin(currentStep - savedStep)
    BY <1>5 DEF CallerRestores
  <2>2. /\ restoring' = saved /\ rebase' = currentStep - savedStep
        /\ inRestore' = TRUE /\ saved' = saved
    BY <2>1 DEF RestoreBegin
  <2>3. rebase' \in Int
    BY <2>2, SaveAssumption DEF SaveAssumption
  <2>4. WellFormed'
    BY <2>1, ClearPreserves DEF RestoreBegin
  <2> QED
    BY <2>2, <2>3, <2>4 DEF TypeInv, WellFormed
<1>6. CASE RestoreNext
  <2>1. PICK e \in restoring :
          /\ Enqueue(Restored(e))
          /\ restoring' = restoring \ {e}
          /\ UNCHANGED <<saved, rebase, inRestore>>
    BY <1>6 DEF RestoreNext
  <2>2. WellFormed'
    BY <2>1, RestoredType, EnqueuePreserves DEF TypeInv
  <2> QED
    BY <2>1, <2>2 DEF TypeInv, WellFormed
<1>7. CASE RestoreEnd \/ UNCHANGED vars
  <2>1. UNCHANGED <<entries, nextSequence, totalSize, saved, restoring, rebase>>
    BY <1>7 DEF RestoreEnd, queueVars, vars
  <2>2. inRestore' \in BOOLEAN /\ RestoreFinished'
    BY <1>7 DEF RestoreEnd, vars, TypeInv
  <2>3. WellFormed'
    BY <2>1 DEF WellFormed, QueueTypes, SizeInv, SequencesBelow
  <2> QED
    BY <2>1, <2>2, <2>3 DEF TypeInv, WellFormed
<1> QED
  BY <1>1, <1>2, <1>3, <1>4, <1>5, <1>6, <1>7 DEF Next

LEMMA QueueInductive == Spec => []QueueInv
BY InitQueueInv, QueueInvStep, PTL DEF Spec

(* The queue's variables always have their types.                           *)
THEOREM TypeCorrect == Spec => []TypeInv
BY QueueInductive, PTL DEF QueueInv

(* The size counter kept by enqueue, eviction, dequeueUpToStep, clear and   *)
(* restoreFromSave is the number of queued entries and is at most maxSize.  *)
THEOREM SizeCorrect == Spec => []SizeInv
BY QueueInductive, PTL DEF QueueInv, WellFormed

(* Whatever was called before: an enqueue on a full queue never drops an    *)
(* entry more important than the newcomer or than an entry it keeps, nor    *)
(* one that would run after another of its lane.                            *)
THEOREM EvictionCorrect == Spec => EvictionRespectsPriority
<1>1. ASSUME QueueInv, [Next]_vars PROVE [DropsLeastImportant]_vars
  <2>1. CASE CallerEnqueues
    BY <1>1, <2>1, EnqueueEvicts, CallerCommandType DEF CallerEnqueues, QueueInv
  <2>2. CASE RestoreNext
    <3>1. PICK e \in restoring : Enqueue(Restored(e))
      BY <2>2 DEF RestoreNext
    <3>2. Restored(e) \in Command
      BY <1>1, RestoredType DEF QueueInv, TypeInv
    <3> QED
      BY <1>1, <3>1, <3>2, EnqueueEvicts DEF QueueInv
  <2>3. CASE \/ CallerDequeues \/ CallerClears \/ CallerSaves \/ CallerRestores
             \/ RestoreEnd \/ UNCHANGED vars
    <3>1. entries' \subseteq entries
      BY <1>1, <2>3
      DEF CallerDequeues, DequeueUpToStep, CallerClears, Clear, CallerSaves,
          CallerRestores, RestoreBegin, RestoreEnd, queueVars, vars
    <3> QED
      BY <3>1 DEF DropsLeastImportant
  <2> QED
    BY <1>1, <2>1, <2>2, <2>3 DEF Next
<1> QED
  BY <1>1, QueueInductive, PTL DEF Spec, EvictionRespectsPriority

-----------------------------------------------------------------------------
(* A restore keeps the saved order.                                         *)

UniquePayloads(S) == \A e, f \in S : e.payload = f.payload => e = f

(* A payload names one queued command, one saved command, and never a       *)
(* queued command beside another one of the save.                           *)
PayloadsName == UniquePayloads(entries) /\ UniquePayloads(saved)

(* A save is no larger than the queue, so that restoring it never evicts.   *)
RestoreFits ==
    /\ IsFiniteSet(saved)
    /\ Cardinality(saved) <= MaxSize
    /\ inRestore => Cardinality(entries) + Cardinality(restoring) <= MaxSize

(* q is what the restore made of the saved entry e, all of what it has      *)
(* still to re-enqueue comes after e, and so do the entries queued since.   *)
RestoredFrom(q, e) ==
    /\ SameCommand(q, e)
    /\ q.priority = e.priority /\ q.timestamp = e.timestamp
    /\ \A f \in restoring : Precedes(e, f)
    /\ \A r \in entries, f \in saved \ restoring :
          SameCommand(r, f) /\ Precedes(e, f) => Precedes(q, r)

RestoreInOrder ==
    inRestore =>
        /\ \A e \in saved \ restoring : Authorized(e) =>
              \E q \in entries : SameCommand(q, e) /\ q.step = RebasedStep(e.step)
        /\ \A q \in entries : \E e \in saved \ restoring : RestoredFrom(q, e)

RestoreInv == PayloadsName /\ RestoreFits /\ RestoreInOrder

(* The drain order is a strict order.                                       *)
LEMMA PrecedesAsymmetric ==
    ASSUME NEW e \in Entry, NEW f \in Entry, Precedes(e, f)
    PROVE  ~Precedes(f, e) /\ e # f
<1>1. /\ e.priority \in Nat /\ e.timestamp \in Nat /\ e.sequence \in Nat
      /\ f.priority \in Nat /\ f.timestamp \in Nat /\ f.sequence \in Nat
  BY PriorityIsNat DEF Entry
<1> QED
  BY <1>1 DEF Precedes, Before

(* The queue always has room for the next entry of a restore, so it is      *)
(* inserted, or refused for want of authorization, and evicts nothing.      *)
LEMMA RestoreInserts ==
    ASSUME QueueInv, RestoreFits, inRestore, NEW e \in restoring, Enqueue(Restored(e)),
           restoring' = restoring \ {e}, saved' = saved, inRestore' = inRestore
    PROVE  /\ RestoreFits'
           /\ \/ Authorized(e) /\ entries' = entries \cup {Stamped(Restored(e), nextSequence)}
              \/ ~Authorized(e) /\ entries' = entries
<1>1. /\ IsFiniteSet(entries) /\ totalSize = Cardinality(entries)
      /\ Cardinality(entries) \in Nat /\ MaxSize \in Nat
      /\ restoring \in SUBSET saved
  BY QueueAssumption, FS_CardinalityType DEF QueueInv, WellFormed, SizeInv, TypeInv, QueueAssumption
<1>2. IsFiniteSet(restoring) /\ Cardinality(restoring) \in Nat
  BY <1>1, FS_Subset, FS_CardinalityType DEF RestoreFits
<1>3. Cardinality(restoring') = Cardinality(restoring) - 1 /\ Cardinality(restoring') \in Nat
  <2>1. IsFiniteSet(restoring \ {e}) /\ Cardinality(restoring \ {e}) = Cardinality(restoring) - 1
    BY <1>2, FS_RemoveElement
  <2> QED
    BY <2>1, FS_CardinalityType
<1>4. totalSize < MaxSize
  BY <1>1, <1>2, <1>3 DEF RestoreFits
<1>5. Authorized(Restored(e)) <=> Authorized(e)
  BY DEF Authorized, Restored
<1>6. CASE EnqueueRefused(Restored(e))
  BY <1>1, <1>2, <1>3, <1>4, <1>5, <1>6 DEF EnqueueRefused, queueVars, RestoreFits
<1>7. CASE EnqueueWithRoom(Restored(e))
  <2>1. Authorized(e) /\ entries' = entries \cup {Stamped(Restored(e), nextSequence)}
    BY <1>5, <1>7 DEF EnqueueWithRoom, Insert
  <2> DEFINE larger == entries \cup {Stamped(Restored(e), nextSequence)}
  <2>2. IsFiniteSet(larger) /\ Cardinality(larger) \in {Cardinality(entries), Cardinality(entries) + 1}
    BY <1>1, FS_AddElement, Zenon
  <2>3. Cardinality(larger) \in Nat
    BY <2>2, FS_CardinalityType
  <2> QED
    BY <1>1, <1>2, <1>3, <2>1, <2>2, <2>3 DEF RestoreFits
<1>8. ~EnqueueFull(Restored(e))
  BY <1>1, <1>4 DEF EnqueueFull
<1> QED
  BY <1>6, <1>7, <1>8 DEF Enqueue

(* A queued entry of a restore comes from one saved entry.                  *)
LEMMA OneOrigin ==
    ASSUME PayloadsName, RestoreInOrder, inRestore,
           NEW q \in entries, NEW f \in saved \ restoring, SameCommand(q, f)
    PROVE  RestoredFrom(q, f)
BY DEF PayloadsName, UniquePayloads, RestoreInOrder, RestoredFrom, SameCommand

(* One turn of the restore loop keeps the order.                            *)
LEMMA RestoreNextKeepsOrder ==
    ASSUME QueueInv, RestoreInv, inRestore, NEW e \in restoring,
           \A f \in restoring \ {e} : Precedes(e, f),
           Enqueue(Restored(e)), restoring' = restoring \ {e},
           UNCHANGED <<saved, rebase, inRestore>>
    PROVE  PayloadsName' /\ RestoreInOrder'
<1>0. PICK new : new = Stamped(Restored(e), nextSequence)
  OBVIOUS
<1> DEFINE done == saved \ restoring
<1>1. /\ entries \in SUBSET Entry /\ saved \in SUBSET Entry /\ restoring \in SUBSET saved
      /\ \A q \in entries : q.sequence < nextSequence
      /\ nextSequence \in Nat /\ rebase \in Int
  BY DEF QueueInv, WellFormed, QueueTypes, TypeInv, SequencesBelow
<1>2. /\ SameCommand(new, e) /\ new.step = RebasedStep(e.step)
      /\ new.priority = e.priority /\ new.timestamp = e.timestamp
      /\ new.sequence = nextSequence
  BY <1>0 DEF Stamped, Restored, SameCommand
<1>3. saved' = saved /\ done' = done \cup {e} /\ e \in saved /\ e \notin done
  BY <1>1
<1>4. /\ entries' \in SUBSET (entries \cup {new})
      /\ Authorized(e) => new \in entries'
      /\ entries \in SUBSET entries'
  BY <1>0, RestoreInserts DEF RestoreInv
<1>5. \A q \in entries : \E g \in done : RestoredFrom(q, g)
  BY DEF RestoreInv, RestoreInOrder
<1>6. \A q \in entries : q.payload # e.payload
  BY <1>1, <1>3, <1>5 DEF RestoredFrom, SameCommand, RestoreInv, PayloadsName, UniquePayloads
<1>7. PayloadsName'
  BY <1>2, <1>3, <1>4, <1>6 DEF RestoreInv, PayloadsName, UniquePayloads, SameCommand
<1>8. ASSUME NEW f \in done', Authorized(f)
      PROVE  \E q \in entries' : SameCommand(q, f) /\ q.step = RebasedStep(f.step)'
  <2>1. RebasedStep(f.step)' = RebasedStep(f.step)
    BY DEF RebasedStep
  <2>2. CASE f = e
    BY <1>2, <1>4, <1>8, <2>1, <2>2
  <2>3. CASE f \in done
    BY <1>4, <1>8, <2>1, <2>3 DEF RestoreInv, RestoreInOrder
  <2> QED
    BY <1>3, <1>8, <2>2, <2>3
\* What was already restored keeps its place before the new entry.
<1>9. ASSUME NEW q \in entries, NEW g \in done, RestoredFrom(q, g)
      PROVE  RestoredFrom(q, g)'
  <2>1. \A f \in restoring' : Precedes(g, f)
    BY <1>9 DEF RestoredFrom
  <2>2. ASSUME NEW r \in entries', NEW f \in done', SameCommand(r, f), Precedes(g, f)
        PROVE  Precedes(q, r)
    <3>1. CASE r \in entries
      <4>1. f # e
        BY <1>6, <2>2, <3>1 DEF SameCommand
      <4> QED
        BY <1>3, <1>9, <2>2, <3>1, <4>1 DEF RestoredFrom
    <3>2. CASE r = new
      <4>1. f = e
        BY <1>2, <1>3, <2>2, <3>2 DEF SameCommand, RestoreInv, PayloadsName, UniquePayloads
      <4>2. Precedes(g, e) /\ q.priority = g.priority /\ q.timestamp = g.timestamp
        BY <2>2, <4>1, <1>9 DEF RestoredFrom
      <4> QED
        BY <1>1, <1>2, <3>2, <4>2 DEF Precedes, Before
    <3> QED
      BY <1>4, <2>2, <3>1, <3>2
  <2> QED
    BY <1>9, <2>1, <2>2 DEF RestoredFrom, SameCommand
\* The new entry comes after all of it.
<1>10. RestoredFrom(new, e)'
  <2>1. ASSUME NEW r \in entries', NEW f \in done', SameCommand(r, f), Precedes(e, f)
        PROVE  Precedes(new, r)
    <3>1. f # e /\ f \in done /\ f \in Entry /\ e \in Entry
      BY <1>1, <1>3, <2>1, PrecedesAsymmetric
    <3>2. r \in entries
      BY <1>2, <1>3, <1>4, <2>1, <3>1 DEF SameCommand, RestoreInv, PayloadsName, UniquePayloads
    <3>3. Precedes(f, e)
      BY <2>1, <3>1, <3>2, OneOrigin DEF RestoreInv, RestoredFrom
    <3> QED
      BY <2>1, <3>1, <3>3, PrecedesAsymmetric
  <2>2. \A f \in restoring' : Precedes(e, f)
    OBVIOUS
  <2> QED
    BY <1>2, <2>1, <2>2 DEF RestoredFrom, SameCommand
<1>11. RestoreInOrder'
  <2>1. \A q \in entries' : \E g \in done' : RestoredFrom(q, g)'
    BY <1>3, <1>4, <1>5, <1>9, <1>10
  <2>2. \A g \in done' : Authorized(g)' =>
           \E q \in entries' : SameCommand(q, g)' /\ q.step = RebasedStep(g.step)'
    BY <1>8 DEF SameCommand, Authorized
  <2> QED
    BY <2>1, <2>2, inRestore' = inRestore DEF RestoreInOrder
<1> QED
  BY <1>7, <1>11

LEMMA RestoreInvStep ==
    ASSUME QueueInv, RestoreInv, [Next]_vars
    PROVE  RestoreInv'
<1>1. /\ PayloadsName /\ IsFiniteSet(saved) /\ Cardinality(saved) <= MaxSize
      /\ IsFiniteSet(entries) /\ totalSize = Cardinality(entries) /\ totalSize <= MaxSize
      /\ Cardinality(entries) \in Nat /\ MaxSize \in Nat /\ Cardinality(saved) \in Nat
  BY QueueAssumption, FS_CardinalityType
  DEF RestoreInv, RestoreFits, QueueInv, WellFormed, SizeInv, QueueAssumption
\* Outside a restore only the payloads and the size of the save matter.
<1>2. ASSUME PayloadsName', IsFiniteSet(saved'), Cardinality(saved') <= MaxSize, ~inRestore'
      PROVE  RestoreInv'
  BY <1>2 DEF RestoreInv, RestoreFits, RestoreInOrder
<1>3. CASE CallerEnqueues
  <2>1. PICK c \in Command : Enqueue(c) /\ \A e \in entries : e.payload # c.payload
    BY <1>3, CallerCommandType DEF CallerEnqueues
  <2>2. entries' \subseteq entries \cup {Stamped(c, nextSequence)}
    BY <2>1 DEF Enqueue, EnqueueRefused, EnqueueWithRoom, EnqueueFull, Insert,
                InsertEvicting, queueVars
  <2>3. Stamped(c, nextSequence).payload = c.payload
    BY DEF Stamped
  <2>4. saved' = saved /\ ~inRestore'
    BY <1>3 DEF CallerEnqueues, Idle, saveVars
  <2> QED
    BY <1>1, <1>2, <2>1, <2>2, <2>3, <2>4 DEF PayloadsName, UniquePayloads
<1>4. CASE CallerDequeues \/ CallerClears
  <2>1. entries' \subseteq entries /\ saved' = saved /\ ~inRestore'
    BY <1>4 DEF CallerDequeues, DequeueUpToStep, CallerClears, Clear, Idle, saveVars
  <2> QED
    BY <1>1, <1>2, <2>1 DEF PayloadsName, UniquePayloads
<1>5. CASE CallerSaves
  <2>1. entries' = entries /\ saved' \in SUBSET entries /\ ~inRestore'
    BY <1>5 DEF CallerSaves, ExportForSave, Idle, queueVars
  <2>2. IsFiniteSet(saved') /\ Cardinality(saved') <= Cardinality(entries)
    BY <1>1, <2>1, FS_Subset
  <2>3. Cardinality(saved') \in Nat
    BY <2>2, FS_CardinalityType
  <2> QED
    BY <1>1, <1>2, <2>1, <2>2, <2>3 DEF PayloadsName, UniquePayloads
<1>6. CASE CallerRestores
  <2>1. entries' = {} /\ restoring' = saved /\ saved' = saved
    BY <1>6, ClearPreserves, QueueAssumption DEF CallerRestores, RestoreBegin, QueueInv
  <2>2. Cardinality(entries') + Cardinality(restoring') <= MaxSize
    BY <1>1, <2>1, FS_EmptySet
  <2> QED
    BY <1>1, <2>1, <2>2
    DEF RestoreInv, RestoreFits, RestoreInOrder, PayloadsName, UniquePayloads
<1>7. CASE RestoreNext
  <2>1. PICK e \in restoring :
          /\ \A f \in restoring \ {e} : Precedes(e, f)
          /\ Enqueue(Restored(e))
          /\ restoring' = restoring \ {e}
          /\ UNCHANGED <<saved, rebase, inRestore>>
    BY <1>7 DEF RestoreNext
  <2>2. inRestore
    BY <2>1 DEF QueueInv, RestoreFinished
  <2>3. RestoreFits'
    BY <2>1, <2>2, RestoreInserts DEF RestoreInv
  <2>4. PayloadsName' /\ RestoreInOrder'
    BY <2>1, <2>2, RestoreNextKeepsOrder
  <2> QED
    BY <2>3, <2>4 DEF RestoreInv
<1>8. CASE RestoreEnd
  <2>1. UNCHANGED <<entries, saved>> /\ ~inRestore'
    BY <1>8 DEF RestoreEnd, queueVars
  <2> QED
    BY <1>1, <1>2, <2>1 DEF PayloadsName, UniquePayloads
<1>9. CASE UNCHANGED vars
  BY <1>9 DEF vars, RestoreInv, PayloadsName, UniquePayloads, RestoreFits, RestoreInOrder,
              RestoredFrom, RebasedStep
<1> QED
  BY <1>3, <1>4, <1>5, <1>6, <1>7, <1>8, <1>9 DEF Next

(* A restore under way has lost nothing of the save that is authorized and  *)
(* runs it in the saved order (restoreFromSave's loop of enqueues).         *)
THEOREM RestoreCorrect == Spec => []RestoreKeepsOrder
<1>1. Init => RestoreInv
  <2> SUFFICES ASSUME Init PROVE RestoreInv
    OBVIOUS
  <2>1. entries = {} /\ saved = {} /\ ~inRestore /\ MaxSize \in Nat
    BY QueueAssumption DEF Init, QueueInit, QueueAssumption
  <2> QED
    BY <2>1, FS_EmptySet
    DEF RestoreInv, PayloadsName, UniquePayloads, RestoreFits, RestoreInOrder
<1>2. QueueInv /\ RestoreInv /\ [Next]_vars => RestoreInv'
  BY RestoreInvStep
<1>3. RestoreInv => RestoreKeepsOrder
  BY DEF RestoreInv, RestoreInOrder, RestoredFrom, RestoreKeepsOrder
<1> QED
  BY <1>1, <1>2, <1>3, QueueInductive, PTL DEF Spec

-----------------------------------------------------------------------------
(* The queue behind the transport server: CommandTransport                  *)

Outcomes == [key: Keys, at: Nat, success: BOOLEAN]

TransportTypes ==
    /\ now \in Nat /\ nextStep \in Nat /\ overdue \in BOOLEAN
    /\ DOMAIN registry \subseteq Keys
    /\ \A k \in DOMAIN registry : registry[k].expiresAt \in Nat
    /\ DOMAIN pendingKeys \subseteq Requests
    /\ \A r \in DOMAIN pendingKeys :
          /\ pendingKeys[r].key \in Keys /\ pendingKeys[r].key[2] = r
          /\ pendingKeys[r].expiresAt \in Nat
    /\ awaiting \in SUBSET Entry
    /\ outcomes \in Seq(Outcomes)
    /\ \A n \in DOMAIN admitted :
          /\ n \in Nat /\ n < nextSequence
          /\ admitted[n].key \in Keys /\ admitted[n].at \in Nat /\ admitted[n].at <= now

Outstanding == entries \cup awaiting

(* A command has one number, under which it was admitted; it is queued, in  *)
(* a handler's promise or among the outcomes.                               *)
Numbered ==
    /\ UniqueSequences(Outstanding)
    /\ entries \cap awaiting = {}
    /\ \A e \in Outstanding :
          e.sequence \in DOMAIN admitted /\ admitted[e.sequence].key = e.payload
    /\ \A i \in 1..Len(outcomes) : \E n \in DOMAIN admitted :
          /\ outcomes[i].key = admitted[n].key /\ outcomes[i].at = admitted[n].at
          /\ \A e \in Outstanding : e.sequence # n

Young(at) == at + Ttl > now

(* A request is on record for a ttl after its command.                      *)
Remembered ==
    \A n \in DOMAIN admitted : Young(admitted[n].at) =>
        /\ admitted[n].key \in DOMAIN registry
        /\ registry[admitted[n].key].expiresAt >= admitted[n].at + Ttl

(* The request id is in use by k until a ttl after its command.             *)
Holds(k, at) ==
    /\ k[2] \in DOMAIN pendingKeys
    /\ pendingKeys[k[2]].key = k
    /\ pendingKeys[k[2]].expiresAt >= at + Ttl

(* Who will get an outcome is who caused it.                                *)
HeldWhileYoung ==
    overdue \/
        /\ \A e \in Outstanding :
              Young(admitted[e.sequence].at) => Holds(e.payload, admitted[e.sequence].at)
        /\ \A i \in 1..Len(outcomes) :
              Young(outcomes[i].at) => Holds(outcomes[i].key, outcomes[i].at)

TransportInv ==
    /\ WellFormed /\ TransportTypes /\ Numbered
    /\ Remembered /\ AtMostOncePerTtl
    /\ HolderCanBeAnswered
    /\ HeldWhileYoung /\ OwnAnswerUnlessOverdue

-----------------------------------------------------------------------------
(* The two maps.                                                            *)

LEMMA LiveFacts ==
    ASSUME NEW map
    PROVE  /\ DOMAIN Live(map) = {x \in DOMAIN map : ~(map[x].expiresAt <= now)}
           /\ \A x \in DOMAIN Live(map) : Live(map)[x] = map[x]
BY DEF Live, Without

(* What has not expired is still there, as it was.                          *)
Keeps(map, new) ==
    \A x \in DOMAIN map : ~(map[x].expiresAt <= now) => x \in DOMAIN new /\ new[x] = map[x]

LEMMA LiveKeeps == \A map : Keeps(map, Live(map))
BY LiveFacts DEF Keeps

(* A request that is not on record and not held by another holds no id.     *)
LEMMA HoldIsFree ==
    ASSUME TransportTypes, HolderCanBeAnswered, NEW k \in Keys, ~Cached(k), ~HeldByOther(k)
    PROVE  k[2] \notin DOMAIN Live(pendingKeys)
<1> SUFFICES ASSUME k[2] \in DOMAIN Live(pendingKeys) PROVE FALSE
  OBVIOUS
<1>1. /\ k[2] \in DOMAIN pendingKeys /\ ~(pendingKeys[k[2]].expiresAt <= now)
      /\ pendingKeys[k[2]].key = k
  BY LiveFacts DEF HeldByOther
<1>2. k \in DOMAIN registry /\ registry[k].expiresAt = pendingKeys[k[2]].expiresAt
  BY <1>1 DEF HolderCanBeAnswered
<1> QED
  BY <1>1, <1>2, LiveFacts DEF Cached

LEMMA ResponseFacts ==
    ASSUME NEW status, NEW k, TransportTypes
    PROVE  /\ Response(status, k).status = status /\ Response(status, k).of = k
           /\ Response(status, k).expiresAt = now + Ttl
           /\ now + Ttl \in Nat /\ ~(now + Ttl <= now)
BY TransportAssumption DEF Response, Expiry, TransportTypes, TransportAssumption

(* Its client can still hear of a request.                                  *)
CanHear(k) ==
    \/ overdue
    \/ k \in dropped
    \/ \E e \in entries \cup awaiting : e.payload = k
    \/ \E i \in 1..Len(outcomes) : outcomes[i].key = k

Backed(r, k) ==
    /\ k \in DOMAIN registry
    /\ registry[k].expiresAt = pendingKeys[r].expiresAt
    /\ registry[k].status = "rejected" \/ CanHear(k)

LEMMA HoldersBacked ==
    HolderCanBeAnswered <=> \A r \in DOMAIN pendingKeys : Backed(r, pendingKeys[r].key)
BY DEF HolderCanBeAnswered, Backed, CanHear

-----------------------------------------------------------------------------
(* What a step does to one part of the invariant, whoever takes it.         *)

LEMMA RememberedKept ==
    ASSUME TransportTypes, Remembered, UNCHANGED <<admitted, now>>,
           \A k \in DOMAIN registry : ~(registry[k].expiresAt <= now) =>
               /\ k \in DOMAIN registry'
               /\ \/ registry'[k].expiresAt >= registry[k].expiresAt
                  \/ registry'[k].expiresAt = now + Ttl,
           \A k \in DOMAIN registry' : registry'[k].expiresAt \in Nat
    PROVE  Remembered'
<1> SUFFICES ASSUME NEW n \in DOMAIN admitted, Young(admitted[n].at)
             PROVE  /\ admitted[n].key \in DOMAIN registry'
                    /\ registry'[admitted[n].key].expiresAt >= admitted[n].at + Ttl
  BY DEF Remembered, Young
<1>1. /\ admitted[n].key \in DOMAIN registry
      /\ registry[admitted[n].key].expiresAt >= admitted[n].at + Ttl
  BY DEF Remembered
<1>2. /\ registry[admitted[n].key].expiresAt \in Nat /\ now \in Nat /\ Ttl \in Nat
      /\ admitted[n].at \in Nat /\ admitted[n].at <= now
  BY <1>1, TransportAssumption DEF TransportTypes, TransportAssumption
<1>3. ~(registry[admitted[n].key].expiresAt <= now)
  BY <1>1, <1>2 DEF Young
<1> QED
  BY <1>1, <1>2, <1>3

LEMMA HoldsKept ==
    ASSUME TransportTypes, Keeps(pendingKeys, pendingKeys'), NEW k, NEW at \in Nat,
           Young(at), Holds(k, at)
    PROVE  Holds(k, at)'
<1>1. pendingKeys[k[2]].expiresAt \in Nat /\ now \in Nat /\ at + Ttl \in Nat
  BY TransportAssumption DEF Holds, TransportTypes, TransportAssumption
<1>2. k[2] \in DOMAIN pendingKeys' /\ pendingKeys'[k[2]] = pendingKeys[k[2]]
  BY <1>1 DEF Holds, Young, Keeps
<1> QED
  BY <1>2 DEF Holds

LEMMA HeldKept ==
    ASSUME TransportTypes, HeldWhileYoung, Numbered, Keeps(pendingKeys, pendingKeys'),
           UNCHANGED <<admitted, now, entries, awaiting, outcomes, overdue>>
    PROVE  HeldWhileYoung'
<1>1. ASSUME NEW k, NEW at \in Nat, Young(at), Holds(k, at)
      PROVE  Holds(k, at)'
  BY <1>1, HoldsKept
<1>2. /\ \A e \in Outstanding : admitted[e.sequence].at \in Nat
      /\ \A i \in 1..Len(outcomes) : outcomes[i].at \in Nat
  BY DEF Numbered, TransportTypes
<1> QED
  BY <1>1, <1>2 DEF HeldWhileYoung, Young, Outstanding

LEMMA HoldersKept ==
    ASSUME HolderCanBeAnswered, Keeps(registry, registry'),
           \A k : CanHear(k) => CanHear(k)',
           \A r \in DOMAIN pendingKeys' :
               \/ /\ r \in DOMAIN pendingKeys /\ pendingKeys'[r] = pendingKeys[r]
                  /\ ~(pendingKeys[r].expiresAt <= now)
               \/ Backed(r, pendingKeys[r].key)'
    PROVE  HolderCanBeAnswered'
<1> SUFFICES ASSUME NEW r \in DOMAIN pendingKeys, pendingKeys'[r] = pendingKeys[r],
                    ~(pendingKeys[r].expiresAt <= now)
             PROVE  Backed(r, pendingKeys[r].key)'
  BY HoldersBacked DEF HolderCanBeAnswered, Backed, CanHear
<1>1. PICK k : k = pendingKeys[r].key
  OBVIOUS
<1>2. Backed(r, k)
  BY <1>1, HoldersBacked
<1>3. k \in DOMAIN registry' /\ registry'[k] = registry[k]
  BY <1>2 DEF Backed, Keeps
<1>4. Backed(r, k)'
  BY <1>2, <1>3 DEF Backed
<1> QED
  BY <1>1, <1>4 DEF Backed, CanHear

-----------------------------------------------------------------------------
(* Server actions that leave queue and runtime alone.                       *)

LEMMA PurgeStep ==
    ASSUME TransportInv, registry' = Live(registry), pendingKeys' = Live(pendingKeys),
           UNCHANGED <<queueVars, now, runtimeVars, ghostVars>>
    PROVE  TransportInv'
<1> USE DEF TransportInv
<1>1. /\ DOMAIN registry' \subseteq DOMAIN registry
      /\ \A k \in DOMAIN registry' : registry'[k] = registry[k]
  BY LiveFacts
<1>2. /\ DOMAIN pendingKeys' \subseteq DOMAIN pendingKeys
      /\ \A r \in DOMAIN pendingKeys' :
            pendingKeys'[r] = pendingKeys[r] /\ ~(pendingKeys[r].expiresAt <= now)
  BY LiveFacts
<1>3. Keeps(registry, registry') /\ Keeps(pendingKeys, pendingKeys')
  BY LiveKeeps
<1>4. WellFormed' /\ Numbered' /\ AtMostOncePerTtl'
  BY DEF queueVars, runtimeVars, ghostVars, WellFormed, QueueTypes, SizeInv, SequencesBelow,
         Numbered, Outstanding, UniqueSequences, AtMostOncePerTtl
<1>5. TransportTypes'
  BY <1>1, <1>2 DEF queueVars, runtimeVars, ghostVars, TransportTypes
<1>6. Remembered'
  <2>1. \A k \in DOMAIN registry : ~(registry[k].expiresAt <= now) =>
            k \in DOMAIN registry' /\ registry'[k].expiresAt >= registry[k].expiresAt
    BY <1>3 DEF Keeps, TransportTypes
  <2>2. \A k \in DOMAIN registry' : registry'[k].expiresAt \in Nat
    BY <1>5 DEF TransportTypes
  <2> QED
    BY <2>1, <2>2, RememberedKept DEF ghostVars
<1>7. HeldWhileYoung'
  BY <1>3, HeldKept DEF queueVars, runtimeVars, ghostVars
<1>8. HolderCanBeAnswered'
  <2>1. \A k : CanHear(k) => CanHear(k)'
    BY DEF CanHear, queueVars, runtimeVars, ghostVars
  <2> QED
    BY <1>2, <1>3, <2>1, HoldersKept
<1>9. OwnAnswerUnlessOverdue'
  BY <1>1 DEF OwnAnswerUnlessOverdue, ghostVars
<1> QED
  BY <1>4, <1>5, <1>6, <1>7, <1>8, <1>9

(* A refusal is put on record for a request that has nothing on record.     *)
LEMMA RefuseStep ==
    ASSUME TransportInv, NEW k \in Keys, RefuseInUse(k) \/ RefuseInvalid(k),
           UNCHANGED <<now, runtimeVars>>
    PROVE  TransportInv'
<1> USE DEF TransportInv
<1> DEFINE new == Response("rejected", k)
<1>1. /\ new.status = "rejected" /\ new.of = k /\ new.expiresAt = now + Ttl
      /\ now + Ttl \in Nat
  BY ResponseFacts
<1>2. registry' = Put(Live(registry), k, new) /\ k \notin DOMAIN Live(registry)
  BY DEF RefuseInUse, RefuseInvalid, Cached
<1>3. UNCHANGED <<queueVars, now, runtimeVars, ghostVars>>
  BY DEF RefuseInUse, RefuseInvalid
<1> HIDE DEF new
<1>4. /\ DOMAIN registry' \subseteq DOMAIN registry \cup {k}
      /\ k \in DOMAIN registry' /\ registry'[k] = new
      /\ \A x \in DOMAIN registry' : x # k => registry'[x] = registry[x]
  BY <1>2 DEF Put, Live, Without
<1>5. \A r \in DOMAIN pendingKeys' :
          \/ /\ r \in DOMAIN pendingKeys /\ pendingKeys'[r] = pendingKeys[r]
             /\ ~(pendingKeys[r].expiresAt <= now)
          \/ r = k[2] /\ pendingKeys'[r] = [key |-> k, expiresAt |-> now + Ttl]
  <2>1. CASE RefuseInUse(k)
    BY <2>1, LiveFacts DEF RefuseInUse
  <2>2. CASE RefuseInvalid(k)
    BY <2>2 DEF RefuseInvalid, Hold, Expiry, Put, Live, Without
  <2> QED
    BY <2>1, <2>2
<1>6. Keeps(registry, registry')
  BY <1>2 DEF Keeps, Put, Live, Without
<1>7. Keeps(pendingKeys, pendingKeys')
  <2>1. CASE RefuseInUse(k)
    BY <2>1, LiveKeeps DEF RefuseInUse
  <2>2. CASE RefuseInvalid(k)
    <3>1. k[2] \notin DOMAIN Live(pendingKeys)
      BY <2>2, HoldIsFree DEF RefuseInvalid
    <3> QED
      BY <2>2, <3>1 DEF RefuseInvalid, Hold, Keeps, Put, Live, Without
  <2> QED
    BY <2>1, <2>2
<1>8. WellFormed' /\ Numbered' /\ AtMostOncePerTtl'
  BY <1>3
  DEF queueVars, runtimeVars, ghostVars, WellFormed, QueueTypes, SizeInv, SequencesBelow,
      Numbered, Outstanding, UniqueSequences, AtMostOncePerTtl
<1>9. TransportTypes'
  <2>1. DOMAIN registry' \subseteq Keys /\ \A x \in DOMAIN registry' : registry'[x].expiresAt \in Nat
    BY <1>1, <1>4 DEF TransportTypes
  <2>2. \A r \in DOMAIN pendingKeys' :
            /\ r \in Requests /\ pendingKeys'[r].key \in Keys /\ pendingKeys'[r].key[2] = r
            /\ pendingKeys'[r].expiresAt \in Nat
    BY <1>1, <1>5 DEF TransportTypes, Keys
  <2> QED
    BY <1>3, <2>1, <2>2 DEF queueVars, runtimeVars, ghostVars, TransportTypes
<1>10. Remembered'
  <2>1. \A x \in DOMAIN registry : ~(registry[x].expiresAt <= now) =>
            x \in DOMAIN registry' /\ registry'[x].expiresAt >= registry[x].expiresAt
    BY <1>6 DEF Keeps, TransportTypes
  <2>2. \A x \in DOMAIN registry' : registry'[x].expiresAt \in Nat
    BY <1>9 DEF TransportTypes
  <2> QED
    BY <1>3, <2>1, <2>2, RememberedKept DEF ghostVars
<1>11. HeldWhileYoung'
  BY <1>3, <1>7, HeldKept DEF queueVars, runtimeVars, ghostVars
<1>12. HolderCanBeAnswered'
  <2>1. \A x : CanHear(x) => CanHear(x)'
    BY <1>3 DEF CanHear, queueVars, runtimeVars, ghostVars
  <2>2. ASSUME NEW r \in DOMAIN pendingKeys', pendingKeys'[r] = [key |-> k, expiresAt |-> now + Ttl]
        PROVE  Backed(r, pendingKeys[r].key)'
    BY <1>1, <1>4, <2>2 DEF Backed
  <2> QED
    BY <1>5, <1>6, <2>1, <2>2, HoldersKept
<1>13. OwnAnswerUnlessOverdue'
  BY <1>1, <1>3, <1>4 DEF OwnAnswerUnlessOverdue, ghostVars
<1> QED
  BY <1>8, <1>9, <1>10, <1>11, <1>12, <1>13

-----------------------------------------------------------------------------
(* A command is accepted.                                                   *)

LEMMA EnqueueFacts ==
    ASSUME NEW c, Enqueue(c), nextSequence \in Nat
    PROVE  \/ entries' = entries /\ nextSequence' = nextSequence
           \/ /\ nextSequence' = nextSequence + 1
              /\ entries' \subseteq entries \cup {Stamped(c, nextSequence)}
              /\ Stamped(c, nextSequence) \in entries'
BY DEF Enqueue, EnqueueRefused, EnqueueWithRoom, EnqueueFull, Insert, InsertEvicting, queueVars

(* What Accept does, whether the queue takes the command or refuses it.     *)
Taken(k) ==
    /\ nextSequence' = nextSequence + 1
    /\ admitted' = [n \in DOMAIN admitted \cup {nextSequence} |->
                       IF n = nextSequence THEN [key |-> k, at |-> now] ELSE admitted[n]]
    /\ \E e \in Entry :
          /\ e.sequence = nextSequence /\ e.payload = k
          /\ e \in entries' /\ entries' \subseteq entries \cup {e}

Refused(k) ==
    /\ entries' = entries /\ nextSequence' = nextSequence /\ admitted' = admitted
    /\ k \in dropped'

LEMMA AcceptFacts ==
    ASSUME TransportInv, NEW k \in Keys, Accept(k)
    PROVE  /\ WellFormed'
           /\ Taken(k) \/ Refused(k)
           /\ \A h : h \in dropped /\ h # k => h \in dropped'
           /\ \A e \in entries \ entries' : e.payload \in dropped'
<1>1. PICK t \in Types, p \in Priority, ts \in Timestamps :
          Enqueue([type |-> t, payload |-> k, priority |-> p, timestamp |-> ts, step |-> nextStep])
  BY DEF Accept
<1> DEFINE c == [type |-> t, payload |-> k, priority |-> p, timestamp |-> ts, step |-> nextStep]
<1>2. c \in Command /\ c.payload = k
  BY QueueAssumption, TransportAssumption
  DEF TransportInv, TransportTypes, QueueAssumption, TransportAssumption, Command
<1>3. Enqueue(c)
  BY <1>1
<1> HIDE DEF c
<1>4. nextSequence \in Nat
  BY DEF TransportInv, WellFormed, QueueTypes
<1>5. WellFormed'
  BY <1>2, <1>3, EnqueuePreserves, QueueAssumption DEF TransportInv
<1>6. /\ Stamped(c, nextSequence) \in Entry /\ Stamped(c, nextSequence).payload = k
      /\ Stamped(c, nextSequence).sequence = nextSequence
  BY <1>2, <1>4, StampedType DEF Stamped
<1>7. /\ admitted' = IF nextSequence' # nextSequence
                     THEN Put(admitted, nextSequence, [key |-> k, at |-> now]) ELSE admitted
      /\ dropped' = (IF nextSequence' # nextSequence THEN dropped \ {k} ELSE dropped \cup {k})
                       \cup Evicted
  BY DEF Accept
<1>8. \A e \in entries \ entries' : e.payload \in dropped'
  BY <1>7 DEF Evicted
<1>9. CASE entries' = entries /\ nextSequence' = nextSequence
  BY <1>5, <1>7, <1>8, <1>9 DEF Refused
<1>10. CASE /\ nextSequence' = nextSequence + 1
            /\ entries' \subseteq entries \cup {Stamped(c, nextSequence)}
            /\ Stamped(c, nextSequence) \in entries'
  <2>1. nextSequence' # nextSequence
    BY <1>4, <1>10
  <2>2. admitted' = [n \in DOMAIN admitted \cup {nextSequence} |->
                       IF n = nextSequence THEN [key |-> k, at |-> now] ELSE admitted[n]]
    BY <1>7, <2>1 DEF Put
  <2>3. Taken(k)
    BY <1>6, <1>10, <2>2 DEF Taken
  <2> QED
    BY <1>5, <1>7, <1>8, <2>1, <2>3
<1> QED
  BY <1>3, <1>4, <1>9, <1>10, EnqueueFacts

LEMMA AcceptStep ==
    ASSUME TransportInv, NEW k \in Keys, Accept(k), UNCHANGED <<now, runtimeVars>>
    PROVE  TransportInv'
<1> USE DEF TransportInv
<1> DEFINE new == Response("accepted", k)
<1>1. new.of = k /\ new.expiresAt = now + Ttl /\ now + Ttl \in Nat /\ now \in Nat
  BY ResponseFacts DEF TransportTypes
<1>2. /\ registry' = Put(Live(registry), k, new) /\ pendingKeys' = Hold(k)
      /\ k \notin DOMAIN Live(registry) /\ k[2] \notin DOMAIN Live(pendingKeys)
      /\ UNCHANGED <<overdue, now, nextStep, awaiting, outcomes>>
  BY HoldIsFree DEF Accept, Cached, runtimeVars
<1> HIDE DEF new
<1>3. /\ DOMAIN registry' \subseteq DOMAIN registry \cup {k}
      /\ k \in DOMAIN registry' /\ registry'[k] = new
      /\ \A x \in DOMAIN registry' : x # k => registry'[x] = registry[x]
  BY <1>2 DEF Put, Live, Without
<1>4. /\ k[2] \in DOMAIN pendingKeys' /\ pendingKeys'[k[2]] = [key |-> k, expiresAt |-> now + Ttl]
      /\ \A r \in DOMAIN pendingKeys' : r # k[2] =>
            /\ r \in DOMAIN pendingKeys /\ pendingKeys'[r] = pendingKeys[r]
            /\ ~(pendingKeys[r].expiresAt <= now)
  BY <1>2 DEF Hold, Expiry, Put, Live, Without
<1>5. Keeps(registry, registry') /\ Keeps(pendingKeys, pendingKeys')
  BY <1>2 DEF Hold, Keeps, Put, Live, Without
<1>6. /\ WellFormed'
      /\ Taken(k) \/ Refused(k)
      /\ \A h : h \in dropped /\ h # k => h \in dropped'
      /\ \A e \in entries \ entries' : e.payload \in dropped'
  BY AcceptFacts
<1>7. ASSUME Taken(k)
      PROVE  /\ nextSequence' = nextSequence + 1 /\ nextSequence \in Nat
             /\ DOMAIN admitted' = DOMAIN admitted \cup {nextSequence}
             /\ \A n \in DOMAIN admitted : n \in Nat /\ n < nextSequence /\ admitted'[n] = admitted[n]
             /\ admitted'[nextSequence].key = k /\ admitted'[nextSequence].at = now
             /\ \E e \in Entry : /\ e.sequence = nextSequence /\ e.payload = k
                                 /\ e \in entries' /\ entries' \subseteq entries \cup {e}
  BY <1>7 DEF Taken, WellFormed, QueueTypes, TransportTypes
<1>8. TransportTypes'
  <2>1. DOMAIN registry' \subseteq Keys /\ \A x \in DOMAIN registry' : registry'[x].expiresAt \in Nat
    BY <1>1, <1>3 DEF TransportTypes
  <2>2. \A r \in DOMAIN pendingKeys' :
            /\ r \in Requests /\ pendingKeys'[r].key \in Keys /\ pendingKeys'[r].key[2] = r
            /\ pendingKeys'[r].expiresAt \in Nat
    BY <1>1, <1>4 DEF TransportTypes, Keys
  <2>3. \A n \in DOMAIN admitted' :
          /\ n \in Nat /\ n < nextSequence'
          /\ admitted'[n].key \in Keys /\ admitted'[n].at \in Nat /\ admitted'[n].at <= now
    <3>1. CASE Taken(k)
      BY <1>1, <1>7, <3>1 DEF TransportTypes
    <3>2. CASE Refused(k)
      BY <3>2 DEF Refused, TransportTypes
    <3> QED
      BY <1>6, <3>1, <3>2
  <2> QED
    BY <1>2, <2>1, <2>2, <2>3 DEF TransportTypes
<1>9. Numbered'
  <2>1. CASE Taken(k)
    <3>1. PICK e \in Entry : /\ e.sequence = nextSequence /\ e.payload = k
                             /\ e \in entries' /\ entries' \subseteq entries \cup {e}
      BY <1>7, <2>1
    <3>2. /\ Outstanding' \subseteq Outstanding \cup {e}
          /\ \A f \in Outstanding : f.sequence \in DOMAIN admitted /\ f.sequence # nextSequence
      BY <1>2, <1>7, <2>1, <3>1 DEF Outstanding, Numbered
    <3>3. UniqueSequences(Outstanding')
      BY <3>1, <3>2 DEF Numbered, UniqueSequences
    <3>4. entries' \cap awaiting' = {}
      BY <1>2, <3>1, <3>2 DEF Numbered, Outstanding
    <3>5. \A f \in Outstanding' :
              f.sequence \in DOMAIN admitted' /\ admitted'[f.sequence].key = f.payload
      BY <1>7, <2>1, <3>1, <3>2 DEF Numbered
    <3>6. ASSUME NEW i \in 1..Len(outcomes)
          PROVE  \E n \in DOMAIN admitted' :
                     /\ outcomes[i].key = admitted'[n].key /\ outcomes[i].at = admitted'[n].at
                     /\ \A f \in Outstanding' : f.sequence # n
      <4>1. PICK n \in DOMAIN admitted :
                /\ outcomes[i].key = admitted[n].key /\ outcomes[i].at = admitted[n].at
                /\ \A f \in Outstanding : f.sequence # n
        BY DEF Numbered
      <4>2. n # nextSequence /\ admitted'[n] = admitted[n] /\ n \in DOMAIN admitted'
        BY <1>7, <2>1
      <4> QED
        BY <3>1, <3>2, <4>1, <4>2
    <3> QED
      BY <1>2, <3>3, <3>4, <3>5, <3>6 DEF Numbered
  <2>2. CASE Refused(k)
    BY <1>2, <2>2 DEF Refused, Numbered, Outstanding
  <2> QED
    BY <1>6, <2>1, <2>2
<1>10. Remembered'
  <2> SUFFICES ASSUME NEW n \in DOMAIN admitted', Young(admitted'[n].at)
               PROVE  /\ admitted'[n].key \in DOMAIN registry'
                      /\ registry'[admitted'[n].key].expiresAt >= admitted'[n].at + Ttl
    BY <1>2 DEF Remembered, Young
  <2>1. admitted'[n].at \in Nat /\ admitted'[n].at <= now
    BY <1>2, <1>8 DEF TransportTypes
  <2>2. Ttl \in Nat
    BY TransportAssumption DEF TransportAssumption
  <2>3. CASE admitted'[n].key = k
    BY <1>1, <1>3, <2>1, <2>2, <2>3
  <2>4. CASE admitted'[n].key # k
    <3>1. n \in DOMAIN admitted /\ admitted'[n] = admitted[n]
      BY <1>6, <1>7, <2>4 DEF Refused
    <3>2. /\ admitted[n].key \in DOMAIN registry
          /\ registry[admitted[n].key].expiresAt >= admitted[n].at + Ttl
          /\ registry[admitted[n].key].expiresAt \in Nat
      BY <3>1 DEF Remembered, TransportTypes
    <3>3. ~(registry[admitted[n].key].expiresAt <= now)
      BY <1>1, <2>1, <2>2, <3>1, <3>2 DEF Young
    <3> QED
      BY <1>5, <3>1, <3>2, <3>3 DEF Keeps
  <2> QED
    BY <2>3, <2>4
<1>11. AtMostOncePerTtl'
  <2>1. CASE Taken(k)
    <3>1. ASSUME NEW i \in DOMAIN admitted, admitted[i].key = k
          PROVE  now >= admitted[i].at + Ttl
      <4>1. admitted[i].at \in Nat /\ Ttl \in Nat
        BY TransportAssumption DEF TransportTypes, TransportAssumption
      <4> SUFFICES ASSUME Young(admitted[i].at) PROVE FALSE
        BY <1>1, <4>1 DEF Young
      <4>2. k \in DOMAIN registry /\ registry[k].expiresAt >= admitted[i].at + Ttl
        BY <3>1 DEF Remembered
      <4>3. ~(registry[k].expiresAt <= now)
        BY <1>1, <4>1, <4>2 DEF Young, TransportTypes
      <4> QED
        BY <1>2, <4>2, <4>3, LiveFacts
    <3>2. ASSUME NEW i \in DOMAIN admitted', NEW j \in DOMAIN admitted',
                 i < j, admitted'[i].key = admitted'[j].key
          PROVE  admitted'[j].at >= admitted'[i].at + Ttl
      <4>1. i \in DOMAIN admitted /\ admitted'[i] = admitted[i]
        BY <1>7, <2>1, <3>2
      <4>2. CASE j = nextSequence
        BY <1>7, <2>1, <3>1, <3>2, <4>1, <4>2
      <4>3. CASE j \in DOMAIN admitted
        BY <1>7, <2>1, <3>2, <4>1, <4>3 DEF AtMostOncePerTtl
      <4> QED
        BY <1>7, <2>1, <4>2, <4>3
    <3> QED
      BY <3>2 DEF AtMostOncePerTtl
  <2>2. CASE Refused(k)
    BY <2>2 DEF Refused, AtMostOncePerTtl
  <2> QED
    BY <1>6, <2>1, <2>2
<1>12. CanHear(k)' /\ \A h : CanHear(h) => CanHear(h)'
  <2>1. CanHear(k)'
    BY <1>6, <1>7 DEF Refused, CanHear
  <2>2. ASSUME NEW h, h # k, CanHear(h) PROVE CanHear(h)'
    BY <1>2, <1>6, <2>2 DEF CanHear
  <2> QED
    BY <2>1, <2>2
<1>13. HolderCanBeAnswered'
  <2>1. ASSUME NEW r \in DOMAIN pendingKeys', r = k[2]
        PROVE  Backed(r, pendingKeys[r].key)'
    <3>1. pendingKeys'[r].key = k /\ pendingKeys'[r].expiresAt = now + Ttl
      BY <1>4, <2>1
    <3>2. Backed(r, k)'
      BY <1>1, <1>3, <1>12, <3>1 DEF Backed
    <3> QED
      BY <3>1, <3>2 DEF Backed, CanHear
  <2> QED
    BY <1>4, <1>5, <1>12, <2>1, HoldersKept
<1>14. HeldWhileYoung'
  <2> SUFFICES ASSUME ~overdue PROVE HeldWhileYoung'
    BY <1>2 DEF HeldWhileYoung
  <2>1. ASSUME NEW f \in Outstanding', Young(admitted'[f.sequence].at)
        PROVE  Holds(f.payload, admitted[f.sequence].at)'
    <3>1. CASE f \in Outstanding
      <4>1. /\ f.sequence \in DOMAIN admitted /\ admitted'[f.sequence] = admitted[f.sequence]
            /\ admitted[f.sequence].at \in Nat
        BY <1>6, <1>7, <3>1 DEF Refused, Numbered, TransportTypes
      <4>2. Holds(f.payload, admitted[f.sequence].at)
        BY <2>1, <3>1, <4>1 DEF HeldWhileYoung
      <4>3. PICK at \in Nat : at = admitted[f.sequence].at
        BY <4>1
      <4>4. Holds(f.payload, at)'
        BY <1>5, <2>1, <4>1, <4>2, <4>3, HoldsKept
      <4> QED
        BY <4>1, <4>3, <4>4 DEF Holds
    <3>2. CASE f \notin Outstanding
      <4>1. Taken(k) /\ f.payload = k /\ f.sequence = nextSequence
        BY <1>2, <1>6, <1>7, <2>1, <3>2 DEF Refused, Outstanding
      <4>2. admitted'[f.sequence].at = now
        BY <1>7, <4>1
      <4> QED
        BY <1>1, <1>4, <4>1, <4>2 DEF Holds
    <3> QED
      BY <3>1, <3>2
  <2>2. ASSUME NEW i \in 1..Len(outcomes), Young(outcomes[i].at)
        PROVE  Holds(outcomes[i].key, outcomes[i].at)'
    <3>1. outcomes[i].at \in Nat
      BY DEF Numbered, TransportTypes
    <3>2. PICK at \in Nat : at = outcomes[i].at
      BY <3>1
    <3>3. PICK key : key = outcomes[i].key
      OBVIOUS
    <3>4. Holds(key, at)
      BY <2>2, <3>2, <3>3 DEF HeldWhileYoung
    <3>5. Holds(key, at)'
      BY <1>5, <2>2, <3>2, <3>4, HoldsKept
    <3> QED
      BY <1>2, <3>2, <3>3, <3>5 DEF Holds
  <2> QED
    BY <1>2, <2>1, <2>2 DEF HeldWhileYoung, Young
<1>15. OwnAnswerUnlessOverdue'
  BY <1>1, <1>2, <1>3 DEF OwnAnswerUnlessOverdue
<1> QED
  BY <1>6, <1>8, <1>9, <1>10, <1>11, <1>13, <1>14, <1>15

-----------------------------------------------------------------------------
(* The server hears of outcomes.                                            *)

LEMMA LeastNat ==
    ASSUME NEW S \in SUBSET Nat, S # {}
    PROVE  \E i \in S : \A j \in S : i <= j
<1>1. PICK i \in S : \A j \in S : ~(<<j, i>> \in OpToRel(<, Nat))
  BY WFMin, NatLessThanWellFounded
<1>2. \A j \in S : <<j, i>> \in OpToRel(<, Nat) <=> j < i
  BY DEF OpToRel
<1>3. \A j \in S : ~(j < i)
  BY <1>1, <1>2, Zenon
<1>4. \A j \in S : i <= j
  BY <1>3
<1> QED
  BY <1>4

(* The answer for a request id is one of the outcomes reported for it.      *)
LEMMA AnswerIsReported ==
    ASSUME NEW r, Reported(r) # {}
    PROVE  \E i \in Reported(r) : AnswerFor(r) = outcomes[i]
<1>1. Reported(r) \in SUBSET Nat
  BY DEF Reported
<1>2. \E i \in Reported(r) : \A j \in Reported(r) : i <= j
  BY <1>1, LeastNat
<1> QED
  BY <1>2 DEF AnswerFor

(* Before a ttl is over, an outcome goes to who caused it, and no other     *)
(* command of the same request id is under way.                             *)
LEMMA YoungOutcome ==
    ASSUME TransportTypes, Numbered, HeldWhileYoung, AtMostOncePerTtl, ~overdue,
           NEW i \in 1..Len(outcomes), Young(outcomes[i].at),
           NEW r, r = outcomes[i].key[2]
    PROVE  /\ r \in DOMAIN pendingKeys /\ pendingKeys[r].key = outcomes[i].key
           /\ \A e \in Outstanding : Young(admitted[e.sequence].at) => e.payload[2] # r
<1>1. r \in DOMAIN pendingKeys /\ pendingKeys[r].key = outcomes[i].key
  BY DEF HeldWhileYoung, Holds
<1>2. ASSUME NEW e \in Outstanding, Young(admitted[e.sequence].at), e.payload[2] = r
      PROVE  FALSE
  <2>1. e.payload = outcomes[i].key
    BY <1>1, <1>2 DEF HeldWhileYoung, Holds
  <2>2. PICK n \in DOMAIN admitted :
            /\ outcomes[i].key = admitted[n].key /\ outcomes[i].at = admitted[n].at
            /\ e.sequence # n
    BY DEF Numbered
  <2>3. PICK m \in DOMAIN admitted : m = e.sequence /\ admitted[m].key = e.payload
    BY DEF Numbered
  <2>4. /\ m \in Nat /\ n \in Nat /\ m # n /\ admitted[m].key = admitted[n].key
        /\ admitted[m].at \in Nat /\ admitted[n].at \in Nat
        /\ admitted[m].at <= now /\ admitted[n].at <= now
    BY <2>1, <2>2, <2>3 DEF TransportTypes
  <2>5. /\ m < n => admitted[n].at >= admitted[m].at + Ttl
        /\ n < m => admitted[m].at >= admitted[n].at + Ttl
    BY <2>4 DEF AtMostOncePerTtl
  <2>6. Young(admitted[n].at) /\ Young(admitted[m].at) /\ Ttl \in Nat /\ now \in Nat
    BY <1>2, <2>2, <2>3, TransportAssumption DEF TransportTypes, TransportAssumption
  <2> QED
    BY <2>4, <2>5, <2>6 DEF Young
<1> QED
  BY <1>1, <1>2

LEMMA DrainStep ==
    ASSUME TransportInv, DrainOutcomeResponses
    PROVE  TransportInv'
<1> USE DEF TransportInv
<1>1. /\ UNCHANGED <<queueVars, now, nextStep, awaiting, admitted, dropped>>
      /\ outcomes' = <<>>
      /\ overdue' = (overdue \/ \E i \in 1..Len(outcomes) : outcomes[i].at + Ttl <= now)
  BY DEF DrainOutcomeResponses
<1>2. /\ Answerable \subseteq DOMAIN Live(pendingKeys)
      /\ \A r \in Answerable : r \in DOMAIN pendingKeys /\ Reported(r) # {}
      /\ \A r \in DOMAIN Live(pendingKeys) : r \notin Answerable => Reported(r) = {}
  BY LiveFacts DEF Answerable
<1>3. /\ DOMAIN pendingKeys' = DOMAIN Live(pendingKeys) \ Answerable
      /\ \A r \in DOMAIN pendingKeys' :
            /\ r \in DOMAIN pendingKeys /\ pendingKeys'[r] = pendingKeys[r]
            /\ ~(pendingKeys[r].expiresAt <= now) /\ r \notin Answerable
  BY LiveFacts DEF DrainOutcomeResponses, StillPending, Without
<1>4. \A k \in Holders : k \in Keys /\ k[2] \in Answerable /\ pendingKeys[k[2]].key = k
  BY <1>2 DEF Holders, TransportTypes
<1>5. /\ DOMAIN registry' = DOMAIN Live(registry) \cup Holders
      /\ \A k \in DOMAIN registry' : k \notin Holders =>
            k \in DOMAIN registry /\ registry'[k] = registry[k] /\ ~(registry[k].expiresAt <= now)
  BY LiveFacts DEF DrainOutcomeResponses
<1>6. \A k \in Holders :
          registry'[k].expiresAt = now + Ttl /\ registry'[k].of = AnswerFor(k[2]).key
  BY DEF DrainOutcomeResponses, Response, Expiry
<1>7. now \in Nat /\ now + Ttl \in Nat
  BY ResponseFacts DEF TransportTypes
<1>8. WellFormed' /\ AtMostOncePerTtl'
  BY <1>1 DEF queueVars, WellFormed, QueueTypes, SizeInv, SequencesBelow, AtMostOncePerTtl
<1>9. TransportTypes'
  <2>1. outcomes' \in Seq(Outcomes)
    BY <1>1
  <2>2. DOMAIN registry' \subseteq Keys /\ \A x \in DOMAIN registry' : registry'[x].expiresAt \in Nat
    BY <1>4, <1>5, <1>6, <1>7, LiveFacts DEF TransportTypes
  <2>3. overdue' \in BOOLEAN
    BY <1>1
  <2> QED
    BY <1>1, <1>3, <2>1, <2>2, <2>3 DEF queueVars, TransportTypes
<1>10. Numbered'
  BY <1>1 DEF queueVars, Numbered, Outstanding
<1>11. Remembered'
  <2>1. ASSUME NEW x \in DOMAIN registry, ~(registry[x].expiresAt <= now)
        PROVE  /\ x \in DOMAIN registry'
               /\ \/ registry'[x].expiresAt >= registry[x].expiresAt
                  \/ registry'[x].expiresAt = now + Ttl
    <3>1. x \in DOMAIN registry' /\ registry[x].expiresAt \in Nat
      BY <1>5, <2>1, LiveFacts DEF TransportTypes
    <3>2. CASE x \notin Holders
      BY <1>5, <3>1, <3>2
    <3>3. CASE x \in Holders
      BY <1>6, <3>1, <3>3
    <3> QED
      BY <3>2, <3>3
  <2>2. \A x \in DOMAIN registry' : registry'[x].expiresAt \in Nat
    BY <1>9 DEF TransportTypes
  <2> QED
    BY <1>1, <2>1, <2>2, RememberedKept
<1>12. HolderCanBeAnswered'
  <2> SUFFICES ASSUME NEW r \in DOMAIN pendingKeys' PROVE Backed(r, pendingKeys[r].key)'
    BY HoldersBacked DEF HolderCanBeAnswered, Backed, CanHear
  <2>1. PICK k : k = pendingKeys[r].key
    OBVIOUS
  <2>2. /\ r \in DOMAIN pendingKeys /\ r \notin Answerable /\ pendingKeys'[r] = pendingKeys[r]
        /\ ~(pendingKeys[r].expiresAt <= now) /\ k[2] = r /\ Reported(r) = {}
    BY <1>2, <1>3, <2>1 DEF TransportTypes
  <2>3. Backed(r, k)
    BY <2>1, <2>2, HoldersBacked
  <2>4. k \notin Holders /\ k \in DOMAIN registry' /\ registry'[k] = registry[k]
    BY <1>4, <1>5, <2>2, <2>3, LiveFacts DEF Backed
  <2>5. \A i \in 1..Len(outcomes) : outcomes[i].key # k
    BY <2>2 DEF Reported, RequestOf
  <2>6. CanHear(k) => CanHear(k)'
    BY <1>1, <2>5 DEF CanHear, queueVars
  <2>7. Backed(r, k)'
    BY <2>2, <2>3, <2>4, <2>6 DEF Backed
  <2> QED
    BY <2>1, <2>2, <2>7 DEF Backed, CanHear
<1>13. ASSUME ~overdue'
       PROVE  ~overdue /\ \A i \in 1..Len(outcomes) : Young(outcomes[i].at)
  <2>1. ~overdue /\ \A i \in 1..Len(outcomes) : ~(outcomes[i].at + Ttl <= now)
    BY <1>1, <1>13
  <2>2. \A i \in 1..Len(outcomes) : outcomes[i].at \in Nat
    BY DEF Numbered, TransportTypes
  <2>3. Ttl \in Nat
    BY TransportAssumption DEF TransportAssumption
  <2> QED
    BY <1>7, <2>1, <2>2, <2>3 DEF Young
<1>14. HeldWhileYoung'
  <2> SUFFICES ASSUME ~overdue',
                      NEW e \in Outstanding, Young(admitted[e.sequence].at)
               PROVE  Holds(e.payload, admitted[e.sequence].at)'
    BY <1>1 DEF HeldWhileYoung, Outstanding, Young, queueVars
  <2>1. PICK at : at = admitted[e.sequence].at
    OBVIOUS
  <2>2. Holds(e.payload, at) /\ at \in Nat /\ Ttl \in Nat
    <3>1. Holds(e.payload, admitted[e.sequence].at)
      BY <1>13 DEF HeldWhileYoung
    <3>2. admitted[e.sequence].at \in Nat
      BY DEF Numbered, TransportTypes
    <3>3. Ttl \in Nat
      BY TransportAssumption
    <3> QED
      BY <2>1, <3>1, <3>2, <3>3
  <2>3. ~(pendingKeys[e.payload[2]].expiresAt <= now)
    <3>1. PICK expires : expires = pendingKeys[e.payload[2]].expiresAt
      OBVIOUS
    <3>2. expires \in Nat /\ at + Ttl <= expires
      BY <2>2, <3>1 DEF Holds, TransportTypes
    <3>3. now \in Nat /\ now < at + Ttl
      BY <1>7, <2>1, <2>2 DEF Young, TransportTypes
    <3> QED
      BY <2>2, <3>1, <3>2, <3>3
  <2>4. Reported(e.payload[2]) = {}
    BY <1>13, YoungOutcome DEF Reported, RequestOf
  <2>5. e.payload[2] \notin Answerable
    BY <1>2, <2>4
  <2>6. e.payload[2] \in DOMAIN pendingKeys'
    <3>1. e.payload[2] \in DOMAIN Live(pendingKeys)
      BY <2>2, <2>3, LiveFacts DEF Holds
    <3> QED
      BY <1>3, <2>5, <3>1
  <2>7. Holds(e.payload, at)'
    BY <1>3, <2>2, <2>6 DEF Holds
  <2> QED
    BY <1>1, <2>1, <2>7 DEF Holds
<1>15. OwnAnswerUnlessOverdue'
  <2> SUFFICES ASSUME ~overdue', NEW k \in DOMAIN registry' PROVE registry'[k].of = k
    BY DEF OwnAnswerUnlessOverdue
  <2>1. CASE k \notin Holders
    BY <1>5, <1>13, <2>1 DEF OwnAnswerUnlessOverdue
  <2>2. CASE k \in Holders
    <3>1. k[2] \in Answerable /\ pendingKeys[k[2]].key = k /\ Reported(k[2]) # {}
      BY <1>2, <1>4, <2>2
    <3>2. PICK i \in Reported(k[2]) : AnswerFor(k[2]) = outcomes[i]
      BY <3>1, AnswerIsReported
    <3>3. i \in 1..Len(outcomes) /\ outcomes[i].key[2] = k[2]
      BY <3>2 DEF Reported, RequestOf
    <3>4. outcomes[i].key = k
      BY <1>13, <3>1, <3>3, YoungOutcome
    <3> QED
      BY <1>6, <2>2, <3>2, <3>4
  <2> QED
    BY <2>1, <2>2
<1> QED
  BY <1>8, <1>9, <1>10, <1>11, <1>12, <1>14, <1>15

-----------------------------------------------------------------------------
(* The runtime: the commands of S are executed or their promises settle.    *)

Reports(i, e) == outcomes[i].key = e.payload /\ outcomes[i].at = admitted[e.sequence].at

Settle(S) ==
    /\ S \subseteq Outstanding
    /\ entries' \subseteq entries /\ awaiting' \in SUBSET Entry
    /\ Outstanding' = Outstanding \ S /\ entries' \cap awaiting' = {}
    /\ outcomes' \in Seq(Outcomes) /\ Len(outcomes) <= Len(outcomes')
    /\ \A i \in 1..Len(outcomes) : outcomes'[i] = outcomes[i]
    /\ \A i \in 1..Len(outcomes') : i > Len(outcomes) => \E e \in S : Reports(i, e)'
    /\ \A e \in S : \E i \in 1..Len(outcomes') : Reports(i, e)'
    /\ nextStep' \in Nat
    /\ UNCHANGED <<now, serverVars, ghostVars, nextSequence>>

LEMMA SettleStep ==
    ASSUME TransportInv, WellFormed', NEW S, Settle(S)
    PROVE  TransportInv'
<1> USE DEF TransportInv
<1>1. UNCHANGED <<now, registry, pendingKeys, admitted, dropped, overdue, nextSequence>>
  BY DEF Settle, serverVars, ghostVars
<1>2. /\ Len(outcomes) \in Nat /\ Len(outcomes') \in Nat
      /\ Len(outcomes) <= Len(outcomes')
      /\ \A i \in 1..Len(outcomes) : outcomes'[i] = outcomes[i]
      /\ \A i \in 1..Len(outcomes') : i > Len(outcomes) =>
            \E e \in S : /\ outcomes'[i].key = e.payload
                        /\ outcomes'[i].at = admitted[e.sequence].at
      /\ \A e \in S : \E i \in 1..Len(outcomes') : outcomes'[i].key = e.payload
      /\ Outstanding' = Outstanding \ S /\ S \subseteq Outstanding
  BY <1>1, LenProperties DEF Settle, Reports, TransportTypes
<1>3. TransportTypes'
  BY <1>1 DEF TransportTypes, Settle
<1>4. Numbered'
  <2>1. UniqueSequences(Outstanding')
    BY <1>2 DEF Numbered, UniqueSequences
  <2>2. \A e \in Outstanding' :
            e.sequence \in DOMAIN admitted /\ admitted[e.sequence].key = e.payload
    BY <1>2 DEF Numbered
  <2>3. ASSUME NEW i \in 1..Len(outcomes')
        PROVE  \E n \in DOMAIN admitted :
                   /\ outcomes'[i].key = admitted[n].key /\ outcomes'[i].at = admitted[n].at
                   /\ \A e \in Outstanding' : e.sequence # n
    <3>1. CASE i <= Len(outcomes)
      <4>1. i \in 1..Len(outcomes) /\ outcomes'[i] = outcomes[i]
        BY <1>2, <3>1
      <4>2. PICK n \in DOMAIN admitted :
                /\ outcomes[i].key = admitted[n].key /\ outcomes[i].at = admitted[n].at
                /\ \A e \in Outstanding : e.sequence # n
        BY <4>1 DEF Numbered
      <4> QED
        BY <1>2, <4>1, <4>2
    <3>2. CASE i > Len(outcomes)
      <4>1. PICK e \in S : outcomes'[i].key = e.payload /\ outcomes'[i].at = admitted[e.sequence].at
        BY <1>2, <3>2
      <4>2. e \in Outstanding /\ e.sequence \in DOMAIN admitted /\ admitted[e.sequence].key = e.payload
        BY <1>2, <4>1 DEF Numbered
      <4>3. \A f \in Outstanding' : f.sequence # e.sequence
        BY <1>2, <4>1, <4>2 DEF Numbered, UniqueSequences
      <4> QED
        BY <4>1, <4>2, <4>3
    <3> QED
      BY <1>2, <3>1, <3>2
  <2> QED
    BY <1>1, <2>1, <2>2, <2>3 DEF Numbered, Settle
<1>5. Remembered' /\ AtMostOncePerTtl' /\ OwnAnswerUnlessOverdue'
  BY <1>1 DEF Remembered, Young, AtMostOncePerTtl, OwnAnswerUnlessOverdue
<1>6. \A h : CanHear(h) => CanHear(h)'
  <2> SUFFICES ASSUME NEW h, CanHear(h) PROVE CanHear(h)'
    OBVIOUS
  <2>1. CASE overdue \/ h \in dropped
    BY <1>1, <2>1 DEF CanHear
  <2>2. ASSUME NEW e \in Outstanding, e.payload = h PROVE CanHear(h)'
    <3>1. CASE e \in S
      <4>1. PICK i \in 1..Len(outcomes') : outcomes'[i].key = h
        BY <1>2, <2>2, <3>1
      <4> QED
        BY <4>1 DEF CanHear
    <3>2. CASE e \in Outstanding'
      BY <2>2, <3>2 DEF CanHear, Outstanding
    <3> QED
      BY <1>2, <3>1, <3>2
  <2>3. ASSUME NEW i \in 1..Len(outcomes), outcomes[i].key = h PROVE CanHear(h)'
    <3>1. i \in 1..Len(outcomes') /\ outcomes'[i].key = h
      BY <1>2, <2>3
    <3> QED
      BY <3>1 DEF CanHear
  <2> QED
    BY <2>1, <2>2, <2>3 DEF CanHear, Outstanding
<1>7. HolderCanBeAnswered'
  <2> SUFFICES ASSUME NEW r \in DOMAIN pendingKeys PROVE Backed(r, pendingKeys[r].key)'
    BY <1>1, HoldersBacked DEF HolderCanBeAnswered, Backed, CanHear
  <2>1. PICK k : k = pendingKeys[r].key
    OBVIOUS
  <2>2. Backed(r, k)
    BY <2>1, HoldersBacked
  <2>3. Backed(r, k)'
    BY <1>1, <1>6, <2>2 DEF Backed
  <2> QED
    BY <1>1, <2>1, <2>3
<1>8. HeldWhileYoung'
  <2> SUFFICES ASSUME ~overdue PROVE HeldWhileYoung'
    BY <1>1 DEF HeldWhileYoung
  <2>1. \A e \in Outstanding :
            Young(admitted[e.sequence].at) => Holds(e.payload, admitted[e.sequence].at)
    BY DEF HeldWhileYoung
  <2>2. ASSUME NEW i \in 1..Len(outcomes'), Young(outcomes'[i].at)
        PROVE  Holds(outcomes'[i].key, outcomes'[i].at)
    <3>1. CASE i <= Len(outcomes)
      BY <1>2, <2>2, <3>1 DEF HeldWhileYoung
    <3>2. CASE i > Len(outcomes)
      <4>1. PICK e \in S : outcomes'[i].key = e.payload /\ outcomes'[i].at = admitted[e.sequence].at
        BY <1>2, <3>2
      <4> QED
        BY <1>2, <2>1, <2>2, <4>1
    <3> QED
      BY <1>2, <3>1, <3>2
  <2> QED
    BY <1>1, <1>2, <2>1, <2>2 DEF HeldWhileYoung, Holds, Young
<1> QED
  BY <1>3, <1>4, <1>5, <1>7, <1>8

LEMMA PromiseStep ==
    ASSUME TransportInv, PromiseSettles
    PROVE  TransportInv'
<1> USE DEF TransportInv
<1>1. PICK e \in awaiting, success \in BOOLEAN :
          /\ awaiting' = awaiting \ {e}
          /\ outcomes' = Append(outcomes, Outcome(e, success))
  BY DEF PromiseSettles
<1>2. UNCHANGED <<queueVars, now, serverVars, nextStep, ghostVars>>
  BY DEF PromiseSettles
<1>3. /\ e \in Outstanding /\ e.sequence \in DOMAIN admitted
      /\ Outcome(e, success).key = e.payload
      /\ Outcome(e, success).at = admitted[e.sequence].at
      /\ Outcome(e, success) \in Outcomes
  BY DEF Outstanding, Numbered, TransportTypes, Outcome, Outcomes
<1>4. /\ outcomes' \in Seq(Outcomes) /\ Len(outcomes') = Len(outcomes) + 1 /\ Len(outcomes) \in Nat
      /\ \A i \in 1..Len(outcomes) : outcomes'[i] = outcomes[i]
      /\ outcomes'[Len(outcomes) + 1] = Outcome(e, success)
  BY <1>1, <1>3, AppendProperties, LenProperties DEF TransportTypes
<1>5. Settle({e})
  <2>1. Outstanding' = Outstanding \ {e} /\ entries' \cap awaiting' = {}
    BY <1>1, <1>2 DEF Outstanding, Numbered, queueVars
  <2> PICK n : n = Len(outcomes) + 1
    OBVIOUS
  <2>2. n \in 1..Len(outcomes') /\ outcomes'[n] = Outcome(e, success)
    BY <1>4
  <2>3. Reports(n, e)'
    BY <1>2, <1>3, <2>2 DEF Reports, ghostVars
  <2>4. \A i \in 1..Len(outcomes') : i > Len(outcomes) => i = n
    BY <1>4
  <2> QED
    BY <1>1, <1>2, <1>3, <1>4, <2>1, <2>2, <2>3, <2>4 DEF Settle, TransportTypes, queueVars
<1>6. WellFormed'
  BY <1>2 DEF queueVars, WellFormed, QueueTypes, SizeInv, SequencesBelow
<1> QED
  BY <1>5, <1>6, SettleStep

LEMMA RunStepStep ==
    ASSUME TransportInv, RunStep
    PROVE  TransportInv'
<1> USE DEF TransportInv
<1> DEFINE due == Drained(nextStep)
<1>1. PICK promised \in SUBSET due, succeeds \in [due -> BOOLEAN] :
          /\ awaiting' = awaiting \cup promised
          /\ outcomes' = outcomes \o
                [i \in 1..Len(InOrder(due \ promised)) |->
                    Outcome(InOrder(due \ promised)[i], succeeds[InOrder(due \ promised)[i]])]
  BY Zenon DEF RunStep
<1>2. /\ DequeueUpToStep(nextStep) /\ nextStep' = nextStep + 1
      /\ UNCHANGED <<now, serverVars, ghostVars>>
  BY DEF RunStep
<1>3. WellFormed'
  BY <1>2, DequeuePreserves, QueueAssumption
<1>4. due \subseteq entries /\ entries' = entries \ due /\ nextSequence' = nextSequence
  BY <1>2 DEF DequeueUpToStep, Drained, Due
<1> HIDE DEF due
<1> DEFINE S == due \ promised
           settled == InOrder(S)
           reports == [i \in 1..Len(settled) |-> Outcome(settled[i], succeeds[settled[i]])]
<1>5. S \in SUBSET Entry /\ IsFiniteSet(S) /\ UniqueSequences(S) /\ S \subseteq Outstanding
  <2>1. S \in SUBSET entries
    BY <1>4
  <2> HIDE DEF S
  <2>2. IsFiniteSet(S)
    BY <2>1, FS_Subset DEF WellFormed, SizeInv
  <2> QED
    BY <2>1, <2>2 DEF WellFormed, QueueTypes, Outstanding, Numbered, UniqueSequences
<1>6. S \subseteq due
  OBVIOUS
<1> HIDE DEF S
<1>7. Ordered(settled, S)
  <2>1. \E order : Ordered(order, S)
    BY <1>5, OrderExists
  <2> QED
    BY <2>1 DEF Ordered, InOrder
<1>8. \A e \in S : \E i \in 1..Cardinality(S) : settled[i] = e
  BY <1>5, <1>7, OrderIsOnto
<1>9. Cardinality(S) \in Nat
  BY <1>5, FS_CardinalityType
<1>10. settled \in Seq(S) /\ Len(settled) = Cardinality(S) /\ settled \in [1..Len(settled) -> S]
  <2>1. settled \in [1..Cardinality(S) -> S]
    BY <1>7 DEF Ordered
  <2> HIDE DEF settled
  <2> QED
    BY <1>9, <2>1, SeqDef
<1> HIDE DEF settled
<1>11. \A e \in S : /\ e.sequence \in DOMAIN admitted
                    /\ admitted[e.sequence].at \in Nat /\ e.payload \in Keys
  BY <1>5 DEF Numbered, TransportTypes
<1>12. \A i \in 1..Len(settled) :
           /\ reports[i].key = settled[i].payload
           /\ reports[i].at = admitted[settled[i].sequence].at
           /\ reports[i] \in Outcomes
  BY <1>1, <1>6, <1>10, <1>11 DEF Outcome, Outcomes
<1>13. reports \in Seq(Outcomes) /\ Len(reports) = Len(settled) /\ Len(settled) \in Nat
  <2>1. DOMAIN reports = 1..Len(settled) /\ reports = [i \in 1..Len(settled) |-> reports[i]]
    OBVIOUS
  <2> HIDE DEF reports
  <2>2. reports \in [1..Len(settled) -> Outcomes]
    BY <1>12, <2>1
  <2> QED
    BY <1>9, <1>10, <2>2, SeqDef
<1>14. outcomes' = outcomes \o reports
  BY <1>1 DEF settled, S
<1> HIDE DEF reports
<1>15. /\ outcomes' \in Seq(Outcomes) /\ Len(outcomes') = Len(outcomes) + Len(settled)
       /\ Len(outcomes) \in Nat
       /\ \A i \in 1..Len(outcomes') : outcomes'[i] =
             IF i <= Len(outcomes) THEN outcomes[i] ELSE reports[i - Len(outcomes)]
  <2>1. outcomes \in Seq(Outcomes) /\ Len(outcomes) \in Nat
    BY LenProperties DEF TransportTypes
  <2>2. /\ outcomes \o reports \in Seq(Outcomes)
        /\ Len(outcomes \o reports) = Len(outcomes) + Len(reports)
        /\ \A i \in 1..Len(outcomes) + Len(reports) : (outcomes \o reports)[i] =
              IF i <= Len(outcomes) THEN outcomes[i] ELSE reports[i - Len(outcomes)]
    BY <1>13, <2>1, ConcatProperties
  <2> QED
    BY <1>13, <1>14, <2>1, <2>2
<1>16. Outstanding' = Outstanding \ S /\ entries' \cap awaiting' = {}
       /\ awaiting' \in SUBSET Entry
  <2>1. due \cap awaiting = {} /\ due \subseteq Entry /\ awaiting \subseteq Entry
    BY <1>4 DEF Numbered, TransportTypes, WellFormed, QueueTypes
  <2> QED
    BY <1>1, <1>4, <2>1 DEF Outstanding, S, Numbered
<1>17. \A i \in 1..Len(outcomes') : i > Len(outcomes) => \E e \in S : Reports(i, e)'
  <2> SUFFICES ASSUME NEW i \in 1..Len(outcomes'), i > Len(outcomes)
               PROVE  \E e \in S : Reports(i, e)'
    OBVIOUS
  <2>1. i - Len(outcomes) \in 1..Len(settled) /\ outcomes'[i] = reports[i - Len(outcomes)]
    BY <1>13, <1>15
  <2>2. PICK e \in S : e = settled[i - Len(outcomes)]
    BY <1>10, <2>1
  <2>3. Reports(i, e)'
    BY <1>2, <1>12, <2>1, <2>2 DEF Reports, ghostVars
  <2> QED
    BY <2>3
<1>18. \A e \in S : \E i \in 1..Len(outcomes') : Reports(i, e)'
  <2> SUFFICES ASSUME NEW e \in S PROVE \E i \in 1..Len(outcomes') : Reports(i, e)'
    OBVIOUS
  <2>1. PICK j \in 1..Len(settled) : settled[j] = e
    BY <1>8, <1>10
  <2> PICK n : n = Len(outcomes) + j
    OBVIOUS
  <2>2. n \in 1..Len(outcomes') /\ ~(n <= Len(outcomes)) /\ n - Len(outcomes) = j
    BY <1>13, <1>15
  <2>3. outcomes'[n] = reports[j]
    BY <1>15, <2>2
  <2>4. Reports(n, e)'
    BY <1>2, <1>12, <2>1, <2>3 DEF Reports, ghostVars
  <2> QED
    BY <2>2, <2>4
<1>19. Settle(S)
  BY <1>2, <1>4, <1>5, <1>13, <1>15, <1>16, <1>17, <1>18 DEF Settle, TransportTypes
<1> QED
  BY <1>3, <1>19, SettleStep

LEMMA TimeStep ==
    ASSUME TransportInv, TimePasses
    PROVE  TransportInv'
<1> USE DEF TransportInv
<1>1. UNCHANGED <<queueVars, serverVars, runtimeVars, ghostVars>> /\ now' = now + 1 /\ now \in Nat
  BY DEF TimePasses, TransportTypes
<1>2. WellFormed' /\ TransportTypes' /\ Numbered' /\ AtMostOncePerTtl' /\ OwnAnswerUnlessOverdue'
  BY <1>1
  DEF queueVars, serverVars, runtimeVars, ghostVars, WellFormed, QueueTypes, SizeInv,
      SequencesBelow, TransportTypes, Numbered, Outstanding, UniqueSequences, AtMostOncePerTtl,
      OwnAnswerUnlessOverdue
<1>3. HolderCanBeAnswered'
  BY <1>1 DEF queueVars, serverVars, runtimeVars, ghostVars, HolderCanBeAnswered
<1>4. \A at \in Nat : Young(at)' => Young(at)
  BY <1>1, TransportAssumption DEF Young, TransportAssumption
<1>5. Remembered'
  BY <1>1, <1>4 DEF serverVars, ghostVars, Remembered, TransportTypes
<1>6. HeldWhileYoung'
  <2>1. /\ \A e \in Outstanding : admitted[e.sequence].at \in Nat
        /\ \A i \in 1..Len(outcomes) : outcomes[i].at \in Nat
    BY DEF Numbered, TransportTypes
  <2> QED
    BY <1>1, <1>4, <2>1
    DEF queueVars, serverVars, runtimeVars, ghostVars, HeldWhileYoung, Holds, Outstanding
<1> QED
  BY <1>2, <1>3, <1>5, <1>6

-----------------------------------------------------------------------------
LEMMA InitTransportInv == TransportInit => TransportInv
<1> SUFFICES ASSUME TransportInit PROVE TransportInv
  OBVIOUS
<1>1. WellFormed
  BY QueueInitWellFormed, QueueAssumption DEF TransportInit
<1>2. /\ DOMAIN registry = {} /\ DOMAIN pendingKeys = {} /\ DOMAIN admitted = {}
      /\ Outstanding = {} /\ outcomes = <<>> /\ overdue = FALSE /\ now = 0 /\ nextStep = 0
      /\ awaiting = {}
  BY DEF TransportInit, QueueInit, Empty, Outstanding
<1>3. TransportTypes
  <2>1. outcomes \in Seq(Outcomes)
    BY <1>2
  <2> QED
    BY <1>2, <2>1 DEF TransportTypes
<1>4. Numbered
  BY <1>2 DEF Numbered, UniqueSequences, TransportInit, QueueInit
<1> QED
  BY <1>1, <1>2, <1>3, <1>4
  DEF TransportInv, Remembered, AtMostOncePerTtl, HolderCanBeAnswered, HeldWhileYoung,
      OwnAnswerUnlessOverdue

LEMMA TransportInvStep == TransportInv /\ [TransportNext]_transportVars => TransportInv'
<1> SUFFICES ASSUME TransportInv, [TransportNext]_transportVars PROVE TransportInv'
  OBVIOUS
<1>1. ASSUME NEW k \in Keys, HandleEnvelope(k) PROVE TransportInv'
  <2>1. UNCHANGED <<now, runtimeVars>>
    BY <1>1 DEF HandleEnvelope
  <2>2. CASE AnswerDuplicate(k)
    BY <2>1, <2>2, PurgeStep DEF AnswerDuplicate
  <2>3. CASE RefuseInUse(k) \/ RefuseInvalid(k)
    BY <2>1, <2>3, RefuseStep
  <2>4. CASE Accept(k)
    BY <2>1, <2>4, AcceptStep
  <2> QED
    BY <1>1, <2>2, <2>3, <2>4 DEF HandleEnvelope
<1>2. CASE PurgeExpired
  BY <1>2, PurgeStep DEF PurgeExpired
<1>3. CASE UNCHANGED transportVars
  <2>1. UNCHANGED <<queueVars, now, serverVars, runtimeVars, ghostVars>>
    BY <1>3 DEF transportVars
  <2>2. WellFormed' /\ TransportTypes'
    BY <2>1
    DEF queueVars, serverVars, runtimeVars, ghostVars, TransportInv, WellFormed, QueueTypes,
        SizeInv, SequencesBelow, TransportTypes
  <2>3. Numbered'
    BY <2>1
    DEF queueVars, serverVars, runtimeVars, ghostVars, TransportInv, Numbered, Outstanding,
        UniqueSequences
  <2>4. Remembered' /\ AtMostOncePerTtl' /\ HolderCanBeAnswered'
    BY <2>1
    DEF queueVars, serverVars, runtimeVars, ghostVars, TransportInv, Remembered, Young,
        AtMostOncePerTtl, HolderCanBeAnswered
  <2>5. HeldWhileYoung' /\ OwnAnswerUnlessOverdue'
    BY <2>1
    DEF queueVars, serverVars, runtimeVars, ghostVars, TransportInv, HeldWhileYoung, Young,
        Holds, Outstanding, OwnAnswerUnlessOverdue
  <2> QED
    BY <2>2, <2>3, <2>4, <2>5 DEF TransportInv
<1> QED
  BY <1>1, <1>2, <1>3, DrainStep, RunStepStep, PromiseStep, TimeStep DEF TransportNext

(* TransportInv holds in every state: what the registry, the queue and the  *)
(* clients know of a request agree, whatever is retried, repeated, reordered *)
(* or overtaken by a ttl (command-transport-server.ts).                     *)
THEOREM TransportInductive == TransportSpec => []TransportInv
BY InitTransportInv, TransportInvStep, PTL DEF TransportSpec

(* AtMostOncePerTtl: whatever is retried, repeated or reordered, two        *)
(* commands of one request enter the queue at least idempotencyTtlMs apart  *)
(* (handleEnvelope, purgeExpired and drainOutcomeResponses,                 *)
(* command-transport-server.ts).                                            *)
THEOREM OncePerTtlCorrect == TransportSpec => []AtMostOncePerTtl
<1>1. TransportInv => AtMostOncePerTtl
  BY DEF TransportInv
<1> QED
  BY <1>1, TransportInductive, PTL

(* OwnAnswerUnlessOverdue: the registry speaks of a request's own command,  *)
(* unless an outcome took a ttl, although outcomes carry the request id     *)
(* alone.                                                                   *)
THEOREM OwnAnswerCorrect == TransportSpec => []OwnAnswerUnlessOverdue
<1>1. TransportInv => OwnAnswerUnlessOverdue
  BY DEF TransportInv
<1> QED
  BY <1>1, TransportInductive, PTL

(* HolderCanBeAnswered: a request id in use has its response on record for  *)
(* exactly as long, and if it was accepted its client can still hear of it. *)
THEOREM HolderCorrect == TransportSpec => []HolderCanBeAnswered
<1>1. TransportInv => HolderCanBeAnswered
  BY DEF TransportInv
<1> QED
  BY <1>1, TransportInductive, PTL
=============================================================================
