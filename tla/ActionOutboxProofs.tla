------------------------- MODULE ActionOutboxProofs --------------------------
(***************************************************************************)
(* Proofs about ActionOutbox, for every set of actions, keys and parents,  *)
(* every journal length and any number of faults: what a caller reads is   *)
(* durable, recovery never meets a journal it must refuse, no request      *)
(* leaves before its intent is durable, and the outbox and the authority   *)
(* together implement EffectLedger.                                        *)
(***************************************************************************)
EXTENDS ActionOutbox, FiniteSetTheorems, WellFoundedInduction, TLAPS

-----------------------------------------------------------------------------
(* The inductive invariant: the authority's entries.                       *)

\* The entry of an action that was performed in no attempt up to g, and is
\* fenced against them; and of one that was accepted in attempt g.
Settled(g) ==
    IF g = 0 THEN NoEntry
    ELSE [phase |-> "fenced", fence |-> g, accepted |-> 0, applied |-> 0]
Taken(phase, g) ==
    [phase |-> phase, fence |-> g - 1, accepted |-> g,
     applied |-> IF phase = "pending" THEN 0 ELSE 1]

\* An action without an uncertain attempt has the entry that its last record
\* says; during attempt g it goes from that of g - 1 to any of those of g.
EntryInv(a) ==
    LET g == Durable[a].attempt
        phase == Durable[a].phase
    IN  \/ /\ phase \in {"free", "ready"}
           /\ phase = "free" => g = 0
           /\ entries[a] = Settled(g)
        \/ /\ phase = "uncertain" /\ g > 0
           /\ entries[a] \in {Settled(g - 1), Settled(g)} \union
                {Taken(p, g) : p \in {"pending", "succeeded", "failed"}}
        \/ /\ phase \in {"succeeded", "failed"} /\ g > 0
           /\ entries[a] = Taken(phase, g)

Intended(a, g) ==
    RecordOf("dispatch_intent", a, g)
        \in {disk.frames[n] : n \in 1 .. Len(disk.frames)}

Sent == wire \union ({call} \ {NoCall})

CallInv ==
    /\ call \in [op : {"dispatch"}, action : Actions, attempt : Nat]
                   \union {NoCall}
    /\ wire \subseteq [op : {"dispatch", "status"}, action : Actions,
                       attempt : Nat]

Entry == [phase : {"none", "fenced", "pending", "succeeded", "failed"},
          fence : Nat, accepted : Nat, applied : Nat]

EntriesInv ==
    entries \in [Actions -> Entry] /\ \A a \in Actions : EntryInv(a)

\* What was intended is an attempt the journal has reached; the attempt of an
\* uncertain action, and what was sent, accepted or fenced, was intended.
AttemptsInv ==
    \A a \in Actions :
        /\ \A g \in Nat :
             Intended(a, g) => 1 <= g /\ g <= Durable[a].attempt
        /\ Durable[a].phase = "uncertain" => Intended(a, Durable[a].attempt)
SentInv == \A m \in Sent : Intended(m.action, m.attempt)
IntentInv ==
    \A a \in Actions :
        /\ entries[a].accepted # 0 => Intended(a, entries[a].accepted)
        /\ entries[a].fence # 0 => Intended(a, entries[a].fence)

KeysInv ==
    \A a, b \in Actions : Known(a) /\ Known(b) /\ KeyOf[a] = KeyOf[b] => a = b

ParentsInv ==
    \A a \in Actions :
        Durable[a].phase # "free" /\ ParentOf[a] # NoAction =>
            Durable[ParentOf[a]].phase = "succeeded"

AuthorityInv ==
    /\ CallInv /\ EntriesInv /\ AttemptsInv /\ SentInv /\ IntentInv
    /\ KeysInv /\ ParentsInv

-----------------------------------------------------------------------------
(* The inductive invariant: the store.                                     *)

\* A record that may become the next one of the durable journal: applicable,
\* true of the authority, and within the reserve if callers keep it.
ReserveAfter(r) ==
    Cardinality(Uncertain(Replay(Append(disk.frames, r))))
            + (IF r.kind = "dispatch_intent" THEN 1 ELSE 0)
        <= MaxRecords - (Len(disk.frames) + 1)

Sound(r) ==
    /\ r \in Record
    /\ Applicable(Durable, Len(disk.frames), r)
    /\ r.kind = "enqueued" => r.attempt = 0
    /\ PhaseAfter(r.kind) \in {"succeeded", "failed"} =>
          entries[r.action] = Taken(PhaseAfter(r.kind), r.attempt)
    /\ r.kind = "reconciled_not_applied" =>
          entries[r.action] = Settled(r.attempt)
    /\ KeepReserve => ReserveAfter(r)

AppendSteps == {"body_write", "body_sync", "footer_write", "footer_sync"}
RepairSteps == {"repair_truncate", "repair_sync"}
Viewed == {"ready", "append_active", "repair_required", "repair_active",
           "repair_complete"}

\* The file holds the durable frames, or one sound frame more over a durable
\* body, which a death or an error has left or the append is about to sync.
FileInv ==
    \/ file.frames = disk.frames
    \/ /\ file.tail = "none" /\ disk.tail = "body"
       /\ \E r \in Record : Sound(r) /\ file.frames = Append(disk.frames, r)
       /\ store \in {"poisoned", "closed"} \/ io = "footer_sync"

StoreInv ==
    /\ StoreTypeOK
    /\ Recoverable(disk.frames)
    /\ FileInv
    /\ store \in Viewed => log = disk.frames /\ states = Durable
    /\ store = "ready" => file = disk
    /\ io \in AppendSteps <=> store = "append_active"
    /\ io \in RepairSteps <=> store = "repair_active"
    /\ store = "append_active" => Sound(pending)
    /\ io = "body_sync" => file.tail = "body"
    /\ io = "footer_write" => disk.tail = "body"
    /\ io = "footer_sync" => file.frames = Append(disk.frames, pending)
    /\ receipted \in Seq(Record) /\ Len(receipted) <= Len(disk.frames)
    /\ receipted = SubSeq(disk.frames, 1, Len(receipted))
    /\ call # NoCall => store = "ready"

\* The durable journal has a free record for each uncertain action, and one
\* for the callback that is running.
ReserveInv ==
    KeepReserve =>
        Cardinality(Uncertain(Durable)) + (IF call = NoCall THEN 0 ELSE 1)
            <= MaxRecords - Len(disk.frames)

OutboxInv == StoreInv /\ AuthorityInv /\ ReserveInv

-----------------------------------------------------------------------------
(* The journal.                                                            *)

Events(journal, a) == {n \in 1 .. Len(journal) : journal[n].action = a}
Last(journal, a) ==
    CHOOSE n \in Events(journal, a) : \A k \in Events(journal, a) : k <= n
Before == {p \in Nat \X Nat : p[1] < p[2]}

\* A set of positions that is not empty has a last one: were there none, the
\* distances of its members from the end would have no least one.
LEMMA LastPosition ==
    ASSUME NEW N \in Nat, NEW T, T \subseteq 1 .. N, T # {}
    PROVE  \E n \in T : \A k \in T : k <= n
<1> DEFINE D == {N - n : n \in T}
<1>1. D \subseteq Nat /\ D # {}
  <2>1. \A n \in T : n \in 1 .. N
    OBVIOUS
  <2>2. \A n \in T : N - n \in Nat
    BY <2>1
  <2> QED BY <2>2
<1>2. IsWellFoundedOn(Before, Nat)
  BY NatLessThanWellFounded DEF OpToRel, Before
<1>3. PICK d \in D : \A e \in D : <<e, d>> \notin Before
  <2> HIDE DEF D
  <2> QED BY <1>1, <1>2, WFMin
<1>4. PICK n \in T : d = N - n
  OBVIOUS
<1>5. ASSUME NEW k \in T PROVE k <= n
  <2>1. N - k \in Nat /\ d \in Nat /\ ~(N - k < d)
    BY <1>1, <1>3, <1>5 DEF Before
  <2>2. k \in Nat /\ n \in Nat
    OBVIOUS
  <2> QED BY <1>4, <2>1, <2>2
<1> QED BY <1>5

\* The last record of an action is one of its records.
LEMMA LastType ==
    ASSUME NEW journal \in Seq(Record), NEW a, Events(journal, a) # {}
    PROVE  /\ Last(journal, a) \in Events(journal, a)
           /\ \A k \in Events(journal, a) : k <= Last(journal, a)
           /\ Last(journal, a) \in 1 .. Len(journal)
           /\ journal[Last(journal, a)] \in Record
<1>1. Len(journal) \in Nat /\ Events(journal, a) \subseteq 1 .. Len(journal)
  BY DEF Events
<1>2. \E n \in Events(journal, a) : \A k \in Events(journal, a) : k <= n
  BY <1>1, LastPosition
<1> QED BY <1>1, <1>2 DEF Last

\* Replay by the last record of an action.
LEMMA ReplayAt ==
    ASSUME NEW journal, NEW a \in Actions
    PROVE  Replay(journal)[a] =
             IF Events(journal, a) = {} THEN FreeAction
             ELSE [phase |-> PhaseAfter(journal[Last(journal, a)].kind),
                   attempt |-> journal[Last(journal, a)].attempt]
BY DEF Replay, Events, Last

\* The phase after a record.
LEMMA PhaseAfterType ==
    ASSUME NEW kind \in Kinds
    PROVE  /\ PhaseAfter(kind) \in Phases \ {"free"}
           /\ PhaseAfter(kind) = "ready"
                <=> kind \in {"enqueued", "reconciled_not_applied"}
           /\ PhaseAfter(kind) = "uncertain"
                <=> kind \in {"dispatch_intent", "ambiguity_observed"}
<1>1. CASE kind \in {"enqueued", "reconciled_not_applied"}
  BY <1>1 DEF PhaseAfter, Phases
<1>2. CASE kind \in {"dispatch_intent", "ambiguity_observed"}
  BY <1>2 DEF PhaseAfter, Phases
<1>3. CASE kind \in {"acknowledged_success", "reconciled_success"}
  BY <1>3 DEF PhaseAfter, Phases
<1>4. CASE kind \in {"acknowledged_failure", "reconciled_failure"}
  BY <1>4 DEF PhaseAfter, Phases
<1> QED BY <1>1, <1>2, <1>3, <1>4 DEF Kinds

States == [Actions -> [phase : Phases, attempt : Nat]]

\* Replaying a journal gives every action a phase and an attempt.
LEMMA ReplayType ==
    ASSUME NEW journal \in Seq(Record)
    PROVE  Replay(journal) \in States
<1>1. ASSUME NEW a \in Actions
      PROVE  Replay(journal)[a] \in [phase : Phases, attempt : Nat]
  <2>1. CASE Events(journal, a) = {}
    <3>1. Replay(journal)[a] = FreeAction
      BY <2>1, ReplayAt
    <3> QED BY <3>1 DEF FreeAction, Phases
  <2>2. CASE Events(journal, a) # {}
    <3> DEFINE r == journal[Last(journal, a)]
    <3>1. r \in Record
      BY <2>2, LastType
    <3>2. Replay(journal)[a] = [phase |-> PhaseAfter(r.kind),
                                attempt |-> r.attempt]
      BY <2>2, ReplayAt
    <3>3. r.kind \in Kinds /\ r.attempt \in Nat
      BY <3>1 DEF Record
    <3>4. PhaseAfter(r.kind) \in Phases
      BY <3>3, PhaseAfterType
    <3> QED BY <3>2, <3>3, <3>4
  <2> QED BY <2>1, <2>2
<1> QED BY <1>1 DEF Replay, States

\* An empty journal leaves every action free.
LEMMA ReplayEmpty == Replay(<<>>) = [a \in Actions |-> FreeAction]
BY DEF Replay

\* One more record changes its own action only, to the phase after it.
LEMMA ReplayAppend ==
    ASSUME NEW journal \in Seq(Record), NEW r \in Record
    PROVE  Replay(Append(journal, r)) =
             [Replay(journal) EXCEPT ![r.action] =
                [phase |-> PhaseAfter(r.kind), attempt |-> r.attempt]]
<1> DEFINE n == Len(journal) + 1
           more == Append(journal, r)
<1>1. /\ more \in Seq(Record) /\ Len(more) = n /\ more[n] = r
      /\ \A k \in 1 .. Len(journal) : more[k] = journal[k]
      /\ Len(journal) \in Nat
  OBVIOUS
<1>2. ASSUME NEW a \in Actions, a # r.action
      PROVE  Replay(more)[a] = Replay(journal)[a]
  <2>1. Events(more, a) = Events(journal, a)
    BY <1>1, <1>2 DEF Events
  <2>2. Last(more, a) = Last(journal, a)
    BY <2>1 DEF Last
  <2>3. CASE Events(journal, a) = {}
    BY <2>1, <2>3, ReplayAt
  <2>4. CASE Events(journal, a) # {}
    <3>1. more[Last(more, a)] = journal[Last(journal, a)]
      BY <1>1, <2>2, <2>4, LastType
    <3> QED BY <2>1, <2>4, <3>1, ReplayAt
  <2> QED BY <2>3, <2>4
<1>3. Replay(more)[r.action] = [phase |-> PhaseAfter(r.kind),
                                attempt |-> r.attempt]
  <2>1. n \in Events(more, r.action) /\ r.action \in Actions
    BY <1>1 DEF Events, Record
  <2>2. Last(more, r.action) = n
    <3>1. Last(more, r.action) \in 1 .. n /\ n <= Last(more, r.action)
      BY <1>1, <2>1, LastType
    <3> QED BY <1>1, <3>1
  <2>3. Events(more, r.action) # {}
    BY <2>1
  <2>4. more[Last(more, r.action)] = r
    BY <1>1, <2>2
  <2> HIDE DEF more
  <2> QED BY <2>1, <2>3, <2>4, ReplayAt
<1>4. Replay(journal) = [a \in Actions |-> Replay(journal)[a]]
      /\ Replay(more) = [a \in Actions |-> Replay(more)[a]]
  BY DEF Replay
<1>5. r.action \in Actions
  BY DEF Record
<1> HIDE DEF more
<1> QED BY <1>2, <1>3, <1>4, <1>5 DEF more

\* A journal is recoverable with one more record if it is without, and the
\* record is applicable to it.
LEMMA RecoverableAppend ==
    ASSUME NEW journal \in Seq(Record), NEW r \in Record, Recoverable(journal),
           Applicable(Replay(journal), Len(journal), r)
    PROVE  Recoverable(Append(journal, r))
<1> DEFINE more == Append(journal, r)
<1>1. /\ Len(more) = Len(journal) + 1 /\ more[Len(journal) + 1] = r
      /\ \A k \in 1 .. Len(journal) : more[k] = journal[k]
      /\ Len(journal) \in Nat
  OBVIOUS
<1>2. ASSUME NEW n \in 1 .. Len(more)
      PROVE  Applicable(Replay(SubSeq(more, 1, n - 1)), n - 1, more[n])
  <2>1. CASE n = Len(journal) + 1
    <3>1. SubSeq(more, 1, n - 1) = journal /\ n - 1 = Len(journal)
      BY <1>1, <2>1
    <3> QED BY <1>1, <2>1, <3>1
  <2>2. CASE n # Len(journal) + 1
    <3>1. n \in 1 .. Len(journal) /\ n - 1 \in 0 .. Len(journal)
      BY <1>1, <2>2
    <3>2. SubSeq(more, 1, n - 1) = SubSeq(journal, 1, n - 1)
      BY <1>1, <3>1
    <3> QED BY <1>1, <3>1, <3>2 DEF Recoverable
  <2> QED BY <2>1, <2>2
<1> QED BY <1>2 DEF Recoverable

-----------------------------------------------------------------------------
(* Steps of the authority.                                                 *)

Outcomes == {"pending", "succeeded", "failed"}

\* The entry of a becomes e during the attempt that is uncertain: it is
\* taken or fenced, or what was taken is performed.
EntryMove(a, e) ==
    LET g == Durable[a].attempt IN
    /\ Durable[a].phase = "uncertain"
    /\ g \in Nat \ {0}
    /\ \/ /\ entries[a] = Settled(g - 1)
          /\ g = 1 => Admissible(a)
          /\ Intended(a, g)
          /\ e \in {Settled(g)} \union {Taken(p, g) : p \in Outcomes}
       \/ /\ entries[a] = Taken("pending", g)
          /\ e \in {Taken(p, g) : p \in Outcomes \ {"pending"}}

EntryStep == \E a \in Actions : \E e :
                EntryMove(a, e) /\ entries' = [entries EXCEPT ![a] = e]

\* The fields of settled and taken entries.
LEMMA EntryFields ==
    ASSUME NEW g \in Nat
    PROVE  /\ Settled(g).phase = IF g = 0 THEN "none" ELSE "fenced"
           /\ Settled(g).fence = g
           /\ Settled(g).accepted = 0 /\ Settled(g).applied = 0
           /\ \A p \in Outcomes :
                /\ Taken(p, g).phase = p
                /\ Taken(p, g).fence = g - 1
                /\ Taken(p, g).accepted = g
                /\ Taken(p, g).applied = IF p = "pending" THEN 0 ELSE 1
                /\ Settled(g) # Taken(p, g)
BY DEF Settled, Taken, NoEntry, Outcomes

\* The entry of an action is a settled or a taken one, and only that of an
\* uncertain attempt can be fenced or performed.
LEMMA EntryCases ==
    ASSUME EntriesInv, NEW a \in Actions, Durable \in States
    PROVE  LET g == Durable[a].attempt IN
           /\ g \in Nat
           /\ \/ /\ Durable[a].phase \in {"free", "ready"}
                 /\ Durable[a].phase = "free" => g = 0
                 /\ entries[a] = Settled(g)
              \/ /\ Durable[a].phase = "uncertain" /\ g \in Nat \ {0}
                 /\ \/ entries[a] = Settled(g - 1) \/ entries[a] = Settled(g)
                    \/ \E p \in Outcomes : entries[a] = Taken(p, g)
              \/ /\ Durable[a].phase \in {"succeeded", "failed"}
                 /\ g \in Nat \ {0} /\ entries[a] = Taken(Durable[a].phase, g)
<1>1. Durable[a].attempt \in Nat
  BY DEF States
<1> HIDE DEF Durable
<1> QED BY <1>1 DEF EntriesInv, EntryInv, Outcomes

\* Every entry is a settled or a taken one, and an unoccupied one is settled
\* at no attempt.
LEMMA EntryForms ==
    ASSUME EntriesInv, NEW a \in Actions, Durable \in States
    PROVE  /\ \E n \in Nat : \/ entries[a] = Settled(n)
                             \/ \E p \in Outcomes : entries[a] = Taken(p, n)
           /\ ~Known(a) => entries[a] = Settled(0) /\ entries[a].fence = 0
<1> DEFINE g == Durable[a].attempt
<1>1. g \in Nat /\ (g \in Nat \ {0} => g - 1 \in Nat)
  BY EntryCases
<1>2. \E n \in Nat : \/ entries[a] = Settled(n)
                     \/ \E p \in Outcomes : entries[a] = Taken(p, n)
  BY <1>1, EntryCases DEF Outcomes
<1>3. ASSUME ~Known(a) PROVE entries[a] = Settled(0) /\ entries[a].fence = 0
  <2>1. entries[a].phase = "none"
    BY <1>3 DEF Known
  <2>2. \A n \in Nat : entries[a] = Settled(n) => n = 0
    BY <2>1, EntryFields
  <2>3. \A n \in Nat, p \in Outcomes : entries[a] # Taken(p, n)
    BY <2>1, EntryFields DEF Outcomes
  <2> QED BY <1>2, <2>2, <2>3, EntryFields
<1> QED BY <1>2, <1>3

\* An entry that is fenced, or none, is a settled one; if an intended attempt
\* is above its fence, that attempt is the uncertain one.
LEMMA OpenEntry ==
    ASSUME EntriesInv, AttemptsInv, NEW a \in Actions, NEW m \in Nat,
           Durable \in States, Intended(a, m),
           entries[a].phase \in {"none", "fenced"}, m > entries[a].fence
    PROVE  /\ Durable[a].phase = "uncertain" /\ Durable[a].attempt = m
           /\ m \in Nat \ {0} /\ entries[a] = Settled(m - 1)
           /\ entries[a].fence = m - 1
<1> DEFINE g == Durable[a].attempt
<1>1. 1 <= m /\ m <= g /\ g \in Nat
  BY EntryCases DEF AttemptsInv
<1>2. ASSUME NEW n \in Nat, entries[a] = Settled(n) PROVE n < m
  BY <1>2, EntryFields
<1>3. ASSUME NEW p \in Outcomes, NEW n \in Nat, entries[a] = Taken(p, n)
      PROVE  FALSE
  BY <1>3, EntryFields DEF Outcomes
<1>4. entries[a] # Settled(g)
  BY <1>1, <1>2
<1>5. \A p \in Outcomes : entries[a] # Taken(p, g)
  BY <1>1, <1>3
<1>6. Durable[a].phase = "uncertain" /\ g \in Nat \ {0}
      /\ entries[a] = Settled(g - 1)
  BY <1>4, <1>5, EntryCases DEF Outcomes
<1>7. g - 1 < m /\ g - 1 \in Nat
  BY <1>2, <1>6
<1>8. m = g /\ m \in Nat \ {0}
  BY <1>1, <1>6, <1>7
<1>9. Settled(m - 1).fence = m - 1
  <2>1. m - 1 \in Nat
    BY <1>8
  <2> QED BY <2>1, EntryFields
<1> QED BY <1>6, <1>8, <1>9


\* An attempt is accepted only while its intent is the last word on the
\* action: its entry goes from the settled one before to a taken one.
LEMMA AcceptMoves ==
    ASSUME EntriesInv, AttemptsInv, Durable \in States,
           NEW a \in Actions, NEW m \in Nat, Intended(a, m),
           NEW phase, accept(a, m, phase)
    PROVE  /\ phase \in Outcomes
           /\ EntryMove(a, Taken(phase, m))
           /\ entries' = [entries EXCEPT ![a] = Taken(phase, m)]
           /\ Durable[a].attempt = m
<1>1. phase \in Outcomes /\ entries \in [Actions -> Entry]
  BY DEF accept, Outcomes, EntriesInv
<1>2. entries[a].phase \in {"none", "fenced"} /\ m > entries[a].fence
      /\ (m = 1 => Admissible(a) \/ entries[a].phase = "fenced")
  <2>1. CASE Admissible(a) /\ m = 1
    <3>1. entries[a].phase = "none"
      BY <2>1 DEF Admissible, Known
    <3>2. entries[a].fence = 0
      BY <2>1, EntryForms DEF Admissible
    <3> QED BY <2>1, <3>1, <3>2
  <2>2. CASE entries[a].phase = "fenced" /\ m = entries[a].fence + 1
    <3>1. entries[a].fence \in Nat
      BY <1>1 DEF Entry
    <3> QED BY <2>2, <3>1
  <2> QED BY <2>1, <2>2 DEF accept, Accepts
<1>3. /\ Durable[a].phase = "uncertain" /\ Durable[a].attempt = m
      /\ m \in Nat \ {0} /\ entries[a] = Settled(m - 1)
      /\ entries[a].fence = m - 1
  BY <1>2, OpenEntry
<1>4. m = 1 => Admissible(a)
  <2>1. m = 1 => entries[a].phase = "none"
    BY <1>3 DEF Settled, NoEntry
  <2> QED BY <1>2, <2>1
<1>5. EntryMove(a, Taken(phase, m))
  BY <1>1, <1>3, <1>4 DEF EntryMove
<1>6. entries' = [entries EXCEPT ![a] = Taken(phase, m)]
  <2>1. entries' = [entries EXCEPT
                      ![a].phase = phase, ![a].accepted = m,
                      ![a].applied = IF phase = "pending" THEN 0 ELSE 1]
    BY DEF accept
  <2>2. entries'[a] = [phase |-> phase, fence |-> entries[a].fence,
                       accepted |-> m,
                       applied |-> IF phase = "pending" THEN 0 ELSE 1]
    BY <1>1, <2>1 DEF Entry
  <2>3. entries'[a] = Taken(phase, m)
    BY <1>3, <2>2 DEF Taken
  <2>4. \A b \in Actions \ {a} : entries'[b] = entries[b]
    BY <1>1, <2>1
  <2>5. entries' = [b \in Actions |-> entries'[b]]
    BY <1>1, <2>1
  <2> QED BY <1>1, <2>3, <2>4, <2>5
<1> QED BY <1>1, <1>3, <1>5, <1>6

\* A fence that is raised is raised to the uncertain attempt.
LEMMA FenceMoves ==
    ASSUME EntriesInv, AttemptsInv, Durable \in States,
           NEW a \in Actions, NEW m \in Nat, Intended(a, m), fenceAttempt(a, m)
    PROVE  \/ entries' = entries /\ m <= entries[a].fence
              /\ entries[a].phase = "fenced"
           \/ /\ EntryMove(a, Settled(m)) /\ Durable[a].attempt = m
              /\ entries' = [entries EXCEPT ![a] = Settled(m)]
<1>1. entries \in [Actions -> Entry] /\ entries[a] \in Entry
      /\ entries[a].fence \in Nat /\ entries[a].phase \in {"none", "fenced"}
  BY DEF EntriesInv, Entry, fenceAttempt, Admissible, Known
<1>2. entries' = [entries EXCEPT ![a].phase = "fenced",
                                 ![a].fence = IF m > @ THEN m ELSE @]
  BY DEF fenceAttempt
<1>3. entries'[a] = [phase |-> "fenced",
                     fence |-> IF m > entries[a].fence THEN m
                               ELSE entries[a].fence,
                     accepted |-> entries[a].accepted,
                     applied |-> entries[a].applied]
  BY <1>1, <1>2 DEF Entry
<1>4. \A b \in Actions \ {a} : entries'[b] = entries[b]
  BY <1>1, <1>2
<1>5. entries' = [b \in Actions |-> entries'[b]]
  BY <1>1, <1>2
<1>6. CASE m > entries[a].fence
  <2>1. /\ Durable[a].phase = "uncertain" /\ Durable[a].attempt = m
        /\ m \in Nat \ {0} /\ entries[a] = Settled(m - 1)
    BY <1>1, <1>6, OpenEntry
  <2>2. m - 1 \in Nat
    BY <2>1
  <2>3. entries[a].accepted = 0 /\ entries[a].applied = 0
    BY <2>1, <2>2, EntryFields
  <2>4. entries'[a] = Settled(m)
    BY <1>3, <1>6, <2>1, <2>3 DEF Settled
  <2>5. m = 1 => Admissible(a)
    <3>1. m = 1 => entries[a].phase = "none"
      BY <2>1 DEF Settled, NoEntry
    <3> QED BY <3>1 DEF fenceAttempt
  <2>6. EntryMove(a, Settled(m))
    BY <2>1, <2>5 DEF EntryMove
  <2> QED BY <1>1, <1>4, <1>5, <2>1, <2>4, <2>6
<1>7. CASE ~(m > entries[a].fence)
  <2>1. m <= entries[a].fence /\ 1 <= m
    BY <1>1, <1>7 DEF AttemptsInv
  <2>2. entries[a].phase = "fenced"
    <3>1. CASE Admissible(a)
      <4>1. entries[a].fence = 0
        BY <3>1, EntryForms DEF Admissible
      <4> QED BY <2>1, <4>1
    <3> QED BY <3>1 DEF fenceAttempt
  <2>3. entries'[a] = entries[a]
    BY <1>1, <1>3, <1>7, <2>2 DEF Entry
  <2>4. entries' = entries
    BY <1>1, <1>4, <1>5, <2>3
  <2> QED BY <2>1, <2>2, <2>4
<1> QED BY <1>6, <1>7

\* What a dispatch, a status lookup and the service do to the entries, each
\* for an intended attempt, and what their answers are true of.
LEMMA DispatchMoves ==
    ASSUME EntriesInv, AttemptsInv, Durable \in States,
           NEW a \in Actions, NEW m \in Nat, Intended(a, m),
           NEW evidence, dispatchCallback(a, m, evidence)
    PROVE  /\ EntryStep \/ UNCHANGED entries
           /\ Durable[a].phase = "uncertain" /\ Durable[a].attempt = m =>
                /\ evidence = "succeeded" =>
                      entries'[a] = Taken("succeeded", m)
                /\ evidence = "terminal_failure" =>
                      entries'[a] = Taken("failed", m)
<1>1. CASE \E phase \in Outcomes :
             accept(a, m, phase) /\ evidence = Evidence(phase)
  <2>1. PICK phase \in Outcomes :
          accept(a, m, phase) /\ evidence = Evidence(phase)
    BY <1>1
  <2>2. EntryMove(a, Taken(phase, m)) /\ Durable[a].attempt = m
        /\ entries' = [entries EXCEPT ![a] = Taken(phase, m)]
    BY <2>1, AcceptMoves
  <2>3. EntryStep
    BY <2>2 DEF EntryStep
  <2>4. entries'[a] = Taken(phase, m)
    BY <2>2 DEF EntriesInv
  <2>5. /\ evidence = "succeeded" => phase = "succeeded"
        /\ evidence = "terminal_failure" => phase = "failed"
    BY <2>1 DEF Evidence, Outcomes
  <2> QED BY <2>3, <2>4, <2>5
<1>2. CASE evidence \in Refusal(a, m) /\ UNCHANGED entries
  <2>1. ASSUME Durable[a].phase = "uncertain", Durable[a].attempt = m,
               NEW p \in {"succeeded", "failed"}, entries[a].phase = p
        PROVE  entries[a] = Taken(p, m)
    <3>1. m \in Nat \ {0} /\ m - 1 \in Nat
          /\ \/ entries[a] = Settled(m - 1) \/ entries[a] = Settled(m)
             \/ \E q \in Outcomes : entries[a] = Taken(q, m)
      <4>1. m \in Nat \ {0} /\
            ( \/ entries[a] = Settled(m - 1) \/ entries[a] = Settled(m)
              \/ \E q \in Outcomes : entries[a] = Taken(q, m) )
        BY <2>1, EntryCases
      <4> QED BY <4>1
    <3>2. entries[a] # Settled(m - 1) /\ entries[a] # Settled(m)
      BY <2>1, <3>1, EntryFields
    <3> QED BY <2>1, <3>1, <3>2, EntryFields
  <2>2. /\ evidence = "succeeded" => entries[a].phase = "succeeded"
        /\ evidence = "terminal_failure" => entries[a].phase = "failed"
    BY <1>2 DEF Refusal
  <2> QED BY <1>2, <2>1, <2>2
<1> QED BY <1>1, <1>2 DEF dispatchCallback, Outcomes

\* The same of a status lookup.
LEMMA StatusMoves ==
    ASSUME EntriesInv, AttemptsInv, Durable \in States,
           NEW a \in Actions, NEW m \in Nat, Intended(a, m),
           NEW disposition, statusCallback(a, m, disposition)
    PROVE  /\ EntryStep \/ UNCHANGED entries
           /\ Durable[a].phase = "uncertain" /\ Durable[a].attempt = m =>
                /\ disposition = "not_applied_fenced" =>
                      entries'[a] = Settled(m)
                /\ disposition \in {"succeeded", "failed"} =>
                      entries'[a] = Taken(disposition, m)
<1> DEFINE settling == Durable[a].phase = "uncertain" /\ Durable[a].attempt = m
<1>1. ASSUME settling
      PROVE  m \in Nat \ {0} /\ m - 1 \in Nat /\
             ( \/ entries[a] = Settled(m - 1) \/ entries[a] = Settled(m)
               \/ \E q \in Outcomes : entries[a] = Taken(q, m) )
  <2>1. m \in Nat \ {0} /\
        ( \/ entries[a] = Settled(m - 1) \/ entries[a] = Settled(m)
          \/ \E q \in Outcomes : entries[a] = Taken(q, m) )
    BY <1>1, EntryCases
  <2> QED BY <2>1
<1>2. CASE disposition = "not_applied_fenced" /\ fenceAttempt(a, m)
  <2>1. CASE EntryMove(a, Settled(m)) /\ Durable[a].attempt = m
             /\ entries' = [entries EXCEPT ![a] = Settled(m)]
    <3>1. EntryStep
      BY <2>1 DEF EntryStep
    <3>2. entries'[a] = Settled(m)
      BY <2>1 DEF EntriesInv
    <3> QED BY <1>2, <3>1, <3>2
  <2>2. CASE entries' = entries /\ m <= entries[a].fence
             /\ entries[a].phase = "fenced"
    <3>1. ASSUME settling PROVE entries[a] = Settled(m)
      <4>1. \A q \in Outcomes : entries[a] # Taken(q, m)
        BY <2>2, EntryFields DEF Outcomes
      <4>2. entries[a] # Settled(m - 1)
        <5>1. Settled(m - 1).fence = m - 1 /\ ~(m <= m - 1)
          BY <1>1, <3>1, EntryFields
        <5> QED BY <2>2, <5>1
      <4> QED BY <1>1, <3>1, <4>1, <4>2
    <3> QED BY <1>2, <2>2, <3>1
  <2> QED BY <1>2, <2>1, <2>2, FenceMoves
<1>3. CASE disposition = "not_applied_fenced" /\ UNCHANGED entries
           /\ entries[a].phase = "pending" /\ m <= entries[a].fence
  <2>1. ASSUME settling PROVE FALSE
    <3>1. entries[a] # Settled(m - 1) /\ entries[a] # Settled(m)
      BY <1>1, <1>3, <2>1, EntryFields
    <3>2. entries[a].fence = m - 1 /\ ~(m <= m - 1)
      BY <1>1, <2>1, <3>1, EntryFields
    <3> QED BY <1>3, <3>2
  <2> QED BY <1>3, <2>1
<1>4. CASE disposition \in {"succeeded", "failed"} /\ UNCHANGED entries
           /\ entries[a].phase = disposition
  <2>1. ASSUME settling PROVE entries[a] = Taken(disposition, m)
    <3>1. entries[a] # Settled(m - 1) /\ entries[a] # Settled(m)
      BY <1>1, <1>4, <2>1, EntryFields
    <3> QED BY <1>1, <1>4, <2>1, <3>1, EntryFields
  <2> QED BY <1>4, <2>1
<1>5. CASE disposition \in {"pending", "unknown"} /\ UNCHANGED entries
  BY <1>5
<1> QED BY <1>2, <1>3, <1>4, <1>5 DEF statusCallback

\* What was accepted in the uncertain attempt is performed.
LEMMA CompleteMoves ==
    ASSUME EntriesInv, Durable \in States, NEW a \in Actions, completePending(a)
    PROVE  EntryStep
<1> DEFINE g == Durable[a].attempt
<1>1. PICK phase \in {"succeeded", "failed"} :
        entries' = [entries EXCEPT ![a].phase = phase, ![a].applied = @ + 1]
  BY DEF completePending
<1>2. entries[a].phase = "pending" /\ entries \in [Actions -> Entry]
  BY DEF completePending, EntriesInv
<1>3. ASSUME NEW n \in Nat PROVE entries[a] # Settled(n)
  BY <1>2, EntryFields
<1>4. Durable[a].phase = "uncertain" /\ g \in Nat \ {0} /\ g - 1 \in Nat
      /\ entries[a] = Taken("pending", g)
  <2>1. g \in Nat /\ (g \in Nat \ {0} => g - 1 \in Nat)
    BY EntryCases
  <2>2. ASSUME NEW p \in Outcomes, entries[a] = Taken(p, g)
        PROVE  p = "pending"
    BY <1>2, <2>1, <2>2, EntryFields
  <2> QED BY <1>3, <2>1, <2>2, EntryCases DEF Outcomes
<1>5. EntryMove(a, Taken(phase, g))
  BY <1>4 DEF EntryMove, Outcomes
<1>6. entries' = [entries EXCEPT ![a] = Taken(phase, g)]
  <2>1. entries'[a] = [phase |-> phase, fence |-> entries[a].fence,
                       accepted |-> entries[a].accepted,
                       applied |-> entries[a].applied + 1]
    BY <1>1, <1>2 DEF Entry
  <2>2. entries'[a] = Taken(phase, g)
    BY <1>4, <2>1 DEF Taken
  <2>3. \A b \in Actions \ {a} : entries'[b] = entries[b]
    BY <1>1, <1>2
  <2>4. entries' = [b \in Actions |-> entries'[b]]
    BY <1>1, <1>2
  <2> QED BY <1>2, <2>2, <2>3, <2>4
<1> QED BY <1>4, <1>5, <1>6 DEF EntryStep, Outcomes

\* While nothing is appended, a step of the authority keeps its part of the
\* invariant, and a record that waits to be appended stays true of it.
LEMMA EntryStepKeeps ==
    ASSUME AuthorityInv, Durable \in States, EntryStep,
           disk'.frames = disk.frames
    PROVE  /\ EntriesInv' /\ AttemptsInv' /\ IntentInv' /\ KeysInv'
           /\ ParentsInv'
           /\ \A r \in Record : Sound(r) => Sound(r)'
<1> DEFINE Att(b) == Durable[b].attempt
<1>0. PICK a \in Actions : \E e :
        EntryMove(a, e) /\ entries' = [entries EXCEPT ![a] = e]
  BY DEF EntryStep
<1>1. PICK e : EntryMove(a, e) /\ entries' = [entries EXCEPT ![a] = e]
  BY <1>0
<1> DEFINE g == Att(a)
<1>2. /\ EntriesInv /\ AttemptsInv /\ IntentInv /\ KeysInv /\ ParentsInv
      /\ entries \in [Actions -> Entry]
  BY DEF AuthorityInv, EntriesInv
<1>3. entries'[a] = e /\ (\A b \in Actions \ {a} : entries'[b] = entries[b])
      /\ entries' = [b \in Actions |-> entries'[b]]
  BY <1>1, <1>2
<1>4. /\ Durable' = Durable
      /\ \A b, n : Intended(b, n)' <=> Intended(b, n)
  BY DEF Durable, Intended
<1>5. /\ Durable[a].phase = "uncertain" /\ g \in Nat \ {0} /\ g - 1 \in Nat
      /\ e \in {Settled(g)} \union {Taken(p, g) : p \in Outcomes}
      /\ entries[a] = Settled(g - 1) \/ entries[a] = Taken("pending", g)
  BY <1>1 DEF EntryMove
<1>6. EntriesInv'
  <2>1. e \in Entry
    BY <1>5 DEF Settled, Taken, Entry, NoEntry, Outcomes
  <2>2. entries' \in [Actions -> Entry]
    BY <1>2, <1>3, <2>1
  <2>3. ASSUME NEW b \in Actions PROVE EntryInv(b)'
    <3>1. CASE b = a
      <4> HIDE DEF Durable
      <4> QED BY <1>3, <1>4, <1>5, <3>1 DEF EntryInv, Outcomes
    <3>2. CASE b # a
      <4>1. EntryInv(b)
        BY <1>2 DEF EntriesInv
      <4> HIDE DEF Durable
      <4> QED BY <1>3, <1>4, <3>2, <4>1 DEF EntryInv
    <3> QED BY <3>1, <3>2
  <2> QED BY <2>2, <2>3 DEF EntriesInv
<1>7. AttemptsInv'
  BY <1>2, <1>4 DEF AttemptsInv
<1>8. IntentInv'
  <2>1. Intended(a, g)
    <3>1. CASE entries[a] = Settled(g - 1)
      <4>1. entries[a] # Taken("pending", g)
        BY <3>1, <1>5, EntryFields DEF Outcomes
      <4> QED BY <1>1, <4>1 DEF EntryMove
    <3>2. CASE entries[a] = Taken("pending", g)
      <4>1. entries[a].accepted = g
        BY <3>2, <1>5, EntryFields DEF Outcomes
      <4> QED BY <1>2, <1>5, <4>1 DEF IntentInv
    <3> QED BY <1>5, <3>1, <3>2
  <2>2. g - 1 # 0 => Intended(a, g - 1)
    <3>1. entries[a].fence = g - 1
      BY <1>5, EntryFields DEF Outcomes
    <3> QED BY <1>2, <3>1 DEF IntentInv
  <2>3. e.accepted \in {0, g} /\ e.fence \in {g - 1, g}
    BY <1>5, EntryFields
  <2>4. /\ e.accepted # 0 => Intended(a, e.accepted)
        /\ e.fence # 0 => Intended(a, e.fence)
    BY <2>1, <2>2, <2>3
  <2>5. ASSUME NEW b \in Actions
        PROVE  /\ entries'[b].accepted # 0 => Intended(b, entries'[b].accepted)
               /\ entries'[b].fence # 0 => Intended(b, entries'[b].fence)
    BY <1>2, <1>3, <2>4 DEF IntentInv
  <2> QED BY <1>4, <2>5 DEF IntentInv
<1>9. KeysInv'
  <2>1. ASSUME NEW b \in Actions \ {a} PROVE Known(b)' <=> Known(b)
    BY <1>3 DEF Known
  <2>2. ASSUME ~Known(a), NEW b \in Actions, Known(b)
        PROVE  KeyOf[b] # KeyOf[a]
    <3>1. entries[a].phase = "none"
      BY <2>2 DEF Known
    <3>2. entries[a] = Settled(g - 1) /\ g - 1 = 0
      BY <1>5, <3>1, EntryFields DEF Outcomes
    <3>3. entries[a] # Taken("pending", g)
      BY <1>5, <3>2, EntryFields DEF Outcomes
    <3>4. Admissible(a)
      BY <1>1, <1>5, <3>2, <3>3 DEF EntryMove
    <3> QED BY <2>2, <3>4 DEF Admissible
  <2>3. ASSUME NEW b \in Actions, NEW c \in Actions, Known(b)', Known(c)',
               KeyOf[b] = KeyOf[c]
        PROVE  b = c
    <3>1. CASE b # a /\ c # a
      BY <1>2, <2>1, <2>3, <3>1 DEF KeysInv
    <3>2. CASE b = a /\ c # a
      <4>1. Known(c)
        BY <2>1, <2>3, <3>2
      <4>2. Known(a)
        BY <2>2, <2>3, <3>2, <4>1
      <4> QED BY <1>2, <2>3, <3>2, <4>1, <4>2 DEF KeysInv
    <3>3. CASE c = a /\ b # a
      <4>1. Known(b)
        BY <2>1, <2>3, <3>3
      <4>2. Known(a)
        BY <2>2, <2>3, <3>3, <4>1
      <4> QED BY <1>2, <2>3, <3>3, <4>1, <4>2 DEF KeysInv
    <3> QED BY <3>1, <3>2, <3>3
  <2> QED BY <2>3 DEF KeysInv
<1>10. ParentsInv'
  <2> HIDE DEF Durable
  <2> QED BY <1>2, <1>4 DEF ParentsInv
<1>11. ASSUME NEW r \in Record, Sound(r) PROVE Sound(r)'
  <2>1. r.action \in Actions /\ r.kind \in Kinds /\ r.attempt \in Nat
        /\ Applicable(Durable, Len(disk.frames), r)
    BY <1>11 DEF Record, Sound
  <2>2. CASE r.action # a
    <3>1. entries'[r.action] = entries[r.action]
      BY <1>3, <2>1, <2>2
    <3>2. ReserveAfter(r)' <=> ReserveAfter(r)
      BY DEF ReserveAfter
    <3> HIDE DEF Durable
    <3> QED BY <1>4, <1>11, <3>1, <3>2 DEF Sound
  <2>3. CASE r.action = a
    <3>1. ASSUME PhaseAfter(r.kind) \in {"succeeded", "failed"} PROVE FALSE
      <4>1. entries[a] = Taken(PhaseAfter(r.kind), r.attempt)
        BY <1>11, <2>3, <3>1 DEF Sound
      <4>2. entries[a].phase \in {"succeeded", "failed"}
        BY <2>1, <3>1, <4>1, EntryFields DEF Outcomes
      <4>3. Settled(g - 1).phase \in {"none", "fenced"}
            /\ Taken("pending", g).phase = "pending"
        BY <1>5, EntryFields DEF Outcomes
      <4> QED BY <1>5, <4>2, <4>3
    <3>2. ASSUME r.kind = "reconciled_not_applied" PROVE FALSE
      <4>1. entries[a] = Settled(r.attempt) /\ r.attempt = g
        BY <1>11, <2>1, <2>3, <3>2 DEF Sound, Applicable
      <4>2. entries[a].fence = g
        BY <1>5, <4>1, EntryFields
      <4>3. Settled(g - 1).fence = g - 1 /\ Taken("pending", g).fence = g - 1
        BY <1>5, EntryFields DEF Outcomes
      <4> QED BY <1>5, <4>2, <4>3
    <3>3. ReserveAfter(r)' <=> ReserveAfter(r)
      BY DEF ReserveAfter
    <3> HIDE DEF Durable
    <3> QED BY <1>4, <1>11, <3>1, <3>2, <3>3 DEF Sound
  <2> QED BY <2>2, <2>3
<1> QED BY <1>6, <1>7, <1>8, <1>9, <1>10, <1>11

-----------------------------------------------------------------------------
(* A sound record becomes durable.                                         *)

\* What a record does to the durable state of its action.
LEMMA Appended ==
    ASSUME NEW r \in Record, disk.frames \in Seq(Record),
           disk'.frames = Append(disk.frames, r)
    PROVE  /\ Durable' = [Durable EXCEPT ![r.action] =
                            [phase |-> PhaseAfter(r.kind),
                             attempt |-> r.attempt]]
           /\ Durable \in States /\ Durable' \in States
           /\ Durable'[r.action] = [phase |-> PhaseAfter(r.kind),
                                    attempt |-> r.attempt]
           /\ \A a \in Actions \ {r.action} : Durable'[a] = Durable[a]
           /\ \A a, g : Intended(a, g)' <=>
                          \/ Intended(a, g)
                          \/ r = RecordOf("dispatch_intent", a, g)
<1>1. Durable' = [Durable EXCEPT ![r.action] = [phase |-> PhaseAfter(r.kind),
                                                attempt |-> r.attempt]]
  BY ReplayAppend DEF Durable
<1>2. Durable \in States /\ Durable' \in States
  <2>1. Append(disk.frames, r) \in Seq(Record)
    OBVIOUS
  <2> QED BY <2>1, ReplayType DEF Durable
<1>3. r.action \in Actions
  BY DEF Record
<1>4. Durable'[r.action] = [phase |-> PhaseAfter(r.kind), attempt |-> r.attempt]
      /\ \A a \in Actions \ {r.action} : Durable'[a] = Durable[a]
  <2> HIDE DEF Durable
  <2> QED BY <1>1, <1>2, <1>3 DEF States
<1>5. {disk'.frames[n] : n \in 1 .. Len(disk'.frames)} =
        {disk.frames[n] : n \in 1 .. Len(disk.frames)} \union {r}
  <2> DEFINE n == Len(disk.frames) + 1
  <2>1. /\ Len(disk'.frames) = n /\ disk'.frames[n] = r
        /\ \A k \in 1 .. Len(disk.frames) : disk'.frames[k] = disk.frames[k]
        /\ 1 .. n = (1 .. Len(disk.frames)) \union {n}
        /\ n \notin 1 .. Len(disk.frames)
    OBVIOUS
  <2> HIDE DEF n
  <2> QED BY <2>1
<1> QED BY <1>1, <1>2, <1>4, <1>5 DEF Intended

\* A sound record that becomes durable keeps the authority's part.
LEMMA CommitKeeps ==
    ASSUME AuthorityInv, NEW r \in Record, Sound(r),
           disk.frames \in Seq(Record), Recoverable(disk.frames),
           disk'.frames = Append(disk.frames, r), UNCHANGED entries
    PROVE  /\ Recoverable(disk'.frames)
           /\ EntriesInv' /\ AttemptsInv' /\ IntentInv' /\ KeysInv'
           /\ ParentsInv'
           /\ \A a, g : Intended(a, g) => Intended(a, g)'
           /\ r.kind = "dispatch_intent" => Intended(r.action, r.attempt)'
<1> DEFINE c == r.action
<1>1. /\ EntriesInv /\ AttemptsInv /\ IntentInv /\ KeysInv /\ ParentsInv
      /\ Applicable(Durable, Len(disk.frames), r)
      /\ c \in Actions /\ r.kind \in Kinds /\ r.attempt \in Nat
  BY DEF AuthorityInv, Sound, Record
<1>2. /\ Durable \in States /\ Durable' \in States
      /\ Durable'[c] = [phase |-> PhaseAfter(r.kind), attempt |-> r.attempt]
      /\ \A a \in Actions \ {c} : Durable'[a] = Durable[a]
      /\ \A a, g : Intended(a, g)' <=>
                     Intended(a, g) \/ r = RecordOf("dispatch_intent", a, g)
  BY Appended
<1>3. Recoverable(disk'.frames)
  BY <1>1, RecoverableAppend DEF Durable
<1> HIDE DEF Durable
<1>4. /\ Durable[c].attempt <= r.attempt
      /\ r.kind = "enqueued" =>
            Durable[c].phase = "free" /\ r.attempt = 0
      /\ r.kind = "dispatch_intent" => Durable[c].phase = "ready"
            /\ r.attempt = Durable[c].attempt + 1
      /\ r.kind \notin {"enqueued", "dispatch_intent"} =>
            Durable[c].phase = "uncertain" /\ r.attempt = Durable[c].attempt
  <2>1. Durable[c].attempt \in Nat
    BY <1>1, <1>2 DEF States
  <2>2. CASE r.kind = "enqueued"
    <3>1. Durable[c].phase = "free" /\ r.attempt = 0
      BY <1>1, <2>2 DEF Applicable, Enqueueable, Sound
    <3>2. Durable[c].attempt = 0
      BY <1>1, <1>2, <3>1, EntryCases
    <3> QED BY <2>2, <3>1, <3>2
  <2>3. CASE r.kind = "dispatch_intent"
    BY <1>1, <2>1, <2>3 DEF Applicable
  <2>4. CASE r.kind \notin {"enqueued", "dispatch_intent"}
    BY <1>1, <2>1, <2>4 DEF Applicable
  <2> QED BY <2>2, <2>3, <2>4
<1>5. EntriesInv'
  <2>1. ASSUME NEW a \in Actions \ {c} PROVE EntryInv(a)'
    <3>1. EntryInv(a)
      BY <1>1 DEF EntriesInv
    <3> QED BY <1>2, <3>1 DEF EntryInv
  <2>2. EntryInv(c)'
    <3>1. Durable'[c].phase = PhaseAfter(r.kind)
          /\ Durable'[c].attempt = r.attempt /\ entries' = entries
      BY <1>2
    <3>2. CASE r.kind = "enqueued"
      <4>1. entries[c] = Settled(0)
        BY <1>1, <1>2, <1>4, <3>2, EntryCases
      <4>2. PhaseAfter(r.kind) = "ready"
        BY <3>2 DEF PhaseAfter
      <4> QED BY <1>4, <3>1, <3>2, <4>1, <4>2 DEF EntryInv
    <3>3. CASE r.kind = "dispatch_intent"
      <4>1. entries[c] = Settled(Durable[c].attempt)
            /\ Durable[c].attempt \in Nat
        BY <1>1, <1>2, <1>4, <3>3, EntryCases
      <4>2. PhaseAfter(r.kind) = "uncertain"
        BY <3>3 DEF PhaseAfter
      <4>3. r.attempt > 0 /\ Durable[c].attempt = r.attempt - 1
        BY <1>4, <3>3, <4>1
      <4> QED BY <3>1, <4>1, <4>2, <4>3 DEF EntryInv
    <3>4. CASE r.kind \notin {"enqueued", "dispatch_intent"}
      <4>1. r.attempt > 0
        BY <1>1, <1>2, <1>4, <3>4, EntryCases
      <4>2. CASE r.kind = "ambiguity_observed"
        <5>1. PhaseAfter(r.kind) = "uncertain"
          BY <4>2 DEF PhaseAfter
        <5>2. EntryInv(c)
          BY <1>1 DEF EntriesInv
        <5> QED BY <1>4, <3>1, <3>4, <5>1, <5>2 DEF EntryInv
      <4>3. CASE r.kind = "reconciled_not_applied"
        <5>1. PhaseAfter(r.kind) = "ready"
          BY <4>3 DEF PhaseAfter
        <5>2. entries[c] = Settled(r.attempt)
          BY <4>3 DEF Sound
        <5> QED BY <3>1, <5>1, <5>2 DEF EntryInv
      <4>4. CASE r.kind \notin {"ambiguity_observed", "reconciled_not_applied"}
        <5>1. PhaseAfter(r.kind) \in {"succeeded", "failed"}
          BY <1>1, <3>4, <4>4, PhaseAfterType DEF Phases
        <5>2. entries[c] = Taken(PhaseAfter(r.kind), r.attempt)
          BY <5>1 DEF Sound
        <5> QED BY <3>1, <4>1, <5>1, <5>2 DEF EntryInv
      <4> QED BY <4>2, <4>3, <4>4
    <3> QED BY <3>2, <3>3, <3>4
  <2> QED BY <1>1, <2>1, <2>2 DEF EntriesInv
<1>6. AttemptsInv'
  <2>1. ASSUME NEW a \in Actions, NEW g \in Nat, Intended(a, g)'
        PROVE  1 <= g /\ g <= Durable'[a].attempt
    <3>1. Durable[a].attempt \in Nat /\ Durable'[a].attempt \in Nat
          /\ Durable[a].attempt <= Durable'[a].attempt
      <4>1. Durable[a].attempt \in Nat /\ Durable'[a].attempt \in Nat
        BY <1>2 DEF States
      <4>2. CASE a = c
        BY <1>2, <1>4, <4>1, <4>2
      <4>3. CASE a # c
        BY <1>2, <4>1, <4>3
      <4> QED BY <4>1, <4>2, <4>3
    <3>2. CASE Intended(a, g)
      <4>1. 1 <= g /\ g <= Durable[a].attempt
        BY <1>1, <3>2 DEF AttemptsInv
      <4> QED BY <3>1, <4>1
    <3>3. CASE r = RecordOf("dispatch_intent", a, g)
      <4>1. r.kind = "dispatch_intent" /\ c = a /\ r.attempt = g
        BY <3>3 DEF RecordOf
      <4>2. g = Durable[a].attempt + 1 /\ Durable'[a].attempt = g
        BY <1>2, <1>4, <4>1
      <4> QED BY <3>1, <4>2
    <3> QED BY <1>2, <2>1, <3>2, <3>3
  <2>2. ASSUME NEW a \in Actions, Durable'[a].phase = "uncertain"
        PROVE  Intended(a, Durable[a].attempt)'
    <3>1. CASE a # c
      BY <1>1, <1>2, <2>2, <3>1 DEF AttemptsInv
    <3>2. CASE a = c /\ r.kind = "dispatch_intent"
      <4>1. r = RecordOf("dispatch_intent", c, r.attempt)
        BY <3>2 DEF RecordOf, Record
      <4> QED BY <1>2, <3>2, <4>1
    <3>3. CASE a = c /\ r.kind # "dispatch_intent"
      <4>1. r.kind = "ambiguity_observed"
        BY <1>1, <1>2, <2>2, <3>3, PhaseAfterType
      <4>2. Durable[c].phase = "uncertain" /\ r.attempt = Durable[c].attempt
        BY <1>4, <4>1
      <4> QED BY <1>1, <1>2, <3>3, <4>2 DEF AttemptsInv
    <3> QED BY <3>1, <3>2, <3>3
  <2> QED BY <2>1, <2>2 DEF AttemptsInv
<1>7. IntentInv'
  <2>1. entries' = entries
    OBVIOUS
  <2> QED BY <1>1, <1>2, <2>1 DEF IntentInv
<1>8. KeysInv'
  BY <1>1 DEF KeysInv, Known
<1>9. ParentsInv'
  <2>1. ASSUME NEW a \in Actions, Durable'[a].phase # "free",
               ParentOf[a] # NoAction
        PROVE  Durable'[ParentOf[a]].phase = "succeeded"
    <3>1. Durable[ParentOf[a]].phase = "succeeded"
      <4>1. CASE Durable[a].phase # "free"
        BY <1>1, <2>1, <4>1 DEF ParentsInv
      <4>2. CASE Durable[a].phase = "free"
        <5>1. a = c /\ r.kind = "enqueued"
          BY <1>2, <1>4, <2>1, <4>2
        <5> QED BY <1>1, <2>1, <5>1 DEF Applicable, Enqueueable
      <4> QED BY <4>1, <4>2
    <3>2. ParentOf[a] \in Actions
      BY <2>1, RecordsAssumption
    <3>3. Durable[c].phase # "succeeded"
      BY <1>4
    <3> QED BY <1>2, <3>1, <3>2, <3>3
  <2> QED BY <2>1 DEF ParentsInv
<1>10. r.kind = "dispatch_intent" => Intended(c, r.attempt)'
  <2>1. r.kind = "dispatch_intent" =>
          r = RecordOf("dispatch_intent", c, r.attempt)
    BY DEF RecordOf, Record
  <2> QED BY <1>2, <2>1
<1> QED BY <1>2, <1>3, <1>5, <1>6, <1>7, <1>8, <1>9, <1>10

-----------------------------------------------------------------------------
(* The reserve.                                                            *)

\* How one record changes the number of uncertain actions.
LEMMA UncertainAfter ==
    ASSUME NEW D \in States, NEW c \in Actions, NEW v \in [phase : Phases,
                                                           attempt : Nat]
    PROVE  LET E == [D EXCEPT ![c] = v]
               u == Cardinality(Uncertain(D))
               w == Cardinality(Uncertain(E))
           IN  /\ u \in Nat
               /\ w = u + (IF v.phase = "uncertain" THEN 1 ELSE 0)
                        - (IF D[c].phase = "uncertain" THEN 1 ELSE 0)
<1> DEFINE E == [D EXCEPT ![c] = v]
           U == Uncertain(D)
           V == Uncertain(E)
<1>1. IsFiniteSet(U) /\ Cardinality(U) \in Nat
  <2>1. U \in SUBSET Actions
    BY DEF Uncertain
  <2>2. IsFiniteSet(U)
    BY <2>1, RecordsAssumption, FS_Subset
  <2> QED BY <2>2, FS_CardinalityType
<1>2. E[c] = v /\ \A b \in Actions \ {c} : E[b] = D[b]
  BY DEF States
<1>3. /\ c \in U <=> D[c].phase = "uncertain"
      /\ v.phase = "uncertain" => V = U \union {c}
      /\ v.phase # "uncertain" => V = U \ {c}
  BY <1>2 DEF Uncertain
<1>4. /\ Cardinality(U \union {c}) = IF c \in U THEN Cardinality(U)
                                                ELSE Cardinality(U) + 1
      /\ Cardinality(U \ {c}) = IF c \in U THEN Cardinality(U) - 1
                                           ELSE Cardinality(U)
  BY <1>1, FS_AddElement, FS_RemoveElement
<1> HIDE DEF E, U, V
<1>5. Cardinality(V) = Cardinality(U)
                         + (IF v.phase = "uncertain" THEN 1 ELSE 0)
                         - (IF D[c].phase = "uncertain" THEN 1 ELSE 0)
  <2> DEFINE n == Cardinality(U)
  <2>1. Cardinality(V) =
          IF v.phase = "uncertain"
          THEN IF D[c].phase = "uncertain" THEN n ELSE n + 1
          ELSE IF D[c].phase = "uncertain" THEN n - 1 ELSE n
    BY <1>3, <1>4
  <2>2. n \in Nat
    BY <1>1
  <2>3. Cardinality(V) = n + (IF v.phase = "uncertain" THEN 1 ELSE 0)
                           - (IF D[c].phase = "uncertain" THEN 1 ELSE 0)
    <3> HIDE DEF n
    <3>1. CASE v.phase = "uncertain"
      BY <2>1, <2>2, <3>1
    <3>2. CASE v.phase # "uncertain"
      BY <2>1, <2>2, <3>2
    <3> QED BY <3>1, <3>2
  <2> QED BY <2>3
<1> QED BY <1>1, <1>5 DEF E, U, V

\* The records a kind of event needs free, besides one per uncertain action:
\* its own, unless it settles one of them, and what it leaves uncertain.
Needs(kind) == CASE kind = "dispatch_intent" -> 3
                 [] kind \in {"enqueued", "ambiguity_observed"} -> 1
                 [] OTHER -> 0

\* A record that finds what it needs free leaves the reserve behind.
LEMMA ReserveLeft ==
    ASSUME NEW r \in Record, disk.frames \in Seq(Record),
           Applicable(Durable, Len(disk.frames), r),
           Cardinality(Uncertain(Durable)) + Needs(r.kind)
               <= MaxRecords - Len(disk.frames)
    PROVE  ReserveAfter(r)
<1> DEFINE c == r.action
           v == [phase |-> PhaseAfter(r.kind), attempt |-> r.attempt]
           u == Cardinality(Uncertain(Durable))
           w == Cardinality(Uncertain(Replay(Append(disk.frames, r))))
           free == MaxRecords - Len(disk.frames)
<1>1. r.kind \in Kinds /\ c \in Actions /\ r.attempt \in Nat
      /\ v \in [phase : Phases, attempt : Nat]
  BY PhaseAfterType DEF Record
<1>2. Durable \in States
  BY ReplayType DEF Durable
<1>3. Replay(Append(disk.frames, r)) = [Durable EXCEPT ![c] = v]
  BY ReplayAppend DEF Durable
<1>4. /\ u \in Nat
      /\ w = u + (IF PhaseAfter(r.kind) = "uncertain" THEN 1 ELSE 0)
               - (IF Durable[c].phase = "uncertain" THEN 1 ELSE 0)
  <2>1. v.phase = PhaseAfter(r.kind)
    OBVIOUS
  <2> HIDE DEF v, Durable
  <2> QED BY <1>1, <1>2, <1>3, <2>1, UncertainAfter
<1>5. free \in Int /\ MaxRecords - (Len(disk.frames) + 1) = free - 1
  BY RecordsAssumption
<1>6. u + Needs(r.kind) <= free
  OBVIOUS
<1> HIDE DEF u, w, free, Durable
<1>7. w + (IF r.kind = "dispatch_intent" THEN 1 ELSE 0) <= free - 1
  <2>1. CASE r.kind = "enqueued"
    <3>1. PhaseAfter(r.kind) # "uncertain" /\ Durable[c].phase # "uncertain"
          /\ Needs(r.kind) = 1
      BY <2>1 DEF PhaseAfter, Applicable, Enqueueable, Needs
    <3> QED BY <1>4, <1>5, <1>6, <2>1, <3>1
  <2>2. CASE r.kind = "dispatch_intent"
    <3>1. PhaseAfter(r.kind) = "uncertain" /\ Durable[c].phase # "uncertain"
          /\ Needs(r.kind) = 3
      BY <2>2 DEF PhaseAfter, Applicable, Needs
    <3> QED BY <1>4, <1>5, <1>6, <2>2, <3>1
  <2>3. CASE r.kind = "ambiguity_observed"
    <3>1. PhaseAfter(r.kind) = "uncertain" /\ Durable[c].phase = "uncertain"
          /\ Needs(r.kind) = 1
      BY <2>3 DEF PhaseAfter, Applicable, Needs
    <3> QED BY <1>4, <1>5, <1>6, <2>3, <3>1
  <2>4. CASE r.kind \notin {"enqueued", "dispatch_intent",
                            "ambiguity_observed"}
    <3>1. PhaseAfter(r.kind) # "uncertain"
      BY <1>1, <2>4, PhaseAfterType
    <3>2. Durable[c].phase = "uncertain" /\ Needs(r.kind) = 0
      BY <2>4 DEF Applicable, Needs
    <3> QED BY <1>4, <1>5, <1>6, <2>4, <3>1, <3>2
  <2> QED BY <2>1, <2>2, <2>3, <2>4
<1> QED BY <1>5, <1>7 DEF ReserveAfter, w

-----------------------------------------------------------------------------
(* Steps of the store.                                                     *)

\* What a step can do to journal and authority: one entry moves, or one
\* sound record becomes durable.
Forms == \/ disk'.frames = disk.frames /\ (EntryStep \/ UNCHANGED entries)
         \/ /\ UNCHANGED entries
            /\ \E r \in Record :
                 Sound(r) /\ disk'.frames = Append(disk.frames, r)

\* Whether the durable frames, and with them what they say, stay as they are:
\* then a record that is sound stays so, with or without a step of the
\* authority, and the authority's part is kept.
DurableKept == /\ Durable' = Durable
               /\ disk'.frames = disk.frames
               /\ \A r \in Record : Sound(r) => Sound(r)'

LEMMA FramesKept ==
    ASSUME AuthorityInv, ReserveInv, disk.frames \in Seq(Record),
           EntryStep \/ UNCHANGED entries, disk'.frames = disk.frames,
           CallInv', \A m \in Sent' : Intended(m.action, m.attempt),
           call' \in {call, NoCall}
    PROVE  DurableKept /\ AuthorityInv' /\ ReserveInv' /\ Forms
<1>1. /\ Durable' = Durable /\ Durable \in States
      /\ \A b, n : Intended(b, n)' <=> Intended(b, n)
  BY ReplayType DEF Durable, Intended
<1>2. /\ EntriesInv' /\ AttemptsInv' /\ IntentInv' /\ KeysInv' /\ ParentsInv'
      /\ \A r \in Record : Sound(r) => Sound(r)'
  <2>1. CASE EntryStep
    BY <1>1, <2>1, EntryStepKeeps
  <2>2. CASE UNCHANGED entries
    <3>1. /\ EntriesInv /\ AttemptsInv /\ IntentInv /\ KeysInv /\ ParentsInv
          /\ entries' = entries
      BY <2>2 DEF AuthorityInv
    <3>2. ASSUME NEW r \in Record, Sound(r) PROVE Sound(r)'
      <4>1. ReserveAfter(r)' <=> ReserveAfter(r)
        BY DEF ReserveAfter
      <4> HIDE DEF Durable
      <4> QED BY <1>1, <3>1, <3>2, <4>1 DEF Sound
    <3>3. EntriesInv'
      <4> HIDE DEF Durable
      <4> QED BY <1>1, <3>1 DEF EntriesInv, EntryInv
    <3>4. AttemptsInv' /\ IntentInv' /\ KeysInv' /\ ParentsInv'
      <4> HIDE DEF Durable
      <4> QED BY <1>1, <3>1
              DEF AttemptsInv, IntentInv, KeysInv, ParentsInv, Known
    <3> QED BY <3>2, <3>3, <3>4
  <2> QED BY <2>1, <2>2
<1>3. SentInv'
  BY <1>1 DEF SentInv
<1>4. ReserveInv'
  <2>1. (IF call' = NoCall THEN 0 ELSE 1) <= (IF call = NoCall THEN 0 ELSE 1)
        /\ (IF call' = NoCall THEN 0 ELSE 1) \in {0, 1}
    OBVIOUS
  <2>2. ASSUME KeepReserve
        PROVE  Cardinality(Uncertain(Durable))
                   + (IF call' = NoCall THEN 0 ELSE 1)
                 <= MaxRecords - Len(disk.frames)
    <3>1. Cardinality(Uncertain(Durable)) \in Nat
      <4>1. Uncertain(Durable) \in SUBSET Actions
        BY DEF Uncertain
      <4>2. IsFiniteSet(Uncertain(Durable))
        BY <4>1, RecordsAssumption, FS_Subset
      <4> QED BY <4>2, FS_CardinalityType
    <3>2. MaxRecords - Len(disk.frames) \in Int
      BY RecordsAssumption
    <3>3. Cardinality(Uncertain(Durable)) + (IF call = NoCall THEN 0 ELSE 1)
             <= MaxRecords - Len(disk.frames)
      BY <2>2 DEF ReserveInv
    <3> HIDE DEF Durable
    <3> QED BY <2>1, <3>1, <3>2, <3>3
  <2> HIDE DEF Durable
  <2> QED BY <1>1, <2>2 DEF ReserveInv
<1> QED BY <1>1, <1>2, <1>3, <1>4 DEF AuthorityInv, DurableKept, Forms

\* A step of driver, network or authority that leaves the store alone.
LEMMA StoreUntouched ==
    ASSUME StoreInv, DurableKept, UNCHANGED storeVars,
           call' # NoCall => call # NoCall
    PROVE  StoreInv'
<1>1. UNCHANGED <<file, disk, store, io, pending, log, states, receipted,
                  faults>>
  BY DEF storeVars
<1>2. StoreTypeOK' /\ Recoverable(disk.frames)'
  BY <1>1 DEF StoreInv, StoreTypeOK
<1>3. FileInv'
  BY <1>1 DEF StoreInv, FileInv, DurableKept
<1>4. store = "append_active" => Sound(pending)'
  <2>1. store = "append_active" => Sound(pending) /\ pending \in Record
    BY DEF StoreInv, Sound
  <2> QED BY <1>1, <2>1 DEF DurableKept
<1> HIDE DEF Durable
<1> QED BY <1>1, <1>2, <1>3, <1>4 DEF StoreInv, DurableKept

\* The start of an append, with a sound record.
LEMMA StartKeeps ==
    ASSUME StoreInv, DurableKept, NEW r \in Record, Sound(r)', startAppend(r),
           call' = NoCall
    PROVE  StoreInv'
<1>1. /\ store = "ready" /\ store' = "append_active"
      /\ io' = "body_write" /\ pending' = r
      /\ UNCHANGED <<file, disk, log, states, receipted, faults>>
      /\ file = disk
  BY DEF startAppend, StoreInv
<1>2. StoreTypeOK' /\ Recoverable(disk.frames)'
  BY <1>1 DEF StoreInv, StoreTypeOK
<1>3. FileInv'
  BY <1>1 DEF FileInv
<1>4. log' = disk'.frames /\ states' = Durable'
  <2> HIDE DEF Durable
  <2> QED BY <1>1 DEF StoreInv, DurableKept, Viewed
<1>5. Sound(pending)'
  BY <1>1
<1> HIDE DEF Durable
<1> QED BY <1>1, <1>2, <1>3, <1>4, <1>5
        DEF StoreInv, DurableKept, AppendSteps, RepairSteps

\* The writes and the sync of an append before its footer is durable.
LEMMA WriteKeeps ==
    ASSUME StoreInv, DurableKept, WriteStep, UNCHANGED call
    PROVE  StoreInv'
<1>1. /\ io \in AppendSteps \ {"footer_sync"} /\ store = "append_active"
      /\ pending \in Record /\ Sound(pending)
      /\ file.frames = disk.frames /\ call = NoCall
      /\ UNCHANGED <<store, pending, log, states, receipted, faults>>
      /\ io' \in AppendSteps
  BY DEF WriteStep, bodyWrite, bodySync, footerWrite, AppendSteps, StoreInv,
         FileInv, Sound
<1>2. Sound(pending)'
  BY <1>1 DEF DurableKept
<1>3. /\ log' = disk'.frames /\ states' = Durable'
      /\ Recoverable(disk'.frames)
      /\ receipted' \in Seq(Record) /\ Len(receipted') <= Len(disk'.frames)
      /\ receipted' = SubSeq(disk'.frames, 1, Len(receipted'))
  <2> HIDE DEF Durable
  <2> QED BY <1>1 DEF StoreInv, DurableKept, Viewed
<1>4. /\ "body" \in {Tails[n] : n \in 1 .. 4}
      /\ "none" \in {Tails[n] : n \in 1 .. 4}
  BY DEF Tails
<1>5. /\ file' \in [frames : Seq(Record), tail : {Tails[n] : n \in 1 .. 4}]
      /\ disk' \in [frames : Seq(Record), tail : {Tails[n] : n \in 1 .. 4}]
      /\ io' = "body_sync" => file'.tail = "body"
      /\ io' = "footer_write" => disk'.tail = "body"
      /\ FileInv'
      /\ io' = "footer_sync" => file'.frames = Append(disk'.frames, pending')
  <2>1. file \in [frames : Seq(Record), tail : {Tails[n] : n \in 1 .. 4}]
        /\ disk \in [frames : Seq(Record), tail : {Tails[n] : n \in 1 .. 4}]
    BY DEF StoreInv, StoreTypeOK
  <2>2. CASE bodyWrite
    <3>1. file' = [file EXCEPT !.tail = "body"] /\ io' = "body_sync"
          /\ disk' = disk
      BY <2>2 DEF bodyWrite
    <3>2. file'.frames = file.frames /\ file'.tail = "body"
          /\ file' \in [frames : Seq(Record), tail : {Tails[n] : n \in 1 .. 4}]
      BY <1>4, <2>1, <3>1
    <3> QED BY <1>1, <2>1, <3>1, <3>2 DEF FileInv
  <2>3. CASE bodySync
    <3>1. file' = file /\ io' = "footer_write" /\ disk' = file
          /\ io = "body_sync"
      BY <2>3 DEF bodySync
    <3>2. file.tail = "body"
      BY <3>1 DEF StoreInv
    <3> QED BY <1>1, <2>1, <3>1, <3>2 DEF FileInv
  <2>4. CASE footerWrite
    <3>1. /\ file' = Content(Append(file.frames, pending), "none")
          /\ io' = "footer_sync" /\ disk' = disk /\ disk.tail = "body"
      BY <2>4 DEF footerWrite, StoreInv
    <3>2. /\ file'.frames = Append(disk.frames, pending) /\ file'.tail = "none"
          /\ file' \in [frames : Seq(Record), tail : {Tails[n] : n \in 1 .. 4}]
      BY <1>1, <1>4, <2>1, <3>1 DEF Content
    <3> QED BY <1>1, <1>2, <2>1, <3>1, <3>2 DEF FileInv
  <2> QED BY <2>2, <2>3, <2>4 DEF WriteStep
<1>6. StoreTypeOK'
  BY <1>1, <1>5 DEF StoreInv, StoreTypeOK, AppendSteps
<1>7. (io' \in RepairSteps <=> store' = "repair_active")
      /\ (io' \in AppendSteps <=> store' = "append_active")
      /\ store' # "ready" /\ call' = NoCall
  BY <1>1 DEF AppendSteps, RepairSteps
<1> HIDE DEF Durable
<1> QED BY <1>2, <1>3, <1>5, <1>6, <1>7 DEF StoreInv

\* What reads the file or repairs its tail, without making a frame durable.
LEMMA RepairKeeps ==
    ASSUME StoreInv, DurableKept, UNCHANGED call,
           openIncomplete \/ startRepair \/ repairTruncate \/ repairSync
    PROVE  StoreInv'
<1> DEFINE File == [frames : Seq(Record), tail : {Tails[n] : n \in 1 .. 4}]
<1>1. /\ file \in File /\ disk \in File
      /\ "none" \in {Tails[n] : n \in 1 .. 4}
  BY DEF StoreInv, StoreTypeOK, Tails
<1>2. /\ store \in {"closed", "repair_required", "repair_active"}
      /\ store' \in {"repair_required", "repair_active", "repair_complete"}
      /\ file.frames = disk.frames /\ file'.frames = disk.frames
      /\ file' \in File /\ disk' \in File
      /\ UNCHANGED <<pending, receipted, faults>>
      /\ io' \in {"none", "repair_truncate", "repair_sync"}
      /\ io' \in RepairSteps <=> store' = "repair_active"
      /\ log' = disk.frames /\ states' = Durable
  <2>1. CASE openIncomplete
    <3>1. /\ store = "closed" /\ store' = "repair_required"
          /\ file.tail # "none" /\ io' = io
          /\ log' = file.frames /\ states' = Replay(file.frames)
          /\ UNCHANGED <<file, disk, pending, receipted, faults>>
      BY <2>1 DEF openIncomplete
    <3>2. file.frames = disk.frames
      BY <3>1 DEF StoreInv, FileInv
    <3>3. io = "none"
      BY <3>1 DEF StoreInv, StoreTypeOK, AppendSteps, RepairSteps
    <3> QED BY <1>1, <3>1, <3>2, <3>3 DEF Durable, RepairSteps
  <2>2. CASE startRepair
    <3>1. /\ store = "repair_required" /\ store' = "repair_active"
          /\ io' = "repair_truncate"
          /\ UNCHANGED <<file, disk, pending, log, states, receipted, faults>>
      BY <2>2 DEF startRepair
    <3>2. file.frames = disk.frames
      BY <3>1 DEF StoreInv, FileInv, AppendSteps
    <3>3. log = disk.frames /\ states = Durable
      BY <3>1 DEF StoreInv, Viewed
    <3> QED BY <1>1, <3>1, <3>2, <3>3 DEF RepairSteps
  <2>3. CASE repairTruncate
    <3>1. /\ io = "repair_truncate" /\ file' = [file EXCEPT !.tail = "none"]
          /\ io' = "repair_sync"
          /\ UNCHANGED <<disk, store, pending, log, states, receipted, faults>>
      BY <2>3 DEF repairTruncate
    <3>2. store = "repair_active"
      BY <3>1 DEF StoreInv, RepairSteps
    <3>3. file.frames = disk.frames
      BY <3>1, <3>2 DEF StoreInv, FileInv, AppendSteps
    <3>4. log = disk.frames /\ states = Durable
      BY <3>2 DEF StoreInv, Viewed
    <3>5. file'.frames = file.frames /\ file' \in File
      BY <1>1, <3>1
    <3> QED BY <1>1, <3>1, <3>2, <3>3, <3>4, <3>5 DEF RepairSteps
  <2>4. CASE repairSync
    <3>1. /\ io = "repair_sync" /\ disk' = file /\ file' = file
          /\ io' = "none" /\ store' = "repair_complete"
          /\ UNCHANGED <<pending, log, states, receipted, faults>>
      BY <2>4 DEF repairSync
    <3>2. store = "repair_active"
      BY <3>1 DEF StoreInv, RepairSteps
    <3>3. file.frames = disk.frames
      BY <3>1, <3>2 DEF StoreInv, FileInv, AppendSteps
    <3>4. log = disk.frames /\ states = Durable
      BY <3>2 DEF StoreInv, Viewed
    <3> QED BY <1>1, <3>1, <3>2, <3>3, <3>4 DEF RepairSteps
  <2> QED BY <2>1, <2>2, <2>3, <2>4
<1>3. disk'.frames = disk.frames /\ Durable' = Durable
  BY DEF DurableKept
<1>4. StoreTypeOK'
  <2>1. log' \in Seq(Record) /\ states' \in [Actions -> [phase : Phases,
                                                       attempt : Nat]]
    BY <1>1, <1>2, ReplayType DEF Durable, States
  <2> QED BY <1>2, <2>1 DEF StoreInv, StoreTypeOK
<1>5. FileInv'
  BY <1>2, <1>3 DEF FileInv
<1>6. call' = NoCall
  BY <1>2 DEF StoreInv
<1> HIDE DEF Durable
<1> QED BY <1>2, <1>3, <1>4, <1>5, <1>6 DEF StoreInv, AppendSteps

-----------------------------------------------------------------------------
(* Faults.                                                                 *)

File == [frames : Seq(Record), tail : {Tails[n] : n \in 1 .. 4}]

\* What is left of a write is the old frames with some tail, or the new file.
LEMMA PartialForms ==
    ASSUME NEW old \in File, NEW new \in File, NEW f \in Partial(old, new)
    PROVE  f \in File /\ (f.frames = old.frames \/ f = new)
<1> DEFINE T == {Tails[n] : n \in 1 .. 4}
<1>1. ASSUME NEW t \in T PROVE Rank(t) \in 1 .. 4
  <2>1. \E n \in 1 .. 4 : Tails[n] = t
    OBVIOUS
  <2> QED BY <2>1 DEF Rank
<1>2. ASSUME NEW t \in T, NEW u \in T PROVE Between(t, u) \subseteq T
  <2>1. Rank(t) \in 1 .. 4 /\ Rank(u) \in 1 .. 4
    BY <1>1
  <2>2. Rank(t) .. Rank(u) \subseteq 1 .. 4
    BY <2>1
  <2> QED BY <2>2 DEF Between
<1>3. "partial_footer" \in T
  BY DEF Tails
<1>4. old.tail \in T /\ new.tail \in T /\ old.frames \in Seq(Record)
  BY DEF File
<1>5. ASSUME NEW t \in T
      PROVE  /\ Content(old.frames, t) \in File
             /\ Content(old.frames, t).frames = old.frames
  BY <1>4 DEF Content, File
<1>6. \/ \E t \in T : f = Content(old.frames, t)
      \/ f = new
  <2> HIDE DEF T
  <2> QED BY <1>2, <1>3, <1>4 DEF Partial
<1> HIDE DEF T
<1> QED BY <1>5, <1>6

\* A file that extends the durable frames by at most one sound record, which
\* then completes a durable body.
Extends(f) == \/ f.frames = disk.frames
              \/ /\ f.tail = "none" /\ disk.tail = "body"
                 /\ \E r \in Record :
                      Sound(r) /\ f.frames = Append(disk.frames, r)

\* Whatever an interrupted operation leaves in the file is such a file.
LEMMA InterruptedForms ==
    ASSUME StoreInv, NEW f \in Interrupted
    PROVE  f \in File /\ Extends(f)
<1>1. file \in File /\ disk \in File /\ Extends(file)
  BY DEF StoreInv, StoreTypeOK, FileInv, Extends, File
<1>2. /\ "none" \in {Tails[n] : n \in 1 .. 4}
      /\ "body" \in {Tails[n] : n \in 1 .. 4}
  BY DEF Tails
<1>3. CASE io = "body_write"
  <2> DEFINE new == Content(file.frames, "body")
  <2>1. file.frames = disk.frames
    BY <1>3 DEF StoreInv, FileInv, AppendSteps
  <2>2. new \in File /\ new.frames = file.frames
    BY <1>1, <1>2 DEF Content, File
  <2>3. f \in Partial(file, new)
    BY <1>3 DEF Interrupted
  <2>4. f \in File /\ (f.frames = file.frames \/ f = new)
    <3> HIDE DEF new
    <3> QED BY <1>1, <2>2, <2>3, PartialForms
  <2> QED BY <2>1, <2>2, <2>4 DEF Extends
<1>4. CASE io = "footer_write"
  <2> DEFINE new == Content(Append(file.frames, pending), "none")
  <2>1. file.frames = disk.frames /\ disk.tail = "body" /\ Sound(pending)
        /\ pending \in Record
    BY <1>4 DEF StoreInv, FileInv, AppendSteps, Sound
  <2>2. new \in File /\ new.frames = Append(disk.frames, pending)
        /\ new.tail = "none"
    BY <1>1, <1>2, <2>1 DEF Content, File
  <2>3. f \in Partial(file, new)
    BY <1>4 DEF Interrupted
  <2>4. f \in File /\ (f.frames = file.frames \/ f = new)
    <3> HIDE DEF new
    <3> QED BY <1>1, <2>2, <2>3, PartialForms
  <2> QED BY <2>1, <2>2, <2>4 DEF Extends
<1>5. CASE io = "repair_truncate"
  <2>1. f = file \/ f = Content(file.frames, "none")
    BY <1>5 DEF Interrupted
  <2>2. file.frames = disk.frames
    <3>1. store = "repair_active"
      BY <1>5 DEF StoreInv, RepairSteps
    <3> QED BY <1>5, <3>1 DEF StoreInv, FileInv, AppendSteps
  <2> QED BY <1>1, <1>2, <2>1, <2>2 DEF Extends, Content, File
<1>6. CASE io \notin {"body_write", "footer_write", "repair_truncate"}
  BY <1>1, <1>6 DEF Interrupted
<1> QED BY <1>3, <1>4, <1>5, <1>6

\* Errors, deaths and closing leave the durable frames as they are.
LEMMA FaultKeeps ==
    ASSUME StoreInv, DurableKept, ioError \/ processDeath \/ close,
           call' = NoCall
    PROVE  StoreInv'
<1>1. /\ io' = "none" /\ store' \in {"poisoned", "closed"}
      /\ pending' = NoRecord /\ file' \in File /\ Extends(file')
      /\ UNCHANGED <<disk, receipted>> /\ faults' \in 0 .. MaxFaults
      /\ log' \in Seq(Record)
      /\ states' \in [Actions -> [phase : Phases, attempt : Nat]]
  <2>1. file \in Interrupted => file \in File /\ Extends(file)
    BY InterruptedForms
  <2>2. faults \in 0 .. MaxFaults /\ log \in Seq(Record) /\ file \in File
        /\ states \in [Actions -> [phase : Phases, attempt : Nat]]
    BY DEF StoreInv, StoreTypeOK, File
  <2>3. Fault => faults' \in 0 .. MaxFaults
    BY <2>2, StoreAssumption DEF Fault
  <2>4. <<>> \in Seq(Record) /\ Replay(<<>>) \in [Actions -> [phase : Phases,
                                                           attempt : Nat]]
    <3>1. <<>> \in Seq(Record)
      OBVIOUS
    <3> QED BY <3>1, ReplayType DEF States
  <2>5. CASE ioError
    BY <2>2, <2>3, <2>5, InterruptedForms DEF ioError
  <2>6. CASE processDeath
    BY <2>2, <2>3, <2>4, <2>6, InterruptedForms DEF processDeath, Forget
  <2>7. CASE close
    <3>1. Extends(file)
      BY DEF StoreInv, FileInv, Extends
    <3> QED BY <2>2, <2>4, <2>7, <3>1 DEF close, Forget
  <2> QED BY <2>5, <2>6, <2>7
<1>2. StoreTypeOK'
  BY <1>1 DEF StoreInv, StoreTypeOK, File
<1>3. FileInv'
  <2>1. \A r \in Record : Sound(r) => Sound(r)'
    BY DEF DurableKept
  <2> QED BY <1>1, <2>1 DEF Extends, FileInv
<1>4. store' \notin Viewed /\ store' # "ready" /\ io' \notin AppendSteps
      /\ io' \notin RepairSteps /\ store' # "append_active"
      /\ store' # "repair_active"
  BY <1>1 DEF Viewed, AppendSteps, RepairSteps
<1>5. /\ Recoverable(disk.frames)' /\ Len(receipted') <= Len(disk'.frames)
      /\ receipted' = SubSeq(disk'.frames, 1, Len(receipted'))
  BY <1>1 DEF StoreInv
<1> HIDE DEF Durable
<1> QED BY <1>1, <1>2, <1>3, <1>4, <1>5 DEF StoreInv

\* After a power loss the file is what is durable: the old frames, or one
\* sound record more.  No footer survives a body that was not synchronized.
LEMMA PowerLossForms ==
    ASSUME StoreInv, powerLoss
    PROVE  /\ file' = disk' /\ disk' \in File
           /\ \/ disk'.frames = disk.frames
              \/ \E r \in Record :
                   Sound(r) /\ disk'.frames = Append(disk.frames, r)
<1>1. disk \in File
  BY DEF StoreInv, StoreTypeOK, File
<1>2. file.frames # disk.frames => disk.tail = "body"
  BY DEF StoreInv, FileInv
<1>3. PICK f \in Interrupted : file' \in Partial(disk, f)
  BY <1>2 DEF powerLoss
<1>4. f \in File /\ Extends(f)
  BY InterruptedForms
<1>5. file' \in File /\ (file'.frames = disk.frames \/ file' = f)
  BY <1>1, <1>3, <1>4, PartialForms
<1>6. file' = disk'
  BY DEF powerLoss
<1> QED BY <1>4, <1>5, <1>6 DEF Extends

\* The receipts stay a beginning of the journal when it grows.
LEMMA ReceiptsStay ==
    ASSUME NEW old \in Seq(Record), NEW r \in Record, NEW held \in Seq(Record),
           Len(held) <= Len(old), held = SubSeq(old, 1, Len(held))
    PROVE  /\ Len(held) <= Len(Append(old, r))
           /\ held = SubSeq(Append(old, r), 1, Len(held))
<1> DEFINE k == Len(held)
           new == Append(old, r)
<1>1. k \in Nat /\ k <= Len(old) /\ Len(new) = Len(old) + 1
  OBVIOUS
<1>2. SubSeq(new, 1, k) = SubSeq(old, 1, k)
  BY <1>1
<1> QED BY <1>1, <1>2

\* The step that makes a record durable, seen from the store.
LEMMA CommitStore ==
    ASSUME StoreInv, NEW r \in Record, Sound(r), Recoverable(disk'.frames),
           disk'.frames = Append(disk.frames, r), file' = disk', disk' \in File,
           \/ (footerSync /\ r = pending)
           \/ openClean \/ (powerLoss /\ call' = NoCall)
    PROVE  StoreInv'
<1>1. /\ Durable' = [Durable EXCEPT ![r.action] =
                        [phase |-> PhaseAfter(r.kind), attempt |-> r.attempt]]
      /\ Durable' \in States /\ Durable' = Replay(disk'.frames)
      /\ disk.frames \in Seq(Record) /\ disk'.frames \in Seq(Record)
  <2>1. disk.frames \in Seq(Record)
    BY DEF StoreInv, StoreTypeOK
  <2>2. disk'.frames \in Seq(Record)
    BY DEF File
  <2> QED BY <2>1, <2>2, Appended DEF Durable
<1>2. /\ store' \in {"ready", "closed"} /\ io' = "none"
      /\ pending' \in Record \union {NoRecord}
      /\ faults' \in 0 .. MaxFaults
      /\ store' = "ready" => log' = disk'.frames /\ states' = Durable'
      /\ log' \in Seq(Record) /\ states' \in States
      /\ receipted' \in Seq(Record) /\ Len(receipted') <= Len(disk'.frames)
      /\ receipted' = SubSeq(disk'.frames, 1, Len(receipted'))
      /\ call' # NoCall => store' = "ready"
  <2> DEFINE whole == disk'.frames
  <2>0. whole = SubSeq(whole, 1, Len(whole)) /\ Len(whole) <= Len(whole)
    BY <1>1
  <2>1. CASE footerSync /\ r = pending
    <3>1. /\ store' = "ready" /\ io' = "none" /\ pending' = NoRecord
          /\ log' = Append(log, pending) /\ receipted' = log'
          /\ faults' = faults
          /\ states' = [states EXCEPT ![pending.action] =
                          [phase |-> PhaseAfter(pending.kind),
                           attempt |-> pending.attempt]]
          /\ io = "footer_sync"
      BY <2>1 DEF footerSync
    <3>2. log = disk.frames /\ states = Durable /\ faults \in 0 .. MaxFaults
      <4>1. store = "append_active"
        BY <3>1 DEF StoreInv, AppendSteps
      <4> QED BY <4>1 DEF StoreInv, Viewed, StoreTypeOK
    <3>3. log' = whole /\ states' = Durable'
      <4> HIDE DEF Durable
      <4> QED BY <1>1, <2>1, <3>1, <3>2
    <3> HIDE DEF Durable
    <3> QED BY <1>1, <2>0, <3>1, <3>2, <3>3
  <2>2. CASE openClean
    <3>1. /\ store' = "ready" /\ io' = io /\ pending' = pending
          /\ log' = file.frames /\ receipted' = file.frames /\ faults' = faults
          /\ states' = Replay(file.frames) /\ file' = file
          /\ store = "closed"
      BY <2>2 DEF openClean
    <3>2. io = "none" /\ pending \in Record \union {NoRecord}
          /\ faults \in 0 .. MaxFaults
      BY <3>1 DEF StoreInv, AppendSteps, RepairSteps, StoreTypeOK
    <3>3. log' = whole /\ states' = Durable' /\ receipted' = whole
      BY <1>1, <3>1
    <3> HIDE DEF Durable
    <3> QED BY <1>1, <2>0, <3>1, <3>2, <3>3
  <2>3. CASE powerLoss /\ call' = NoCall
    <3>1. /\ store' = "closed" /\ io' = "none" /\ pending' = NoRecord
          /\ log' = <<>> /\ states' = Replay(<<>>) /\ receipted' = receipted
          /\ Fault
      BY <2>3 DEF powerLoss, Forget
    <3>2. faults' \in 0 .. MaxFaults
      <4>1. faults \in 0 .. MaxFaults
        BY DEF StoreInv, StoreTypeOK
      <4> QED BY <3>1, <4>1, StoreAssumption DEF Fault
    <3>3. /\ receipted \in Seq(Record) /\ Len(receipted) <= Len(disk.frames)
          /\ receipted = SubSeq(disk.frames, 1, Len(receipted))
      BY DEF StoreInv
    <3>4. Len(receipted) <= Len(whole)
          /\ receipted = SubSeq(whole, 1, Len(receipted))
      BY <1>1, <3>3, ReceiptsStay
    <3>5. <<>> \in Seq(Record) /\ Replay(<<>>) \in States
      <4>1. <<>> \in Seq(Record)
        OBVIOUS
      <4> QED BY <4>1, ReplayType
    <3> QED BY <2>3, <3>1, <3>2, <3>3, <3>4, <3>5
  <2> QED BY <2>1, <2>2, <2>3
<1>3. StoreTypeOK'
  BY <1>2 DEF StoreTypeOK, File, States
<1>4. FileInv'
  BY DEF FileInv
<1> HIDE DEF Durable
<1> QED BY <1>2, <1>3, <1>4 DEF StoreInv, AppendSteps, RepairSteps, Viewed

\* The same steps when they find no new record.
LEMMA RecallStore ==
    ASSUME StoreInv, DurableKept, file' = disk', disk' \in File,
           openClean \/ (powerLoss /\ call' = NoCall)
    PROVE  StoreInv'
<1>1. /\ Durable' = Durable /\ disk'.frames = disk.frames
      /\ disk.frames \in Seq(Record) /\ Durable \in States
      /\ Durable = Replay(disk.frames)
  <2>1. disk.frames \in Seq(Record)
    BY DEF StoreInv, StoreTypeOK
  <2> QED BY <2>1, ReplayType DEF Durable, DurableKept
<1>2. /\ store' \in {"ready", "closed"} /\ io' = "none"
      /\ pending' \in Record \union {NoRecord}
      /\ faults' \in 0 .. MaxFaults
      /\ store' = "ready" => log' = disk'.frames /\ states' = Durable'
      /\ log' \in Seq(Record) /\ states' \in States
      /\ receipted' \in Seq(Record) /\ Len(receipted') <= Len(disk'.frames)
      /\ receipted' = SubSeq(disk'.frames, 1, Len(receipted'))
      /\ call' # NoCall => store' = "ready"
  <2> DEFINE whole == disk'.frames
  <2>0. whole = SubSeq(whole, 1, Len(whole)) /\ Len(whole) <= Len(whole)
    BY <1>1
  <2>1. CASE openClean
    <3>1. /\ store' = "ready" /\ io' = io /\ pending' = pending
          /\ log' = file.frames /\ receipted' = file.frames /\ faults' = faults
          /\ states' = Replay(file.frames) /\ file' = file
          /\ store = "closed"
      BY <2>1 DEF openClean
    <3>2. io = "none" /\ pending \in Record \union {NoRecord}
          /\ faults \in 0 .. MaxFaults
      BY <3>1 DEF StoreInv, AppendSteps, RepairSteps, StoreTypeOK
    <3>3. log' = whole /\ states' = Durable' /\ receipted' = whole
      BY <1>1, <3>1
    <3> HIDE DEF Durable
    <3> QED BY <1>1, <2>0, <3>1, <3>2, <3>3
  <2>2. CASE powerLoss /\ call' = NoCall
    <3>1. /\ store' = "closed" /\ io' = "none" /\ pending' = NoRecord
          /\ log' = <<>> /\ states' = Replay(<<>>) /\ receipted' = receipted
          /\ Fault
      BY <2>2 DEF powerLoss, Forget
    <3>2. faults' \in 0 .. MaxFaults
      <4>1. faults \in 0 .. MaxFaults
        BY DEF StoreInv, StoreTypeOK
      <4> QED BY <3>1, <4>1, StoreAssumption DEF Fault
    <3>3. /\ receipted \in Seq(Record) /\ Len(receipted) <= Len(disk.frames)
          /\ receipted = SubSeq(disk.frames, 1, Len(receipted))
      BY DEF StoreInv
    <3>4. <<>> \in Seq(Record) /\ Replay(<<>>) \in States
      <4>1. <<>> \in Seq(Record)
        OBVIOUS
      <4> QED BY <4>1, ReplayType
    <3> QED BY <1>1, <2>2, <3>1, <3>2, <3>3, <3>4
  <2> QED BY <2>1, <2>2
<1>3. StoreTypeOK'
  BY <1>2 DEF StoreTypeOK, File, States
<1>4. FileInv'
  BY DEF FileInv
<1>5. Recoverable(disk.frames)'
  BY <1>1 DEF StoreInv
<1> HIDE DEF Durable
<1> QED BY <1>2, <1>3, <1>4, <1>5
        DEF StoreInv, AppendSteps, RepairSteps, Viewed

-----------------------------------------------------------------------------
(* The steps of the outbox.                                                *)

\* A step that makes a sound record durable keeps the authority's part and
\* the reserve; if the record is an intent, its callback may start.
LEMMA CommitOutbox ==
    ASSUME AuthorityInv, NEW r \in Record, Sound(r),
           disk.frames \in Seq(Record), Recoverable(disk.frames),
           disk'.frames = Append(disk.frames, r), UNCHANGED entries, CallInv',
           \A m \in Sent' : \/ m \in Sent
                            \/ /\ r.kind = "dispatch_intent"
                               /\ m.action = r.action /\ m.attempt = r.attempt,
           call' # NoCall => r.kind = "dispatch_intent"
    PROVE  Recoverable(disk'.frames) /\ AuthorityInv' /\ ReserveInv'
           /\ Forms
<1>1. /\ Recoverable(disk'.frames)
      /\ EntriesInv' /\ AttemptsInv' /\ IntentInv' /\ KeysInv' /\ ParentsInv'
      /\ \A a, g : Intended(a, g) => Intended(a, g)'
      /\ r.kind = "dispatch_intent" => Intended(r.action, r.attempt)'
  BY CommitKeeps
<1>2. SentInv'
  <2>1. \A m \in Sent : Intended(m.action, m.attempt)
    BY DEF AuthorityInv, SentInv
  <2>2. ASSUME NEW m \in Sent' PROVE Intended(m.action, m.attempt)'
    BY <1>1, <2>1
  <2> QED BY <2>2 DEF SentInv
<1>3. ReserveInv'
  <2>1. ASSUME KeepReserve
        PROVE  Cardinality(Uncertain(Durable'))
                   + (IF call' = NoCall THEN 0 ELSE 1)
                 <= MaxRecords - Len(disk'.frames)
    <3> DEFINE w == Cardinality(Uncertain(Durable'))
               free == MaxRecords - Len(disk'.frames)
    <3>1. w + (IF r.kind = "dispatch_intent" THEN 1 ELSE 0) <= free
      BY <2>1 DEF Sound, ReserveAfter, Durable
    <3>2. w \in Nat
      <4>1. Uncertain(Durable') \in SUBSET Actions
        BY DEF Uncertain
      <4>2. IsFiniteSet(Uncertain(Durable'))
        BY <4>1, RecordsAssumption, FS_Subset
      <4> QED BY <4>2, FS_CardinalityType
    <3>3. free \in Int
      BY RecordsAssumption
    <3> HIDE DEF w, free
    <3>4. w + (IF call' = NoCall THEN 0 ELSE 1) <= free
      BY <3>1, <3>2, <3>3
    <3> QED BY <3>4 DEF w, free
  <2> HIDE DEF Durable
  <2> QED BY <2>1 DEF ReserveInv
<1> QED BY <1>1, <1>2, <1>3 DEF AuthorityInv, Forms

\* What the steps of the outbox find: a ready store shows the durable journal.
LEMMA Shown ==
    ASSUME OutboxInv
    PROVE  /\ StoreInv /\ AuthorityInv /\ ReserveInv
           /\ disk.frames \in Seq(Record) /\ Recoverable(disk.frames)
           /\ Durable \in States /\ EntriesInv /\ AttemptsInv
           /\ Readable => log = disk.frames /\ states = Durable
           /\ \A m \in Sent : Intended(m.action, m.attempt)
           /\ CallInv
<1>1. disk.frames \in Seq(Record)
  BY DEF OutboxInv, StoreInv, StoreTypeOK
<1>2. Durable \in States
  BY <1>1, ReplayType DEF Durable
<1>3. Readable => log = disk.frames /\ states = Durable
  <2> HIDE DEF Durable
  <2> QED BY DEF Readable, OutboxInv, StoreInv, Viewed
<1> HIDE DEF Durable
<1> QED BY <1>1, <1>2, <1>3
        DEF OutboxInv, StoreInv, AuthorityInv, SentInv

\* An enqueued action, and an intent, are sound.
LEMMA EnqueueStep ==
    ASSUME OutboxInv, NEW a \in Actions, enqueue(a) \/ dispatchReady(a)
    PROVE  OutboxInv' /\ Forms
<1>1. /\ call = NoCall /\ store = "ready" /\ UNCHANGED <<entries, call, wire>>
      /\ UNCHANGED disk
      /\ log = disk.frames /\ states = Durable
  <2>1. store = "ready" => Readable
    BY DEF Readable
  <2>2. call = NoCall /\ store = "ready" /\ UNCHANGED <<entries, call, wire>>
        /\ UNCHANGED disk
    BY DEF enqueue, dispatchReady, startAppend
  <2> HIDE DEF Durable
  <2> QED BY <2>1, <2>2, Shown
<1>2. /\ StoreInv /\ AuthorityInv /\ ReserveInv
      /\ disk.frames \in Seq(Record) /\ Durable \in States
      /\ CallInv /\ \A m \in Sent : Intended(m.action, m.attempt)
  BY Shown
<1>3. DurableKept /\ AuthorityInv' /\ ReserveInv' /\ Forms
  <2>1. Sent' = Sent /\ CallInv'
    BY <1>1, <1>2 DEF Sent, CallInv
  <2> QED BY <1>1, <1>2, <2>1, FramesKept
<1>4. \E r \in Record : Sound(r) /\ startAppend(r)
  <2>1. CASE enqueue(a)
    <3> DEFINE r == RecordOf("enqueued", a, 0)
    <3>1. r \in Record /\ r.kind = "enqueued" /\ r.attempt = 0
      BY DEF RecordOf, Record, Kinds
    <3>2. startAppend(r)
      BY <2>1 DEF enqueue
    <3>3. Applicable(Durable, Len(disk.frames), r)
      BY <1>1, <3>2 DEF startAppend
    <3>4. KeepReserve => ReserveAfter(r)
      <4>1. Needs(r.kind) = 1
        BY <3>1 DEF Needs
      <4>2. KeepReserve => Cardinality(Uncertain(Durable)) + 1
                              <= MaxRecords - Len(disk.frames)
        BY <1>1, <2>1 DEF enqueue, requireUncertainReserve
      <4> HIDE DEF r, Durable
      <4> QED BY <1>2, <3>1, <3>3, <4>1, <4>2, ReserveLeft
    <3>5. PhaseAfter(r.kind) = "ready" /\ r.kind # "reconciled_not_applied"
      BY <3>1 DEF PhaseAfter
    <3> HIDE DEF r
    <3> QED BY <3>1, <3>2, <3>3, <3>4, <3>5 DEF Sound
  <2>2. CASE dispatchReady(a)
    <3> DEFINE g == states[a].attempt + 1
               r == RecordOf("dispatch_intent", a, g)
    <3>0. g \in Nat
      <4> HIDE DEF Durable
      <4> QED BY <1>1, <1>2 DEF States
    <3>1. r \in Record /\ r.kind = "dispatch_intent"
      BY <3>0 DEF RecordOf, Record, Kinds
    <3>2. startAppend(r)
      BY <2>2 DEF dispatchReady
    <3>3. Applicable(Durable, Len(disk.frames), r)
      BY <1>1, <3>2 DEF startAppend
    <3>4. ReserveAfter(r)
      <4>1. Needs(r.kind) = 3
        BY <3>1 DEF Needs
      <4>2. Cardinality(Uncertain(Durable)) + 3 <= MaxRecords - Len(disk.frames)
        BY <1>1, <2>2 DEF dispatchReady, requireUncertainReserve
      <4> HIDE DEF r, Durable
      <4> QED BY <1>2, <3>1, <3>3, <4>1, <4>2, ReserveLeft
    <3>5. PhaseAfter(r.kind) = "uncertain"
      BY <3>1 DEF PhaseAfter
    <3> HIDE DEF r
    <3> QED BY <3>1, <3>2, <3>3, <3>4, <3>5 DEF Sound
  <2> QED BY <2>1, <2>2
<1>5. StoreInv'
  <2>1. PICK r \in Record : Sound(r) /\ startAppend(r)
    BY <1>4
  <2>2. Sound(r)'
    BY <1>3, <2>1 DEF DurableKept
  <2> QED BY <1>1, <1>2, <1>3, <2>1, <2>2, StartKeeps
<1> QED BY <1>3, <1>5 DEF OutboxInv

\* The append returns: its record is durable, an intent's callback starts.
LEMMA AppendStep ==
    ASSUME OutboxInv, appendReturns
    PROVE  OutboxInv' /\ Forms
<1>1. /\ StoreInv /\ AuthorityInv /\ ReserveInv
      /\ disk.frames \in Seq(Record) /\ Recoverable(disk.frames) /\ CallInv
  BY Shown
<1>2. /\ io = "footer_sync" /\ disk' = file /\ file' = file
      /\ footerSync /\ UNCHANGED <<entries, wire>>
      /\ call' = IF pending.kind = "dispatch_intent"
                 THEN Request("dispatch", pending.action, pending.attempt)
                 ELSE call
  BY DEF appendReturns, footerSync
<1>3. /\ store = "append_active" /\ Sound(pending) /\ pending \in Record
      /\ file.frames = Append(disk.frames, pending) /\ file \in File
      /\ call = NoCall
  <2>1. store = "append_active"
    BY <1>1, <1>2 DEF StoreInv, AppendSteps
  <2> QED BY <1>1, <1>2, <2>1 DEF StoreInv, Sound, StoreTypeOK, File
<1>4. CallInv'
  BY <1>1, <1>2, <1>3 DEF CallInv, Request, Record
<1>5. /\ call' # NoCall => pending.kind = "dispatch_intent"
      /\ \A m \in Sent' : \/ m \in Sent
                          \/ /\ pending.kind = "dispatch_intent"
                             /\ m.action = pending.action
                             /\ m.attempt = pending.attempt
  BY <1>2, <1>3 DEF Sent, Request
<1>6. Recoverable(disk'.frames) /\ AuthorityInv' /\ ReserveInv'
      /\ Forms
  <2> DEFINE r == pending
  <2>1. disk'.frames = Append(disk.frames, r) /\ r \in Record /\ Sound(r)
    BY <1>2, <1>3
  <2> HIDE DEF r
  <2> QED BY <1>1, <1>2, <1>4, <1>5, <2>1, CommitOutbox DEF r
<1>7. StoreInv'
  BY <1>1, <1>2, <1>3, <1>6, CommitStore
<1> QED BY <1>6, <1>7 DEF OutboxInv

\* The answer of a callback or a lookup about the uncertain attempt m of a is
\* a sound record, once the authority has given it.
LEMMA AnswerSound ==
    ASSUME OutboxInv, NEW a \in Actions, NEW m \in Nat, NEW kind \in Kinds,
           kind \notin {"enqueued", "dispatch_intent"},
           disk'.frames = disk.frames, Durable' = Durable,
           Applicable(Durable, Len(disk.frames), RecordOf(kind, a, m)),
           PhaseAfter(kind) \in {"succeeded", "failed"} =>
               entries'[a] = Taken(PhaseAfter(kind), m),
           kind = "reconciled_not_applied" => entries'[a] = Settled(m),
           Cardinality(Uncertain(Durable)) + Needs(kind)
               <= MaxRecords - Len(disk.frames) \/ ~KeepReserve
    PROVE  RecordOf(kind, a, m) \in Record /\ Sound(RecordOf(kind, a, m))'
<1> DEFINE r == RecordOf(kind, a, m)
<1>1. r \in Record /\ r.kind = kind /\ r.action = a /\ r.attempt = m
  BY DEF RecordOf, Record
<1>2. KeepReserve => ReserveAfter(r)
  <2>1. disk.frames \in Seq(Record)
    BY Shown
  <2> HIDE DEF r, Durable
  <2> QED BY <1>1, <2>1, ReserveLeft DEF r
<1>3. ReserveAfter(r)' <=> ReserveAfter(r)
  BY DEF ReserveAfter
<1> HIDE DEF Durable
<1>4. Sound(r)'
  <2> HIDE DEF r
  <2>1. Applicable(Durable', Len(disk'.frames), r)
    BY DEF r
  <2> QED BY <1>1, <1>2, <1>3, <2>1 DEF Sound
<1> QED BY <1>1, <1>4

\* The callback returns evidence.
LEMMA EvidenceStep ==
    ASSUME OutboxInv, dispatchReturns
    PROVE  OutboxInv' /\ Forms
<1>1. /\ StoreInv /\ AuthorityInv /\ ReserveInv
      /\ disk.frames \in Seq(Record) /\ Durable \in States
      /\ EntriesInv /\ AttemptsInv /\ CallInv
      /\ \A m \in Sent : Intended(m.action, m.attempt)
  BY Shown
<1>2. PICK evidence \in {"succeeded", "terminal_failure", "indeterminate",
                         "rejected_stale_generation"} :
        /\ dispatchCallback(call.action, call.attempt, evidence)
        /\ startAppend(RecordOf(transitionFromDispatch(evidence),
                                call.action, call.attempt))
  BY DEF dispatchReturns
<1>3. /\ call # NoCall /\ call' = NoCall /\ wire' = wire \union {call}
      /\ store = "ready" /\ UNCHANGED disk
  BY <1>2 DEF dispatchReturns, startAppend
<1>4. log = disk.frames /\ states = Durable
  <2> HIDE DEF Durable
  <2> QED BY <1>3, Shown DEF Readable
<1> DEFINE kind == transitionFromDispatch(evidence)
<1>5a. /\ call \in [op : {"dispatch"}, action : Actions, attempt : Nat]
       /\ call \in Sent
  BY <1>1, <1>3 DEF CallInv, Sent
<1>5b. PICK a \in Actions, m \in Nat : a = call.action /\ m = call.attempt
  BY <1>5a
<1>5. Intended(a, m)
  BY <1>1, <1>5a, <1>5b
<1>6. /\ evidence = "succeeded" => kind = "acknowledged_success"
      /\ evidence = "terminal_failure" => kind = "acknowledged_failure"
      /\ evidence \notin {"succeeded", "terminal_failure"} =>
           kind = "ambiguity_observed"
  BY DEF transitionFromDispatch
<1>7. /\ kind \in Kinds \ {"enqueued", "dispatch_intent"}
      /\ kind # "reconciled_not_applied"
      /\ kind = "acknowledged_success" => PhaseAfter(kind) = "succeeded"
      /\ kind = "acknowledged_failure" => PhaseAfter(kind) = "failed"
      /\ kind = "ambiguity_observed" => PhaseAfter(kind) = "uncertain"
  BY <1>6 DEF PhaseAfter, Kinds
<1>8. Applicable(Durable, Len(disk.frames), RecordOf(kind, a, m))
  BY <1>2, <1>4, <1>5b DEF startAppend
<1>9. Durable[a].phase = "uncertain" /\ Durable[a].attempt = m
  <2> HIDE DEF kind, Durable
  <2> QED BY <1>7, <1>8 DEF Applicable, RecordOf
<1>10. /\ EntryStep \/ UNCHANGED entries
       /\ evidence = "succeeded" => entries'[a] = Taken("succeeded", m)
       /\ evidence = "terminal_failure" => entries'[a] = Taken("failed", m)
  <2> HIDE DEF Durable
  <2> QED BY <1>1, <1>2, <1>5, <1>9, <1>5b, DispatchMoves
<1>11. PhaseAfter(kind) \in {"succeeded", "failed"} =>
          entries'[a] = Taken(PhaseAfter(kind), m)
  <2> HIDE DEF kind
  <2> QED BY <1>6, <1>7, <1>10
<1>12. KeepReserve => Cardinality(Uncertain(Durable)) + Needs(kind)
                         <= MaxRecords - Len(disk.frames)
  <2>1. Needs(kind) \in {0, 1}
    BY <1>7 DEF Needs
  <2>2. KeepReserve => Cardinality(Uncertain(Durable)) + 1
                          <= MaxRecords - Len(disk.frames)
    BY <1>1, <1>3 DEF ReserveInv
  <2>3. Cardinality(Uncertain(Durable)) \in Nat
        /\ MaxRecords - Len(disk.frames) \in Int
    <3>1. Uncertain(Durable) \in SUBSET Actions
      BY DEF Uncertain
    <3>2. IsFiniteSet(Uncertain(Durable))
      BY <3>1, RecordsAssumption, FS_Subset
    <3> QED BY <1>1, <3>2, FS_CardinalityType, RecordsAssumption
  <2> HIDE DEF kind, Durable
  <2> QED BY <2>1, <2>2, <2>3
<1>13. DurableKept /\ AuthorityInv' /\ ReserveInv' /\ Forms
  <2>1. Sent' \subseteq Sent /\ CallInv'
    BY <1>1, <1>3 DEF Sent, CallInv
  <2> QED BY <1>1, <1>3, <1>10, <2>1, FramesKept
<1>14. RecordOf(kind, a, m) \in Record /\ Sound(RecordOf(kind, a, m))'
  <2>1. Durable' = Durable /\ disk'.frames = disk.frames
    BY <1>13 DEF DurableKept
  <2> HIDE DEF kind, Durable
  <2> QED BY <1>5, <1>7, <1>8, <1>11, <1>12, <2>1, AnswerSound
<1>15. StoreInv'
  <2>1. startAppend(RecordOf(kind, a, m))
    BY <1>2, <1>5b
  <2> HIDE DEF kind
  <2> QED BY <1>1, <1>3, <1>13, <1>14, <2>1, StartKeeps
<1> QED BY <1>13, <1>15 DEF OutboxInv

\* A lookup gets a definite answer, which the driver starts to append.
LEMMA ReconcileStep ==
    ASSUME OutboxInv, NEW a \in Actions, reconcileUncertain(a)
    PROVE  OutboxInv' /\ Forms
<1>1. /\ StoreInv /\ AuthorityInv /\ ReserveInv
      /\ disk.frames \in Seq(Record) /\ Durable \in States
      /\ EntriesInv /\ AttemptsInv /\ CallInv
      /\ \A m \in Sent : Intended(m.action, m.attempt)
  BY Shown
<1>2. PICK disposition \in {"not_applied_fenced", "succeeded", "failed"} :
        /\ statusCallback(a, states[a].attempt, disposition)
        /\ startAppend(RecordOf(transitionFromStatus(disposition), a,
                                states[a].attempt))
  BY DEF reconcileUncertain
<1>3. /\ call = NoCall /\ UNCHANGED <<call, wire>>
      /\ store = "ready" /\ UNCHANGED disk
      /\ states[a].phase = "uncertain" /\ requireUncertainReserve(0)
  BY <1>2 DEF reconcileUncertain, startAppend
<1>4. log = disk.frames /\ states = Durable
  <2> HIDE DEF Durable
  <2> QED BY <1>3, Shown DEF Readable
<1> DEFINE kind == transitionFromStatus(disposition)
<1>5a. PICK m \in Nat : m = states[a].attempt
  <2> HIDE DEF Durable
  <2> QED BY <1>1, <1>4 DEF States
<1>5. Durable[a].phase = "uncertain" /\ Durable[a].attempt = m
      /\ Intended(a, m)
  <2> HIDE DEF Durable
  <2> QED BY <1>1, <1>3, <1>4, <1>5a DEF AttemptsInv
<1>6. /\ disposition = "succeeded" => kind = "reconciled_success"
      /\ disposition = "failed" => kind = "reconciled_failure"
      /\ disposition = "not_applied_fenced" => kind = "reconciled_not_applied"
  BY DEF transitionFromStatus
<1>7. /\ kind \in Kinds \ {"enqueued", "dispatch_intent"}
      /\ kind = "reconciled_success" => PhaseAfter(kind) = "succeeded"
      /\ kind = "reconciled_failure" => PhaseAfter(kind) = "failed"
      /\ kind = "reconciled_not_applied" => PhaseAfter(kind) = "ready"
  BY <1>6 DEF PhaseAfter, Kinds
<1>8. Applicable(Durable, Len(disk.frames), RecordOf(kind, a, m))
  BY <1>2, <1>4, <1>5a DEF startAppend
<1>9. /\ EntryStep \/ UNCHANGED entries
      /\ disposition = "not_applied_fenced" => entries'[a] = Settled(m)
      /\ disposition \in {"succeeded", "failed"} =>
            entries'[a] = Taken(disposition, m)
  <2>1. statusCallback(a, m, disposition)
    BY <1>2, <1>5a
  <2> HIDE DEF Durable
  <2> QED BY <1>1, <1>5, <2>1, StatusMoves
<1>10. /\ PhaseAfter(kind) \in {"succeeded", "failed"} =>
             entries'[a] = Taken(PhaseAfter(kind), m)
       /\ kind = "reconciled_not_applied" => entries'[a] = Settled(m)
  <2> HIDE DEF kind
  <2> QED BY <1>6, <1>7, <1>9
<1>11. Cardinality(Uncertain(Durable)) + Needs(kind)
          <= MaxRecords - Len(disk.frames)
  <2>1. Needs(kind) = 0
    BY <1>6, <1>7 DEF Needs
  <2> HIDE DEF kind, Durable
  <2> QED BY <1>3, <1>4, <2>1 DEF requireUncertainReserve
<1>12. DurableKept /\ AuthorityInv' /\ ReserveInv' /\ Forms
  <2>1. Sent' = Sent /\ CallInv'
    BY <1>1, <1>3 DEF Sent, CallInv
  <2> QED BY <1>1, <1>3, <1>9, <2>1, FramesKept
<1>13. RecordOf(kind, a, m) \in Record /\ Sound(RecordOf(kind, a, m))'
  <2>1. Durable' = Durable /\ disk'.frames = disk.frames
    BY <1>12 DEF DurableKept
  <2> HIDE DEF kind, Durable
  <2> QED BY <1>7, <1>8, <1>10, <1>11, <2>1, AnswerSound
<1>14. StoreInv'
  <2>1. startAppend(RecordOf(kind, a, m))
    BY <1>2, <1>5a
  <2> HIDE DEF kind
  <2> QED BY <1>1, <1>3, <1>12, <1>13, <2>1, StartKeeps
<1> QED BY <1>12, <1>14 DEF OutboxInv

\* The steps that leave the store alone: a callback that fails, a lookup in
\* vain, a request that arrives, an application that is finished.
LEMMA RemoteSteps ==
    ASSUME OutboxInv, UNCHANGED storeVars,
           EntryStep \/ UNCHANGED entries, CallInv', call' \in {call, NoCall},
           \A m \in Sent' : Intended(m.action, m.attempt)
    PROVE  OutboxInv' /\ Forms
<1>1. UNCHANGED disk
  BY DEF storeVars
<1>2. StoreInv /\ AuthorityInv /\ ReserveInv /\ disk.frames \in Seq(Record)
  BY Shown
<1>3. DurableKept /\ AuthorityInv' /\ ReserveInv' /\ Forms
  BY <1>1, <1>2, FramesKept
<1>4. StoreInv'
  BY <1>2, <1>3, StoreUntouched
<1> QED BY <1>3, <1>4 DEF OutboxInv

\* A dispatch that fails before its callback forgets the call; its request may
\* have left the process or not.
LEMMA FailsStep ==
    ASSUME OutboxInv, dispatchFails
    PROVE  OutboxInv' /\ Forms
<1>1. /\ UNCHANGED storeVars /\ UNCHANGED entries /\ call' = NoCall
      /\ call # NoCall /\ wire' \in {wire, wire \union {call}}
  BY DEF dispatchFails
<1>2. CallInv /\ \A m \in Sent : Intended(m.action, m.attempt)
  BY Shown
<1>3. CallInv' /\ Sent' \subseteq Sent
  BY <1>1, <1>2 DEF CallInv, Sent
<1> QED BY <1>1, <1>2, <1>3, RemoteSteps

\* A lookup without an answer leaves a request for a recorded attempt on the
\* wire.
LEMMA InVainStep ==
    ASSUME OutboxInv, NEW a \in Actions, reconcileInVain(a)
    PROVE  OutboxInv' /\ Forms
<1> DEFINE m == Request("status", a, states[a].attempt)
<1>1. /\ UNCHANGED storeVars /\ UNCHANGED entries /\ call' = call
      /\ wire' = wire \union {m} /\ Readable /\ states[a].phase = "uncertain"
  BY DEF reconcileInVain
<1>2. /\ CallInv /\ \A n \in Sent : Intended(n.action, n.attempt)
      /\ states = Durable /\ Durable \in States /\ AttemptsInv
  BY <1>1, Shown
<1>3. /\ m \in [op : {"dispatch", "status"}, action : Actions, attempt : Nat]
      /\ Intended(a, states[a].attempt) /\ m.action = a
      /\ m.attempt = states[a].attempt
  <2> HIDE DEF Durable
  <2> QED BY <1>1, <1>2 DEF Request, States, AttemptsInv
<1>4. CallInv' /\ Sent' = Sent \union {m}
  <2> HIDE DEF m
  <2> QED BY <1>1, <1>2, <1>3 DEF CallInv, Sent
<1>5. \A n \in Sent' : Intended(n.action, n.attempt)
  <2> HIDE DEF m
  <2> QED BY <1>2, <1>3, <1>4
<1> QED BY <1>1, <1>4, <1>5, RemoteSteps

\* A late request reaches the authority: its attempt was recorded when it was
\* sent, and records do not go away.
LEMMA DeliverStep ==
    ASSUME OutboxInv, NEW m \in wire, deliver(m)
    PROVE  OutboxInv' /\ Forms
<1>1. UNCHANGED storeVars /\ call' = call /\ wire' = wire
  BY DEF deliver
<1>2. /\ CallInv /\ \A n \in Sent : Intended(n.action, n.attempt)
      /\ EntriesInv /\ AttemptsInv /\ Durable \in States
  BY Shown
<1>3. m.action \in Actions /\ m.attempt \in Nat
      /\ Intended(m.action, m.attempt)
  BY <1>2 DEF CallInv, Sent
<1>4. EntryStep \/ UNCHANGED entries
  <2>1. CASE m.op = "dispatch" /\
             \E evidence \in {"succeeded", "terminal_failure",
                              "indeterminate"} :
               dispatchCallback(m.action, m.attempt, evidence)
    <3> HIDE DEF Durable
    <3> QED BY <1>2, <1>3, <2>1, DispatchMoves
  <2>2. CASE statusCallback(m.action, m.attempt, "not_applied_fenced")
    <3> HIDE DEF Durable
    <3> QED BY <1>2, <1>3, <2>2, StatusMoves
  <2> QED BY <2>1, <2>2 DEF deliver
<1>5. Sent' = Sent /\ CallInv'
  BY <1>1, <1>2 DEF Sent, CallInv
<1> QED BY <1>1, <1>2, <1>4, <1>5, RemoteSteps

\* The authority completes pending work by itself.
LEMMA CompleteStep ==
    ASSUME OutboxInv, NEW a \in Actions, complete(a)
    PROVE  OutboxInv' /\ Forms
<1>1. /\ UNCHANGED storeVars /\ call' = call /\ wire' = wire
      /\ completePending(a)
  BY DEF complete
<1>2. /\ CallInv /\ \A n \in Sent : Intended(n.action, n.attempt)
      /\ EntriesInv /\ Durable \in States
  BY Shown
<1>3. Sent' = Sent /\ CallInv'
  BY <1>1, <1>2 DEF Sent, CallInv
<1>4. EntryStep
  <2> HIDE DEF Durable
  <2> QED BY <1>1, <1>2, CompleteMoves
<1> QED BY <1>1, <1>2, <1>3, <1>4, RemoteSteps

\* A step of the store that keeps the durable frames keeps the invariant if
\* it keeps the store's part, and one that commits does so as well.
LEMMA KeepingStep ==
    ASSUME OutboxInv, disk'.frames = disk.frames, UNCHANGED entries,
           CallInv', Sent' \subseteq Sent, call' \in {call, NoCall}
    PROVE  DurableKept /\ AuthorityInv' /\ ReserveInv' /\ Forms
<1>1. /\ AuthorityInv /\ ReserveInv /\ disk.frames \in Seq(Record)
      /\ \A m \in Sent : Intended(m.action, m.attempt)
  BY Shown
<1> QED BY <1>1, FramesKept

\* The step that makes a record durable.
LEMMA CommittingStep ==
    ASSUME OutboxInv, NEW r \in Record, Sound(r),
           disk'.frames = Append(disk.frames, r), UNCHANGED entries,
           CallInv', Sent' \subseteq Sent, call' = NoCall
    PROVE  Recoverable(disk'.frames) /\ AuthorityInv' /\ ReserveInv'
           /\ Forms
<1>1. /\ AuthorityInv /\ disk.frames \in Seq(Record) /\ Recoverable(disk.frames)
  BY Shown
<1> QED BY <1>1, CommitOutbox

\* Reading, writing, repairing, failing and closing.
LEMMA StoreSteps ==
    ASSUME OutboxInv, StoreStep
    PROVE  OutboxInv' /\ Forms
<1>1. UNCHANGED <<entries, call, wire>>
  BY DEF StoreStep
<1>2. StoreInv /\ CallInv
  BY Shown
<1>3. CallInv' /\ Sent' = Sent
  BY <1>1, <1>2 DEF CallInv, Sent
<1>4. CASE WriteStep
  <2>1. disk'.frames = disk.frames
    <3>1. CASE bodySync
      <4>1. disk' = file /\ io = "body_sync"
        BY <3>1 DEF bodySync
      <4>2. file.frames = disk.frames
        BY <1>2, <4>1 DEF StoreInv, FileInv, AppendSteps
      <4> QED BY <4>1, <4>2
    <3>2. CASE bodyWrite \/ footerWrite
      BY <3>2 DEF bodyWrite, footerWrite
    <3> QED BY <1>4, <3>1, <3>2 DEF WriteStep
  <2>2. DurableKept /\ AuthorityInv' /\ ReserveInv' /\ Forms
    BY <1>1, <1>3, <2>1, KeepingStep
  <2>3. StoreInv'
    BY <1>1, <1>2, <1>4, <2>2, WriteKeeps
  <2> QED BY <2>2, <2>3 DEF OutboxInv
<1>5. CASE openIncomplete \/ startRepair \/ repairTruncate \/ repairSync
  <2>1. disk'.frames = disk.frames
    <3>1. CASE repairSync
      <4>1. disk' = file /\ io = "repair_sync"
        BY <3>1 DEF repairSync
      <4>2. store = "repair_active"
        BY <1>2, <4>1 DEF StoreInv, RepairSteps
      <4>3. file.frames = disk.frames
        BY <1>2, <4>1, <4>2 DEF StoreInv, FileInv
      <4> QED BY <4>1, <4>3
    <3>2. CASE openIncomplete \/ startRepair \/ repairTruncate
      BY <3>2 DEF openIncomplete, startRepair, repairTruncate
    <3> QED BY <1>5, <3>1, <3>2
  <2>2. DurableKept /\ AuthorityInv' /\ ReserveInv' /\ Forms
    BY <1>1, <1>3, <2>1, KeepingStep
  <2>3. StoreInv'
    BY <1>1, <1>2, <1>5, <2>2, RepairKeeps
  <2> QED BY <2>2, <2>3 DEF OutboxInv
<1>6. CASE openClean
  <2>1. /\ store = "closed" /\ file.tail = "none" /\ disk' = file
        /\ file' = file /\ file \in File
    BY <1>2, <1>6 DEF openClean, StoreInv, StoreTypeOK, File
  <2>2. call = NoCall
    BY <1>2, <2>1 DEF StoreInv
  <2>3. CASE file.frames = disk.frames
    <3>1. DurableKept /\ AuthorityInv' /\ ReserveInv' /\ Forms
      BY <1>1, <1>3, <2>1, <2>3, KeepingStep
    <3>2. StoreInv'
      BY <1>2, <1>6, <2>1, <3>1, RecallStore
    <3> QED BY <3>1, <3>2 DEF OutboxInv
  <2>4. CASE file.frames # disk.frames
    <3>1. PICK r \in Record :
            Sound(r) /\ file.frames = Append(disk.frames, r)
      BY <1>2, <2>4 DEF StoreInv, FileInv
    <3>2. Recoverable(disk'.frames) /\ AuthorityInv' /\ ReserveInv'
          /\ Forms
      BY <1>1, <1>3, <2>1, <2>2, <3>1, CommittingStep
    <3>3. StoreInv'
      BY <1>2, <1>6, <2>1, <3>1, <3>2, CommitStore
    <3> QED BY <3>2, <3>3 DEF OutboxInv
  <2> QED BY <2>3, <2>4
<1>7. CASE ioError \/ (call = NoCall /\ close)
  <2>1. disk' = disk
    BY <1>7 DEF ioError, close
  <2>2. call' = NoCall
    <3>1. ASSUME ioError PROVE call = NoCall
      <4>1. io # "none"
        BY <3>1 DEF ioError
      <4>2. store # "ready"
        BY <1>2, <4>1 DEF StoreInv, StoreTypeOK, AppendSteps, RepairSteps
      <4> QED BY <1>2, <4>2 DEF StoreInv
    <3> QED BY <1>1, <1>7, <3>1
  <2>3. DurableKept /\ AuthorityInv' /\ ReserveInv' /\ Forms
    BY <1>1, <1>3, <2>1, KeepingStep
  <2>4. StoreInv'
    BY <1>2, <1>7, <2>2, <2>3, FaultKeeps
  <2> QED BY <2>3, <2>4 DEF OutboxInv
<1> QED BY <1>4, <1>5, <1>6, <1>7 DEF StoreStep, OpenStep

\* The process dies, or power fails.
LEMMA CrashStep ==
    ASSUME OutboxInv, crash
    PROVE  OutboxInv' /\ Forms
<1>1. /\ UNCHANGED entries /\ call' = NoCall
      /\ wire' = wire \/ (call # NoCall /\ wire' = wire \union {call})
  BY DEF crash, Die
<1>2. StoreInv /\ CallInv
  BY Shown
<1>3. CallInv' /\ Sent' \subseteq Sent
  BY <1>1, <1>2 DEF CallInv, Sent
<1>4. CASE processDeath
  <2>1. disk' = disk
    BY <1>4 DEF processDeath
  <2>2. DurableKept /\ AuthorityInv' /\ ReserveInv' /\ Forms
    BY <1>1, <1>3, <2>1, KeepingStep
  <2>3. StoreInv'
    BY <1>1, <1>2, <1>4, <2>2, FaultKeeps
  <2> QED BY <2>2, <2>3 DEF OutboxInv
<1>5. CASE powerLoss
  <2>1. /\ file' = disk' /\ disk' \in File
        /\ \/ disk'.frames = disk.frames
           \/ \E r \in Record :
                Sound(r) /\ disk'.frames = Append(disk.frames, r)
    BY <1>2, <1>5, PowerLossForms
  <2>2. CASE disk'.frames = disk.frames
    <3>1. DurableKept /\ AuthorityInv' /\ ReserveInv' /\ Forms
      BY <1>1, <1>3, <2>2, KeepingStep
    <3>2. StoreInv'
      BY <1>1, <1>2, <1>5, <2>1, <3>1, RecallStore
    <3> QED BY <3>1, <3>2 DEF OutboxInv
  <2>3. CASE \E r \in Record :
               Sound(r) /\ disk'.frames = Append(disk.frames, r)
    <3>1. PICK r \in Record :
            Sound(r) /\ disk'.frames = Append(disk.frames, r)
      BY <2>3
    <3>2. Recoverable(disk'.frames) /\ AuthorityInv' /\ ReserveInv'
          /\ Forms
      BY <1>1, <1>3, <3>1, CommittingStep
    <3>3. StoreInv'
      BY <1>1, <1>2, <1>5, <2>1, <3>1, <3>2, CommitStore
    <3> QED BY <3>2, <3>3 DEF OutboxInv
  <2> QED BY <2>1, <2>2, <2>3
<1> QED BY <1>4, <1>5 DEF crash

\* The invariant holds at first.
LEMMA OutboxInitial ==
    ASSUME OutboxInit
    PROVE  OutboxInv
<1>1. /\ file = Content(<<>>, "none") /\ disk = file /\ store = "ready"
      /\ io = "none" /\ pending = NoRecord /\ log = <<>>
      /\ states = Replay(<<>>) /\ receipted = <<>> /\ faults = 0
      /\ entries = [a \in Actions |-> NoEntry] /\ call = NoCall /\ wire = {}
  BY DEF OutboxInit, StoreInit, AuthorityInit
<1>2. /\ disk.frames = <<>> /\ <<>> \in Seq(Record) /\ Len(disk.frames) = 0
      /\ Durable = [a \in Actions |-> FreeAction] /\ Durable \in States
      /\ "none" \in {Tails[n] : n \in 1 .. 4}
  <2>1. disk.frames = <<>>
    BY <1>1 DEF Content
  <2>2. <<>> \in Seq(Record) /\ Len(<<>>) = 0
    OBVIOUS
  <2>3. Replay(<<>>) \in States
    BY <2>2, ReplayType
  <2>4. "none" \in {Tails[n] : n \in 1 .. 4}
    BY DEF Tails
  <2> QED BY <2>1, <2>2, <2>3, <2>4, ReplayEmpty DEF Durable
<1>3. StoreInv
  <2>1. file \in File /\ disk \in File
    BY <1>1, <1>2 DEF Content, File
  <2>2. StoreTypeOK
    BY <1>1, <1>2, <2>1, StoreAssumption DEF StoreTypeOK, File, States, Durable
  <2>3. Recoverable(disk.frames)
    BY <1>2 DEF Recoverable
  <2>4. receipted \in Seq(Record) /\ Len(receipted) <= Len(disk.frames)
        /\ receipted = SubSeq(disk.frames, 1, Len(receipted))
    BY <1>1, <1>2
  <2>5. log = disk.frames /\ states = Durable /\ FileInv
    BY <1>1, <1>2 DEF FileInv, Durable
  <2> HIDE DEF Durable
  <2> QED BY <1>1, <2>2, <2>3, <2>4, <2>5
          DEF StoreInv, AppendSteps, RepairSteps
<1>4. AuthorityInv
  <2>1. CallInv /\ Sent = {}
    BY <1>1 DEF CallInv, Sent
  <2>2. EntriesInv
    <3>1. NoEntry \in Entry
      BY DEF NoEntry, Entry
    <3> HIDE DEF Durable
    <3> QED BY <1>1, <1>2, <3>1 DEF EntriesInv, EntryInv, FreeAction, Settled
  <2>3. \A a, g : ~Intended(a, g)
    BY <1>2 DEF Intended
  <2>4. AttemptsInv /\ SentInv /\ IntentInv /\ KeysInv /\ ParentsInv
    <3> HIDE DEF Durable
    <3> QED BY <1>1, <1>2, <2>1, <2>3
            DEF AttemptsInv, SentInv, IntentInv, KeysInv, ParentsInv, Known,
                NoEntry, FreeAction
  <2> QED BY <2>1, <2>2, <2>4 DEF AuthorityInv
<1>5. ReserveInv
  <2>1. Uncertain(Durable) = {}
    <3> HIDE DEF Durable
    <3> QED BY <1>2 DEF Uncertain, FreeAction
  <2>2. Cardinality(Uncertain(Durable)) = 0
    BY <2>1, FS_EmptySet
  <2> HIDE DEF Durable
  <2> QED BY <1>1, <1>2, <2>2, RecordsAssumption DEF ReserveInv
<1> QED BY <1>3, <1>4, <1>5 DEF OutboxInv

\* No step breaks it.
LEMMA OutboxInductive ==
    ASSUME OutboxInv, [OutboxNext]_outboxVars
    PROVE  OutboxInv' /\ Forms
<1>1. CASE StoreStep
  BY <1>1, StoreSteps
<1>2. CASE DriverStep
  <2>1. ASSUME NEW a \in Actions, enqueue(a) \/ dispatchReady(a)
        PROVE  OutboxInv' /\ Forms
    BY <2>1, EnqueueStep
  <2>2. ASSUME NEW a \in Actions, reconcileUncertain(a)
        PROVE  OutboxInv' /\ Forms
    BY <2>2, ReconcileStep
  <2>3. ASSUME NEW a \in Actions, reconcileInVain(a) PROVE OutboxInv' /\ Forms
    BY <2>3, InVainStep
  <2>4. CASE appendReturns
    BY <2>4, AppendStep
  <2>5. CASE dispatchReturns
    BY <2>5, EvidenceStep
  <2>6. CASE dispatchFails
    BY <2>6, FailsStep
  <2> QED BY <1>2, <2>1, <2>2, <2>3, <2>4, <2>5, <2>6 DEF DriverStep
<1>3. CASE RemoteStep
  <2>1. ASSUME NEW m \in wire, deliver(m) PROVE OutboxInv' /\ Forms
    BY <2>1, DeliverStep
  <2>2. ASSUME NEW a \in Actions, complete(a) PROVE OutboxInv' /\ Forms
    BY <2>2, CompleteStep
  <2> QED BY <1>3, <2>1, <2>2 DEF RemoteStep
<1>4. CASE crash
  BY <1>4, CrashStep
<1>5. CASE UNCHANGED outboxVars
  <2>1. UNCHANGED storeVars /\ UNCHANGED <<entries, call, wire>>
    BY <1>5 DEF outboxVars
  <2>2. CallInv /\ \A m \in Sent : Intended(m.action, m.attempt)
    BY Shown
  <2>3. CallInv' /\ Sent' = Sent
    BY <2>1, <2>2 DEF CallInv, Sent
  <2> QED BY <2>1, <2>2, <2>3, RemoteSteps
<1> QED BY <1>1, <1>2, <1>3, <1>4, <1>5 DEF OutboxNext

-----------------------------------------------------------------------------
(* Theorems.                                                               *)

\* The invariant of every behaviour of the outbox.
LEMMA OutboxInvariant == OutboxSpec => []OutboxInv
<1>1. OutboxInit => OutboxInv
  BY OutboxInitial
<1>2. OutboxInv /\ [OutboxNext]_outboxVars => OutboxInv'
  BY OutboxInductive
<1> QED BY <1>1, <1>2, PTL DEF OutboxSpec

\* Every variable keeps its shape; no frame that does not decode is ever in
\* the file or on disk (appendRecord synchronizes the body before it writes
\* the footer).
THEOREM JournalNeverTorn == OutboxSpec => []OutboxTypeOK
<1>1. OutboxInv => OutboxTypeOK
  BY DEF OutboxInv, StoreInv, AuthorityInv, EntriesInv, CallInv, Entry,
         OutboxTypeOK
<1> QED BY <1>1, OutboxInvariant, PTL

\* What states() shows a caller is what a power loss would leave, and what
\* open would find (openClean's sync, appendRecord's commit after the sync).
THEOREM CallersReadDurableState == OutboxSpec => []ViewIsDurable
<1>1. OutboxInv => ViewIsDurable
  <2>1. ASSUME OutboxInv, Readable
        PROVE  log = disk.frames /\ states = Replay(disk.frames)
    BY <2>1, Shown DEF Durable
  <2>2. OutboxInv => (store = "ready" => file = disk)
    BY DEF OutboxInv, StoreInv
  <2> QED BY <2>1, <2>2 DEF ViewIsDurable
<1> QED BY <1>1, OutboxInvariant, PTL

\* A record that a caller holds a receipt for stays in the journal.
THEOREM ReceiptsAreDurable == OutboxSpec => []ReceiptsKept
<1>1. OutboxInv => ReceiptsKept
  BY DEF OutboxInv, StoreInv, ReceiptsKept
<1> QED BY <1>1, OutboxInvariant, PTL

\* recoverV1 accepts the journal after any faults: every frame follows the
\* life cycle after those before it.
THEOREM AlwaysReopens == OutboxSpec => []Reopens
<1>1. ASSUME OutboxInv PROVE Reopens
  <2>1. disk.frames \in Seq(Record) /\ Recoverable(disk.frames) /\ FileInv
    BY <1>1, Shown DEF StoreInv
  <2>2. CASE file.frames = disk.frames
    BY <2>1, <2>2 DEF Reopens
  <2>3. CASE file.frames # disk.frames
    <3>1. PICK r \in Record :
            Sound(r) /\ file.frames = Append(disk.frames, r)
      BY <2>1, <2>3 DEF FileInv
    <3>2. Applicable(Replay(disk.frames), Len(disk.frames), r)
      BY <3>1 DEF Sound, Durable
    <3>3. Recoverable(Append(disk.frames, r))
      BY <2>1, <3>2, RecoverableAppend
    <3> QED BY <2>1, <3>1, <3>3 DEF Reopens
  <2> QED BY <2>2, <2>3
<1> QED BY <1>1, OutboxInvariant, PTL

\* No callback is made, and no attempt accepted or fenced, before its dispatch
\* intent is durable (dispatchReadyV1 appends before it calls).
THEOREM IntentBeforeEffect == OutboxSpec => []IntentFirst
<1>1. OutboxInv => IntentFirst
  BY DEF OutboxInv, AuthorityInv, SentInv, Sent, IntentInv, Intended,
         IntentFirst
<1> QED BY <1>1, OutboxInvariant, PTL

\* An action is ready again only when the authority has fenced its last
\* attempt and performed nothing (statusExisting's fence, however late the
\* delayed dispatch arrives).
THEOREM RetriesAreFenced == OutboxSpec => []RetryOnlyFenced
<1>1. ASSUME OutboxInv, NEW a \in Actions, Durable[a].phase = "ready",
             Durable[a].attempt # 0
      PROVE  /\ entries[a].phase = "fenced"
             /\ entries[a].fence = Durable[a].attempt
             /\ entries[a].applied = 0
  <2>1. EntriesInv /\ Durable \in States
    BY <1>1, Shown
  <2>2. entries[a] = Settled(Durable[a].attempt) /\ Durable[a].attempt \in Nat
    <3> HIDE DEF Durable
    <3> QED BY <1>1, <2>1, EntryCases
  <2> HIDE DEF Durable
  <2> QED BY <1>1, <2>2, EntryFields
<1>2. OutboxInv => RetryOnlyFenced
  <2> HIDE DEF Durable
  <2> QED BY <1>1 DEF RetryOnlyFenced
<1> QED BY <1>2, OutboxInvariant, PTL

\* What the ledger of effects sees of an action.
Outcome(a) == IF entries[a].phase \in {"succeeded", "failed"}
              THEN entries[a].phase ELSE "none"
Recorded(a) == IF Durable[a].phase \in {"succeeded", "failed"}
               THEN Durable[a].phase ELSE "open"
Done == [a \in Actions |-> Outcome(a)]
Written == [a \in Actions |-> Recorded(a)]

\* A step of the authority performs one action, or shows nothing.
LEMMA EntryEffect ==
    ASSUME OutboxInv, OutboxInv', EntryStep, disk'.frames = disk.frames
    PROVE  \/ \E a \in Actions : Effects!Perform(a)
           \/ UNCHANGED <<Done, Written>>
<1>1. /\ Durable' = Durable /\ EntriesInv /\ KeysInv' /\ ParentsInv
      /\ entries \in [Actions -> Entry] /\ entries' \in [Actions -> Entry]
  BY DEF Durable, OutboxInv, AuthorityInv, EntriesInv
<1>2. PICK a \in Actions : \E e :
        EntryMove(a, e) /\ entries' = [entries EXCEPT ![a] = e]
  BY DEF EntryStep
<1>3. PICK e : EntryMove(a, e) /\ entries' = [entries EXCEPT ![a] = e]
  BY <1>2
<1>4. PICK g \in Nat \ {0} : g = Durable[a].attempt
  BY <1>3 DEF EntryMove
<1> HIDE DEF Durable
<1>5. /\ Durable[a].phase = "uncertain" /\ g - 1 \in Nat
      /\ entries[a] = Settled(g - 1) \/ entries[a] = Taken("pending", g)
      /\ e \in {Settled(g)} \union {Taken(p, g) : p \in Outcomes}
  BY <1>3, <1>4 DEF EntryMove
<1>6. /\ entries'[a] = e
      /\ \A b \in Actions \ {a} : entries'[b] = entries[b]
  BY <1>1, <1>3
<1>7. Outcome(a) = "none" /\ entries[a].phase \notin {"succeeded", "failed"}
  <2>1. entries[a].phase \in {"none", "fenced", "pending"}
    BY <1>5, EntryFields DEF Outcomes
  <2> QED BY <2>1 DEF Outcome
<1>8. UNCHANGED Written
  BY <1>1 DEF Written, Recorded
<1>9. CASE e.phase \notin {"succeeded", "failed"}
  <2>1. \A b \in Actions : Outcome(b)' = Outcome(b)
    BY <1>6, <1>7, <1>9 DEF Outcome
  <2> QED BY <1>8, <2>1 DEF Done
<1>10. CASE e.phase \in {"succeeded", "failed"}
  <2>1. Done' = [Done EXCEPT ![a] = e.phase]
    <3>1. Outcome(a)' = e.phase
      BY <1>6, <1>10 DEF Outcome
    <3>2. \A b \in Actions \ {a} : Outcome(b)' = Outcome(b)
      BY <1>6 DEF Outcome
    <3> QED BY <3>1, <3>2 DEF Done
  <2>2. ASSUME NEW b \in Actions, KeyOf[b] = KeyOf[a]
        PROVE  Outcome(b) = "none"
    <3>1. CASE b = a
      BY <1>7, <3>1
    <3>2. CASE b # a
      <4>1. Known(a)'
        BY <1>6, <1>10 DEF Known
      <4>2. ~(Known(b)')
        BY <1>1, <2>2, <3>2, <4>1 DEF KeysInv
      <4>3. entries[b].phase = "none"
        BY <1>6, <3>2, <4>2 DEF Known
      <4> QED BY <4>3 DEF Outcome
    <3> QED BY <3>1, <3>2
  <2>3. ASSUME ParentOf[a] # NoAction
        PROVE  ParentOf[a] \in Actions /\ Recorded(ParentOf[a]) = "succeeded"
    <3>1. ParentOf[a] \in Actions
      BY <2>3, RecordsAssumption
    <3>2. Durable[ParentOf[a]].phase = "succeeded"
      BY <1>1, <1>5, <2>3 DEF ParentsInv
    <3> QED BY <3>1, <3>2 DEF Recorded
  <2>4. Effects!Perform(a)
    <3>1. /\ Done[a] = "none"
          /\ \A b \in Actions : KeyOf[b] = KeyOf[a] => Done[b] = "none"
          /\ ParentOf[a] # NoAction => Written[ParentOf[a]] = "succeeded"
      BY <1>7, <2>2, <2>3 DEF Done, Written
    <3> QED BY <1>8, <1>10, <2>1, <3>1
            DEF Effects!Perform, Done, Written, Outcome, Recorded
  <2> QED BY <2>4
<1> QED BY <1>9, <1>10

\* A record that becomes durable notes what was done, or shows nothing.
LEMMA RecordEffect ==
    ASSUME OutboxInv, UNCHANGED entries, NEW r \in Record, Sound(r),
           disk'.frames = Append(disk.frames, r)
    PROVE  \/ \E a \in Actions : Effects!Note(a)
           \/ UNCHANGED <<Done, Written>>
<1> DEFINE a == r.action
           phase == PhaseAfter(r.kind)
<1>1. a \in Actions /\ r.kind \in Kinds /\ r.attempt \in Nat
      /\ Applicable(Durable, Len(disk.frames), r)
  BY DEF Record, Sound
<1>2. /\ Durable \in States
      /\ Durable'[a] = [phase |-> phase, attempt |-> r.attempt]
      /\ \A b \in Actions \ {a} : Durable'[b] = Durable[b]
  <2>1. disk.frames \in Seq(Record)
    BY Shown
  <2> QED BY <2>1, Appended
<1>3. UNCHANGED Done
  BY DEF Done, Outcome
<1> HIDE DEF Durable
<1>4. Recorded(a) = "open"
  <2>1. Durable[a].phase \in {"free", "ready", "uncertain"}
    BY <1>1 DEF Applicable, Enqueueable
  <2> QED BY <2>1 DEF Recorded
<1>5. \A b \in Actions \ {a} : Recorded(b)' = Recorded(b)
  BY <1>2 DEF Recorded
<1>6. CASE phase \in {"succeeded", "failed"}
  <2>1. Written' = [Written EXCEPT ![a] = phase]
    <3>1. Recorded(a)' = phase
      BY <1>2, <1>6 DEF Recorded
    <3> HIDE DEF a, phase
    <3> QED BY <1>1, <1>5, <3>1 DEF Written
  <2>2. Outcome(a) = phase
    <3>1. entries[a] = Taken(phase, r.attempt)
      BY <1>6 DEF Sound
    <3>2. entries[a].phase = phase
      BY <1>1, <1>6, <3>1, EntryFields DEF Outcomes
    <3> QED BY <1>6, <3>2 DEF Outcome
  <2>3. /\ Written[a] = "open" /\ Done[a] # "none"
        /\ Written' = [Written EXCEPT ![a] = Done[a]]
    BY <1>1, <1>4, <1>6, <2>1, <2>2 DEF Written, Done
  <2>4. Effects!Note(a)
    <3> HIDE DEF a, phase
    <3> QED BY <1>3, <2>3
            DEF Effects!Note, Done, Written, Outcome, Recorded
  <2> QED BY <1>1, <2>4
<1>7. CASE phase \notin {"succeeded", "failed"}
  <2>1. Recorded(a)' = "open"
    BY <1>2, <1>7 DEF Recorded
  <2>2. \A b \in Actions : Recorded(b)' = Recorded(b)
    BY <1>4, <1>5, <2>1
  <2> QED BY <1>3, <2>2 DEF Written
<1> QED BY <1>6, <1>7

\* Outbox and authority together perform an action at most once per key, a
\* compensation only after a recorded success, and record what happened: they
\* implement the ledger of effects.
THEOREM EffectsAreLedgered == OutboxSpec => ImplementsEffects
<1>1. OutboxInit => Effects!Init
  <2> SUFFICES ASSUME OutboxInit PROVE Effects!Init
    OBVIOUS
  <2>1. /\ entries = [a \in Actions |-> NoEntry]
        /\ Durable = [a \in Actions |-> FreeAction]
    BY ReplayEmpty DEF OutboxInit, StoreInit, AuthorityInit, Durable, Content
  <2> HIDE DEF Durable
  <2> QED BY <2>1 DEF Effects!Init, NoEntry, FreeAction
<1>2. OutboxInv /\ OutboxInv' /\ [OutboxNext]_outboxVars
        => [Effects!Next]_(Effects!ledgerVars)
  <2> SUFFICES ASSUME OutboxInv, OutboxInv', [OutboxNext]_outboxVars
               PROVE  \/ \E a \in Actions :
                             Effects!Perform(a) \/ Effects!Note(a)
                      \/ UNCHANGED <<Done, Written>>
    BY DEF Effects!Next, Effects!ledgerVars, Done, Written, Outcome,
           Recorded
  <2>1. Forms
    BY OutboxInductive
  <2>2. CASE disk'.frames = disk.frames /\ EntryStep
    BY <2>2, EntryEffect
  <2>3. CASE disk'.frames = disk.frames /\ UNCHANGED entries
    <3>1. Durable' = Durable
      BY <2>3 DEF Durable
    <3> HIDE DEF Durable
    <3> QED BY <2>3, <3>1 DEF Done, Written, Outcome, Recorded
  <2>4. CASE UNCHANGED entries /\ \E r \in Record :
               Sound(r) /\ disk'.frames = Append(disk.frames, r)
    BY <2>4, RecordEffect
  <2> QED BY <2>1, <2>2, <2>3, <2>4 DEF Forms
<1> QED BY <1>1, <1>2, OutboxInvariant, PTL
        DEF OutboxSpec, ImplementsEffects, Effects!Spec

\* If callers enqueue only into spare records, an uncertain action can always
\* be settled: requireUncertainReserve never lets the journal fill up, not
\* even while a callback's observation is outstanding.
THEOREM ReserveIsHeld ==
    ASSUME KeepReserve
    PROVE  OutboxSpec => []ReserveHeld
<1>1. ASSUME OutboxInv, store = "ready"
      PROVE  Cardinality(Uncertain(states)) + (IF call = NoCall THEN 0 ELSE 1)
               <= MaxRecords - Len(log)
  <2>1. log = disk.frames /\ states = Durable /\ ReserveInv
    BY <1>1, Shown DEF Readable
  <2> HIDE DEF Durable
  <2> QED BY <2>1 DEF ReserveInv
<1>2. OutboxInv => ReserveHeld
  BY <1>1 DEF ReserveHeld
<1> QED BY <1>2, OutboxInvariant, PTL
=============================================================================
