----------------------- MODULE ContinuationProofs -----------------------------
(***************************************************************************)
(* Theorems about the continuation objects.  The first part is the sweep   *)
(* of retired objects, for any store, any caller, any number of leases,    *)
(* failed calls and crashes and any bounds of the log: what a writer       *)
(* reported durable survives, no payload goes before its record, and none  *)
(* that a caller still holds.  The last rests on the invariant of the      *)
(* store itself, whose theorems are the second part: its counters repeat   *)
(* its slots, whatever was called, and it counts the references its        *)
(* callers were told of.  The third part is the file of the payloads.      *)
(*                                                                         *)
(* Storage is more than the records its users see: a truncation that was   *)
(* not synced may be undone, a crash may keep half a footer, and handles   *)
(* of old leases go on calling.  The invariant therefore speaks of units,  *)
(* not of records: a chain is laid in the backing when each of its units   *)
(* stands at its place.  The stream is always laid whole but for a tail    *)
(* shorter than a record, and so is everything that somebody relies on.    *)
(***************************************************************************)
EXTENDS ObjectSweep, PayloadFile, FiniteSums

-----------------------------------------------------------------------------
(* The inductive invariant.                                                *)

\* A sequence of whatever values.
IsChain(c) == \E S : c \in Seq(S)

\* The records of chain c are the first ones of stream s, unit by unit.
RecordAt(s, c, n) ==
    \A k \in 1..ENCODED : s[ENCODED * (n - 1) + k] = <<SubSeq(c, 1, n), k>>
Laid(s, c) == \A n \in 1..Len(c) : RecordAt(s, c, n)

Records(n) == n \div ENCODED
HandleFields == {"role", "pc", "snap", "chain", "next"}
Appending == {"body_sync", "footer_write", "footer_sync"}

\* Lengths, generations and handles.
LogShape ==
    /\ IsChain(backing)
    /\ length \in 0..Len(backing)
    /\ synced \in 0..Len(backing)
    /\ next_generation \in Nat \ {0}
    /\ active \in Nat /\ active < next_generation
    /\ DOMAIN handles = Generations
    /\ \A g \in Generations :
           /\ DOMAIN handles[g] = HandleFields
           /\ active = g => handles[g].role # "none"

\* The stream is whole records of one chain and a shorter tail.
StreamWhole ==
    \E c : IsChain(c) /\ Len(c) = Records(length) /\ Laid(backing, c)

\* What was synced ends before the record after the stream's last.
SyncedNear == synced < ENCODED * Records(length) + ENCODED

\* The acknowledged records are in the stream and synced.
AckedSafe ==
    /\ IsChain(acked)
    /\ Laid(backing, acked)
    /\ ENCODED * Len(acked) <= length
    /\ ENCODED * Len(acked) <= synced

\* The records of the stream a lease showed are still there; the lease in
\* force showed the very stream it works on.
SnapSound(g) ==
    LET h == handles[g]
    IN  h.role # "none" =>
            /\ IsChain(h.snap)
            /\ Records(Len(h.snap)) <= Records(length)
            /\ \A p \in 1..(ENCODED * Records(Len(h.snap))) :
                   h.snap[p] = backing[p]
            /\ active = g =>
                   /\ Len(h.snap) <= Len(backing)
                   /\ h.snap = SubSeq(backing, 1, Len(h.snap))
                   /\ h.role # "repairer" => Len(h.snap) <= length

\* What a writer in the middle of an append relies on.
AppendSound(g) ==
    LET h == handles[g]
    IN  h.pc \in Appending =>
            /\ h.role = "writer"
            /\ IsChain(h.chain) /\ IsChain(h.next)
            /\ Len(h.next) = Len(h.chain) + 1
            /\ SubSeq(h.next, 1, Len(h.chain)) = h.chain
            /\ (active = g /\ expected_phase = h.pc) =>
                   /\ Laid(backing, h.chain)
                   /\ IF h.pc = "footer_sync"
                      THEN /\ Laid(backing, h.next)
                           /\ length = ENCODED * Len(h.next)
                      ELSE /\ length = ENCODED * Len(h.chain) + BODY
                           /\ \A k \in 1..BODY :
                                  backing[ENCODED * Len(h.chain) + k] =
                                      <<h.next, k>>

\* The position of a writer before an append, and after one.
PositionSound(g) ==
    LET h == handles[g]
    IN  /\ h.role = "writer" /\ h.pc = "ready" =>
               IsChain(h.chain) /\ (active = g => Laid(backing, h.chain))
        /\ h.pc = "published" =>
               /\ IsChain(h.chain)
               /\ Laid(backing, h.chain)
               /\ Len(h.chain) <= Len(acked)

HandleSound(g) == SnapSound(g) /\ AppendSound(g) /\ PositionSound(g)

LogInv ==
    /\ LogShape
    /\ StreamWhole /\ SyncedNear /\ AckedSafe
    /\ \A g \in Generations : HandleSound(g)

\* Every record that freed is in the stream, and acknowledged when the call
\* that freed had published it.
FreedLogged ==
    \A f \in freed :
        /\ IsChain(f.chain)
        /\ Laid(backing, f.chain)
        /\ ENCODED * Len(f.chain) <= length
        /\ f.how = "published" => Len(f.chain) <= Len(acked)

SweepInv == LogInv /\ FreedLogged

-----------------------------------------------------------------------------
(* Chains and the streams they are laid in.                                *)

\* A chain and a value make a longer chain that begins with the old one.
LEMMA ChainAppend ==
    ASSUME NEW c, IsChain(c), NEW v
    PROVE  /\ IsChain(Append(c, v))
           /\ Len(Append(c, v)) = Len(c) + 1
           /\ \A n \in 1..Len(c) : SubSeq(Append(c, v), 1, n) = SubSeq(c, 1, n)
           /\ SubSeq(Append(c, v), 1, Len(c) + 1) = Append(c, v)
<1>1. PICK S : c \in Seq(S)
  BY DEF IsChain
<1>2. Append(c, v) \in Seq(S \cup {v})
  BY <1>1
<1> QED BY <1>1, <1>2 DEF IsChain

\* The first elements of a chain.
LEMMA ChainFirst ==
    ASSUME NEW c, IsChain(c), NEW n \in 0..Len(c)
    PROVE  /\ Len(c) \in Nat
           /\ IsChain(SubSeq(c, 1, n))
           /\ Len(SubSeq(c, 1, n)) = n
           /\ \A m \in 0..n : SubSeq(SubSeq(c, 1, n), 1, m) = SubSeq(c, 1, m)
           /\ \A m \in 1..n : SubSeq(c, 1, n)[m] = c[m]
           /\ SubSeq(c, 1, 0) = <<>>
           /\ SubSeq(c, 1, Len(c)) = c
<1>1. PICK S : c \in Seq(S)
  BY DEF IsChain
<1>2. SubSeq(c, 1, n) \in Seq(S) /\ Len(SubSeq(c, 1, n)) = n
  BY <1>1
<1>3. SubSeq(c, 1, 0) = <<>> /\ SubSeq(c, 1, Len(c)) = c
  BY <1>1
<1>4. \A m \in 0..n : SubSeq(SubSeq(c, 1, n), 1, m) = SubSeq(c, 1, m)
  BY <1>1, <1>2
<1> QED BY <1>1, <1>2, <1>3, <1>4 DEF IsChain

\* Of two chains laid in one stream the shorter is a prefix of the longer.
LEMMA LaidPrefix ==
    ASSUME NEW s, NEW c, NEW d, IsChain(c), IsChain(d),
           Laid(s, c), Laid(s, d), Len(d) <= Len(c)
    PROVE  d = SubSeq(c, 1, Len(d)) /\ IsPrefix(d, c)
<1>1. /\ Len(c) \in Nat /\ Len(d) \in Nat
      /\ SubSeq(c, 1, 0) = <<>> /\ SubSeq(d, 1, 0) = <<>>
      /\ SubSeq(d, 1, Len(d)) = d
  <2>1. Len(c) \in Nat /\ Len(d) \in Nat
    BY DEF IsChain
  <2> QED BY <2>1, ChainFirst
<1>2. CASE Len(d) = 0
  BY <1>1, <1>2 DEF IsPrefix
<1>3. CASE Len(d) # 0
  <2>1. Len(d) \in 1..Len(d) /\ Len(d) \in 1..Len(c)
    BY <1>1, <1>3
  <2>2. RecordAt(s, c, Len(d)) /\ RecordAt(s, d, Len(d))
    BY <2>1 DEF Laid
  <2>3. <<SubSeq(c, 1, Len(d)), 1>> = <<SubSeq(d, 1, Len(d)), 1>>
    BY <2>2, 1 \in 1..ENCODED DEF RecordAt, ENCODED
  <2> QED BY <1>1, <2>3 DEF IsPrefix
<1> QED BY <1>2, <1>3

\* A stream in which a chain is laid, with no room for another record, commits
\* just that chain (classify_recovery).
LEMMA LaidIsCommitted ==
    ASSUME NEW s, NEW c, IsChain(s), IsChain(c), Laid(s, c),
           Len(c) = Len(s) \div ENCODED
    PROVE  Committed(s) = Len(c) /\ CommittedChain(s) = c
<1> DEFINE full == Len(s) \div ENCODED
           good == {n \in 0..full : \A k \in 1..n : GoodRecord(s, k)}
<1>1. Len(c) \in Nat /\ Len(s) \in Nat
  BY DEF IsChain
<1>2. \A n \in 0..Len(c) : ChainAt(s, n) = SubSeq(c, 1, n)
  <2> TAKE n \in 0..Len(c)
  <2>1. CASE n = 0
    BY <1>1, <2>1, ChainFirst DEF ChainAt
  <2>2. CASE n # 0
    <3>1. n \in 1..Len(c) /\ 4 \in 1..ENCODED
      BY <1>1, <2>2 DEF ENCODED
    <3>2. s[ENCODED * (n - 1) + 4] = <<SubSeq(c, 1, n), 4>>
      BY <3>1 DEF Laid, RecordAt
    <3>3. ENCODED * (n - 1) + 4 = ENCODED * n
      BY <3>1 DEF ENCODED
    <3> QED BY <2>2, <3>2, <3>3 DEF ChainAt
  <2> QED BY <2>1, <2>2
<1>3. \A n \in 1..Len(c) : GoodRecord(s, n)
  <2> TAKE n \in 1..Len(c)
  <2>1. n \in 0..Len(c) /\ n - 1 \in 0..Len(c) /\ n - 1 \in 0..n /\ n # 0
    BY <1>1
  <2>2. s[ENCODED * n][1] = SubSeq(c, 1, n)
    BY <1>2, <2>1 DEF ChainAt
  <2>3. Len(SubSeq(c, 1, n)) = n
    BY <2>1, ChainFirst
  <2>4. Front(SubSeq(c, 1, n)) = ChainAt(s, n - 1)
    BY <1>2, <2>1, <2>3, ChainFirst DEF Front
  <2>5. RecordAt(s, c, n)
    BY DEF Laid
  <2> QED BY <2>2, <2>3, <2>4, <2>5 DEF GoodRecord, RecordAt
<1>4. Len(c) \in good /\ \A k \in good : k <= Len(c)
  BY <1>1, <1>3
<1>5. \A n \in good : (\A k \in good : k <= n) => n = Len(c)
  BY <1>1, <1>4
<1>6. Committed(s) = Len(c)
  <2> HIDE DEF good
  <2>1. Committed(s) = CHOOSE n \in good : \A k \in good : k <= n
    BY DEF Committed, good
  <2> QED BY <1>4, <1>5, <2>1
<1> QED BY <1>1, <1>2, <1>6, ChainFirst DEF CommittedChain

-----------------------------------------------------------------------------
(* What a step keeps of the stream.                                        *)

\* The records of the stream stay where they are.
Persist ==
    /\ Len(backing) <= Len(backing')
    /\ Records(length) <= Records(length')
    /\ \A p \in 1..(ENCODED * Records(length)) : backing'[p] = backing[p]

\* And nothing that was acknowledged is forgotten.
Grows == Persist /\ Len(acked) <= Len(acked')

\* The whole records of a length.
LEMMA RecordsOf ==
    ASSUME NEW n \in Nat
    PROVE  /\ Records(n) \in Nat
           /\ ENCODED * Records(n) <= n
           /\ n < ENCODED * Records(n) + ENCODED
           /\ \A c \in Nat : ENCODED * c <= n => c <= Records(n)
           /\ \A c \in Nat : /\ ENCODED * c <= n
                             /\ n < ENCODED * c + ENCODED
                             => Records(n) = c
           /\ \A m \in Nat : m <= n => Records(m) <= Records(n)
BY DEF Records, ENCODED

\* Lengths are numbers within the backing.
LEMMA ShapeTypes ==
    ASSUME LogShape
    PROVE  /\ Len(backing) \in Nat /\ length \in Nat /\ synced \in Nat
           /\ length <= Len(backing) /\ synced <= Len(backing)
BY DEF LogShape, IsChain

\* What is laid below the stream's end stays laid when its records persist.
LEMMA PersistLaid ==
    ASSUME LogShape, Persist, NEW c, IsChain(c), Laid(backing, c),
           ENCODED * Len(c) <= length
    PROVE  Laid(backing', c)
<1>1. Len(c) \in Nat /\ Len(c) <= Records(length) /\ Records(length) \in Nat
  <2>1. Len(c) \in Nat
    BY DEF IsChain
  <2> QED BY <2>1, ShapeTypes, RecordsOf
<1> SUFFICES ASSUME NEW n \in 1..Len(c), NEW k \in 1..ENCODED
             PROVE  backing'[ENCODED * (n - 1) + k] = <<SubSeq(c, 1, n), k>>
  BY DEF Laid, RecordAt
<1>2. ENCODED * (n - 1) + k \in 1..(ENCODED * Records(length))
  BY <1>1 DEF ENCODED
<1> QED BY <1>2 DEF Persist, Laid, RecordAt

\* A step that leaves storage and acknowledgements alone keeps the stream.
LEMMA QuietKeeps ==
    ASSUME LogInv, UNCHANGED <<backing, length, synced, acked>>
    PROVE  /\ Persist
           /\ StreamWhole' /\ SyncedNear' /\ AckedSafe'
<1>1. Persist
  BY ShapeTypes, RecordsOf DEF LogInv, Persist
<1> QED BY <1>1 DEF LogInv, StreamWhole, SyncedNear, AckedSafe, Laid, RecordAt,
           Records

\* What a lease showed stays sound as long as the records persist and nobody
\* but its holder writes.
LEMMA SnapKept ==
    ASSUME LogInv, LogShape', Persist, NEW g \in Generations,
           handles[g].role # "none",
           handles'[g].snap = handles[g].snap,
           active' = g =>
               /\ active = g
               /\ \A p \in 1..Len(handles[g].snap) : backing'[p] = backing[p]
               /\ handles'[g].role # "repairer" =>
                      Len(handles[g].snap) <= length'
    PROVE  SnapSound(g)'
<1> DEFINE s == handles[g].snap
<1>1. SnapSound(g)
  BY DEF LogInv, HandleSound
<1>2. /\ IsChain(s) /\ Len(s) \in Nat
      /\ Records(Len(s)) <= Records(length)
      /\ \A p \in 1..(ENCODED * Records(Len(s))) : s[p] = backing[p]
  BY <1>1 DEF SnapSound, IsChain
<1>3. LogShape /\ length' \in Nat /\ length \in Nat
  BY ShapeTypes DEF LogInv, LogShape, IsChain
<1>4. Records(Len(s)) \in Nat /\ Records(length) \in Nat
      /\ Records(length') \in Nat
  BY <1>2, <1>3, RecordsOf
<1>5. Records(Len(s)) <= Records(length')
  BY <1>2, <1>4 DEF Persist
<1>6. \A p \in 1..(ENCODED * Records(Len(s))) : s[p] = backing'[p]
  <2> TAKE p \in 1..(ENCODED * Records(Len(s)))
  <2>1. p \in 1..(ENCODED * Records(length))
    BY <1>2, <1>4 DEF ENCODED
  <2> QED BY <1>2, <2>1 DEF Persist
<1>7. ASSUME active' = g
      PROVE  /\ Len(s) <= Len(backing')
             /\ s = SubSeq(backing', 1, Len(s))
             /\ handles'[g].role # "repairer" => Len(s) <= length'
  <2>1. active = g /\ \A p \in 1..Len(s) : backing'[p] = backing[p]
    BY <1>7
  <2>2. Len(s) <= Len(backing) /\ s = SubSeq(backing, 1, Len(s))
    BY <1>1, <2>1 DEF SnapSound
  <2>3. Len(backing) \in Nat /\ Len(backing') \in Nat
    BY <1>3 DEF LogShape, IsChain
  <2>4. Len(s) <= Len(backing')
    BY <1>2, <2>2, <2>3 DEF Persist
  <2>5. SubSeq(backing, 1, Len(s)) = SubSeq(backing', 1, Len(s))
    <3>1. PICK S : backing \in Seq(S)
      BY <1>3 DEF LogShape, IsChain
    <3>2. PICK T : backing' \in Seq(T)
      BY DEF LogShape, IsChain
    <3> QED BY <1>2, <2>1, <2>2, <2>3, <2>4, <3>1, <3>2
  <2> QED BY <1>7, <2>2, <2>4, <2>5
<1> HIDE DEF s
<1>8. handles'[g].snap = s
  BY DEF s
<1> QED BY <1>2, <1>5, <1>6, <1>7, <1>8 DEF SnapSound

\* A handle that a step does not touch stays sound.
LEMMA OthersSound ==
    ASSUME LogInv, LogShape', Persist, IsChain(acked'),
           Len(acked) <= Len(acked'),
           NEW g \in Generations, handles'[g] = handles[g],
           active' = g => UNCHANGED <<active, backing, length, expected_phase>>
    PROVE  HandleSound(g)'
<1> DEFINE h == handles[g]
<1>1. SnapSound(g)'
  <2>1. CASE h.role = "none"
    BY <2>1 DEF SnapSound
  <2>2. CASE h.role # "none"
    BY <2>2, SnapKept DEF LogInv, HandleSound, SnapSound
  <2> QED BY <2>1, <2>2
<1>2. AppendSound(g)'
  <2>1. AppendSound(g)
    BY DEF LogInv, HandleSound
  <2>2. CASE active' = g
    BY <2>1, <2>2 DEF AppendSound, Laid, RecordAt
  <2>3. CASE active' # g
    BY <2>1, <2>3 DEF AppendSound
  <2> QED BY <2>2, <2>3
<1>3. PositionSound(g)'
  <2>1. h.role = "writer" /\ h.pc = "ready" =>
            IsChain(h.chain) /\ (active' = g => Laid(backing', h.chain))
    BY DEF LogInv, HandleSound, PositionSound, Laid, RecordAt
  <2>2. ASSUME h.pc = "published"
        PROVE  /\ IsChain(h.chain) /\ Laid(backing', h.chain)
               /\ Len(h.chain) <= Len(acked')
    <3>1. IsChain(h.chain) /\ Laid(backing, h.chain)
          /\ Len(h.chain) <= Len(acked)
      BY <2>2 DEF LogInv, HandleSound, PositionSound
    <3>2. /\ Len(h.chain) \in Nat /\ Len(acked) \in Nat /\ Len(acked') \in Nat
          /\ ENCODED * Len(acked) <= length /\ length \in Nat
      BY <3>1, ShapeTypes DEF LogInv, AckedSafe, IsChain
    <3>3. ENCODED * Len(h.chain) <= length
      BY <3>1, <3>2 DEF ENCODED
    <3> QED BY <3>1, <3>2, <3>3, PersistLaid DEF LogInv
  <2> QED BY <2>1, <2>2 DEF PositionSound
<1> QED BY <1>1, <1>2, <1>3 DEF HandleSound

\* A step of one generation keeps the invariant when its own handle and the
\* stream stay sound.
LEMMA StepSound ==
    ASSUME LogInv, LogShape', Persist, StreamWhole', SyncedNear', AckedSafe',
           Len(acked) <= Len(acked'),
           NEW g \in Generations, HandleSound(g)',
           \A i \in Generations : i # g => handles'[i] = handles[i],
           \A i \in Generations : i # g /\ active' = i =>
               UNCHANGED <<active, backing, length, expected_phase>>
    PROVE  LogInv' /\ Grows
<1>1. IsChain(acked')
  BY DEF AckedSafe
<1>2. ASSUME NEW i \in Generations, i # g PROVE HandleSound(i)'
  BY <1>1, <1>2, OthersSound
<1> QED BY <1>2 DEF LogInv, Grows

\* What poisoning does to the handles.
LEMMA PoisonedHandle ==
    ASSUME LogShape, NEW g \in Generations, Poison(g)
    PROVE  /\ DOMAIN handles' = Generations
           /\ \A i \in Generations : i # g => handles'[i] = handles[i]
           /\ DOMAIN handles'[g] = HandleFields
           /\ handles'[g].pc = "poisoned"
           /\ handles'[g].role = handles[g].role
           /\ handles'[g].snap = handles[g].snap
BY DEF LogShape, Poison, HandleFields

\* Poisoning a handle keeps the shape of the state.
LEMMA PoisonedShape ==
    ASSUME LogShape, NEW g \in Generations, Poison(g),
           UNCHANGED <<active, next_generation>>,
           IsChain(backing'), length' \in 0..Len(backing'),
           synced' \in 0..Len(backing')
    PROVE  LogShape'
BY PoisonedHandle DEF LogShape

\* A poisoned handle relies on nothing but the stream its lease showed.
LEMMA PoisonedSound ==
    ASSUME LogShape, NEW g \in Generations, Poison(g), SnapSound(g)'
    PROVE  HandleSound(g)'
<1>1. handles'[g].pc = "poisoned"
  BY PoisonedHandle
<1> QED BY <1>1 DEF HandleSound, AppendSound, PositionSound, Appending

\* A call that is refused or fails before its effect.
LEMMA CallFails ==
    ASSUME LogInv, NEW g \in Generations, Poison(g),
           UNCHANGED <<backing, length, synced, active, next_generation, acked,
                       expected_phase>>
    PROVE  LogInv' /\ Grows
<1>1. LogShape'
  BY PoisonedShape DEF LogInv, LogShape
<1>2. /\ Persist
      /\ StreamWhole' /\ SyncedNear' /\ AckedSafe'
  BY QuietKeeps
<1>3. SnapSound(g)'
  <2>1. /\ handles'[g].role = handles[g].role
        /\ handles'[g].snap = handles[g].snap
    BY PoisonedHandle DEF LogInv
  <2>2. CASE handles[g].role = "none"
    BY <2>1, <2>2 DEF SnapSound
  <2>3. CASE handles[g].role # "none"
    BY <1>1, <1>2, <2>1, <2>3, SnapKept DEF LogInv, HandleSound, SnapSound
  <2> QED BY <2>2, <2>3
<1>4. HandleSound(g)'
  BY <1>3, PoisonedSound DEF LogInv
<1>5. Len(acked') \in Nat
  BY <1>2 DEF AckedSafe, IsChain
<1> QED BY <1>1, <1>2, <1>4, <1>5, StepSound, PoisonedHandle DEF LogInv

\* Refused calls and faults before the effect, of whatever phase.
LEMMA RefusedCall ==
    ASSUME LogInv, NEW g \in Generations, NEW p,
           Refused(g, p) \/ FaultBefore(g, p)
    PROVE  LogInv' /\ Grows
BY CallFails DEF Refused, FaultBefore, Fault

\* A step that leaves the log alone.
LEMMA LogStutters ==
    ASSUME LogInv, UNCHANGED logVars
    PROVE  LogInv' /\ Grows
<1>1. UNCHANGED <<backing, length, synced, active, next_generation, acked,
                  handles, expected_phase>>
  BY DEF logVars
<1>2. LogShape' /\ Len(acked') \in Nat
  BY <1>1 DEF LogInv, LogShape, AckedSafe, IsChain
<1>3. /\ Persist
      /\ StreamWhole' /\ SyncedNear' /\ AckedSafe'
  BY <1>1, QuietKeeps
<1>4. \A i \in Generations : HandleSound(i)'
  BY <1>1, <1>2, <1>3, OthersSound DEF AckedSafe
<1> QED BY <1>1, <1>2, <1>3, <1>4 DEF LogInv, Grows

-----------------------------------------------------------------------------
(* Leases.                                                                 *)

\* A new lease sees the stream as it is.
LEMMA acquireKeeps ==
    ASSUME LogInv, acquire
    PROVE  LogInv' /\ Grows
<1> USE DEF LogInv
<1>1. PICK g \in Generations :
      /\ g = next_generation /\ active = 0 /\ active' = g
      /\ next_generation' = g + 1
      /\ handles' = [handles EXCEPT ![g] =
             [NoHandle EXCEPT !.role = "lease", !.snap = stream]]
      /\ UNCHANGED <<backing, length, synced, acked>>
  <2>1. next_generation \in Generations
    BY LogAssumption DEF acquire, LogShape, Generations
  <2> QED BY <2>1 DEF acquire
<1>2. /\ DOMAIN handles' = Generations
      /\ \A i \in Generations : i # g => handles'[i] = handles[i]
      /\ DOMAIN handles'[g] = HandleFields
      /\ handles'[g].role = "lease" /\ handles'[g].pc = "none"
      /\ handles'[g].snap = SubSeq(backing, 1, length)
  BY <1>1 DEF LogShape, NoHandle, HandleFields, stream
<1>3. LogShape'
  BY <1>1, <1>2 DEF LogShape
<1>4. /\ Persist
      /\ StreamWhole' /\ SyncedNear' /\ AckedSafe'
  BY <1>1, QuietKeeps
<1>5. HandleSound(g)'
  <2> DEFINE s == SubSeq(backing, 1, length)
  <2>1. /\ IsChain(s) /\ Len(s) = length
        /\ \A m \in 1..length : s[m] = backing[m]
    BY ChainFirst DEF LogShape
  <2>2. /\ length' = length /\ backing' = backing
        /\ length \in Nat /\ length <= Len(backing) /\ Records(length) \in Nat
        /\ ENCODED * Records(length) <= length
    BY <1>1, ShapeTypes, RecordsOf
  <2>3. \A p \in 1..(ENCODED * Records(length)) : s[p] = backing[p]
    BY <2>1, <2>2 DEF ENCODED
  <2> HIDE DEF s
  <2>4. handles'[g].snap = s /\ s = SubSeq(backing, 1, length)
    BY <1>2 DEF s
  <2>5. /\ Records(Len(s)) <= Records(length')
        /\ Len(s) <= Len(backing') /\ Len(s) <= length'
    BY <2>1, <2>2
  <2>6. /\ s = SubSeq(backing', 1, Len(s))
        /\ \A p \in 1..(ENCODED * Records(Len(s))) : s[p] = backing'[p]
    BY <2>1, <2>2, <2>3, <2>4
  <2>7. SnapSound(g)'
    BY <2>1, <2>4, <2>5, <2>6 DEF SnapSound
  <2> QED BY <1>2, <2>7 DEF HandleSound, AppendSound, PositionSound, Appending
<1>6. Len(acked) \in Nat /\ acked' = acked
  BY <1>1 DEF AckedSafe, IsChain
<1> QED BY <1>1, <1>2, <1>3, <1>4, <1>5, <1>6, StepSound

\* A lease that ends changes nothing else.
LEMMA release_logKeeps ==
    ASSUME LogInv, NEW g \in Generations, release_log(g)
    PROVE  LogInv' /\ Grows
<1> USE DEF LogInv
<1>1. /\ active' = 0
      /\ UNCHANGED <<backing, length, synced, handles, acked, next_generation>>
  BY DEF release_log
<1>2. LogShape'
  BY <1>1 DEF LogShape, Generations
<1>3. /\ Persist
      /\ StreamWhole' /\ SyncedNear' /\ AckedSafe'
  BY <1>1, QuietKeeps
<1>4. Len(acked) \in Nat /\ IsChain(acked)
  BY DEF AckedSafe, IsChain
<1>5. ASSUME NEW i \in Generations PROVE HandleSound(i)'
  <2>1. active' # i
    BY <1>1 DEF Generations
  <2> QED BY <1>1, <1>2, <1>3, <1>4, <2>1, OthersSound
<1> QED BY <1>1, <1>2, <1>3, <1>4, <1>5 DEF Grows

\* The stream that the lease in force showed is the stream as it is, when
\* the lengths agree.
LEMMA SnapIsStream ==
    ASSUME LogInv, NEW g \in Generations, active = g,
           length = Len(handles[g].snap)
    PROVE  \E c : /\ IsChain(c)
                  /\ Len(c) = Records(length)
                  /\ Laid(backing, c)
                  /\ Committed(handles[g].snap) = Len(c)
                  /\ CommittedChain(handles[g].snap) = c
<1> DEFINE s == handles[g].snap
<1>1. IsChain(s) /\ s = SubSeq(backing, 1, length)
  BY DEF LogInv, LogShape, HandleSound, SnapSound
<1>2. PICK c : IsChain(c) /\ Len(c) = Records(length) /\ Laid(backing, c)
  BY DEF LogInv, StreamWhole
<1>3. /\ length \in Nat /\ Records(length) \in Nat
      /\ ENCODED * Records(length) <= length
  BY ShapeTypes, RecordsOf DEF LogInv
<1>4. \A m \in 1..length : s[m] = backing[m]
  <2>1. length \in 0..Len(backing) /\ IsChain(backing)
    BY DEF LogInv, LogShape
  <2> QED BY <1>1, <2>1, ChainFirst
<1>5. Laid(s, c)
  <2> SUFFICES ASSUME NEW n \in 1..Len(c), NEW k \in 1..ENCODED
               PROVE  s[ENCODED * (n - 1) + k] = <<SubSeq(c, 1, n), k>>
    BY DEF Laid, RecordAt
  <2>1. ENCODED * (n - 1) + k \in 1..length
    BY <1>2, <1>3 DEF ENCODED
  <2> QED BY <1>2, <1>4, <2>1 DEF Laid, RecordAt
<1>6. Len(c) = Len(s) \div ENCODED
  BY <1>2 DEF Records
<1> QED BY <1>1, <1>2, <1>5, <1>6, LaidIsCommitted

\* A writer starts at the end of the stream's chain.
LEMMA open_cleanKeeps ==
    ASSUME LogInv, NEW g \in Generations, open_clean(g)
    PROVE  LogInv' /\ Grows
<1> DEFINE c == CommittedChain(handles[g].snap)
<1>1. /\ active = g /\ length = Len(handles[g].snap)
      /\ handles' = [handles EXCEPT ![g].role = "writer", ![g].pc = "ready",
                                    ![g].chain = c]
      /\ UNCHANGED <<backing, length, synced, active, next_generation,
                     expected_phase, acked>>
  BY DEF open_clean
<1>2. IsChain(c) /\ Laid(backing, c)
  BY <1>1, SnapIsStream
<1> HIDE DEF c
<1> USE DEF LogInv
<1>3. /\ DOMAIN handles' = Generations
      /\ \A i \in Generations : i # g => handles'[i] = handles[i]
      /\ DOMAIN handles'[g] = HandleFields
      /\ handles'[g].role = "writer" /\ handles'[g].pc = "ready"
      /\ handles'[g].snap = handles[g].snap
      /\ handles'[g].chain = c
  BY <1>1 DEF LogShape, HandleFields
<1>4. LogShape'
  BY <1>1, <1>3 DEF LogShape
<1>5. /\ Persist
      /\ StreamWhole' /\ SyncedNear' /\ AckedSafe'
  BY <1>1, QuietKeeps
<1>6. HandleSound(g)'
  <2>1. handles[g].role # "none" /\ length \in Nat
    BY <1>1, ShapeTypes DEF LogShape
  <2>2. SnapSound(g)'
    BY <1>1, <1>3, <1>4, <1>5, <2>1, SnapKept
  <2>3. backing' = backing
    BY <1>1
  <2>4. Laid(backing', c)
    BY <1>2, <2>3
  <2> QED BY <1>2, <1>3, <2>2, <2>4 DEF HandleSound, AppendSound,
             PositionSound, Appending
<1>7. Len(acked) \in Nat /\ acked' = acked
  BY <1>1 DEF AckedSafe, IsChain
<1> QED BY <1>1, <1>3, <1>4, <1>5, <1>6, <1>7, StepSound

\* A lease becomes a repairer.
LEMMA prepare_repairKeeps ==
    ASSUME LogInv, NEW g \in Generations, prepare_repair(g)
    PROVE  LogInv' /\ Grows
<1> USE DEF LogInv
<1>1. /\ active = g /\ handles[g].role = "lease"
      /\ handles' = [handles EXCEPT ![g].role = "repairer",
                                    ![g].pc = "ready"]
      /\ UNCHANGED <<backing, length, synced, active, next_generation, acked>>
  BY DEF prepare_repair
<1>2. /\ DOMAIN handles' = Generations
      /\ \A i \in Generations : i # g => handles'[i] = handles[i]
      /\ DOMAIN handles'[g] = HandleFields
      /\ handles'[g].role = "repairer" /\ handles'[g].pc = "ready"
      /\ handles'[g].snap = handles[g].snap
  BY <1>1 DEF LogShape, HandleFields
<1>3. LogShape'
  BY <1>1, <1>2 DEF LogShape
<1>4. /\ Persist
      /\ StreamWhole' /\ SyncedNear' /\ AckedSafe'
  BY <1>1, QuietKeeps
<1>5. HandleSound(g)'
  <2>1. SnapSound(g)'
    BY <1>1, <1>2, <1>3, <1>4, SnapKept
  <2> QED BY <1>2, <2>1 DEF HandleSound, AppendSound, PositionSound, Appending
<1>6. Len(acked) \in Nat /\ acked' = acked
  BY <1>1 DEF AckedSafe, IsChain
<1> QED BY <1>1, <1>2, <1>3, <1>4, <1>5, <1>6, StepSound

-----------------------------------------------------------------------------
(* Repairs, writes and syncs.                                              *)

\* A step that moves the end of the stream within one record, or syncs it.
LEMMA TailKeeps ==
    ASSUME LogInv, LogShape', Persist, Records(length') = Records(length),
           acked' = acked, synced' = synced \/ synced' = length'
    PROVE  StreamWhole' /\ SyncedNear' /\ AckedSafe'
<1>1. LogShape /\ length \in Nat /\ length' \in Nat /\ synced \in Nat
  BY ShapeTypes DEF LogInv, LogShape, IsChain
<1>2. /\ Records(length) \in Nat
      /\ ENCODED * Records(length) <= length
      /\ ENCODED * Records(length) <= length'
      /\ length' < ENCODED * Records(length) + ENCODED
  BY <1>1, RecordsOf
<1>3. StreamWhole'
  <2>1. PICK c : IsChain(c) /\ Len(c) = Records(length) /\ Laid(backing, c)
    BY DEF LogInv, StreamWhole
  <2>2. Laid(backing', c)
    BY <1>1, <1>2, <2>1, PersistLaid
  <2> QED BY <2>1, <2>2 DEF StreamWhole
<1>4. SyncedNear'
  BY <1>1, <1>2 DEF LogInv, SyncedNear
<1>5. AckedSafe'
  <2>1. /\ IsChain(acked) /\ Laid(backing, acked) /\ Len(acked) \in Nat
        /\ ENCODED * Len(acked) <= length /\ ENCODED * Len(acked) <= synced
    BY DEF LogInv, AckedSafe, IsChain
  <2>2. Len(acked) <= Records(length)
    BY <1>1, <2>1, RecordsOf
  <2>3. ENCODED * Len(acked) <= length'
    BY <1>2, <2>1, <2>2, <1>1 DEF ENCODED
  <2>4. Laid(backing', acked)
    BY <1>1, <2>1, PersistLaid
  <2> QED BY <2>1, <2>3, <2>4 DEF AckedSafe
<1> QED BY <1>3, <1>4, <1>5

\* With the units of the stream in place the records are.
LEMMA SameBacking ==
    ASSUME LogShape, backing' = backing, Records(length') = Records(length)
    PROVE  Persist
<1>1. Records(length) \in Nat /\ Len(backing) \in Nat
  BY ShapeTypes, RecordsOf
<1> QED BY <1>1 DEF Persist

\* The truncation leaves the records of the stream.
LEMMA truncateKeeps ==
    ASSUME LogInv, NEW g \in Generations, truncate(g)
    PROVE  LogInv' /\ Grows
<1> USE DEF LogInv
<1>1. handles[g].role = "repairer"
  BY DEF truncate
<1>2. CASE Refused(g, "repair_truncate") \/ FaultBefore(g, "repair_truncate")
  BY <1>1, <1>2, RefusedCall
<1>3. CASE /\ validate(g)
           /\ length = Len(handles[g].snap)
           /\ length' = truncateTarget(handles[g].snap)
           /\ \/ handles' = [handles EXCEPT ![g].pc = "repair_sync"]
              \/ Fault(g)
           /\ UNCHANGED <<backing, synced, active, next_generation, acked>>
  <2>1. active = g
    BY <1>3 DEF validate
  <2>2. /\ length' = ENCODED * Records(length)
        /\ Records(length) \in Nat /\ length \in Nat
        /\ length' <= length
    BY <1>3, <2>1, SnapIsStream, ShapeTypes, RecordsOf
       DEF truncateTarget, committed_bytes
  <2>3. Records(length') = Records(length) /\ length' \in Nat
    <3>1. /\ length' \in Nat
          /\ ENCODED * Records(length) <= length'
          /\ length' < ENCODED * Records(length) + ENCODED
      BY <2>2 DEF ENCODED
    <3> QED BY <2>2, <3>1, RecordsOf
  <2>4. length' \in 0..Len(backing) /\ synced' \in 0..Len(backing)
    BY <1>3, <2>2, <2>3, ShapeTypes DEF LogShape
  <2>5. Persist
    BY <1>3, <2>3, SameBacking
  <2>6. /\ DOMAIN handles' = Generations
        /\ \A i \in Generations : i # g => handles'[i] = handles[i]
        /\ DOMAIN handles'[g] = HandleFields
        /\ handles'[g].role = "repairer"
        /\ handles'[g].pc \in {"repair_sync", "poisoned"}
        /\ handles'[g].snap = handles[g].snap
    <3>1. CASE Fault(g)
      BY <1>1, <3>1, PoisonedHandle DEF Fault
    <3>2. CASE handles' = [handles EXCEPT ![g].pc = "repair_sync"]
      BY <1>1, <3>2 DEF LogShape, HandleFields
    <3> QED BY <1>3, <3>1, <3>2
  <2>7. LogShape'
    BY <1>3, <2>4, <2>6 DEF LogShape
  <2>8. StreamWhole' /\ SyncedNear' /\ AckedSafe'
    BY <1>3, <2>3, <2>5, <2>7, TailKeeps
  <2>9. HandleSound(g)'
    <3>1. SnapSound(g)'
      BY <1>1, <1>3, <2>1, <2>5, <2>6, <2>7, SnapKept
    <3> QED BY <2>6, <3>1 DEF HandleSound, AppendSound, PositionSound,
               Appending
  <2>10. Len(acked) \in Nat /\ acked' = acked
    BY <1>3 DEF AckedSafe, IsChain
  <2> QED BY <1>3, <2>1, <2>5, <2>6, <2>7, <2>8, <2>9, <2>10, StepSound
<1> QED BY <1>2, <1>3 DEF truncate

\* A sync that reports no record.
LEMMA SyncKeeps ==
    ASSUME LogInv, NEW g \in Generations, NEW p, NEW next, NEW done,
           Sync(g, p, next, done), acked' = acked,
           DOMAIN done = HandleFields,
           done.role = handles[g].role, done.snap = handles[g].snap,
           handles'[g] = done => HandleSound(g)' \/ ~SnapSound(g)'
    PROVE  LogInv' /\ Grows
<1> USE DEF LogInv
<1>1. /\ active = g /\ synced' = length /\ handles[g].role # "none"
      /\ UNCHANGED <<backing, length, active, next_generation>>
      /\ handles' = [handles EXCEPT ![g] = done] \/ Poison(g)
  BY DEF Sync, validate, Fault, LogShape
<1>2. /\ DOMAIN handles' = Generations
      /\ \A i \in Generations : i # g => handles'[i] = handles[i]
      /\ DOMAIN handles'[g] = HandleFields
      /\ handles'[g] = done \/ Poison(g)
      /\ handles'[g].role = handles[g].role
      /\ handles'[g].snap = handles[g].snap
  <2>1. CASE Poison(g)
    BY <2>1, PoisonedHandle
  <2>2. CASE handles' = [handles EXCEPT ![g] = done]
    BY <2>2 DEF LogShape
  <2> QED BY <1>1, <2>1, <2>2
<1>3. LogShape'
  BY <1>1, <1>2 DEF LogShape
<1>4. Persist
  BY <1>1, SameBacking
<1>5. StreamWhole' /\ SyncedNear' /\ AckedSafe'
  BY <1>1, <1>3, <1>4, TailKeeps
<1>6. HandleSound(g)'
  <2>1. SnapSound(g)'
    <3>1. handles[g].role # "repairer" => Len(handles[g].snap) <= length'
      BY <1>1 DEF HandleSound, SnapSound
    <3> QED BY <1>1, <1>2, <1>3, <1>4, <3>1, SnapKept
  <2> QED BY <1>2, <2>1, PoisonedSound
<1>7. Len(acked) \in Nat
  BY DEF AckedSafe, IsChain
<1> QED BY <1>1, <1>2, <1>3, <1>4, <1>5, <1>6, <1>7, StepSound

\* The sync that ends a repair.
LEMMA repair_syncKeeps ==
    ASSUME LogInv, NEW g \in Generations, repair_sync(g)
    PROVE  LogInv' /\ Grows
<1>1. CASE Refused(g, "repair_sync") \/ FaultBefore(g, "repair_sync")
  BY <1>1, RefusedCall
<1> DEFINE done == [handles[g] EXCEPT !.pc = "complete"]
<1>2. CASE Sync(g, "repair_sync", "body_write", done) /\ UNCHANGED acked
  <2>1. /\ DOMAIN done = HandleFields /\ done.pc = "complete"
        /\ done.role = handles[g].role /\ done.snap = handles[g].snap
    BY DEF LogInv, LogShape, HandleFields
  <2> HIDE DEF done
  <2>2. handles'[g] = done => HandleSound(g)' \/ ~SnapSound(g)'
    BY <2>1 DEF HandleSound, AppendSound, PositionSound, Appending
  <2> QED BY <1>2, <2>1, <2>2, SyncKeeps
<1> QED BY <1>1, <1>2 DEF repair_sync

\* What a write does to storage.
LEMMA WriteIs ==
    ASSUME LogShape, NEW units, IsChain(units), NEW count \in 1..Len(units),
           backing' = Written(units, count), length' = length + count
    PROVE  /\ IsChain(backing')
           /\ length' \in 0..Len(backing')
           /\ Len(backing) <= Len(backing')
           /\ \A p \in 1..length : backing'[p] = backing[p]
           /\ \A k \in 1..count : backing'[length + k] = units[k]
           /\ Persist
<1> DEFINE n == IF Len(backing) > length + count THEN Len(backing)
                ELSE length + count
           unit(k) == IF k \in (length + 1)..(length + count)
                      THEN units[k - length] ELSE backing[k]
           S == {unit(k) : k \in 1..n}
<1>1. /\ Len(backing) \in Nat /\ length \in Nat /\ length <= Len(backing)
      /\ Len(units) \in Nat /\ count \in Nat \ {0}
  BY ShapeTypes DEF IsChain
<1>2. n \in Nat /\ Len(backing) <= n /\ length + count <= n
  BY <1>1
<1>3. backing' = [k \in 1..n |-> unit(k)]
  BY DEF Written
<1>4. \A p \in 1..length : p \in 1..n /\ unit(p) = backing[p]
  BY <1>1, <1>2
<1>5. \A k \in 1..count : length + k \in 1..n /\ unit(length + k) = units[k]
  BY <1>1, <1>2
<1>6. \A k \in 1..n : unit(k) \in S
  OBVIOUS
<1> HIDE DEF n, unit, S
<1>7. backing' \in Seq(S) /\ Len(backing') = n
  BY <1>2, <1>3, <1>6
<1>8. /\ \A p \in 1..length : backing'[p] = backing[p]
      /\ \A k \in 1..count : backing'[length + k] = units[k]
  BY <1>3, <1>4, <1>5
<1>9. Persist
  <2>1. /\ Records(length) <= Records(length')
        /\ ENCODED * Records(length) <= length
        /\ Records(length) \in Nat
    <3>1. length' \in Nat /\ length <= length'
      BY <1>1
    <3> QED BY <1>1, <3>1, RecordsOf
  <2>2. 1..(ENCODED * Records(length)) \subseteq 1..length
    BY <1>1, <2>1 DEF ENCODED
  <2> QED BY <1>2, <1>7, <1>8, <2>1, <2>2 DEF Persist
<1>10. length' \in 0..Len(backing')
  BY <1>1, <1>2, <1>7
<1> QED BY <1>2, <1>7, <1>8, <1>9, <1>10 DEF IsChain

\* The snapshot of a writer's lease stays where it is when the writer writes.
LEMMA WriterSnap ==
    ASSUME LogInv, LogShape', Persist, NEW g \in Generations, active = g,
           handles[g].role = "writer",
           handles'[g].role = "writer", handles'[g].snap = handles[g].snap,
           length <= length', UNCHANGED active,
           \A p \in 1..length : backing'[p] = backing[p]
    PROVE  SnapSound(g)'
<1>1. /\ Len(handles[g].snap) <= length
      /\ Len(handles[g].snap) \in Nat /\ length \in Nat /\ length' \in Nat
  BY ShapeTypes DEF LogInv, LogShape, HandleSound, SnapSound, IsChain
<1>2. /\ \A p \in 1..Len(handles[g].snap) : backing'[p] = backing[p]
      /\ Len(handles[g].snap) <= length'
  BY <1>1
<1> QED BY <1>2, SnapKept

\* The units of a record from one to another.
LEMMA UnitsAre ==
    ASSUME NEW c, NEW m \in Nat, NEW n \in Nat, m <= n
    PROVE  /\ IsChain(Units(c, m, n))
           /\ Len(Units(c, m, n)) = n - m + 1
           /\ \A k \in 1..(n - m + 1) : Units(c, m, n)[k] = <<c, m + k - 1>>
<1> DEFINE N == n - m + 1
           unit(k) == <<c, m + k - 1>>
           S == {unit(k) : k \in 1..N}
<1>1. Units(c, m, n) = [k \in 1..N |-> unit(k)]
  BY DEF Units
<1>2. N \in Nat /\ \A k \in 1..N : unit(k) \in S
  OBVIOUS
<1>3. \A k \in 1..N : Units(c, m, n)[k] = unit(k)
  BY <1>1
<1> HIDE DEF N, unit, S
<1>4. Units(c, m, n) \in Seq(S) /\ Len(Units(c, m, n)) = N
  BY <1>1, <1>2
<1>5. IsChain(Units(c, m, n))
  BY <1>4 DEF IsChain
<1> QED BY <1>3, <1>4, <1>5 DEF N, unit

\* A body, or the first unit of it, after the last record.
LEMMA append_recordKeeps ==
    ASSUME LogInv, NEW g \in Generations, NEW value, append_record(g, value)
    PROVE  LogInv' /\ Grows
<1> DEFINE h == handles[g]
           chain == h.chain
           next == Append(chain, value)
           units == Units(next, 1, BODY)
           pause == [handles EXCEPT ![g].pc = "body_sync", ![g].next = next]
<1>1. /\ h.role = "writer" /\ h.pc = "ready" /\ active = g
      /\ length = ENCODED * Len(chain)
      /\ UNCHANGED <<synced, active, next_generation, acked>>
      /\ \/ \E count \in 1..BODY :
                /\ backing' = Written(units, count)
                /\ length' = length + count
                /\ expected_phase' = IF count = BODY
                                     THEN "body_sync" ELSE "body_write"
                /\ \/ count = BODY /\ handles' = pause
                   \/ Fault(g)
         \/ /\ Fault(g)
            /\ UNCHANGED <<backing, length, expected_phase>>
  BY DEF append_record, validate
<1>2. IsChain(chain) /\ Laid(backing, chain)
  BY <1>1 DEF LogInv, HandleSound, PositionSound
<1>3. CASE Fault(g) /\ UNCHANGED <<backing, length, expected_phase>>
  BY <1>1, <1>3, CallFails DEF Fault
<1>4. ASSUME NEW count \in 1..BODY,
             backing' = Written(units, count),
             length' = length + count,
             expected_phase' = IF count = BODY
                               THEN "body_sync" ELSE "body_write",
             (count = BODY /\ handles' = pause) \/ Fault(g)
      PROVE  LogInv' /\ Grows
  <2>1. /\ IsChain(next) /\ Len(next) = Len(chain) + 1
        /\ SubSeq(next, 1, Len(chain)) = chain
        /\ Len(chain) \in Nat
    <3>1. Len(chain) \in Nat /\ SubSeq(next, 1, 0) = <<>>
          /\ SubSeq(chain, 1, 0) = <<>> /\ SubSeq(chain, 1, Len(chain)) = chain
          /\ IsChain(next) /\ Len(next) = Len(chain) + 1
      <4>1. Len(chain) \in Nat
        BY <1>2 DEF IsChain
      <4>2. IsChain(next) /\ Len(next) = Len(chain) + 1
        BY <1>2, ChainAppend
      <4> QED BY <1>2, <4>1, <4>2, ChainFirst
    <3>2. CASE Len(chain) = 0
      BY <3>1, <3>2
    <3>3. CASE Len(chain) # 0
      <4>1. Len(chain) \in 1..Len(chain)
        BY <3>1, <3>3
      <4> QED BY <1>2, <3>1, <4>1, ChainAppend
    <3> QED BY <3>1, <3>2, <3>3
  <2> HIDE DEF next, chain
  <2>2. /\ IsChain(units) /\ Len(units) = BODY
        /\ \A k \in 1..BODY : units[k] = <<next, k>>
    <3>1. 1 \in Nat /\ BODY \in Nat /\ 1 <= BODY
      BY DEF BODY
    <3>2. /\ IsChain(units) /\ Len(units) = BODY - 1 + 1
          /\ \A k \in 1..(BODY - 1 + 1) : units[k] = <<next, 1 + k - 1>>
      BY <3>1, UnitsAre
    <3> QED BY <3>2 DEF BODY
  <2> HIDE DEF units
  <2>3. /\ IsChain(backing')
        /\ length' \in 0..Len(backing')
        /\ Len(backing) <= Len(backing')
        /\ \A p \in 1..length : backing'[p] = backing[p]
        /\ \A k \in 1..count : backing'[length + k] = units[k]
        /\ Persist
    BY <1>4, <2>2, WriteIs DEF LogInv
  <2>4. /\ DOMAIN handles' = Generations
        /\ \A i \in Generations : i # g => handles'[i] = handles[i]
        /\ DOMAIN handles'[g] = HandleFields
        /\ handles'[g].role = "writer"
        /\ handles'[g].snap = h.snap
        /\ \/ Poison(g)
           \/ /\ count = BODY
              /\ handles'[g].pc = "body_sync" /\ handles'[g].next = next
              /\ handles'[g].chain = chain
    <3>1. CASE Fault(g)
      BY <1>1, <3>1, PoisonedHandle DEF Fault, LogInv
    <3>2. CASE count = BODY /\ handles' = pause
      BY <1>1, <3>2 DEF LogInv, LogShape, HandleFields, chain
    <3> QED BY <1>4, <3>1, <3>2
  <2> HIDE DEF pause
  <2>5. /\ length \in Nat /\ length' \in Nat /\ length <= length'
        /\ synced \in Nat /\ Len(backing) \in Nat /\ Len(backing') \in Nat
        /\ synced <= Len(backing)
    BY <1>4, <2>3, ShapeTypes DEF LogInv, BODY, IsChain
  <2>6. LogShape'
    BY <1>1, <2>3, <2>4, <2>5 DEF LogInv, LogShape
  <2>7. Records(length) = Len(chain) /\ Records(length') = Len(chain)
    <3>1. /\ ENCODED * Len(chain) <= length
          /\ length < ENCODED * Len(chain) + ENCODED
          /\ ENCODED * Len(chain) <= length'
          /\ length' < ENCODED * Len(chain) + ENCODED
      BY <1>1, <1>4, <2>1 DEF ENCODED, BODY, chain
    <3> QED BY <2>1, <2>5, <3>1, RecordsOf
  <2>8. StreamWhole' /\ SyncedNear' /\ AckedSafe'
    BY <1>1, <2>3, <2>6, <2>7, TailKeeps
  <2>9. HandleSound(g)'
    <3>1. SnapSound(g)'
      BY <1>1, <2>3, <2>4, <2>5, <2>6, WriterSnap
    <3>2. CASE Poison(g)
      BY <3>1, <3>2, PoisonedSound DEF LogInv
    <3>3. CASE /\ count = BODY
               /\ handles'[g].pc = "body_sync" /\ handles'[g].next = next
               /\ handles'[g].chain = chain
      <4>1. Laid(backing', chain)
        BY <1>1, <1>2, <2>3, <2>5, PersistLaid DEF LogInv, chain
      <4>2. length' = ENCODED * Len(chain) + BODY
        BY <1>1, <1>4, <3>3 DEF chain
      <4>3. \A k \in 1..BODY :
                backing'[ENCODED * Len(chain) + k] = <<next, k>>
        BY <1>1, <2>2, <2>3, <3>3 DEF chain
      <4>4. IsChain(chain)
        BY <1>2 DEF chain
      <4>5. AppendSound(g)'
        BY <2>1, <2>4, <3>3, <4>1, <4>2, <4>3, <4>4 DEF AppendSound, Appending
      <4> QED BY <3>1, <3>3, <4>5 DEF HandleSound, PositionSound
    <3> QED BY <2>4, <3>2, <3>3
  <2>10. Len(acked) \in Nat
    BY DEF LogInv, AckedSafe, IsChain
  <2> QED BY <1>1, <2>3, <2>4, <2>6, <2>8, <2>9, <2>10, StepSound
<1> QED BY <1>1, <1>3, <1>4

\* The sync of the body.
LEMMA sync_bodyKeeps ==
    ASSUME LogInv, NEW g \in Generations, sync_body(g)
    PROVE  LogInv' /\ Grows
<1> DEFINE h == handles[g]
           done == [h EXCEPT !.pc = "footer_write"]
<1>1. h.pc = "body_sync" /\ AppendSound(g) /\ h.role = "writer"
  BY DEF sync_body, LogInv, HandleSound, AppendSound, Appending
<1>2. CASE Refused(g, "body_sync") \/ FaultBefore(g, "body_sync")
  BY <1>1, <1>2, RefusedCall
<1>3. CASE Sync(g, "body_sync", "footer_write", done) /\ UNCHANGED acked
  <2>1. /\ DOMAIN done = HandleFields /\ done.pc = "footer_write"
        /\ done.role = h.role /\ done.snap = h.snap
        /\ done.chain = h.chain /\ done.next = h.next
    BY DEF LogInv, LogShape, HandleFields
  <2>2. /\ active = g /\ expected_phase = "body_sync"
        /\ UNCHANGED <<backing, length>>
    BY <1>3 DEF Sync, validate
  <2> HIDE DEF done
  <2>3. /\ IsChain(h.chain) /\ IsChain(h.next)
        /\ Len(h.next) = Len(h.chain) + 1
        /\ SubSeq(h.next, 1, Len(h.chain)) = h.chain
        /\ Laid(backing', h.chain)
        /\ length' = ENCODED * Len(h.chain) + BODY
        /\ \A k \in 1..BODY :
               backing'[ENCODED * Len(h.chain) + k] = <<h.next, k>>
    BY <1>1, <2>2 DEF AppendSound, Appending
  <2>4. handles'[g] = done => HandleSound(g)' \/ ~SnapSound(g)'
    <3> SUFFICES ASSUME handles'[g] = done, SnapSound(g)'
                 PROVE  HandleSound(g)'
      OBVIOUS
    <3>1. AppendSound(g)'
      BY <1>1, <2>1, <2>3 DEF AppendSound
    <3> QED BY <2>1, <3>1 DEF HandleSound, PositionSound
  <2> QED BY <1>1, <1>3, <2>1, <2>4, SyncKeeps
<1> QED BY <1>2, <1>3 DEF sync_body

\* The footer completes the record.
LEMMA RecordLaid ==
    ASSUME NEW s, NEW t, NEW c, NEW d, IsChain(c), IsChain(d),
           Len(d) = Len(c) + 1, SubSeq(d, 1, Len(c)) = c,
           Laid(s, c),
           \A p \in 1..(ENCODED * Len(c)) : t[p] = s[p],
           \A k \in 1..ENCODED : t[ENCODED * Len(c) + k] = <<d, k>>
    PROVE  Laid(t, d)
<1>1. Len(c) \in Nat
  BY DEF IsChain
<1> SUFFICES ASSUME NEW n \in 1..Len(d), NEW k \in 1..ENCODED
             PROVE  t[ENCODED * (n - 1) + k] = <<SubSeq(d, 1, n), k>>
  BY DEF Laid, RecordAt
<1>2. CASE n = Len(d)
  <2>1. n - 1 = Len(c)
    BY <1>1, <1>2
  <2>2. SubSeq(d, 1, n) = d
    BY <1>1, <1>2, ChainFirst
  <2> QED BY <2>1, <2>2
<1>3. CASE n # Len(d)
  <2>1. n \in 1..Len(c) /\ n \in 0..Len(c) /\ Len(c) \in 0..Len(d)
    BY <1>1, <1>3
  <2>2. SubSeq(d, 1, n) = SubSeq(c, 1, n)
    BY <2>1, ChainFirst
  <2>3. ENCODED * (n - 1) + k \in 1..(ENCODED * Len(c))
    BY <1>1, <2>1 DEF ENCODED
  <2> QED BY <2>1, <2>2, <2>3 DEF Laid, RecordAt
<1> QED BY <1>2, <1>3

\* A footer, or the first unit of it, after its body.
LEMMA append_footerKeeps ==
    ASSUME LogInv, NEW g \in Generations, append_footer(g)
    PROVE  LogInv' /\ Grows
<1> DEFINE h == handles[g]
           chain == h.chain
           next == h.next
           units == Units(next, BODY + 1, ENCODED)
<1>1. h.pc = "footer_write" /\ AppendSound(g) /\ h.role = "writer"
  BY DEF append_footer, LogInv, HandleSound, AppendSound, Appending
<1>2. CASE Refused(g, "footer_write") \/ FaultBefore(g, "footer_write")
  BY <1>1, <1>2, RefusedCall
<1>3. ASSUME Write(g, "footer_write", "footer_sync", units, "footer_sync")
      PROVE  LogInv' /\ Grows
  <2>1. /\ active = g /\ expected_phase = "footer_write"
        /\ UNCHANGED <<synced, active, next_generation, acked>>
    BY <1>3 DEF Write, validate
  <2>2. PICK count \in 1..Len(units) :
            /\ backing' = Written(units, count)
            /\ length' = length + count
            /\ expected_phase' = IF count = Len(units)
                                 THEN "footer_sync" ELSE "footer_write"
            /\ \/ /\ count = Len(units)
                  /\ handles' = [handles EXCEPT ![g].pc = "footer_sync"]
               \/ Fault(g)
    BY <1>3 DEF Write
  <2>3. /\ IsChain(units) /\ Len(units) = 2
        /\ units[1] = <<next, 3>> /\ units[2] = <<next, 4>>
    <3>1. BODY + 1 \in Nat /\ ENCODED \in Nat /\ BODY + 1 <= ENCODED
      BY DEF BODY, ENCODED
    <3>2. /\ IsChain(units) /\ Len(units) = ENCODED - (BODY + 1) + 1
          /\ \A k \in 1..(ENCODED - (BODY + 1) + 1) :
                 units[k] = <<next, BODY + 1 + k - 1>>
      BY <3>1, UnitsAre
    <3> HIDE DEF units
    <3> QED BY <3>2 DEF BODY, ENCODED
  <2>4. /\ IsChain(chain) /\ IsChain(next) /\ Len(next) = Len(chain) + 1
        /\ SubSeq(next, 1, Len(chain)) = chain
        /\ Laid(backing, chain)
        /\ length = ENCODED * Len(chain) + BODY
        /\ \A k \in 1..BODY : backing[ENCODED * Len(chain) + k] = <<next, k>>
    BY <1>1, <2>1 DEF AppendSound, Appending
  <2>5. /\ DOMAIN handles' = Generations
        /\ \A i \in Generations : i # g => handles'[i] = handles[i]
        /\ DOMAIN handles'[g] = HandleFields
        /\ handles'[g].role = "writer"
        /\ handles'[g].snap = h.snap
        /\ \/ Poison(g)
           \/ /\ count = 2 /\ handles'[g].pc = "footer_sync"
              /\ handles'[g].next = next /\ handles'[g].chain = chain
    <3> HIDE DEF units
    <3>1. CASE Fault(g)
      BY <1>1, <3>1, PoisonedHandle DEF Fault, LogInv
    <3>2. CASE /\ count = Len(units)
               /\ handles' = [handles EXCEPT ![g].pc = "footer_sync"]
      BY <1>1, <2>3, <3>2 DEF LogInv, LogShape, HandleFields
    <3> QED BY <2>2, <3>1, <3>2
  <2> HIDE DEF units, next, chain
  <2>6. /\ IsChain(backing')
        /\ length' \in 0..Len(backing')
        /\ Len(backing) <= Len(backing')
        /\ \A p \in 1..length : backing'[p] = backing[p]
        /\ \A k \in 1..count : backing'[length + k] = units[k]
        /\ Persist
    BY <2>2, <2>3, WriteIs DEF LogInv
  <2>7. /\ length \in Nat /\ length' \in Nat /\ length <= length'
        /\ synced \in Nat /\ Len(backing) \in Nat /\ Len(backing') \in Nat
        /\ synced <= Len(backing) /\ Len(chain) \in Nat
        /\ count \in 1..2
    BY <2>2, <2>3, <2>4, <2>6, ShapeTypes DEF LogInv, IsChain
  <2>8. LogShape'
    BY <2>1, <2>5, <2>6, <2>7 DEF LogInv, LogShape
  <2>9. Records(length) = Len(chain)
    <3>1. /\ ENCODED * Len(chain) <= length
          /\ length < ENCODED * Len(chain) + ENCODED
      BY <2>4, <2>7 DEF ENCODED, BODY
    <3> QED BY <2>7, <3>1, RecordsOf
  <2>10. \A p \in 1..(ENCODED * Len(chain)) : backing'[p] = backing[p]
    BY <2>6, <2>9 DEF Persist
  <2>11. ASSUME count = 2
         PROVE  Laid(backing', next) /\ length' = ENCODED * Len(next)
    <3>1. \A k \in 1..ENCODED :
              backing'[ENCODED * Len(chain) + k] = <<next, k>>
      <4>1. /\ backing'[ENCODED * Len(chain) + 1] = <<next, 1>>
            /\ backing'[ENCODED * Len(chain) + 2] = <<next, 2>>
        <5>1. 1 \in 1..BODY /\ 2 \in 1..BODY
          BY DEF BODY
        <5>2. ENCODED * Len(chain) + 1 \in 1..length
              /\ ENCODED * Len(chain) + 2 \in 1..length
          BY <2>4, <2>7 DEF ENCODED, BODY
        <5> QED BY <2>4, <2>6, <5>1, <5>2
      <4>2. /\ backing'[ENCODED * Len(chain) + 3] = <<next, 3>>
            /\ backing'[ENCODED * Len(chain) + 4] = <<next, 4>>
        <5>1. 1 \in 1..count /\ 2 \in 1..count
          BY <2>11
        <5>2. /\ length + 1 = ENCODED * Len(chain) + 3
              /\ length + 2 = ENCODED * Len(chain) + 4
          BY <2>4, <2>7 DEF ENCODED, BODY
        <5>3. backing'[length + 1] = units[1] /\ backing'[length + 2] = units[2]
          BY <2>6, <5>1
        <5> QED BY <2>3, <5>2, <5>3
      <4> TAKE k \in 1..ENCODED
      <4>3. k = 1 \/ k = 2 \/ k = 3 \/ k = 4
        BY DEF ENCODED
      <4> QED BY <4>1, <4>2, <4>3
    <3>2. Laid(backing', next)
      BY <2>4, <2>10, <3>1, RecordLaid
    <3>3. length' = ENCODED * Len(next)
      BY <2>2, <2>4, <2>7, <2>11 DEF ENCODED, BODY
    <3> QED BY <3>2, <3>3
  <2>12. StreamWhole' /\ SyncedNear' /\ AckedSafe'
    <3>1. CASE count = 1
      <4>1. /\ ENCODED * Len(chain) <= length'
            /\ length' < ENCODED * Len(chain) + ENCODED
        BY <2>2, <2>4, <2>7, <3>1 DEF ENCODED, BODY
      <4>2. Records(length') = Len(chain)
        BY <2>7, <4>1, RecordsOf
      <4> QED BY <2>1, <2>6, <2>8, <2>9, <4>2, TailKeeps
    <3>2. CASE count = 2
      <4>1. length' = ENCODED * Len(next) /\ Laid(backing', next)
        BY <2>11, <3>2
      <4>2. Records(length') = Len(next) /\ Len(next) \in Nat
        <5>1. /\ Len(next) \in Nat
              /\ ENCODED * Len(next) <= length'
              /\ length' < ENCODED * Len(next) + ENCODED
          BY <2>4, <2>7, <4>1 DEF ENCODED
        <5> QED BY <2>7, <5>1, RecordsOf
      <4>3. StreamWhole'
        BY <2>4, <4>1, <4>2 DEF StreamWhole
      <4>4. SyncedNear'
        BY <2>1, <2>4, <2>7, <2>9, <4>2 DEF LogInv, SyncedNear, ENCODED
      <4>5. /\ IsChain(acked) /\ Laid(backing, acked) /\ Len(acked) \in Nat
            /\ ENCODED * Len(acked) <= length
            /\ ENCODED * Len(acked) <= synced
        BY DEF LogInv, AckedSafe, IsChain
      <4>6. Laid(backing', acked) /\ ENCODED * Len(acked) <= length'
        BY <2>6, <2>7, <4>5, PersistLaid DEF LogInv, ENCODED
      <4>7. AckedSafe'
        BY <2>1, <4>5, <4>6 DEF AckedSafe
      <4> QED BY <4>3, <4>4, <4>7
    <3> QED BY <2>7, <3>1, <3>2
  <2>13. HandleSound(g)'
    <3>1. SnapSound(g)'
      BY <1>1, <2>1, <2>5, <2>6, <2>7, <2>8, WriterSnap
    <3>2. CASE Poison(g)
      BY <3>1, <3>2, PoisonedSound DEF LogInv
    <3>3. CASE /\ count = 2 /\ handles'[g].pc = "footer_sync"
               /\ handles'[g].next = next /\ handles'[g].chain = chain
      <4>1. Laid(backing', chain)
        <5>1. ENCODED * Len(chain) <= length
          BY <2>4, <2>7 DEF ENCODED, BODY
        <5> QED BY <2>4, <2>6, <5>1, PersistLaid DEF LogInv
      <4>2. AppendSound(g)'
        BY <2>4, <2>5, <2>11, <3>3, <4>1 DEF AppendSound, Appending
      <4> QED BY <3>1, <3>3, <4>2 DEF HandleSound, PositionSound
    <3> QED BY <2>5, <3>2, <3>3
  <2>14. Len(acked) \in Nat
    BY DEF LogInv, AckedSafe, IsChain
  <2> QED BY <2>1, <2>5, <2>6, <2>8, <2>12, <2>13, <2>14, StepSound
<1> QED BY <1>2, <1>3 DEF append_footer

\* The sync after which the record is reported durable.
LEMMA sync_footerKeeps ==
    ASSUME LogInv, NEW g \in Generations, sync_footer(g)
    PROVE  LogInv' /\ Grows
<1> DEFINE h == handles[g]
           done == [h EXCEPT !.pc = "published", !.chain = h.next]
<1>1. h.pc = "footer_sync" /\ AppendSound(g) /\ h.role = "writer"
  BY DEF sync_footer, LogInv, HandleSound, AppendSound, Appending
<1>2. Len(acked) \in Nat
  BY DEF LogInv, AckedSafe, IsChain
<1>3. CASE Refused(g, "footer_sync") \/ FaultBefore(g, "footer_sync")
  BY <1>1, <1>2, <1>3, RefusedCall DEF Refused, FaultBefore
<1>4. CASE /\ Sync(g, "footer_sync", "body_write", done)
           /\ acked' = IF handles'[g].pc = "published" THEN h.next ELSE acked
  <2>1. /\ active = g /\ expected_phase = "footer_sync"
        /\ synced' = length
        /\ UNCHANGED <<backing, length, active, next_generation>>
        /\ handles' = [handles EXCEPT ![g] = done] \/ Poison(g)
    BY <1>4 DEF Sync, validate, Fault
  <2>2. /\ IsChain(h.next) /\ Laid(backing, h.next)
        /\ length = ENCODED * Len(h.next)
    BY <1>1, <2>1 DEF AppendSound, Appending
  <2>3. /\ DOMAIN done = HandleFields /\ done.pc = "published"
        /\ done.role = h.role /\ done.snap = h.snap /\ done.chain = h.next
    BY DEF LogInv, LogShape, HandleFields
  <2> HIDE DEF done
  <2>4. CASE Poison(g)
    <3>1. handles'[g].pc = "poisoned" /\ handles'[g].role = h.role
          /\ handles'[g].snap = h.snap
      BY <2>4, PoisonedHandle DEF LogInv
    <3>2. acked' = acked
      BY <1>4, <3>1
    <3>3. handles'[g] = done => HandleSound(g)' \/ ~SnapSound(g)'
      BY <2>3, <3>1
    <3> QED BY <1>1, <1>2, <1>4, <2>3, <3>2, <3>3, SyncKeeps
  <2>5. CASE handles' = [handles EXCEPT ![g] = done]
    <3>1. /\ DOMAIN handles' = Generations
          /\ \A i \in Generations : i # g => handles'[i] = handles[i]
          /\ handles'[g] = done
      BY <2>5 DEF LogInv, LogShape
    <3>2. acked' = h.next
      BY <1>4, <2>3, <3>1
    <3>3. LogShape'
      BY <1>1, <2>1, <2>3, <3>1 DEF LogInv, LogShape
    <3>4. Persist
      BY <2>1, SameBacking DEF LogInv
    <3>5. /\ length \in Nat /\ Len(h.next) \in Nat
          /\ ENCODED * Records(length) <= length
          /\ length < ENCODED * Records(length) + ENCODED
          /\ ENCODED * Len(acked) <= length
      <4>1. length \in Nat
        BY ShapeTypes DEF LogInv
      <4>2. Len(h.next) \in Nat
        BY <2>2 DEF IsChain
      <4>3. ENCODED * Len(acked) <= length
        BY DEF LogInv, AckedSafe
      <4> QED BY <4>1, <4>2, <4>3, RecordsOf
    <3>6. Len(acked) <= Len(h.next)
      BY <1>2, <2>2, <3>5 DEF ENCODED
    <3>7. StreamWhole' /\ SyncedNear'
      <4>1. length' = length /\ backing' = backing /\ synced' = length
        BY <2>1
      <4> QED BY <3>5, <4>1 DEF LogInv, StreamWhole, SyncedNear
    <3>8. AckedSafe'
      <4>1. ENCODED * Len(h.next) <= length
        BY <2>2, <3>5
      <4> QED BY <2>1, <2>2, <3>2, <4>1 DEF AckedSafe
    <3>9. HandleSound(g)'
      <4>1. h.role # "repairer" => Len(h.snap) <= length'
        BY <1>1, <2>1 DEF LogInv, HandleSound, SnapSound
      <4>2. SnapSound(g)'
        BY <1>1, <2>1, <2>3, <3>1, <3>3, <3>4, <4>1, SnapKept
      <4>3. Laid(backing', h.next) /\ Len(h.next) <= Len(acked')
        BY <2>1, <2>2, <3>2, <3>5
      <4>4. PositionSound(g)'
        BY <2>2, <2>3, <3>1, <4>3 DEF PositionSound
      <4>5. AppendSound(g)'
        BY <2>3, <3>1 DEF AppendSound, Appending
      <4> QED BY <4>2, <4>4, <4>5 DEF HandleSound
    <3>10. Len(acked) <= Len(acked')
      BY <3>2, <3>6
    <3> QED BY <2>1, <3>1, <3>3, <3>4, <3>7, <3>8, <3>9, <3>10, StepSound
  <2> QED BY <2>1, <2>4, <2>5
<1> QED BY <1>3, <1>4 DEF sync_footer

\* The commit that follows an append leaves the log alone.
LEMMA publishedCommitKeeps ==
    ASSUME LogInv, NEW g \in Generations, publishedCommit(g)
    PROVE  LogInv' /\ Grows
<1> DEFINE h == handles[g]
<1>1. /\ h.pc = "published"
      /\ handles' = [handles EXCEPT ![g].pc = "ready", ![g].next = <<>>]
      /\ UNCHANGED <<backing, length, synced, active, next_generation,
                     expected_phase, acked>>
  BY DEF publishedCommit
<1>2. /\ DOMAIN handles' = Generations
      /\ \A i \in Generations : i # g => handles'[i] = handles[i]
      /\ DOMAIN handles'[g] = HandleFields
      /\ handles'[g].role = h.role /\ handles'[g].pc = "ready"
      /\ handles'[g].snap = h.snap /\ handles'[g].chain = h.chain
  BY <1>1 DEF LogInv, LogShape, HandleFields
<1>3. LogShape'
  BY <1>1, <1>2 DEF LogInv, LogShape
<1>4. /\ Persist
      /\ StreamWhole' /\ SyncedNear' /\ AckedSafe'
  BY <1>1, QuietKeeps
<1>5. HandleSound(g)'
  <2>1. IsChain(h.chain) /\ Laid(backing, h.chain)
    BY <1>1 DEF LogInv, HandleSound, PositionSound
  <2>2. backing' = backing
    BY <1>1
  <2>3. Laid(backing', h.chain)
    BY <2>1, <2>2
  <2>4. SnapSound(g)'
    <3>1. CASE h.role = "none"
      BY <1>2, <3>1 DEF SnapSound
    <3>2. CASE h.role # "none"
      <4>1. /\ active' = active /\ length' = length /\ backing' = backing
        BY <1>1
      <4>2. active = g /\ h.role # "repairer" => Len(h.snap) <= length
        BY <3>2 DEF LogInv, HandleSound, SnapSound
      <4> QED BY <1>2, <1>3, <1>4, <3>2, <4>1, <4>2, SnapKept
    <3> QED BY <3>1, <3>2
  <2> QED BY <1>2, <2>1, <2>3, <2>4 DEF HandleSound, AppendSound,
             PositionSound, Appending
<1>6. Len(acked) \in Nat /\ acked' = acked
  BY <1>1 DEF LogInv, AckedSafe, IsChain
<1> QED BY <1>1, <1>2, <1>3, <1>4, <1>5, <1>6, StepSound

\* Whatever length between the two storage has after a crash.
LEMMA CrashLength ==
    ASSUME LogInv, NEW n \in crash_bounds
    PROVE  /\ n \in Nat /\ n <= Len(backing)
           /\ Records(n) \in Nat /\ Records(n) <= Records(length)
           /\ ENCODED * Len(acked) <= n
<1>1. /\ length \in Nat /\ synced \in Nat
      /\ length <= Len(backing) /\ synced <= Len(backing)
      /\ Len(backing) \in Nat
  BY ShapeTypes DEF LogInv
<1>2. /\ n \in Nat /\ n <= Len(backing)
      /\ n <= length \/ n <= synced
      /\ length <= n \/ synced <= n
  BY <1>1 DEF crash_bounds
<1>3. /\ Records(n) \in Nat /\ Records(length) \in Nat
      /\ ENCODED * Records(n) <= n
      /\ length < ENCODED * Records(length) + ENCODED
      /\ synced < ENCODED * Records(length) + ENCODED
  BY <1>1, <1>2, RecordsOf DEF LogInv, SyncedNear
<1>4. Records(n) <= Records(length)
  BY <1>1, <1>2, <1>3 DEF ENCODED
<1>5. /\ Len(acked) \in Nat
      /\ ENCODED * Len(acked) <= length /\ ENCODED * Len(acked) <= synced
  BY DEF LogInv, AckedSafe, IsChain
<1> QED BY <1>1, <1>2, <1>3, <1>4, <1>5 DEF ENCODED

\* A crash leaves records of the same chain and no fewer than are
\* acknowledged.
LEMMA crash_persistKeeps ==
    ASSUME LogInv, crash_persist
    PROVE  LogInv'
<1>1. PICK n \in crash_bounds : length' = n /\ synced' = n
  BY DEF crash_persist
<1>2. /\ active' = 0
      /\ handles' = [g \in Generations |-> NoHandle]
      /\ UNCHANGED <<backing, next_generation, acked>>
  BY DEF crash_persist
<1>3. /\ n \in Nat /\ n <= Len(backing)
      /\ Records(n) \in Nat /\ Records(n) <= Records(length)
      /\ ENCODED * Len(acked) <= n
  BY <1>1, CrashLength
<1>4. \A g \in Generations : handles'[g] = NoHandle /\ active' # g
  BY <1>2 DEF Generations
<1>5. LogShape'
  BY <1>1, <1>2, <1>3, <1>4
     DEF LogInv, LogShape, NoHandle, HandleFields, IsChain
<1>6. StreamWhole'
  <2>1. PICK c : IsChain(c) /\ Len(c) = Records(length) /\ Laid(backing, c)
    BY DEF LogInv, StreamWhole
  <2> DEFINE d == SubSeq(c, 1, Records(n))
  <2>2. /\ Records(n) \in 0..Len(c) /\ Len(c) \in Nat
        /\ IsChain(d) /\ Len(d) = Records(n)
        /\ \A m \in 0..Records(n) : SubSeq(d, 1, m) = SubSeq(c, 1, m)
    <3>1. Records(n) \in 0..Len(c) /\ Len(c) \in Nat
      BY <1>3, <2>1 DEF IsChain
    <3> QED BY <2>1, <3>1, ChainFirst
  <2> HIDE DEF d
  <2>3. Laid(backing, d)
    <3> SUFFICES ASSUME NEW m \in 1..Len(d), NEW k \in 1..ENCODED
                 PROVE  backing[ENCODED * (m - 1) + k] =
                            <<SubSeq(d, 1, m), k>>
      BY DEF Laid, RecordAt
    <3>1. m \in 1..Len(c) /\ m \in 0..Records(n)
      BY <1>3, <2>2
    <3> QED BY <2>1, <2>2, <3>1 DEF Laid, RecordAt
  <2> QED BY <1>1, <1>2, <2>2, <2>3 DEF StreamWhole
<1>7. SyncedNear'
  BY <1>1, <1>3, RecordsOf DEF SyncedNear
<1>8. AckedSafe'
  BY <1>1, <1>2, <1>3 DEF LogInv, AckedSafe
<1>9. \A g \in Generations : HandleSound(g)'
  BY <1>4 DEF HandleSound, SnapSound, AppendSound, PositionSound, NoHandle,
     Appending
<1> QED BY <1>5, <1>6, <1>7, <1>8, <1>9 DEF LogInv

\* The log starts empty and sound.
LEMMA LogStarts ==
    ASSUME LogInit
    PROVE  LogInv
<1>1. IsChain(<<>>) /\ Len(<<>>) = 0
  <2>1. <<>> \in Seq({})
    OBVIOUS
  <2> QED BY <2>1 DEF IsChain
<1>2. \A s : Laid(s, <<>>)
  BY <1>1 DEF Laid
<1>3. Records(0) = 0
  BY DEF Records, ENCODED
<1>4. LogShape
  BY <1>1 DEF LogInit, LogShape, NoHandle, HandleFields, Generations
<1>5. StreamWhole /\ SyncedNear /\ AckedSafe
  BY <1>1, <1>2, <1>3 DEF LogInit, StreamWhole, SyncedNear, AckedSafe, ENCODED
<1>6. \A g \in Generations : HandleSound(g)
  BY DEF LogInit, HandleSound, SnapSound, AppendSound, PositionSound,
     NoHandle, Appending
<1> QED BY <1>4, <1>5, <1>6 DEF LogInv

-----------------------------------------------------------------------------
(* The records that freed, and the steps of the whole sweep.               *)

\* What is logged stays logged while the process lives.
LEMMA FreedStays ==
    ASSUME LogInv, LogInv', Grows, FreedLogged, NEW f \in freed
    PROVE  /\ IsChain(f.chain)
           /\ Laid(backing', f.chain)
           /\ ENCODED * Len(f.chain) <= length'
           /\ f.how = "published" => Len(f.chain) <= Len(acked')
<1>1. /\ IsChain(f.chain) /\ Laid(backing, f.chain)
      /\ ENCODED * Len(f.chain) <= length
      /\ f.how = "published" => Len(f.chain) <= Len(acked)
  BY DEF FreedLogged
<1>2. /\ length \in Nat /\ length' \in Nat /\ Len(f.chain) \in Nat
      /\ Len(acked) \in Nat /\ Len(acked') \in Nat
  <2>1. length' \in Nat
    BY DEF LogInv, LogShape, IsChain
  <2> QED BY <1>1, <2>1, ShapeTypes DEF LogInv, AckedSafe, IsChain
<1>3. Laid(backing', f.chain)
  BY <1>1, PersistLaid DEF LogInv, Grows
<1>4. ENCODED * Len(f.chain) <= length'
  <2>1. /\ Records(length) \in Nat /\ Len(f.chain) <= Records(length)
        /\ Records(length') \in Nat /\ ENCODED * Records(length') <= length'
    BY <1>1, <1>2, RecordsOf
  <2>2. Records(length) <= Records(length')
    BY DEF Grows, Persist
  <2> QED BY <1>2, <2>1, <2>2 DEF ENCODED
<1>5. f.how = "published" => Len(f.chain) <= Len(acked')
  BY <1>1, <1>2 DEF Grows
<1> QED BY <1>1, <1>3, <1>4, <1>5

\* A step of the log that frees nothing.
LEMMA SameFreed ==
    ASSUME SweepInv, LogInv', Grows, freed' = freed
    PROVE  SweepInv'
BY FreedStays DEF SweepInv, FreedLogged

\* A step that frees by a record which is in the stream.
LEMMA OneMoreFreed ==
    ASSUME SweepInv, LogInv', Grows, NEW chain, NEW how,
           freed' = freed \union {[chain |-> chain, how |-> how]},
           IsChain(chain), Laid(backing', chain),
           ENCODED * Len(chain) <= length',
           how = "published" => Len(chain) <= Len(acked')
    PROVE  SweepInv'
<1> DEFINE new == [chain |-> chain, how |-> how]
<1>1. new.chain = chain /\ new.how = how
  OBVIOUS
<1> SUFFICES ASSUME NEW f \in freed'
             PROVE  /\ IsChain(f.chain)
                    /\ Laid(backing', f.chain)
                    /\ ENCODED * Len(f.chain) <= length'
                    /\ f.how = "published" => Len(f.chain) <= Len(acked')
  BY DEF SweepInv, FreedLogged
<1>2. CASE f \in freed
  BY <1>2, FreedStays DEF SweepInv
<1>3. CASE f = new
  BY <1>1, <1>3
<1> QED BY <1>2, <1>3

\* The commit that follows an append frees by the record that was published.
LEMMA publishedCommitSound ==
    ASSUME SweepInv, NEW g \in Generations, publishedCommit(g)
    PROVE  SweepInv'
<1> DEFINE chain == handles[g].chain
<1>1. LogInv' /\ Grows
  BY publishedCommitKeeps DEF SweepInv
<1>2. CASE freed' = freed
  BY <1>1, <1>2, SameFreed
<1>3. CASE freed' = freed \union {[chain |-> chain, how |-> "published"]}
  <2>1. IsChain(chain) /\ Laid(backing, chain) /\ Len(chain) <= Len(acked)
    BY DEF SweepInv, LogInv, HandleSound, PositionSound, publishedCommit
  <2>2. /\ Len(chain) \in Nat /\ Len(acked) \in Nat /\ length \in Nat
        /\ ENCODED * Len(acked) <= length
    BY <2>1, ShapeTypes DEF SweepInv, LogInv, AckedSafe, IsChain
  <2>3. ENCODED * Len(chain) <= length
    BY <2>1, <2>2 DEF ENCODED
  <2>4. UNCHANGED <<backing, length, acked>>
    BY DEF publishedCommit
  <2> HIDE DEF chain
  <2>5. /\ Laid(backing', chain) /\ ENCODED * Len(chain) <= length'
        /\ Len(chain) <= Len(acked')
    BY <2>1, <2>3, <2>4
  <2> QED BY <1>1, <1>3, <2>1, <2>5, OneMoreFreed
<1> QED BY <1>2, <1>3 DEF publishedCommit, commit_preview

\* A recovery frees by a record that ends the stream its lease showed.
LEMMA recoverSound ==
    ASSUME SweepInv, NEW g \in Generations, recover_published_commit(g)
    PROVE  SweepInv'
<1> DEFINE s == handles[g].snap
<1>1. /\ handles[g].role # "none" /\ CommittedChain(s) = prepared
      /\ freed' = freed \union {[chain |-> prepared, how |-> "recovered"]}
      /\ UNCHANGED logVars
  BY DEF recover_published_commit, commit_preview
<1>2. LogInv' /\ Grows
  BY <1>1, LogStutters DEF SweepInv
<1>3. /\ IsChain(s) /\ Len(s) \in Nat /\ length \in Nat
      /\ Records(Len(s)) \in Nat /\ Records(length) \in Nat
      /\ Records(Len(s)) <= Records(length)
      /\ ENCODED * Records(length) <= length
      /\ \A p \in 1..(ENCODED * Records(Len(s))) : s[p] = backing[p]
  <2>1. /\ IsChain(s) /\ Len(s) \in Nat
        /\ Records(Len(s)) <= Records(length)
        /\ \A p \in 1..(ENCODED * Records(Len(s))) : s[p] = backing[p]
    BY <1>1 DEF SweepInv, LogInv, HandleSound, SnapSound, IsChain
  <2>2. length \in Nat
    BY ShapeTypes DEF SweepInv, LogInv
  <2> QED BY <2>1, <2>2, RecordsOf
<1> HIDE DEF s
<1>4. PICK c : IsChain(c) /\ Len(c) = Records(length) /\ Laid(backing, c)
  BY DEF SweepInv, LogInv, StreamWhole
<1> DEFINE d == SubSeq(c, 1, Records(Len(s)))
<1>5. /\ IsChain(d) /\ Len(d) = Records(Len(s))
      /\ \A m \in 0..Len(d) : SubSeq(d, 1, m) = SubSeq(c, 1, m)
  <2>1. Records(Len(s)) \in 0..Len(c)
    BY <1>3, <1>4
  <2> QED BY <1>4, <2>1, ChainFirst
<1> HIDE DEF d
<1>6. Laid(backing, d) /\ Laid(s, d)
  <2> SUFFICES ASSUME NEW m \in 1..Len(d), NEW k \in 1..ENCODED
               PROVE  /\ backing[ENCODED * (m - 1) + k] =
                             <<SubSeq(d, 1, m), k>>
                      /\ s[ENCODED * (m - 1) + k] = <<SubSeq(d, 1, m), k>>
    BY DEF Laid, RecordAt
  <2>1. m \in 1..Len(c) /\ m \in 0..Len(d)
    BY <1>3, <1>4, <1>5
  <2>2. ENCODED * (m - 1) + k \in 1..(ENCODED * Records(Len(s)))
    BY <1>3, <1>5 DEF ENCODED
  <2> QED BY <1>3, <1>4, <1>5, <2>1, <2>2 DEF Laid, RecordAt
<1>7. prepared = d
  <2>1. Len(d) = Len(s) \div ENCODED
    BY <1>5 DEF Records
  <2> QED BY <1>1, <1>3, <1>5, <1>6, <2>1, LaidIsCommitted
<1>8. ENCODED * Len(d) <= length
  BY <1>3, <1>5 DEF ENCODED
<1>9. backing' = backing /\ length' = length
  BY <1>1 DEF logVars
<1> QED BY <1>1, <1>2, <1>5, <1>6, <1>7, <1>8, <1>9, OneMoreFreed DEF SweepInv

\* The invariant holds initially.
LEMMA SweepStarts == SweepInit => SweepInv
BY LogStarts DEF SweepInit, SweepInv, FreedLogged

\* Every step of the sweep keeps the invariant.
LEMMA SweepSteps ==
    ASSUME SweepInv, [SweepNext]_sweepVars
    PROVE  SweepInv'
<1> USE DEF SweepInv
<1>1. CASE UNCHANGED sweepVars
  BY <1>1, LogStutters, SameFreed DEF sweepVars
<1>2. CASE StoreStep
  BY <1>2, LogStutters, SameFreed DEF StoreStep
<1>3. CASE LogStep
  <2>1. freed' = freed
    BY <1>3 DEF LogStep
  <2>2. LogInv' /\ Grows
    <3>1. CASE acquire
      BY <3>1, acquireKeeps
    <3>2. ASSUME NEW g \in Generations,
                 release_log(g) \/ open_clean(g) \/ RepairLogStep(g)
          PROVE  LogInv' /\ Grows
      BY <3>2, release_logKeeps, open_cleanKeeps, prepare_repairKeeps,
         truncateKeeps, repair_syncKeeps DEF RepairLogStep
    <3> QED BY <1>3, <3>1, <3>2 DEF LogStep
  <2> QED BY <2>1, <2>2, SameFreed
<1>4. CASE SweepStep
  <2>1. CASE prepare \/ abort \/ newJournal \/ preview_commit
    <3>1. UNCHANGED logVars /\ freed' = freed
      BY <2>1 DEF prepare, abort, newJournal, preview_commit
    <3> QED BY <3>1, LogStutters, SameFreed
  <2>2. ASSUME NEW g \in Generations, publish(g) PROVE SweepInv'
    BY <2>2, append_recordKeeps, SameFreed DEF publish
  <2>3. ASSUME NEW g \in Generations, publishStep(g) PROVE SweepInv'
    BY <2>3, sync_bodyKeeps, append_footerKeeps, sync_footerKeeps, SameFreed
       DEF publishStep
  <2> QED BY <1>4, <2>1, <2>2, <2>3, publishedCommitSound, recoverSound
          DEF SweepStep
<1>5. CASE crash
  BY <1>5, crash_persistKeeps DEF crash, FreedLogged
<1> QED BY <1>1, <1>2, <1>3, <1>4, <1>5 DEF SweepNext

-----------------------------------------------------------------------------
(* The theorems.                                                           *)

\* The invariant holds in every reachable state.
THEOREM SweepIsSound == SweepSpec => []SweepInv
<1>1. SweepInit => SweepInv
  BY SweepStarts
<1>2. SweepInv /\ [SweepNext]_sweepVars => SweepInv'
  BY SweepSteps
<1> QED BY <1>1, <1>2, PTL DEF SweepSpec

\* A chain that is laid below a stream's end is in what the stream commits.
LEMMA LaidIsInStream ==
    ASSUME LogInv, NEW n \in Nat, n <= Len(backing),
           Records(n) <= Records(length),
           NEW d, IsChain(d), Laid(backing, d), ENCODED * Len(d) <= n
    PROVE  IsPrefix(d, CommittedChain(SubSeq(backing, 1, n)))
<1> DEFINE s == SubSeq(backing, 1, n)
<1>1. PICK c : IsChain(c) /\ Len(c) = Records(length) /\ Laid(backing, c)
  BY DEF LogInv, StreamWhole
<1> DEFINE e == SubSeq(c, 1, Records(n))
<1>2. /\ Records(n) \in Nat /\ ENCODED * Records(n) <= n
      /\ Len(d) \in Nat /\ Len(d) <= Records(n)
  <2>1. Len(d) \in Nat
    BY DEF IsChain
  <2> QED BY <2>1, RecordsOf
<1>3. /\ IsChain(s) /\ Len(s) = n
      /\ \A m \in 1..n : s[m] = backing[m]
  <2>1. IsChain(backing) /\ n \in 0..Len(backing)
    BY ShapeTypes DEF LogInv, LogShape
  <2> QED BY <2>1, ChainFirst
<1>4. /\ IsChain(e) /\ Len(e) = Records(n)
      /\ \A m \in 0..Records(n) : SubSeq(e, 1, m) = SubSeq(c, 1, m)
  <2>1. Records(n) \in 0..Len(c)
    BY <1>1, <1>2 DEF IsChain
  <2> QED BY <1>1, <2>1, ChainFirst
<1> HIDE DEF s, e
<1>5. Laid(s, e)
  <2> SUFFICES ASSUME NEW m \in 1..Len(e), NEW k \in 1..ENCODED
               PROVE  s[ENCODED * (m - 1) + k] = <<SubSeq(e, 1, m), k>>
    BY DEF Laid, RecordAt
  <2>1. m \in 1..Len(c) /\ m \in 0..Records(n)
    BY <1>1, <1>2, <1>4 DEF IsChain
  <2>2. ENCODED * (m - 1) + k \in 1..n
    BY <1>2, <1>4 DEF ENCODED
  <2> QED BY <1>1, <1>3, <1>4, <2>1, <2>2 DEF Laid, RecordAt
<1>6. Laid(s, d)
  <2> SUFFICES ASSUME NEW m \in 1..Len(d), NEW k \in 1..ENCODED
               PROVE  s[ENCODED * (m - 1) + k] = <<SubSeq(d, 1, m), k>>
    BY DEF Laid, RecordAt
  <2>1. ENCODED * (m - 1) + k \in 1..n
    BY <1>2 DEF ENCODED
  <2> QED BY <1>3, <2>1 DEF Laid, RecordAt
<1>7. CommittedChain(s) = e
  <2>1. Len(e) = Len(s) \div ENCODED
    BY <1>3, <1>4 DEF Records
  <2> QED BY <1>3, <1>4, <1>5, <2>1, LaidIsCommitted
<1>8. IsPrefix(d, e)
  BY <1>2, <1>4, <1>5, <1>6, LaidPrefix
<1> QED BY <1>7, <1>8 DEF s

\* AckedSurvive of ObjectSweep: a record whose append returned is in the log
\* after any crash (append_record and Repairer.apply of
\* bench/continuation_object_sweep_writer.py).
THEOREM AckedRecordsSurvive == SweepSpec => []AckedSurvive
<1>1. ASSUME SweepInv PROVE AckedSurvive
  <2> SUFFICES ASSUME NEW n \in crash_bounds
               PROVE  IsPrefix(acked, CommittedChain(SubSeq(backing, 1, n)))
    BY DEF AckedSurvive, CrashStreams
  <2>1. IsChain(acked) /\ Laid(backing, acked)
    BY <1>1 DEF SweepInv, LogInv, AckedSafe
  <2> QED BY <1>1, <2>1, CrashLength, LaidIsInStream DEF SweepInv
<1> QED BY <1>1, SweepIsSound, PTL

\* FreedWasPublished of ObjectSweep: no payload goes before its record is
\* published (publish_then_commit and recover_published_commit of
\* bench/continuation_object_sweep_file.py).
THEOREM RecordBeforeFree == SweepSpec => []FreedWasPublished
<1>1. ASSUME SweepInv PROVE FreedWasPublished
  <2> SUFFICES ASSUME NEW f \in freed
               PROVE  /\ IsPrefix(f.chain, CommittedChain(stream))
                      /\ f.how = "published" =>
                             \A s \in CrashStreams :
                                 IsPrefix(f.chain, CommittedChain(s))
    BY DEF FreedWasPublished
  <2>1. /\ IsChain(f.chain) /\ Laid(backing, f.chain)
        /\ ENCODED * Len(f.chain) <= length
        /\ f.how = "published" => Len(f.chain) <= Len(acked)
    BY <1>1 DEF SweepInv, FreedLogged
  <2>2. /\ length \in Nat /\ length <= Len(backing)
        /\ Records(length) \in Nat /\ Len(f.chain) \in Nat
        /\ Len(acked) \in Nat
    <3>1. length \in Nat /\ length <= Len(backing)
      BY <1>1, ShapeTypes DEF SweepInv, LogInv
    <3>2. Len(f.chain) \in Nat /\ Len(acked) \in Nat
      BY <1>1, <2>1 DEF SweepInv, LogInv, AckedSafe, IsChain
    <3> QED BY <3>1, <3>2, RecordsOf
  <2>3. IsPrefix(f.chain, CommittedChain(stream))
    BY <1>1, <2>1, <2>2, LaidIsInStream DEF SweepInv, stream
  <2>4. ASSUME f.how = "published", NEW n \in crash_bounds
        PROVE  IsPrefix(f.chain, CommittedChain(SubSeq(backing, 1, n)))
    <3>1. /\ n \in Nat /\ n <= Len(backing)
          /\ Records(n) <= Records(length)
          /\ ENCODED * Len(acked) <= n
      BY <1>1, CrashLength DEF SweepInv
    <3>2. ENCODED * Len(f.chain) <= n
      BY <2>1, <2>2, <2>4, <3>1 DEF ENCODED
    <3> QED BY <1>1, <2>1, <3>1, <3>2, LaidIsInStream DEF SweepInv
  <2> QED BY <2>3, <2>4 DEF CrashStreams
<1> QED BY <1>1, SweepIsSound, PTL

-----------------------------------------------------------------------------
(* Counting up: what holds at zero and at each next number.                *)

\* A set of naturals has a smallest member.
LEMMA SmallestOf ==
    ASSUME NEW F, F \subseteq Nat, F # {}
    PROVE  \E k \in F : \A j \in F : k <= j
<1>1. PICK n \in F : TRUE
  OBVIOUS
<1> DEFINE Below == {m \in F : m <= n}
           T == {Below \cap (0..k) : k \in Below}
<1>2. IsFiniteSet(Below)
  <2>1. Below \subseteq 0..n
    <3>1. ASSUME NEW m \in Below PROVE m \in 0..n
      <4>1. m \in F /\ m <= n
        OBVIOUS
      <4>2. m \in Nat /\ n \in Nat
        BY <1>1, <4>1
      <4> QED BY <4>1, <4>2
    <3> QED BY <3>1
  <2>2. IsFiniteSet(0..n)
    BY <1>1, FS_Interval
  <2> QED BY <2>1, <2>2, FS_Subset
<1>3. n \in Below /\ T # {} /\ T \subseteq SUBSET Below
  <2>1. n \in Below
    BY <1>1
  <2>2. Below \cap (0..n) \in T
    BY <2>1
  <2>3. \A s \in T : s \subseteq Below
    OBVIOUS
  <2> QED BY <2>1, <2>2, <2>3
<1>4. PICK s \in T : \A t \in SUBSET s : t # s => t \notin T
  <2> HIDE DEF T, Below
  <2> QED BY <1>2, <1>3, SmallestSubset
<1>5. PICK k \in Below : s = Below \cap (0..k)
  OBVIOUS
<1>6. ASSUME NEW j \in F, j < k PROVE FALSE
  <2>1. j \in Below /\ j \in Nat /\ k \in Nat
    BY <1>1, <1>5, <1>6
  <2>2. Below \cap (0..j) \in SUBSET s
    BY <1>5, <1>6, <2>1
  <2>3. Below \cap (0..j) # s
    BY <1>5, <1>6, <2>1
  <2> QED BY <1>4, <2>1, <2>2, <2>3
<1>7. k \in F /\ \A j \in F : k <= j
  BY <1>1, <1>5, <1>6
<1> QED BY <1>7

\* Induction along an interval, for a set of its numbers.
LEMMA Climb ==
    ASSUME NEW n \in Nat, NEW P, 0 \in P,
           \A k \in 0..(n - 1) : k \in P => k + 1 \in P
    PROVE  \A k \in 0..n : k \in P
<1> DEFINE F == {k \in 0..n : k \notin P}
<1>1. SUFFICES ASSUME F # {} PROVE FALSE
  OBVIOUS
<1>2. PICK k \in F : \A j \in F : k <= j
  <2>1. F \subseteq Nat
    OBVIOUS
  <2> HIDE DEF F
  <2> QED BY <1>1, <2>1, SmallestOf
<1>3. k \in 1..n /\ k - 1 \in 0..(n - 1) /\ k - 1 \notin F
  BY <1>2
<1> QED BY <1>2, <1>3

-----------------------------------------------------------------------------
(* The store: its slots, and the counters that repeat them.                *)

\* A slot is free, or holds an object in one state.
HeldSlots == [object : Objects, state : {"live", "quarantined", "retired"},
              refs : Nat, generation : Nat, lease : Receipts \cup {NoReceipt},
              repairs : Nat, intact : BOOLEAN]
SlotShape(slot) ==
    \/ slot = FreeSlot
    \/ /\ slot \in HeldSlots
       /\ slot.state = "retired" <=> slot.refs = 0
       /\ leased(slot) => slot.state = "live" /\ slot.generation > 0

\* Every object is in at most one slot.
Unique(s, i, o) == \A j \in Slots : j # i => s.slots[j].object # o
Shape(s) ==
    /\ s = [slots |-> s.slots, acct |-> s.acct]
    /\ s.slots = [i \in Slots |-> s.slots[i]]
    /\ \A i \in Slots : /\ SlotShape(s.slots[i])
                        /\ s.slots[i] # FreeSlot =>
                               Unique(s, i, s.slots[i].object)

\* What one slot adds to each counter.
One(p) == IF p THEN 1 ELSE 0
weighs(slot) ==
    [entries |-> One(slot # FreeSlot),
     live |-> One(slot.state = "live"),
     quarantined |-> One(slot.state = "quarantined"),
     retired |-> One(slot.state = "retired"),
     payload |-> IF slot = FreeSlot THEN 0 ELSE Bytes[slot.object],
     references |-> slot.refs,
     leases |-> One(leased(slot)),
     repairs |-> slot.repairs]

Counters == {"entries", "live", "quarantined", "retired", "payload",
             "references", "leases", "repairs"}
weights(s, c) == [i \in Slots |-> weighs(s.slots[i])[c]]
Total(s, c) == Sum(weights(s, c), Slots)

\* The counters are the totals of the slots.
Tallied(s) == s.acct = [c \in Counters |-> Total(s, c)]

\* Counters that moved with one slot.
Shifted(acct, old, new) ==
    [c \in Counters |-> acct[c] - weighs(old)[c] + weighs(new)[c]]

LEMMA SlotsFinite == IsFiniteSet(Slots)
BY StoreAssumption, FS_Interval DEF Slots

\* Of a free slot every weight is zero, and every weight is a natural.
LEMMA WeightType ==
    ASSUME NEW slot, SlotShape(slot)
    PROVE  /\ \A c \in Counters : weighs(slot)[c] \in Nat
           /\ slot = FreeSlot => \A c \in Counters : weighs(slot)[c] = 0
<1>1. CASE slot = FreeSlot
  BY <1>1 DEF weighs, Counters, One, FreeSlot, leased
<1>2. CASE slot \in HeldSlots
  <2>1. Bytes[slot.object] \in Nat
    BY <1>2, StoreAssumption DEF HeldSlots
  <2>2. slot.state # "free"
    BY <1>2 DEF HeldSlots
  <2> QED BY <1>2, <2>1, <2>2 DEF weighs, Counters, One, HeldSlots, FreeSlot
<1> QED BY <1>1, <1>2 DEF SlotShape

LEMMA TotalType ==
    ASSUME NEW s, Shape(s), NEW c \in Counters
    PROVE  Total(s, c) \in Nat
<1>1. \A i \in Slots : weights(s, c)[i] \in Nat
  BY WeightType DEF weights, Shape
<1> QED BY <1>1, SlotsFinite, SumType DEF Total

\* A store that replaces one slot, and moves the counters by its weights.
LEMMA SlotMoves ==
    ASSUME NEW s, Shape(s), Tallied(s), NEW i \in Slots, NEW slot,
           SlotShape(slot), slot # FreeSlot => Unique(s, i, slot.object),
           NEW t, t = Moved(s, i, slot, Shifted(s.acct, s.slots[i], slot))
    PROVE  Shape(t) /\ Tallied(t)
<1>1. /\ t = [slots |-> t.slots, acct |-> t.acct]
      /\ t.slots = [s.slots EXCEPT ![i] = slot]
      /\ t.acct = Shifted(s.acct, s.slots[i], slot)
  BY DEF Moved
<1>2. /\ DOMAIN t.slots = Slots
      /\ t.slots = [j \in Slots |-> t.slots[j]]
      /\ t.slots[i] = slot
      /\ \A j \in Slots : j # i => t.slots[j] = s.slots[j]
  BY <1>1 DEF Shape
<1>3. Shape(t)
  <2>1. ASSUME NEW j \in Slots, t.slots[j] # FreeSlot
        PROVE  Unique(t, j, t.slots[j].object)
    <3>1. CASE j = i
      BY <1>2, <2>1, <3>1 DEF Unique
    <3>2. CASE j # i
      <4>1. Unique(s, j, s.slots[j].object)
        BY <1>2, <2>1, <3>2 DEF Shape
      <4>2. slot.object # s.slots[j].object
        <5>1. CASE slot = FreeSlot
          <6>1. slot.object = NoObject /\ s.slots[j].object \in Objects
            BY <1>2, <2>1, <3>2, <5>1
               DEF Shape, SlotShape, HeldSlots, FreeSlot
          <6> QED BY <6>1, StoreAssumption
        <5>2. CASE slot # FreeSlot
          BY <3>2, <5>2 DEF Unique
        <5> QED BY <5>1, <5>2
      <4> QED BY <1>2, <3>2, <4>1, <4>2 DEF Unique
    <3> QED BY <3>1, <3>2
  <2>2. \A j \in Slots : SlotShape(t.slots[j])
    BY <1>2 DEF Shape
  <2> QED BY <1>1, <1>2, <2>1, <2>2 DEF Shape
<1>4. ASSUME NEW c \in Counters
      PROVE  Total(t, c) = Total(s, c) - weighs(s.slots[i])[c]
                               + weighs(slot)[c]
  <2> DEFINE f == weights(s, c)
             g == weights(t, c)
  <2>1. \A j \in Slots : f[j] \in Nat /\ g[j] \in Nat
    BY <1>3, WeightType DEF weights, Shape
  <2>2. \A j \in Slots \ {i} : g[j] = f[j]
    BY <1>2 DEF weights
  <2>3. f[i] = weighs(s.slots[i])[c] /\ g[i] = weighs(slot)[c]
    BY <1>2 DEF weights
  <2> HIDE DEF f, g
  <2>4. Sum(g, Slots) = Sum(f, Slots) - f[i] + g[i]
    BY <2>1, <2>2, SlotsFinite, SumChange
  <2> QED BY <2>3, <2>4 DEF Total, f, g
<1>5. Tallied(t)
  BY <1>1, <1>4 DEF Tallied, Shifted
<1> QED BY <1>3, <1>5

\* A total of zeros and ones counts the slots that have a one.
LEMMA TotalCounts ==
    ASSUME NEW s, Shape(s), NEW c \in Counters, NEW A, A \subseteq Slots,
           \A i \in Slots : weighs(s.slots[i])[c] = One(i \in A)
    PROVE  Total(s, c) = Cardinality(A)
<1> DEFINE f == weights(s, c)
<1>1. /\ \A i \in A : f[i] = 1
      /\ \A i \in Slots \ A : f[i] = 0
  BY DEF weights, One
<1> HIDE DEF f
<1>2. IsFiniteSet(A)
  BY SlotsFinite, FS_Subset
<1>3. Sum(f, Slots) = Sum(f, A)
  BY <1>1, SlotsFinite, SumOfPart
<1>4. Sum(f, A) = Cardinality(A)
  BY <1>1, <1>2, SumOfOnes
<1> QED BY <1>3, <1>4 DEF Total, f

\* A total is a sum over the occupied slots.
LEMMA TotalSums ==
    ASSUME NEW s, Shape(s), NEW c \in Counters, NEW v,
           \A i \in Occupied(s) : weighs(s.slots[i])[c] = v[i]
    PROVE  Total(s, c) = Sum(v, Occupied(s))
<1> DEFINE f == weights(s, c)
           O == Occupied(s)
<1>1. /\ O \subseteq Slots
      /\ \A i \in O : f[i] = v[i] /\ f[i] \in Nat
  BY WeightType DEF weights, Occupied, Shape
<1>2. \A i \in Slots \ O : f[i] = 0
  BY WeightType DEF weights, Occupied, Shape
<1> HIDE DEF f, O
<1>3. Sum(f, Slots) = Sum(v, O)
  BY <1>1, <1>2, SlotsFinite, SumOfPart
<1> QED BY <1>3 DEF Total, f, O

\* What _verify_state recounts are those totals.
LEMMA RecountIsTotal ==
    ASSUME NEW s, Shape(s)
    PROVE  Recounted(s) = [c \in Counters |-> Total(s, c)]
<1> DEFINE InState(x) == {i \in Slots : s.slots[i].state = x}
           Leased == {i \in Slots : leased(s.slots[i])}
           Payloads == [i \in Occupied(s) |-> Bytes[s.slots[i].object]]
           References == [i \in Occupied(s) |-> s.slots[i].refs]
           Repairs == [i \in Occupied(s) |-> s.slots[i].repairs]
<1>1. Total(s, "entries") = Cardinality(Occupied(s))
  <2>1. /\ Occupied(s) \subseteq Slots /\ "entries" \in Counters
        /\ \A i \in Slots :
               weighs(s.slots[i])["entries"] = One(i \in Occupied(s))
    BY DEF Occupied, weighs, Counters, One
  <2> QED BY <2>1, TotalCounts
<1>2. /\ Total(s, "live") = CountIn(s, "live")
      /\ Total(s, "quarantined") = CountIn(s, "quarantined")
      /\ Total(s, "retired") = CountIn(s, "retired")
  <2>1. ASSUME NEW x \in {"live", "quarantined", "retired"}
        PROVE  Total(s, x) = Cardinality(InState(x))
    <3>1. /\ InState(x) \subseteq Slots /\ x \in Counters
          /\ \A i \in Slots : weighs(s.slots[i])[x] = One(i \in InState(x))
      BY DEF weighs, Counters, One
    <3> HIDE DEF InState
    <3> QED BY <3>1, TotalCounts
  <2> QED BY <2>1 DEF CountIn
<1>3. Total(s, "leases") = Cardinality(Leased)
  <2>1. /\ Leased \subseteq Slots /\ "leases" \in Counters
        /\ \A i \in Slots : weighs(s.slots[i])["leases"] = One(i \in Leased)
    BY DEF weighs, Counters, One
  <2> HIDE DEF Leased
  <2> QED BY <2>1, TotalCounts
<1>4. Total(s, "payload") = Sum(Payloads, Occupied(s))
  <2>1. /\ "payload" \in Counters
        /\ \A i \in Occupied(s) :
               weighs(s.slots[i])["payload"] = Payloads[i]
    BY DEF Occupied, weighs, Counters
  <2> QED BY <2>1, TotalSums
<1>5. Total(s, "references") = Sum(References, Occupied(s))
  <2>1. /\ "references" \in Counters
        /\ \A i \in Occupied(s) :
               weighs(s.slots[i])["references"] = References[i]
    BY DEF weighs, Counters
  <2> QED BY <2>1, TotalSums
<1>6. Total(s, "repairs") = Sum(Repairs, Occupied(s))
  <2>1. /\ "repairs" \in Counters
        /\ \A i \in Occupied(s) :
               weighs(s.slots[i])["repairs"] = Repairs[i]
    BY DEF weighs, Counters
  <2> QED BY <2>1, TotalSums
<1>7. /\ SumOver(s, LAMBDA slot : Bytes[slot.object])
             = Sum(Payloads, Occupied(s))
      /\ SumOver(s, LAMBDA slot : slot.refs) = Sum(References, Occupied(s))
      /\ SumOver(s, LAMBDA slot : slot.repairs) = Sum(Repairs, Occupied(s))
  BY DEF SumOver, Sum
<1> QED BY <1>1, <1>2, <1>3, <1>4, <1>5, <1>6, <1>7
        DEF Recounted, Counters

-----------------------------------------------------------------------------
(* What a caller finds under an object.                                    *)

\* The slot of an object, a free one if there is none.
Entry(s, o) == IF find(s, o) = {} THEN FreeSlot ELSE slotOf(s, o)

LEMMA FreeSlotFacts ==
    /\ FreeSlot.object = NoObject /\ FreeSlot.refs = 0
    /\ FreeSlot.lease = NoReceipt /\ FreeSlot.state = "free"
    /\ NoObject \notin Objects /\ NoReceipt \notin Receipts
    /\ FreeSlot \notin HeldSlots
<1>1. NoReceipt \notin Receipts
  BY StoreAssumption DEF NoReceipt, Receipts
<1> QED BY <1>1, StoreAssumption DEF FreeSlot, HeldSlots

LEMMA HeldSlotFacts ==
    ASSUME NEW slot, SlotShape(slot), slot # FreeSlot
    PROVE  /\ slot \in HeldSlots
           /\ slot.object \in Objects
           /\ slot.state \in {"live", "quarantined", "retired"}
           /\ slot.refs \in Nat /\ slot.generation \in Nat
           /\ slot.repairs \in Nat /\ slot.intact \in BOOLEAN
           /\ slot.lease \in Receipts \cup {NoReceipt}
           /\ slot.state = "retired" <=> slot.refs = 0
           /\ leased(slot) => slot.state = "live" /\ slot.generation > 0
BY DEF SlotShape, HeldSlots

\* An object that is found is in one slot.
LEMMA FoundOnce ==
    ASSUME NEW s, Shape(s), NEW o \in Objects, NEW i \in find(s, o)
    PROVE  /\ i \in Slots /\ s.slots[i].object = o
           /\ SlotShape(s.slots[i]) /\ s.slots[i] # FreeSlot
           /\ Unique(s, i, o)
           /\ find(s, o) = {i}
           /\ (CHOOSE j \in find(s, o) : TRUE) = i
           /\ slotOf(s, o) = s.slots[i]
           /\ Entry(s, o) = s.slots[i]
<1>1. i \in Slots /\ s.slots[i].object = o
  BY DEF find
<1>2. s.slots[i] # FreeSlot
  BY <1>1, FreeSlotFacts
<1>3. SlotShape(s.slots[i]) /\ Unique(s, i, o)
  BY <1>1, <1>2 DEF Shape
<1>4. find(s, o) = {i}
  BY <1>1, <1>3 DEF Unique, find
<1>5. (CHOOSE j \in find(s, o) : TRUE) = i
  BY <1>4
<1> QED BY <1>1, <1>2, <1>3, <1>4, <1>5 DEF slotOf, Entry

\* What is found after one slot was replaced.
LEMMA EntryMoves ==
    ASSUME NEW s, Shape(s), NEW i \in Slots, NEW slot,
           SlotShape(slot), slot # FreeSlot => Unique(s, i, slot.object),
           NEW t, Shape(t), t.slots = [s.slots EXCEPT ![i] = slot],
           NEW o \in Objects
    PROVE  Entry(t, o) = IF o = slot.object THEN slot
                         ELSE IF o = s.slots[i].object THEN FreeSlot
                         ELSE Entry(s, o)
<1>1. /\ t.slots[i] = slot
      /\ \A j \in Slots : j # i => t.slots[j] = s.slots[j]
  BY DEF Shape
<1>2. CASE o = slot.object
  <2>1. i \in find(t, o)
    BY <1>1, <1>2 DEF find
  <2> QED BY <1>1, <1>2, <2>1, FoundOnce
<1>3. CASE o # slot.object /\ o = s.slots[i].object
  <2>1. i \in find(s, o)
    BY <1>3 DEF find
  <2>2. Unique(s, i, o)
    BY <2>1, FoundOnce
  <2>3. find(t, o) = {}
    BY <1>1, <1>3, <2>2 DEF find, Unique
  <2> QED BY <1>3, <2>3 DEF Entry
<1>4. CASE o # slot.object /\ o # s.slots[i].object
  <2>1. find(t, o) = find(s, o)
    BY <1>1, <1>4 DEF find
  <2>2. CASE find(s, o) = {}
    BY <1>4, <2>1, <2>2 DEF Entry
  <2>3. CASE find(s, o) # {}
    <3>1. PICK j \in find(s, o) : TRUE
      BY <2>3
    <3>2. j # i /\ j \in Slots
      BY <1>4, <3>1 DEF find
    <3>3. Entry(s, o) = s.slots[j] /\ Entry(t, o) = t.slots[j]
      BY <2>1, <3>1, FoundOnce
    <3> QED BY <1>1, <1>4, <3>2, <3>3
  <2> QED BY <2>2, <2>3
<1> QED BY <1>2, <1>3, <1>4

\* An object has an entry when it is found.
LEMMA EntryFound ==
    ASSUME NEW s, Shape(s), NEW o \in Objects
    PROVE  /\ SlotShape(Entry(s, o))
           /\ find(s, o) = {} <=> Entry(s, o) = FreeSlot
           /\ find(s, o) # {} => Entry(s, o).object = o
           /\ Entry(s, o).refs \in Nat
<1>1. CASE find(s, o) = {}
  BY <1>1, FreeSlotFacts DEF Entry, SlotShape
<1>2. CASE find(s, o) # {}
  <2>1. PICK i \in find(s, o) : TRUE
    BY <1>2
  <2>2. /\ Entry(s, o) = s.slots[i] /\ SlotShape(s.slots[i])
        /\ s.slots[i] # FreeSlot /\ s.slots[i].object = o
    BY <2>1, FoundOnce
  <2> QED BY <1>2, <2>2, HeldSlotFacts
<1> QED BY <1>1, <1>2

\* A store whose budgets hold too.
Within(s) ==
    /\ s.acct.entries <= MaxEntries
    /\ s.acct.payload <= MaxPayload
    /\ s.acct.references <= MaxReferences
Good(s) == Shape(s) /\ Tallied(s) /\ Within(s)

\* The counters of a good store are naturals.
LEMMA AcctType ==
    ASSUME NEW s, Shape(s), Tallied(s)
    PROVE  /\ s.acct = [c \in Counters |-> s.acct[c]]
           /\ \A c \in Counters : s.acct[c] \in Nat
           /\ \A i \in Slots : \A c \in Counters :
                  weighs(s.slots[i])[c] <= s.acct[c]
<1>1. \A c \in Counters : s.acct[c] = Total(s, c)
  BY DEF Tallied
<1>2. ASSUME NEW i \in Slots, NEW c \in Counters
      PROVE  weighs(s.slots[i])[c] <= Total(s, c)
  <2> DEFINE f == weights(s, c)
  <2>1. \A j \in Slots : f[j] \in Nat
    BY WeightType DEF weights, Shape
  <2>2. f[i] = weighs(s.slots[i])[c]
    BY DEF weights
  <2> HIDE DEF f
  <2>3. Sum(f, Slots) = f[i] + Sum(f, Slots \ {i})
    BY <2>1, SlotsFinite, SumRemove
  <2>4. Sum(f, Slots \ {i}) \in Nat
    <3>1. IsFiniteSet(Slots \ {i})
      BY SlotsFinite, FS_RemoveElement
    <3> QED BY <2>1, <3>1, SumType
  <2> QED BY <2>1, <2>2, <2>3, <2>4 DEF Total, f
<1> QED BY <1>1, <1>2, TotalType DEF Tallied

-----------------------------------------------------------------------------
(* The operations, each on one entry.                                      *)

\* From s to t only the entry of o changed.
Becomes(s, t, o, slot) ==
    /\ Good(t)
    /\ \A p \in Objects : Entry(t, p) = IF p = o THEN slot ELSE Entry(s, p)

\* Counters that move with one slot, from old to new.
Follow(acct, was, old, new) ==
    /\ acct = [c \in Counters |-> acct[c]]
    /\ \A c \in Counters :
           acct[c] = was[c] - weighs(old)[c] + weighs(new)[c]

\* An entry that takes another form.
LEMMA EntryUpdated ==
    ASSUME NEW s, Good(s), NEW o \in Objects, NEW i \in find(s, o),
           NEW slot, SlotShape(slot), slot.object = o, NEW acct,
           Follow(acct, s.acct, s.slots[i], slot),
           acct.references <= MaxReferences
    PROVE  Becomes(s, Moved(s, i, slot, acct), o, slot)
<1> DEFINE t == Moved(s, i, slot, acct)
<1>1. /\ i \in Slots /\ s.slots[i] # FreeSlot /\ s.slots[i].object = o
      /\ Unique(s, i, o) /\ Shape(s) /\ Tallied(s)
  BY FoundOnce DEF Good
<1>2. slot # FreeSlot
  BY FreeSlotFacts
<1>3. acct = Shifted(s.acct, s.slots[i], slot)
  BY DEF Follow, Shifted
<1>4. Shape(t) /\ Tallied(t)
  BY <1>1, <1>3, SlotMoves
<1>5. /\ weighs(slot).entries = 1 /\ weighs(s.slots[i]).entries = 1
      /\ weighs(slot).payload = weighs(s.slots[i]).payload
      /\ weighs(s.slots[i]).payload \in Nat
  <2>1. SlotShape(s.slots[i])
    BY FoundOnce, <1>1
  <2>2. weighs(s.slots[i])["payload"] \in Nat
    BY <2>1, WeightType DEF Counters
  <2> QED BY <1>1, <1>2, <2>2 DEF weighs, One
<1>6. t.acct = acct /\ t.slots = [s.slots EXCEPT ![i] = slot]
  BY DEF Moved
<1>7. s.acct.entries \in Nat /\ s.acct.payload \in Nat
  BY <1>1, AcctType DEF Counters
<1>8. acct.entries = s.acct.entries /\ acct.payload = s.acct.payload
  BY <1>5, <1>7 DEF Follow, Counters
<1>9. Good(t)
  BY <1>4, <1>6, <1>8 DEF Good, Within
<1> HIDE DEF t
<1>10. ASSUME NEW p \in Objects
       PROVE  Entry(t, p) = IF p = o THEN slot ELSE Entry(s, p)
  BY <1>1, <1>2, <1>4, <1>6, EntryMoves
<1> QED BY <1>9, <1>10 DEF Becomes, t

\* An entry that goes.
LEMMA EntryFreed ==
    ASSUME NEW s, Good(s), NEW o \in Objects, NEW i \in find(s, o),
           ~leased(s.slots[i])
    PROVE  Becomes(s, Freed(s, i), o, FreeSlot)
<1> DEFINE old == s.slots[i]
           t == Freed(s, i)
<1>1. /\ i \in Slots /\ old # FreeSlot /\ old.object = o
      /\ Unique(s, i, o) /\ Shape(s) /\ Tallied(s) /\ SlotShape(old)
  BY FoundOnce DEF Good
<1>2. /\ old.state \in {"live", "quarantined", "retired"}
      /\ old.refs \in Nat /\ old.repairs \in Nat
  BY <1>1, HeldSlotFacts
<1>3. /\ s.acct = [c \in Counters |-> s.acct[c]]
      /\ \A c \in Counters : s.acct[c] \in Nat
      /\ \A c \in Counters : weighs(old)[c] <= s.acct[c]
      /\ \A c \in Counters : weighs(old)[c] \in Nat
      /\ \A c \in Counters : weighs(FreeSlot)[c] = 0
  BY <1>1, AcctType, WeightType DEF SlotShape
<1>4. /\ t.slots = [s.slots EXCEPT ![i] = FreeSlot]
      /\ Follow(t.acct, s.acct, old, FreeSlot)
  <2> DEFINE a == t.acct
  <2>1. a = [c \in Counters |-> a[c]]
    BY <1>3 DEF Freed, Moved
  <2>2. /\ a.entries = s.acct.entries - 1
        /\ a.live = s.acct.live - One(old.state = "live")
        /\ a.quarantined = s.acct.quarantined - One(old.state = "quarantined")
        /\ a.retired = s.acct.retired - One(old.state = "retired")
        /\ a.payload = s.acct.payload - Bytes[old.object]
        /\ a.references = s.acct.references - old.refs
        /\ a.leases = s.acct.leases
        /\ a.repairs = s.acct.repairs - old.repairs
    BY <1>3 DEF Freed, Moved, One, Counters
  <2>3. /\ weighs(old).entries = 1 /\ weighs(old).leases = 0
        /\ weighs(old).payload = Bytes[old.object]
    BY <1>1 DEF weighs, One
  <2>4. \A c \in Counters : a[c] = s.acct[c] - weighs(old)[c]
    <3> HIDE DEF a, old
    <3> QED BY <1>3, <2>2, <2>3 DEF weighs, Counters
  <2>5. \A c \in Counters :
            a[c] = s.acct[c] - weighs(old)[c] + weighs(FreeSlot)[c]
    <3> HIDE DEF a, old
    <3> QED BY <1>3, <2>4
  <2> QED BY <2>1, <2>5 DEF Follow, Freed, Moved
<1>5. t = Moved(s, i, FreeSlot, Shifted(s.acct, old, FreeSlot))
  <2>1. t.acct = Shifted(s.acct, old, FreeSlot)
    BY <1>4 DEF Follow, Shifted
  <2>2. t = [slots |-> t.slots, acct |-> t.acct]
    BY DEF Freed, Moved
  <2> QED BY <1>4, <2>1, <2>2 DEF Moved
<1>6. Shape(t) /\ Tallied(t)
  BY <1>1, <1>5, SlotMoves DEF SlotShape
<1>7. Within(t)
  <2>1. \A c \in Counters : t.acct[c] <= s.acct[c]
    <3> DEFINE a == t.acct
    <3> HIDE DEF a, old
    <3> QED BY <1>3, <1>4 DEF Follow, a
  <2>2. \A c \in Counters : t.acct[c] \in Nat
    BY <1>6, AcctType
  <2>3. /\ t.acct.entries <= s.acct.entries
        /\ t.acct.payload <= s.acct.payload
        /\ t.acct.references <= s.acct.references
        /\ {t.acct.entries, t.acct.payload, t.acct.references} \subseteq Nat
        /\ {s.acct.entries, s.acct.payload, s.acct.references} \subseteq Nat
    BY <1>3, <2>1, <2>2 DEF Counters
  <2>4. MaxEntries \in Nat /\ MaxPayload \in Nat /\ MaxReferences \in Nat
    BY StoreAssumption
  <2> HIDE DEF t
  <2> QED BY <2>3, <2>4 DEF Good, Within
<1>8. ASSUME NEW p \in Objects
      PROVE  Entry(t, p) = IF p = o THEN FreeSlot ELSE Entry(s, p)
  <2>1. FreeSlot.object # p
    BY FreeSlotFacts
  <2> HIDE DEF t
  <2> QED BY <1>1, <1>4, <1>6, <2>1, EntryMoves DEF SlotShape
<1> QED BY <1>6, <1>7, <1>8 DEF Becomes, Good

\* A new entry, in the first free slot.
LEMMA EntryInserted ==
    ASSUME NEW s, Good(s), NEW o \in Objects, CanInsert(s, o)
    PROVE  /\ FirstFree(s) \in Slots
           /\ s.slots[FirstFree(s)] = FreeSlot
           /\ Becomes(s, Inserted(s, o), o,
                      [FreeSlot EXCEPT !.object = o, !.state = "live",
                                       !.refs = 1])
<1> DEFINE i == FirstFree(s)
           new == [FreeSlot EXCEPT !.object = o, !.state = "live", !.refs = 1]
           t == Inserted(s, o)
<1>1. i \in Slots \ Occupied(s)
  <2>1. Occupied(s) \subseteq Slots /\ IsFiniteSet(Occupied(s))
    BY SlotsFinite, FS_Subset DEF Occupied
  <2>2. Cardinality(Occupied(s)) < Capacity
    <3>1. s.acct = [c \in Counters |-> Total(s, c)]
      BY DEF Good, Tallied
    <3>2. s.acct = Recounted(s)
      BY <3>1, RecountIsTotal DEF Good
    <3>3. s.acct.entries = Cardinality(Occupied(s))
      BY <3>2 DEF Recounted
    <3>4. Cardinality(Occupied(s)) \in Nat
      BY <2>1, FS_CardinalityType
    <3> QED BY <3>3, <3>4, StoreAssumption DEF CanInsert
  <2>3. Slots \ Occupied(s) # {}
    <3>1. Cardinality(Slots) = Capacity
      BY StoreAssumption, FS_Interval DEF Slots
    <3>2. Capacity \in Nat
      BY StoreAssumption
    <3>3. Slots # Occupied(s)
      BY <2>2, <3>1, <3>2
    <3> QED BY <2>1, <3>3
  <2>4. \E k \in Slots \ Occupied(s) :
            \A j \in Slots \ Occupied(s) : k <= j
    <3> DEFINE F == Slots \ Occupied(s)
    <3>1. F \subseteq Nat /\ F # {}
      BY <2>3 DEF Slots
    <3> HIDE DEF F
    <3>2. \E k \in F : \A j \in F : k <= j
      BY <3>1, SmallestOf
    <3> QED BY <3>2 DEF F
  <2> QED BY <2>4 DEF FirstFree
<1>2. i \in Slots /\ s.slots[i] = FreeSlot
  BY <1>1 DEF Occupied
<1>3. /\ new \in HeldSlots /\ new.object = o /\ new.refs = 1
      /\ new.state = "live" /\ ~leased(new) /\ new.repairs = 0
      /\ new # FreeSlot
  BY FreeSlotFacts DEF FreeSlot, HeldSlots, leased
<1>4. SlotShape(new)
  BY <1>3 DEF SlotShape
<1>5. Unique(s, i, o)
  BY DEF CanInsert, find, Unique
<1>6. /\ s.acct = [c \in Counters |-> s.acct[c]]
      /\ \A c \in Counters : s.acct[c] \in Nat
      /\ \A c \in Counters : weighs(new)[c] \in Nat
      /\ \A c \in Counters : weighs(FreeSlot)[c] = 0
  BY <1>4, AcctType, WeightType DEF SlotShape, Good
<1>7. /\ t.slots = [s.slots EXCEPT ![i] = new]
      /\ t.acct = Shifted(s.acct, s.slots[i], new)
      /\ t.acct.entries = s.acct.entries + 1
      /\ t.acct.payload = s.acct.payload + Bytes[o]
      /\ t.acct.references = s.acct.references + 1
  <2> DEFINE a == t.acct
  <2>1. a = [c \in Counters |-> a[c]]
    BY <1>6 DEF Inserted, Moved
  <2>2. /\ a.entries = s.acct.entries + 1
        /\ a.live = s.acct.live + 1
        /\ a.quarantined = s.acct.quarantined
        /\ a.retired = s.acct.retired
        /\ a.payload = s.acct.payload + Bytes[o]
        /\ a.references = s.acct.references + 1
        /\ a.leases = s.acct.leases
        /\ a.repairs = s.acct.repairs
    BY <1>6 DEF Inserted, Moved, Counters
  <2>3. /\ weighs(new).entries = 1 /\ weighs(new).live = 1
        /\ weighs(new).quarantined = 0 /\ weighs(new).retired = 0
        /\ weighs(new).payload = Bytes[o] /\ weighs(new).references = 1
        /\ weighs(new).leases = 0 /\ weighs(new).repairs = 0
    <3> HIDE DEF new
    <3> QED BY <1>3 DEF weighs, One
  <2>4. \A c \in Counters : a[c] = s.acct[c] + weighs(new)[c]
    <3> HIDE DEF a, new
    <3> QED BY <1>6, <2>2, <2>3 DEF Counters
  <2>5. \A c \in Counters :
            a[c] = s.acct[c] - weighs(s.slots[i])[c] + weighs(new)[c]
    <3> HIDE DEF a, new, i
    <3> QED BY <1>2, <1>6, <2>4
  <2>6. a = Shifted(s.acct, s.slots[i], new)
    <3> HIDE DEF a, new, i
    <3> QED BY <2>1, <2>5 DEF Shifted
  <2> QED BY <2>2, <2>6 DEF Inserted, Moved
<1>8. t = Moved(s, i, new, Shifted(s.acct, s.slots[i], new))
  <2>1. t = [slots |-> t.slots, acct |-> t.acct]
    BY DEF Inserted, Moved
  <2> QED BY <1>7, <2>1 DEF Moved
<1>9. Shape(t) /\ Tallied(t)
  <2> HIDE DEF t, new, i
  <2> QED BY <1>2, <1>3, <1>4, <1>5, <1>8, SlotMoves DEF Good
<1>10. Within(t)
  <2>1. s.acct.entries \in Nat
    BY <1>6 DEF Counters
  <2>2. s.acct.entries + 1 <= MaxEntries
    BY <2>1, StoreAssumption DEF CanInsert
  <2> HIDE DEF t
  <2> QED BY <1>7, <2>2 DEF Within, CanInsert
<1>11. ASSUME NEW p \in Objects
       PROVE  Entry(t, p) = IF p = o THEN new ELSE Entry(s, p)
  <2>1. s.slots[i].object # p
    BY <1>2, FreeSlotFacts
  <2> HIDE DEF t, new, i
  <2> QED BY <1>2, <1>3, <1>4, <1>5, <1>7, <1>9, <2>1, EntryMoves DEF Good
<1> QED BY <1>2, <1>9, <1>10, <1>11 DEF Becomes, Good

\* The same, field by field, when an entry takes another form.
Follows(acct, was, old, new) ==
    /\ acct = [c \in Counters |-> acct[c]]
    /\ acct.entries = was.entries
    /\ acct.payload = was.payload
    /\ acct.live = was.live - One(old.state = "live")
                       + One(new.state = "live")
    /\ acct.quarantined = was.quarantined - One(old.state = "quarantined")
                              + One(new.state = "quarantined")
    /\ acct.retired = was.retired - One(old.state = "retired")
                          + One(new.state = "retired")
    /\ acct.references = was.references - old.refs + new.refs
    /\ acct.leases = was.leases - One(leased(old)) + One(leased(new))
    /\ acct.repairs = was.repairs - old.repairs + new.repairs

LEMMA FollowFields ==
    ASSUME NEW acct, NEW was, NEW old, NEW new,
           \A c \in Counters : was[c] \in Nat,
           SlotShape(old), old # FreeSlot, SlotShape(new), new # FreeSlot,
           new.object = old.object, Follows(acct, was, old, new)
    PROVE  Follow(acct, was, old, new)
<1>1. /\ weighs(old).entries = weighs(new).entries
      /\ weighs(old).payload = weighs(new).payload
      /\ \A c \in Counters : weighs(old)[c] \in Nat /\ weighs(new)[c] \in Nat
  <2>1. \A c \in Counters : weighs(old)[c] \in Nat /\ weighs(new)[c] \in Nat
    BY WeightType
  <2> QED BY <2>1 DEF weighs
<1>2. /\ weighs(old).live = One(old.state = "live")
      /\ weighs(new).live = One(new.state = "live")
      /\ weighs(old).quarantined = One(old.state = "quarantined")
      /\ weighs(new).quarantined = One(new.state = "quarantined")
      /\ weighs(old).retired = One(old.state = "retired")
      /\ weighs(new).retired = One(new.state = "retired")
      /\ weighs(old).references = old.refs
      /\ weighs(new).references = new.refs
      /\ weighs(old).leases = One(leased(old))
      /\ weighs(new).leases = One(leased(new))
      /\ weighs(old).repairs = old.repairs
      /\ weighs(new).repairs = new.repairs
  BY DEF weighs
<1>3. ASSUME NEW c \in Counters
      PROVE  acct[c] = was[c] - weighs(old)[c] + weighs(new)[c]
  <2>1. CASE c \in {"entries", "payload"}
    BY <1>1, <2>1 DEF Follows
  <2>2. CASE c \in Counters \ {"entries", "payload"}
    BY <1>2, <2>2 DEF Follows, Counters
  <2> QED BY <2>1, <2>2
<1> QED BY <1>3 DEF Follow, Follows

\* What a good store says of an entry.
LEMMA EntryKnown ==
    ASSUME NEW s, Good(s), NEW o \in Objects, NEW i \in find(s, o)
    PROVE  /\ i \in Slots /\ s.slots[i].object = o
           /\ (CHOOSE j \in find(s, o) : TRUE) = i
           /\ find(s, o) = {i}
           /\ Entry(s, o) = s.slots[i] /\ slotOf(s, o) = s.slots[i]
           /\ SlotShape(s.slots[i]) /\ s.slots[i] # FreeSlot
           /\ s.slots[i] \in HeldSlots
           /\ s.acct = [c \in Counters |-> s.acct[c]]
           /\ \A c \in Counters : s.acct[c] \in Nat
           /\ s.acct.references <= MaxReferences
           /\ \A c \in Counters : weighs(s.slots[i])[c] <= s.acct[c]
<1>1. Shape(s) /\ Tallied(s) /\ Within(s)
  BY DEF Good
<1>2. /\ i \in Slots /\ SlotShape(s.slots[i]) /\ s.slots[i] # FreeSlot
      /\ s.slots[i].object = o
  BY <1>1, FoundOnce
<1> QED BY <1>1, <1>2, FoundOnce, AcctType DEF SlotShape, Within

LEMMA EntryChanged ==
    ASSUME NEW s, Good(s), NEW o \in Objects, NEW i \in find(s, o),
           NEW new, new \in HeldSlots, SlotShape(new), new.object = o,
           NEW acct, Follows(acct, s.acct, s.slots[i], new),
           acct.references <= MaxReferences
    PROVE  Becomes(s, Moved(s, i, new, acct), o, new)
<1> DEFINE old == s.slots[i]
<1>1. /\ SlotShape(old) /\ old # FreeSlot /\ old.object = o
      /\ \A c \in Counters : s.acct[c] \in Nat
      /\ new # FreeSlot
  BY EntryKnown, FreeSlotFacts
<1>2. new.object = old.object
  BY <1>1
<1>3. Follow(acct, s.acct, old, new)
  <2> HIDE DEF old
  <2> QED BY <1>1, <1>2, FollowFields DEF old
<1> QED BY <1>3, EntryUpdated

\* One reference more, on an entry that is live.
LEMMA EntryReused ==
    ASSUME NEW s, Good(s), NEW o \in Objects, CanReuse(s, o)
    PROVE  /\ Entry(s, o) # FreeSlot /\ Entry(s, o).state = "live"
           /\ Becomes(s, Reused(s, o), o, [Entry(s, o) EXCEPT !.refs = @ + 1])
<1>1. PICK i \in find(s, o) : TRUE
  BY DEF CanReuse
<1> DEFINE old == s.slots[i]
           new == [old EXCEPT !.refs = @ + 1]
           acct == [s.acct EXCEPT !.references = @ + 1]
<1>2. /\ Entry(s, o) = old /\ SlotShape(old) /\ old # FreeSlot
      /\ old \in HeldSlots /\ old.object = o /\ i \in Slots
      /\ (CHOOSE j \in find(s, o) : TRUE) = i /\ slotOf(s, o) = old
      /\ s.acct = [c \in Counters |-> s.acct[c]]
      /\ \A c \in Counters : s.acct[c] \in Nat
  BY <1>1, EntryKnown
<1>3. old.state = "live" /\ s.acct.references + 1 <= MaxReferences
  BY <1>2 DEF CanReuse
<1>4. /\ new \in HeldSlots /\ new.object = o /\ new.state = "live"
      /\ new.refs = old.refs + 1 /\ new.repairs = old.repairs
      /\ new.lease = old.lease /\ new.generation = old.generation
      /\ old.refs \in Nat /\ old.refs # 0 /\ old.repairs \in Nat
  BY <1>2, <1>3, HeldSlotFacts DEF HeldSlots
<1>5. SlotShape(new) /\ new # FreeSlot
  BY <1>2, <1>3, <1>4, FreeSlotFacts DEF SlotShape, leased
<1>6. /\ acct = [c \in Counters |-> acct[c]]
      /\ acct.references = s.acct.references + 1
      /\ \A c \in Counters \ {"references"} : acct[c] = s.acct[c]
  BY <1>2 DEF Counters
<1>7. Follows(acct, s.acct, old, new)
  <2> HIDE DEF old, new, acct
  <2>1. {s.acct.live, s.acct.quarantined, s.acct.retired, s.acct.references,
         s.acct.leases, s.acct.repairs} \subseteq Nat
    BY <1>2 DEF Counters
  <2>2. leased(new) = leased(old)
    BY <1>4 DEF leased
  <2> QED BY <1>3, <1>4, <1>6, <2>1, <2>2 DEF Follows, One, Counters
<1>8. Becomes(s, Moved(s, i, new, acct), o, new)
  <2> HIDE DEF new, acct
  <2> QED BY <1>1, <1>3, <1>4, <1>5, <1>6, <1>7, EntryChanged
<1> QED BY <1>2, <1>3, <1>8 DEF Reused

-----------------------------------------------------------------------------
(* The actions on one entry.                                               *)

\* The entry of o moved its references by d and has at most the lease it had.
Turns(s, t, o, d) ==
    \E e : /\ Becomes(s, t, o, e)
           /\ e.refs = Entry(s, o).refs + d
           /\ e.lease \in {Entry(s, o).lease, NoReceipt}
           /\ e.intact \in {Entry(s, o).intact, TRUE}

LEMMA ReusedTurns ==
    ASSUME NEW s, NEW o \in Objects, Good(s), CanReuse(s, o)
    PROVE  Turns(s, Reused(s, o), o, 1)
<1> DEFINE old == Entry(s, o)
           e == [old EXCEPT !.refs = @ + 1]
<1>1. old # FreeSlot /\ Becomes(s, Reused(s, o), o, e)
  BY EntryReused
<1>2. old \in HeldSlots
  BY <1>1, EntryFound DEF Good, SlotShape
<1>3. e.refs = old.refs + 1 /\ e.lease = old.lease /\ e.intact = old.intact
  BY <1>2 DEF HeldSlots
<1> HIDE DEF e
<1> QED BY <1>1, <1>3 DEF Turns

LEMMA InsertedTurns ==
    ASSUME NEW s, NEW o \in Objects, Good(s), CanInsert(s, o)
    PROVE  Turns(s, Inserted(s, o), o, 1)
<1> DEFINE e == [FreeSlot EXCEPT !.object = o, !.state = "live", !.refs = 1]
<1>1. Becomes(s, Inserted(s, o), o, e)
  BY EntryInserted
<1>2. Entry(s, o) = FreeSlot
  BY DEF CanInsert, Entry
<1>3. e.refs = FreeSlot.refs + 1 /\ e.lease = NoReceipt /\ e.intact = TRUE
  BY DEF FreeSlot
<1> HIDE DEF e
<1> QED BY <1>1, <1>2, <1>3 DEF Turns

LEMMA PutTurns ==
    ASSUME NEW o \in Objects, Good(st), put(o)
    PROVE  Turns(st, st', o, 1)
BY ReusedTurns, InsertedTurns DEF put

\* One reference less, where more than one is held.
Lowered(s, i) == Moved(s, i, [s.slots[i] EXCEPT !.refs = @ - 1],
                       [s.acct EXCEPT !.references = @ - 1])

LEMMA EntryLowered ==
    ASSUME NEW s, Good(s), NEW o \in Objects, NEW i \in find(s, o),
           s.slots[i].refs > 1
    PROVE  Turns(s, Lowered(s, i), o, -1)
<1> DEFINE old == s.slots[i]
           new == [old EXCEPT !.refs = @ - 1]
           acct == [s.acct EXCEPT !.references = @ - 1]
<1>1. /\ Entry(s, o) = old /\ SlotShape(old) /\ old # FreeSlot
      /\ old \in HeldSlots /\ old.object = o
      /\ s.acct = [c \in Counters |-> s.acct[c]]
      /\ \A c \in Counters : s.acct[c] \in Nat
      /\ s.acct.references <= MaxReferences
  BY EntryKnown
<1>2. /\ new \in HeldSlots /\ new.object = o /\ new.state = old.state
      /\ new.refs = old.refs - 1 /\ new.refs # 0 /\ old.refs # 0
      /\ new.repairs = old.repairs /\ new.intact = old.intact
      /\ new.lease = old.lease /\ new.generation = old.generation
      /\ old.refs \in Nat /\ old.repairs \in Nat
  BY <1>1 DEF HeldSlots
<1>3. SlotShape(new) /\ leased(new) = leased(old)
  BY <1>1, <1>2, HeldSlotFacts DEF SlotShape, leased
<1>4. /\ acct = [c \in Counters |-> acct[c]]
      /\ acct.references = s.acct.references - 1
      /\ \A c \in Counters \ {"references"} : acct[c] = s.acct[c]
  BY <1>1 DEF Counters
<1>5. {s.acct.live, s.acct.quarantined, s.acct.retired, s.acct.references,
       s.acct.leases, s.acct.repairs} \subseteq Nat
  BY <1>1 DEF Counters
<1>6. Follows(acct, s.acct, old, new)
  <2> HIDE DEF old, new, acct
  <2> QED BY <1>2, <1>3, <1>4, <1>5 DEF Follows, One, Counters
<1>7. Becomes(s, Moved(s, i, new, acct), o, new)
  <2>1. acct.references <= MaxReferences
    <3> HIDE DEF acct
    <3> QED BY <1>1, <1>4, <1>5, StoreAssumption
  <2> HIDE DEF new, acct
  <2> QED BY <1>2, <1>3, <1>6, <2>1, EntryChanged
<1>8. Becomes(s, Lowered(s, i), o, new)
  BY <1>7 DEF Lowered
<1> HIDE DEF old, new
<1> QED BY <1>1, <1>2, <1>8 DEF Turns

\* An object that somebody may release has an entry.
LEMMA ReleaseTurns ==
    ASSUME NEW o \in Objects, Good(st), release(o)
    PROVE  Turns(st, st', o, -1)
<1>1. PICK i \in find(st, o) : TRUE
  BY DEF release
<1>2. /\ Entry(st, o) = st.slots[i] /\ slotOf(st, o) = st.slots[i]
      /\ (CHOOSE j \in find(st, o) : TRUE) = i
      /\ SlotShape(st.slots[i]) /\ st.slots[i] # FreeSlot
  BY <1>1, EntryKnown
<1>3. st' = releaseStore(st, o)
  BY DEF release
<1>4. CASE st.slots[i].refs > 1
  <2>1. st' = Lowered(st, i)
    BY <1>2, <1>3, <1>4 DEF releaseStore, Lowered
  <2> QED BY <1>1, <1>4, <2>1, EntryLowered
<1>5. CASE ~(st.slots[i].refs > 1)
  <2>1. st' = Freed(st, i) /\ ~leased(st.slots[i])
    BY <1>2, <1>3, <1>5 DEF releaseStore, release
  <2>2. st.slots[i].refs = 1
    BY <1>2, <1>5, HeldSlotFacts DEF release
  <2>3. Becomes(st, st', o, FreeSlot)
    BY <1>1, <2>1, EntryFreed
  <2>4. FreeSlot.refs = 0 /\ FreeSlot.lease = NoReceipt /\ FreeSlot.intact = TRUE
    BY DEF FreeSlot
  <2>5. FreeSlot.refs = Entry(st, o).refs + -1
    BY <1>2, <2>2, <2>4
  <2> QED BY <2>3, <2>4, <2>5 DEF Turns
<1> QED BY <1>4, <1>5

LEMMA RetireTurns ==
    ASSUME NEW o \in Objects, Good(st), retire(o)
    PROVE  Turns(st, st', o, -1)
<1>1. PICK i \in find(st, o) :
          st' = Moved(st, i,
                      [st.slots[i] EXCEPT !.refs = 0, !.state = "retired"],
                      [st.acct EXCEPT !.references = @ - 1, !.live = @ - 1,
                                      !.retired = @ + 1])
  BY DEF retire
<1> DEFINE old == st.slots[i]
           new == [old EXCEPT !.refs = 0, !.state = "retired"]
           acct == [st.acct EXCEPT !.references = @ - 1, !.live = @ - 1,
                                   !.retired = @ + 1]
<1>2. /\ Entry(st, o) = old /\ SlotShape(old) /\ old # FreeSlot
      /\ old \in HeldSlots /\ old.object = o /\ slotOf(st, o) = old
      /\ st.acct = [c \in Counters |-> st.acct[c]]
      /\ \A c \in Counters : st.acct[c] \in Nat
      /\ st.acct.references <= MaxReferences
  BY <1>1, EntryKnown
<1>3. old.state = "live" /\ ~leased(old) /\ old.refs = 1
  BY <1>2 DEF retire
<1>4. /\ new \in HeldSlots /\ new.object = o /\ new.state = "retired"
      /\ new.refs = 0 /\ new.repairs = old.repairs
      /\ new.intact = old.intact /\ new.lease = old.lease
      /\ old.repairs \in Nat
  BY <1>2 DEF HeldSlots
<1>5. SlotShape(new) /\ ~leased(new)
  BY <1>3, <1>4 DEF SlotShape, leased
<1>6. /\ acct = [c \in Counters |-> acct[c]]
      /\ acct.references = st.acct.references - 1
      /\ acct.live = st.acct.live - 1
      /\ acct.retired = st.acct.retired + 1
      /\ \A c \in Counters \ {"references", "live", "retired"} :
             acct[c] = st.acct[c]
  BY <1>2 DEF Counters
<1>7. {st.acct.live, st.acct.quarantined, st.acct.retired,
       st.acct.references, st.acct.leases, st.acct.repairs} \subseteq Nat
  BY <1>2 DEF Counters
<1>8. Follows(acct, st.acct, old, new)
  <2> HIDE DEF old, new, acct
  <2> QED BY <1>3, <1>4, <1>5, <1>6, <1>7 DEF Follows, One, Counters
<1>9. Becomes(st, Moved(st, i, new, acct), o, new)
  <2>1. acct.references <= MaxReferences
    <3> HIDE DEF acct
    <3> QED BY <1>2, <1>6, <1>7, StoreAssumption
  <2> HIDE DEF new, acct
  <2> QED BY <1>4, <1>5, <1>8, <2>1, EntryChanged
<1>10. Becomes(st, st', o, new)
  BY <1>1, <1>9
<1> HIDE DEF old, new
<1>11. new.refs = Entry(st, o).refs + -1
  BY <1>2, <1>3, <1>4
<1> QED BY <1>2, <1>4, <1>10, <1>11 DEF Turns

LEMMA QuarantineTurns ==
    ASSUME NEW o \in Objects, Good(st), quarantine(o)
    PROVE  Turns(st, st', o, 0)
<1>1. PICK i \in find(st, o) :
          LET s == IF leased(st.slots[i]) THEN _clear_lease(st, i) ELSE st
          IN  st' = Moved(s, i, [s.slots[i] EXCEPT !.state = "quarantined"],
                          [s.acct EXCEPT !.live = @ - 1,
                                         !.quarantined = @ + 1])
  BY DEF quarantine
<1> DEFINE old == st.slots[i]
           new == [old EXCEPT !.state = "quarantined", !.lease = NoReceipt]
           acct == [st.acct EXCEPT
                        !.live = @ - 1, !.quarantined = @ + 1,
                        !.leases = @ - (IF leased(old) THEN 1 ELSE 0)]
<1>2. /\ Entry(st, o) = old /\ SlotShape(old) /\ old # FreeSlot
      /\ old \in HeldSlots /\ old.object = o /\ slotOf(st, o) = old
      /\ st.acct = [c \in Counters |-> st.acct[c]] /\ i \in Slots
      /\ \A c \in Counters : st.acct[c] \in Nat
      /\ st.acct.references <= MaxReferences
  BY <1>1, EntryKnown
<1>3. /\ old.state = "live" /\ old.refs \in Nat /\ old.refs # 0
      /\ old.repairs \in Nat
      /\ ~leased(old) => old.lease = NoReceipt
  BY <1>2, HeldSlotFacts DEF quarantine, leased
<1>4. /\ st = [slots |-> st.slots, acct |-> st.acct]
      /\ st.slots = [j \in Slots |-> st.slots[j]]
  BY DEF Good, Shape
<1>5. st' = Moved(st, i, new, acct)
  <2>1. CASE leased(old)
    <3> DEFINE s == _clear_lease(st, i)
    <3>1. /\ s.slots = [st.slots EXCEPT ![i] =
                            [old EXCEPT !.lease = NoReceipt]]
          /\ s.acct = [st.acct EXCEPT !.leases = @ - 1]
      BY <1>2, <1>4 DEF _clear_lease
    <3>2. s.slots[i] = [old EXCEPT !.lease = NoReceipt]
      BY <1>2, <1>4, <3>1
    <3>3. st' = Moved(s, i, [s.slots[i] EXCEPT !.state = "quarantined"],
                      [s.acct EXCEPT !.live = @ - 1, !.quarantined = @ + 1])
      BY <1>1, <2>1
    <3>4. [s.slots[i] EXCEPT !.state = "quarantined"] = new
      BY <1>2, <3>2 DEF HeldSlots
    <3>5. [s.acct EXCEPT !.live = @ - 1, !.quarantined = @ + 1] = acct
      <4> DEFINE b == [s.acct EXCEPT !.live = @ - 1, !.quarantined = @ + 1]
      <4>1. b = [c \in Counters |-> b[c]] /\ acct = [c \in Counters |-> acct[c]]
        BY <1>2, <3>1 DEF Counters
      <4>2. \A c \in Counters : b[c] = acct[c]
        BY <1>2, <2>1, <3>1 DEF Counters
      <4> HIDE DEF b, acct
      <4> QED BY <4>1, <4>2 DEF b
    <3>6. [s.slots EXCEPT ![i] = new] = [st.slots EXCEPT ![i] = new]
      <4> HIDE DEF new, s
      <4> QED BY <1>2, <1>4, <3>1
    <3> HIDE DEF s, new, acct
    <3> QED BY <3>3, <3>4, <3>5, <3>6 DEF Moved
  <2>2. CASE ~leased(old)
    <3>1. st' = Moved(st, i, [old EXCEPT !.state = "quarantined"],
                      [st.acct EXCEPT !.live = @ - 1, !.quarantined = @ + 1])
      BY <1>1, <2>2
    <3>2. [old EXCEPT !.state = "quarantined"] = new
      BY <1>2, <1>3, <2>2 DEF HeldSlots
    <3>3. [st.acct EXCEPT !.live = @ - 1, !.quarantined = @ + 1] = acct
      <4> DEFINE b == [st.acct EXCEPT !.live = @ - 1, !.quarantined = @ + 1]
      <4>1. b = [c \in Counters |-> b[c]] /\ acct = [c \in Counters |-> acct[c]]
        BY <1>2 DEF Counters
      <4>2. st.acct.leases \in Nat
        BY <1>2 DEF Counters
      <4>3. b.leases = st.acct.leases /\ acct.leases = st.acct.leases
        BY <1>2, <2>2, <4>2 DEF Counters
      <4>4. \A c \in Counters \ {"leases"} : b[c] = acct[c]
        BY <1>2 DEF Counters
      <4> HIDE DEF b, acct
      <4> QED BY <4>1, <4>3, <4>4 DEF b
    <3> HIDE DEF new, acct
    <3> QED BY <3>1, <3>2, <3>3
  <2> QED BY <2>1, <2>2
<1>6. /\ new \in HeldSlots /\ new.object = o /\ new.state = "quarantined"
      /\ new.refs = old.refs /\ new.repairs = old.repairs
      /\ new.intact = old.intact /\ new.lease = NoReceipt
  BY <1>2 DEF HeldSlots
<1>7. SlotShape(new) /\ ~leased(new)
  BY <1>3, <1>6 DEF SlotShape, leased
<1>8. /\ acct = [c \in Counters |-> acct[c]]
      /\ acct.live = st.acct.live - 1
      /\ acct.quarantined = st.acct.quarantined + 1
      /\ acct.leases = st.acct.leases - One(leased(old))
      /\ \A c \in Counters \ {"leases", "live", "quarantined"} :
             acct[c] = st.acct[c]
  BY <1>2 DEF Counters, One
<1>9. {st.acct.live, st.acct.quarantined, st.acct.retired,
       st.acct.references, st.acct.leases, st.acct.repairs} \subseteq Nat
  BY <1>2 DEF Counters
<1>10. Follows(acct, st.acct, old, new)
  <2> HIDE DEF old, new, acct
  <2>1. /\ One(leased(new)) = 0 /\ One(leased(old)) \in {0, 1}
        /\ One(old.state = "live") = 1 /\ One(new.state = "live") = 0
        /\ One(old.state = "quarantined") = 0
        /\ One(new.state = "quarantined") = 1
        /\ One(old.state = "retired") = 0 /\ One(new.state = "retired") = 0
    BY <1>3, <1>6, <1>7 DEF One
  <2>2. /\ acct.entries = st.acct.entries /\ acct.payload = st.acct.payload
        /\ acct.retired = st.acct.retired
        /\ acct.references = st.acct.references
        /\ acct.repairs = st.acct.repairs
    BY <1>8 DEF Counters
  <2>3. /\ acct.live = st.acct.live - 1 + 0
        /\ acct.quarantined = st.acct.quarantined - 0 + 1
        /\ acct.retired = st.acct.retired - 0 + 0
    BY <1>8, <1>9, <2>2
  <2>4. /\ acct.references = st.acct.references - old.refs + new.refs
        /\ acct.repairs = st.acct.repairs - old.repairs + new.repairs
    BY <1>3, <1>6, <1>9, <2>2
  <2>5. acct.leases = st.acct.leases - One(leased(old)) + One(leased(new))
    BY <1>8, <1>9, <2>1
  <2>6. acct = [c \in Counters |-> acct[c]]
    BY <1>8
  <2> QED BY <2>1, <2>2, <2>3, <2>4, <2>5, <2>6 DEF Follows
<1>11. acct.references <= MaxReferences
  <2> HIDE DEF acct
  <2> QED BY <1>2, <1>8 DEF Counters
<1>12. Becomes(st, st', o, new)
  <2> HIDE DEF new, acct
  <2> QED BY <1>5, <1>6, <1>7, <1>10, <1>11, EntryChanged
<1>13. new.refs = Entry(st, o).refs + 0
  BY <1>2, <1>3, <1>6
<1> HIDE DEF old, new
<1> QED BY <1>2, <1>6, <1>12, <1>13 DEF Turns

LEMMA RepairTurns ==
    ASSUME NEW o \in Objects, Good(st), repair(o)
    PROVE  Turns(st, st', o, 0)
<1>1. PICK i \in find(st, o) :
          st' = Moved(st, i,
                      [st.slots[i] EXCEPT !.state = "live", !.intact = TRUE,
                                          !.repairs = @ + 1],
                      [st.acct EXCEPT !.live = @ + 1, !.quarantined = @ - 1,
                                      !.repairs = @ + 1])
  BY DEF repair
<1> DEFINE old == st.slots[i]
           new == [old EXCEPT !.state = "live", !.intact = TRUE,
                              !.repairs = @ + 1]
           acct == [st.acct EXCEPT !.live = @ + 1, !.quarantined = @ - 1,
                                   !.repairs = @ + 1]
<1>2. /\ Entry(st, o) = old /\ SlotShape(old) /\ old # FreeSlot
      /\ old \in HeldSlots /\ old.object = o /\ slotOf(st, o) = old
      /\ st.acct = [c \in Counters |-> st.acct[c]]
      /\ \A c \in Counters : st.acct[c] \in Nat
      /\ st.acct.references <= MaxReferences
  BY <1>1, EntryKnown
<1>3. /\ old.state = "quarantined" /\ ~leased(old) /\ old.refs \in Nat
      /\ old.refs # 0 /\ old.repairs \in Nat
  BY <1>2, HeldSlotFacts DEF repair
<1>4. /\ new \in HeldSlots /\ new.object = o /\ new.state = "live"
      /\ new.refs = old.refs /\ new.repairs = old.repairs + 1
      /\ new.intact = TRUE /\ new.lease = old.lease
  <2>1. /\ new.object = o /\ new.state = "live" /\ new.refs = old.refs
        /\ new.repairs = old.repairs + 1 /\ new.intact = TRUE
        /\ new.lease = old.lease
    BY <1>2 DEF HeldSlots
  <2>2. old.repairs + 1 \in Nat
    BY <1>3
  <2>3. new \in HeldSlots
    BY <1>2, <2>2 DEF HeldSlots
  <2> QED BY <2>1, <2>3
<1>5. SlotShape(new) /\ ~leased(new)
  BY <1>3, <1>4 DEF SlotShape, leased
<1>6. /\ acct = [c \in Counters |-> acct[c]]
      /\ acct.live = st.acct.live + 1
      /\ acct.quarantined = st.acct.quarantined - 1
      /\ acct.repairs = st.acct.repairs + 1
      /\ \A c \in Counters \ {"repairs", "live", "quarantined"} :
             acct[c] = st.acct[c]
  BY <1>2 DEF Counters
<1>7. {st.acct.live, st.acct.quarantined, st.acct.retired,
       st.acct.references, st.acct.leases, st.acct.repairs} \subseteq Nat
  BY <1>2 DEF Counters
<1>8. Follows(acct, st.acct, old, new)
  <2> HIDE DEF old, new, acct
  <2> QED BY <1>3, <1>4, <1>5, <1>6, <1>7 DEF Follows, One, Counters
<1>9. acct.references <= MaxReferences
  <2> HIDE DEF acct
  <2> QED BY <1>2, <1>6 DEF Counters
<1>10. Becomes(st, st', o, new)
  <2>1. st' = Moved(st, i, new, acct)
    BY <1>1
  <2> HIDE DEF new, acct
  <2> QED BY <1>4, <1>5, <1>8, <1>9, <2>1, EntryChanged
<1>11. new.refs = Entry(st, o).refs + 0
  BY <1>2, <1>3, <1>4
<1> HIDE DEF old, new
<1> QED BY <1>2, <1>4, <1>10, <1>11 DEF Turns

\* A lease that is given up or has run out.
LEMMA ClearTurns ==
    ASSUME NEW o \in Objects, Good(st), NEW i \in find(st, o),
           leased(st.slots[i]), st' = _clear_lease(st, i)
    PROVE  Turns(st, st', o, 0)
<1> DEFINE old == st.slots[i]
           new == [old EXCEPT !.lease = NoReceipt]
           acct == [st.acct EXCEPT !.leases = @ - 1]
<1>1. /\ Entry(st, o) = old /\ SlotShape(old) /\ old # FreeSlot
      /\ old \in HeldSlots /\ old.object = o /\ i \in Slots
      /\ st.acct = [c \in Counters |-> st.acct[c]]
      /\ \A c \in Counters : st.acct[c] \in Nat
      /\ st.acct.references <= MaxReferences
  BY EntryKnown
<1>2. /\ st = [slots |-> st.slots, acct |-> st.acct]
      /\ st.slots = [j \in Slots |-> st.slots[j]]
  BY DEF Good, Shape
<1>3. st' = Moved(st, i, new, acct)
  BY <1>1, <1>2 DEF _clear_lease, Moved
<1>4. /\ new \in HeldSlots /\ new.object = o /\ new.state = old.state
      /\ new.refs = old.refs /\ new.repairs = old.repairs
      /\ new.intact = old.intact /\ new.lease = NoReceipt
      /\ old.refs \in Nat /\ old.repairs \in Nat
  BY <1>1 DEF HeldSlots
<1>5. SlotShape(new) /\ ~leased(new)
  BY <1>1, <1>4, HeldSlotFacts DEF SlotShape, leased
<1>6. /\ acct = [c \in Counters |-> acct[c]]
      /\ acct.leases = st.acct.leases - 1
      /\ \A c \in Counters \ {"leases"} : acct[c] = st.acct[c]
  BY <1>1 DEF Counters
<1>7. {st.acct.live, st.acct.quarantined, st.acct.retired,
       st.acct.references, st.acct.leases, st.acct.repairs} \subseteq Nat
  BY <1>1 DEF Counters
<1>8. Follows(acct, st.acct, old, new)
  <2> HIDE DEF new, acct
  <2> QED BY <1>4, <1>5, <1>6, <1>7 DEF Follows, One, Counters
<1>9. acct.references <= MaxReferences
  <2> HIDE DEF acct
  <2> QED BY <1>1, <1>6 DEF Counters
<1>10. Becomes(st, st', o, new)
  <2> HIDE DEF new, acct
  <2> QED BY <1>3, <1>4, <1>5, <1>8, <1>9, EntryChanged
<1>11. new.refs = Entry(st, o).refs + 0
  BY <1>1, <1>4
<1> HIDE DEF old, new
<1> QED BY <1>1, <1>4, <1>10, <1>11 DEF Turns

\* The entry of o got receipt r, with a generation that it never had.
Leases(s, t, o, r) ==
    /\ r \in Receipts
    /\ r.object = o
    /\ r.generation > Entry(s, o).generation
    /\ \E e : /\ Becomes(s, t, o, e)
              /\ e.refs = Entry(s, o).refs
              /\ e.lease = r
              /\ e.intact = Entry(s, o).intact

LEMMA LeaseSet ==
    ASSUME NEW s, NEW o \in Objects, Good(s), NEW i \in find(s, o),
           NEW owner \in Owners, NEW expires \in 1..MaxTick, NEW acct,
           s.slots[i].state = "live", s.slots[i].generation < MaxGeneration,
           NEW r,
           r = _lease_receipt(o, s.slots[i].generation + 1, owner, expires),
           acct = [s.acct EXCEPT
                       !.leases = @ + (IF leased(s.slots[i]) THEN 0 ELSE 1)]
    PROVE  Leases(s, Moved(s, i, [s.slots[i] EXCEPT !.generation = @ + 1,
                                                    !.lease = r], acct),
                  o, r)
<1> DEFINE old == s.slots[i]
           new == [old EXCEPT !.generation = @ + 1, !.lease = r]
<1>1. /\ Entry(s, o) = old /\ SlotShape(old) /\ old # FreeSlot
      /\ old \in HeldSlots /\ old.object = o
      /\ s.acct = [c \in Counters |-> s.acct[c]]
      /\ \A c \in Counters : s.acct[c] \in Nat
      /\ s.acct.references <= MaxReferences
  BY EntryKnown
<1>2. /\ old.refs \in Nat /\ old.refs # 0 /\ old.repairs \in Nat
      /\ old.generation \in Nat
  BY <1>1, HeldSlotFacts
<1>3. /\ r \in Receipts /\ r.object = o
      /\ r.generation = old.generation + 1 /\ r # NoReceipt
  <2>1. old.generation + 1 \in 1..MaxGeneration
    <3>1. MaxGeneration \in Nat /\ old.generation < MaxGeneration
      BY StoreAssumption
    <3> HIDE DEF old
    <3> QED BY <1>2, <3>1
  <2>2. r \in Receipts /\ r.object = o /\ r.generation = old.generation + 1
    BY <2>1 DEF Receipts, _lease_receipt
  <2> QED BY <2>2, FreeSlotFacts
<1>4. /\ new \in HeldSlots /\ new.object = o /\ new.state = "live"
      /\ new.refs = old.refs /\ new.repairs = old.repairs
      /\ new.intact = old.intact /\ new.lease = r
      /\ new.generation = old.generation + 1
  <2>1. /\ new.object = o /\ new.state = "live" /\ new.refs = old.refs
        /\ new.repairs = old.repairs /\ new.intact = old.intact
        /\ new.lease = r /\ new.generation = old.generation + 1
    BY <1>1 DEF HeldSlots
  <2>2. old.generation + 1 \in Nat
    BY <1>2
  <2>3. new \in HeldSlots
    BY <1>1, <1>3, <2>2 DEF HeldSlots
  <2> QED BY <2>1, <2>3
<1>5. SlotShape(new) /\ leased(new)
  BY <1>2, <1>3, <1>4 DEF SlotShape, leased
<1>6. /\ acct = [c \in Counters |-> acct[c]]
      /\ acct.leases = s.acct.leases - One(leased(old)) + One(leased(new))
      /\ \A c \in Counters \ {"leases"} : acct[c] = s.acct[c]
  <2>1. /\ acct = [c \in Counters |-> acct[c]]
        /\ acct.leases = s.acct.leases + (IF leased(old) THEN 0 ELSE 1)
        /\ \A c \in Counters \ {"leases"} : acct[c] = s.acct[c]
    BY <1>1 DEF Counters
  <2>2. s.acct.leases \in Nat
    BY <1>1 DEF Counters
  <2> QED BY <1>5, <2>1, <2>2 DEF One
<1>7. {s.acct.live, s.acct.quarantined, s.acct.retired,
       s.acct.references, s.acct.leases, s.acct.repairs} \subseteq Nat
  BY <1>1 DEF Counters
<1>8. Follows(acct, s.acct, old, new)
  <2> HIDE DEF new
  <2> QED BY <1>2, <1>4, <1>6, <1>7 DEF Follows, One, Counters
<1>9. Becomes(s, Moved(s, i, new, acct), o, new)
  <2>1. acct.references <= MaxReferences
    BY <1>1, <1>6 DEF Counters
  <2> HIDE DEF new
  <2> QED BY <1>4, <1>5, <1>8, <2>1, EntryChanged
<1>10. r.generation > Entry(s, o).generation
  BY <1>1, <1>2, <1>3
<1> QED BY <1>1, <1>3, <1>4, <1>9, <1>10 DEF Leases

\* A lease that is acquired.
LEMMA AcquireLeases ==
    ASSUME NEW o \in Objects, Good(st), NEW owner \in Owners, NEW now,
           NEW expires \in 1..MaxTick, acquire_lease(o, owner, now, expires)
    PROVE  \E r : issued' = issued \cup {r} /\ Leases(st, st', o, r)
<1> DEFINE slot == slotOf(st, o)
           r == _lease_receipt(o, slot.generation + 1, owner, expires)
<1>1. PICK i \in find(st, o) :
          st' = Moved(st, i, [slot EXCEPT !.generation = @ + 1, !.lease = r],
                      [st.acct EXCEPT !.leases = @ + 1])
  BY DEF acquire_lease
<1>2. /\ slot.state = "live" /\ ~leased(slot)
      /\ slot.generation < MaxGeneration
      /\ issued' = issued \cup {r}
  BY DEF acquire_lease
<1>3. slot = st.slots[i]
  BY <1>1, EntryKnown
<1>4. [st.acct EXCEPT !.leases = @ + 1] =
          [st.acct EXCEPT !.leases = @ + (IF leased(slot) THEN 0 ELSE 1)]
  BY <1>2
<1>5. Leases(st, st', o, r)
  <2> DEFINE x == slot
  <2>1. x = st.slots[i] /\ x.state = "live" /\ x.generation < MaxGeneration
    BY <1>2, <1>3
  <2> HIDE DEF x
  <2>2. Leases(st, Moved(st, i, [x EXCEPT !.generation = @ + 1,
                    !.lease = _lease_receipt(o, x.generation + 1, owner,
                                             expires)],
                    [st.acct EXCEPT
                         !.leases = @ + (IF leased(x) THEN 0 ELSE 1)]),
               o, _lease_receipt(o, x.generation + 1, owner, expires))
    BY <1>1, <2>1, LeaseSet
  <2> QED BY <1>1, <1>4, <2>2 DEF x
<1> QED BY <1>2, <1>5

\* A lease that is renewed.
LEMMA RenewLeases ==
    ASSUME Good(st), NEW old \in Receipts, NEW now,
           NEW expires \in 1..MaxTick, renew_lease(old, now, expires)
    PROVE  \E r : issued' = issued \cup {r} /\ Leases(st, st', old.object, r)
<1> DEFINE o == old.object
           slot == slotOf(st, o)
           r == _lease_receipt(o, slot.generation + 1, old.owner, expires)
<1>1. PICK i \in find(st, o) :
          st' = Moved(st, i, [slot EXCEPT !.generation = @ + 1, !.lease = r],
                      st.acct)
  BY DEF renew_lease
<1>2. /\ leased(slot) /\ slot.generation < MaxGeneration
      /\ issued' = issued \cup {r}
      /\ o \in Objects /\ old.owner \in Owners
  BY DEF renew_lease, _current_lease, Receipts
<1>3. /\ slot = st.slots[i] /\ SlotShape(st.slots[i])
      /\ st.slots[i] # FreeSlot
      /\ st.acct = [c \in Counters |-> st.acct[c]]
      /\ \A c \in Counters : st.acct[c] \in Nat
  BY <1>1, <1>2, EntryKnown
<1>4. slot.state = "live"
  BY <1>2, <1>3, HeldSlotFacts
<1>5. st.acct =
          [st.acct EXCEPT !.leases = @ + (IF leased(slot) THEN 0 ELSE 1)]
  <2>1. st.acct.leases \in Nat
    BY <1>3 DEF Counters
  <2> QED BY <1>2, <1>3, <2>1 DEF Counters
<1>6. Leases(st, st', o, r)
  <2> DEFINE x == slot
             p == old.owner
  <2>1. /\ x = st.slots[i] /\ x.state = "live"
        /\ x.generation < MaxGeneration /\ p \in Owners
    BY <1>2, <1>3, <1>4
  <2> HIDE DEF x, p
  <2>2. Leases(st, Moved(st, i, [x EXCEPT !.generation = @ + 1,
                    !.lease = _lease_receipt(o, x.generation + 1, p,
                                             expires)],
                    [st.acct EXCEPT
                         !.leases = @ + (IF leased(x) THEN 0 ELSE 1)]),
               o, _lease_receipt(o, x.generation + 1, p, expires))
    BY <1>1, <1>2, <2>1, LeaseSet
  <2> QED BY <1>1, <1>5, <2>2 DEF x, p
<1> QED BY <1>2, <1>6

-----------------------------------------------------------------------------
(* The import: a loop that an action at a time undoes.                     *)

\* The two loops, as one that is given its body by name.
Body1(kind, acc, x) ==
    IF kind = "import" THEN ImportStep(acc, x) ELSE UndoStep(acc, x)
Loops(kind, base, args, n, g) ==
    g = [k \in 0..n |->
             IF k = 0 THEN base ELSE Body1(kind, g[k - 1], args[k])]

LEMMA LoopExists ==
    ASSUME NEW kind, NEW base, NEW args, NEW n \in Nat
    PROVE  \E g : Loops(kind, base, args, n, g)
<1> DEFINE P == {k \in 0..n : \E g : Loops(kind, base, args, k, g)}
<1>1. 0 \in P
  <2> DEFINE g == [k \in 0..0 |-> base]
  <2>1. g = [k \in 0..0 |->
                 IF k = 0 THEN base ELSE Body1(kind, g[k - 1], args[k])]
    OBVIOUS
  <2> HIDE DEF g
  <2> QED BY <2>1 DEF Loops
<1>2. ASSUME NEW m \in 0..(n - 1), m \in P PROVE m + 1 \in P
  <2>1. PICK g : Loops(kind, base, args, m, g)
    BY <1>2
  <2> DEFINE h == [k \in 0..(m + 1) |->
                       IF k = m + 1 THEN Body1(kind, g[m], args[m + 1])
                       ELSE g[k]]
  <2>2. ASSUME NEW k \in 0..(m + 1)
        PROVE  h[k] = IF k = 0 THEN base
                      ELSE Body1(kind, h[k - 1], args[k])
    <3>1. CASE k = m + 1
      <4>1. h[k] = Body1(kind, g[m], args[m + 1])
        BY <3>1
      <4>2. k - 1 = m /\ k # 0 /\ h[m] = g[m]
        BY <3>1
      <4> HIDE DEF h
      <4> QED BY <3>1, <4>1, <4>2
    <3>2. CASE k # m + 1
      <4>1. k \in 0..m /\ h[k] = g[k]
        BY <3>2
      <4>2. k # 0 => k - 1 \in 0..m /\ h[k - 1] = g[k - 1]
        BY <3>2
      <4>3. g[k] = IF k = 0 THEN base ELSE Body1(kind, g[k - 1], args[k])
        BY <2>1, <4>1 DEF Loops
      <4> HIDE DEF h
      <4> QED BY <4>1, <4>2, <4>3
    <3> QED BY <3>1, <3>2
  <2>3. h = [k \in 0..(m + 1) |-> h[k]]
    OBVIOUS
  <2>4. Loops(kind, base, args, m + 1, h)
    <3> HIDE DEF h
    <3> QED BY <2>2, <2>3 DEF Loops
  <2> QED BY <2>4
<1> HIDE DEF P
<1>3. \A k \in 0..n : k \in P
  BY <1>1, <1>2, Climb
<1> QED BY <1>3 DEF P

Start(s, served) == [ok |-> TRUE, s |-> s, done |-> <<>>, served |-> served]

\* The loop of an import, run by run.
LEMMA ImportedIs ==
    ASSUME NEW s, NEW served, NEW names \in Seq(Objects)
    PROVE  \E g : /\ g = [k \in 0..Len(names) |->
                              IF k = 0 THEN Start(s, served)
                              ELSE ImportStep(g[k - 1], names[k])]
                  /\ Imported(s, names, served) = g[Len(names)]
<1> DEFINE Q(g) == g = [k \in 0..Len(names) |->
                            IF k = 0 THEN Start(s, served)
                            ELSE ImportStep(g[k - 1], names[k])]
<1>1. Len(names) \in Nat
  OBVIOUS
<1>2. \E g : Q(g)
  <2>1. PICK g : Loops("import", Start(s, served), names, Len(names), g)
    BY <1>1, LoopExists
  <2>2. Q(g)
    BY <2>1 DEF Loops, Body1
  <2> QED BY <2>2
<1>3. Q(CHOOSE g : Q(g))
  BY <1>2
<1>4. Imported(s, names, served) = (CHOOSE g : Q(g))[Len(names)]
  BY DEF Imported, Start
<1> QED BY <1>3, <1>4

\* The loop of a rollback, run by run.
LEMMA RollbackIs ==
    ASSUME NEW s, NEW S, NEW done \in Seq(S)
    PROVE  \E g : /\ g = [k \in 0..Len(done) |->
                              IF k = 0 THEN s
                              ELSE UndoStep(g[k - 1],
                                            done[Len(done) + 1 - k])]
                  /\ _rollback(s, done) = g[Len(done)]
<1> DEFINE Q(g) == g = [k \in 0..Len(done) |->
                            IF k = 0 THEN s
                            ELSE UndoStep(g[k - 1], done[Len(done) + 1 - k])]
           back == [k \in 1..Len(done) |-> done[Len(done) + 1 - k]]
<1>1. Len(done) \in Nat
  OBVIOUS
<1>2. \E g : Q(g)
  <2>1. PICK g : Loops("undo", s, back, Len(done), g)
    BY <1>1, LoopExists
  <2>2. \A k \in 0..Len(done) : k # 0 =>
            Body1("undo", g[k - 1], back[k]) =
                UndoStep(g[k - 1], done[Len(done) + 1 - k])
    BY <1>1 DEF Body1
  <2> HIDE DEF back
  <2>3. Q(g)
    BY <2>1, <2>2 DEF Loops
  <2> QED BY <2>3
<1>3. Q(CHOOSE g : Q(g))
  BY <1>2
<1>4. _rollback(s, done) = (CHOOSE g : Q(g))[Len(done)]
  BY DEF _rollback
<1> QED BY <1>3, <1>4

LEMMA RollbackEmpty ==
    ASSUME NEW s
    PROVE  _rollback(s, <<>>) = s
<1>1. <<>> \in Seq({}) /\ Len(<<>>) = 0
  OBVIOUS
<1>2. PICK g : /\ g = [k \in 0..Len(<<>>) |->
                           IF k = 0 THEN s
                           ELSE UndoStep(g[k - 1], <<>>[Len(<<>>) + 1 - k])]
               /\ _rollback(s, <<>>) = g[Len(<<>>)]
  BY <1>1, RollbackIs
<1> QED BY <1>1, <1>2

\* The last action is undone first.
LEMMA RollbackAppend ==
    ASSUME NEW s, NEW S, NEW done \in Seq(S), NEW a \in S
    PROVE  _rollback(s, Append(done, a)) = _rollback(UndoStep(s, a), done)
<1> DEFINE n == Len(done)
           more == Append(done, a)
<1>1. /\ more \in Seq(S) /\ Len(more) = n + 1 /\ n \in Nat
      /\ more[n + 1] = a /\ \A k \in 1..n : more[k] = done[k]
  OBVIOUS
<1> HIDE DEF more
<1>2. PICK g : /\ g = [k \in 0..Len(more) |->
                           IF k = 0 THEN s
                           ELSE UndoStep(g[k - 1], more[Len(more) + 1 - k])]
               /\ _rollback(s, more) = g[Len(more)]
  BY <1>1, RollbackIs
<1>3. PICK h : /\ h = [k \in 0..n |->
                           IF k = 0 THEN UndoStep(s, a)
                           ELSE UndoStep(h[k - 1], done[n + 1 - k])]
               /\ _rollback(UndoStep(s, a), done) = h[n]
  BY RollbackIs
<1> HIDE DEF n
<1> DEFINE P == {k \in 0..n : g[k + 1] = h[k]}
<1>4. 0 \in P
  <2>1. g[0] = s /\ h[0] = UndoStep(s, a)
    BY <1>1, <1>2, <1>3
  <2>2. g[1] = UndoStep(g[1 - 1], more[Len(more) + 1 - 1])
    BY <1>1, <1>2
  <2>3. 1 - 1 = 0 /\ Len(more) + 1 - 1 = n + 1
    BY <1>1
  <2> QED BY <1>1, <2>1, <2>2, <2>3
<1>5. ASSUME NEW k \in 0..(n - 1), k \in P PROVE k + 1 \in P
  <2>1. k + 1 \in 0..n /\ k + 2 \in 0..Len(more) /\ n - k \in 1..n
    BY <1>1
  <2>2. g[k + 2] = UndoStep(g[(k + 2) - 1], more[Len(more) + 1 - (k + 2)])
    BY <1>1, <1>2, <2>1
  <2>3. h[k + 1] = UndoStep(h[(k + 1) - 1], done[n + 1 - (k + 1)])
    BY <1>1, <1>3, <2>1
  <2>4. /\ (k + 2) - 1 = k + 1 /\ Len(more) + 1 - (k + 2) = n - k
        /\ (k + 1) - 1 = k /\ n + 1 - (k + 1) = n - k /\ (k + 1) + 1 = k + 2
    BY <1>1
  <2>5. more[n - k] = done[n - k] /\ g[k + 1] = h[k]
    BY <1>1, <1>5, <2>1
  <2> QED BY <2>1, <2>2, <2>3, <2>4, <2>5
<1>6. n \in P
  <2> HIDE DEF P
  <2>1. \A k \in 0..n : k \in P
    BY <1>1, <1>4, <1>5, Climb
  <2> QED BY <1>1, <2>1
<1> QED BY <1>1, <1>2, <1>3, <1>6 DEF more

\* Undoing the last action leaves the store it found.
LEMMA UndoReused ==
    ASSUME NEW s, NEW o \in Objects, Good(s), CanReuse(s, o)
    PROVE  UndoStep(Reused(s, o), [object |-> o, inserted |-> FALSE]) = s
<1> DEFINE t == Reused(s, o)
<1>1. PICK i \in find(s, o) : TRUE
  BY DEF CanReuse
<1>2. /\ i \in Slots /\ (CHOOSE j \in find(s, o) : TRUE) = i
      /\ s.slots[i] \in HeldSlots /\ s.slots[i].object = o
      /\ find(s, o) = {i}
      /\ s.acct = [c \in Counters |-> s.acct[c]]
      /\ \A c \in Counters : s.acct[c] \in Nat
      /\ s = [slots |-> s.slots, acct |-> s.acct]
      /\ s.slots = [j \in Slots |-> s.slots[j]]
  <2>1. /\ s = [slots |-> s.slots, acct |-> s.acct]
        /\ s.slots = [j \in Slots |-> s.slots[j]]
    BY DEF Good, Shape
  <2>2. /\ i \in Slots /\ (CHOOSE j \in find(s, o) : TRUE) = i
        /\ s.slots[i] \in HeldSlots /\ s.slots[i].object = o
        /\ find(s, o) = {i}
    BY <1>1, EntryKnown
  <2>3. /\ s.acct = [c \in Counters |-> s.acct[c]]
        /\ \A c \in Counters : s.acct[c] \in Nat
    BY <1>1, EntryKnown
  <2> QED BY <2>1, <2>2, <2>3
<1> DEFINE old == s.slots[i]
<1>3. /\ t.slots = [s.slots EXCEPT ![i] = [old EXCEPT !.refs = @ + 1]]
      /\ t.acct = [s.acct EXCEPT !.references = @ + 1]
  BY <1>2 DEF Reused, Moved
<1>4. /\ t.slots[i] = [old EXCEPT !.refs = @ + 1]
      /\ \A j \in Slots : j # i => t.slots[j] = s.slots[j]
      /\ DOMAIN t.slots = Slots
  BY <1>2, <1>3
<1>5. t.slots[i].object = o
  BY <1>2, <1>4 DEF HeldSlots
<1> HIDE DEF t
<1>6. find(t, o) = {i}
  BY <1>2, <1>4, <1>5 DEF find
<1>7. [t.slots[i] EXCEPT !.refs = @ - 1] = old
  <2>1. old.refs \in Nat
    BY <1>2 DEF HeldSlots
  <2>2. t.slots[i].refs - 1 = old.refs
    BY <1>2, <1>4, <2>1 DEF HeldSlots
  <2> QED BY <1>2, <1>4, <2>1, <2>2 DEF HeldSlots
<1>8. [t.acct EXCEPT !.references = @ - 1] = s.acct
  <2>1. s.acct.references \in Nat
    BY <1>2 DEF Counters
  <2>2. s.acct.references + 1 - 1 = s.acct.references
    BY <2>1
  <2> DEFINE b == [t.acct EXCEPT !.references = @ - 1]
  <2>3. b = [c \in Counters |-> b[c]]
    BY <1>2, <1>3
  <2>4. b.references = s.acct.references
    BY <1>2, <1>3, <2>2 DEF Counters
  <2>5. \A c \in Counters \ {"references"} : b[c] = s.acct[c]
    BY <1>2, <1>3 DEF Counters
  <2> HIDE DEF b
  <2>6. \A c \in Counters : b[c] = s.acct[c]
    BY <2>4, <2>5
  <2> QED BY <1>2, <2>3, <2>6 DEF b
<1>9. [t.slots EXCEPT ![i] = old] = s.slots
  BY <1>2, <1>3, <1>4
<1>10. UndoStep(t, [object |-> o, inserted |-> FALSE]) =
           Moved(t, i, [t.slots[i] EXCEPT !.refs = @ - 1],
                 [t.acct EXCEPT !.references = @ - 1])
  <2>1. (CHOOSE j \in find(t, o) : TRUE) = i
    BY <1>6
  <2> QED BY <2>1 DEF UndoStep
<1> QED BY <1>2, <1>7, <1>8, <1>9, <1>10 DEF t, Moved

LEMMA UndoInserted ==
    ASSUME NEW s, NEW o \in Objects, Good(s), CanInsert(s, o)
    PROVE  UndoStep(Inserted(s, o), [object |-> o, inserted |-> TRUE]) = s
<1> DEFINE t == Inserted(s, o)
           i == FirstFree(s)
           new == [FreeSlot EXCEPT !.object = o, !.state = "live", !.refs = 1]
<1>1. /\ i \in Slots /\ s.slots[i] = FreeSlot
      /\ s.acct = [c \in Counters |-> s.acct[c]]
      /\ \A c \in Counters : s.acct[c] \in Nat
      /\ s = [slots |-> s.slots, acct |-> s.acct]
      /\ s.slots = [j \in Slots |-> s.slots[j]]
  BY EntryInserted, AcctType DEF Good, Shape
<1>2. /\ t.slots = [s.slots EXCEPT ![i] = new]
      /\ t.acct = [s.acct EXCEPT !.entries = @ + 1, !.live = @ + 1,
                         !.payload = @ + Bytes[o], !.references = @ + 1]
  BY DEF Inserted, Moved
<1> HIDE DEF t, i
<1>3. /\ t.slots[i] = new /\ DOMAIN t.slots = Slots
      /\ \A j \in Slots : j # i => t.slots[j] = s.slots[j]
  BY <1>1, <1>2
<1>4. /\ new.object = o /\ new.state = "live" /\ new.refs = 1
      /\ new.repairs = 0
  BY DEF FreeSlot
<1> HIDE DEF new
<1>5. find(t, o) = {i}
  <2>1. find(s, o) = {}
    BY DEF CanInsert
  <2> QED BY <1>1, <1>3, <1>4, <2>1 DEF find
<1>6. UndoStep(t, [object |-> o, inserted |-> TRUE]) = Freed(t, i)
  <2>1. (CHOOSE j \in find(t, o) : TRUE) = i
    BY <1>5
  <2> QED BY <2>1 DEF UndoStep
<1>7. Freed(t, i).slots = s.slots
  <2>1. Freed(t, i).slots = [t.slots EXCEPT ![i] = FreeSlot]
    BY DEF Freed, Moved
  <2> QED BY <1>1, <1>2, <1>3, <2>1
<1>8. Freed(t, i).acct = s.acct
  <2> DEFINE a == Freed(t, i).acct
  <2>1. /\ s.acct.entries \in Nat /\ s.acct.live \in Nat
        /\ s.acct.quarantined \in Nat /\ s.acct.retired \in Nat
        /\ s.acct.payload \in Nat /\ s.acct.references \in Nat
        /\ s.acct.leases \in Nat /\ s.acct.repairs \in Nat
        /\ Bytes[o] \in Nat
    BY <1>1, StoreAssumption DEF Counters
  <2>2. /\ t.acct = [c \in Counters |-> t.acct[c]]
        /\ t.acct.entries = s.acct.entries + 1
        /\ t.acct.live = s.acct.live + 1
        /\ t.acct.quarantined = s.acct.quarantined
        /\ t.acct.retired = s.acct.retired
        /\ t.acct.payload = s.acct.payload + Bytes[o]
        /\ t.acct.references = s.acct.references + 1
        /\ t.acct.leases = s.acct.leases
        /\ t.acct.repairs = s.acct.repairs
    BY <1>1, <1>2 DEF Counters
  <2>3. /\ a = [c \in Counters |-> a[c]]
        /\ a.entries = t.acct.entries - 1
        /\ a.live = t.acct.live - 1
        /\ a.quarantined = t.acct.quarantined - 0
        /\ a.retired = t.acct.retired - 0
        /\ a.payload = t.acct.payload - Bytes[o]
        /\ a.references = t.acct.references - 1
        /\ a.leases = t.acct.leases
        /\ a.repairs = t.acct.repairs - 0
    <3>1. a = [t.acct EXCEPT !.entries = @ - 1, !.live = @ - 1,
                             !.quarantined = @ - 0, !.retired = @ - 0,
                             !.payload = @ - Bytes[o], !.references = @ - 1,
                             !.repairs = @ - 0]
      BY <1>3, <1>4 DEF Freed, Moved
    <3> HIDE DEF a
    <3> QED BY <2>2, <3>1 DEF Counters
  <2> HIDE DEF a
  <2>4. \A c \in Counters : a[c] = s.acct[c]
    BY <2>1, <2>2, <2>3 DEF Counters
  <2> QED BY <1>1, <2>3, <2>4 DEF a
<1>9. Freed(t, i) = [slots |-> Freed(t, i).slots, acct |-> Freed(t, i).acct]
  BY DEF Freed, Moved
<1> QED BY <1>1, <1>6, <1>7, <1>8, <1>9 DEF t

\* How often the first n of a list of objects name one.
Uses(names, n, o) == Cardinality({k \in 1..n : names[k] = o})

LEMMA UsesStep ==
    ASSUME NEW names, NEW n \in Nat, NEW o
    PROVE  /\ Uses(names, n, o) \in Nat
           /\ Uses(names, 0, o) = 0
           /\ Uses(names, n + 1, o) =
                  Uses(names, n, o) + (IF names[n + 1] = o THEN 1 ELSE 0)
<1> DEFINE A == {k \in 1..n : names[k] = o}
           B == {k \in 1..(n + 1) : names[k] = o}
<1>1. IsFiniteSet(A)
  <2>1. IsFiniteSet(1..n) /\ A \subseteq 1..n
    BY FS_Interval
  <2> QED BY <2>1, FS_Subset
<1>2. {k \in 1..0 : names[k] = o} = {}
  OBVIOUS
<1>3. CASE names[n + 1] = o
  <2>1. B = A \cup {n + 1} /\ n + 1 \notin A
    BY <1>3
  <2> HIDE DEF A, B
  <2>2. Cardinality(B) = Cardinality(A) + 1
    BY <1>1, <2>1, FS_AddElement
  <2> QED BY <1>1, <1>2, <1>3, <2>2, FS_CardinalityType, FS_EmptySet
          DEF Uses, A, B
<1>4. CASE names[n + 1] # o
  <2>1. B = A
    BY <1>4
  <2>2. Cardinality(A) \in Nat
    BY <1>1, FS_CardinalityType
  <2> QED BY <1>2, <1>4, <2>1, <2>2, FS_EmptySet DEF Uses
<1> QED BY <1>3, <1>4

\* Where an import is after n objects: it can be undone, and while it is
\* going on every object has its references.
ImportAt(acc, s, names, n) ==
    /\ acc = [ok |-> acc.ok, s |-> acc.s, done |-> acc.done,
              served |-> acc.served]
    /\ acc.ok \in BOOLEAN
    /\ Good(acc.s)
    /\ \E S : acc.done \in Seq(S)
    /\ _rollback(acc.s, acc.done) = s
    /\ \A o \in Objects :
           /\ Entry(acc.s, o).lease \in {Entry(s, o).lease, NoReceipt}
           /\ Entry(acc.s, o).intact \in {Entry(s, o).intact, TRUE}
           /\ acc.ok => Entry(acc.s, o).refs =
                            Entry(s, o).refs + Uses(names, n, o)

\* One object imported, with an action that undoes it.
LEMMA ImportAdvances ==
    ASSUME NEW acc, NEW s, Good(s), NEW names \in Seq(Objects),
           NEW n \in 0..(Len(names) - 1), ImportAt(acc, s, names, n), acc.ok,
           NEW t, NEW a, NEW served,
           Turns(acc.s, t, names[n + 1], 1), UndoStep(t, a) = acc.s,
           NEW next, next = [ok |-> TRUE, s |-> t,
                             done |-> Append(acc.done, a), served |-> served]
    PROVE  ImportAt(next, s, names, n + 1)
<1>1. PICK e : /\ Becomes(acc.s, t, names[n + 1], e)
               /\ e.refs = Entry(acc.s, names[n + 1]).refs + 1
               /\ e.lease \in {Entry(acc.s, names[n + 1]).lease, NoReceipt}
               /\ e.intact \in {Entry(acc.s, names[n + 1]).intact, TRUE}
  BY DEF Turns
<1>2. PICK S : acc.done \in Seq(S)
  BY DEF ImportAt
<1>3. acc.done \in Seq(S \cup {a}) /\ Append(acc.done, a) \in Seq(S \cup {a})
  BY <1>2
<1>4. _rollback(t, Append(acc.done, a)) = s
  <2>1. a \in S \cup {a}
    OBVIOUS
  <2>2. _rollback(t, Append(acc.done, a)) =
            _rollback(UndoStep(t, a), acc.done)
    BY <1>3, <2>1, RollbackAppend
  <2> QED BY <2>2 DEF ImportAt
<1>5. ASSUME NEW o \in Objects
      PROVE  /\ Entry(t, o).lease \in {Entry(s, o).lease, NoReceipt}
             /\ Entry(t, o).intact \in {Entry(s, o).intact, TRUE}
             /\ Entry(t, o).refs = Entry(s, o).refs + Uses(names, n + 1, o)
  <2>1. /\ Entry(acc.s, o).lease \in {Entry(s, o).lease, NoReceipt}
        /\ Entry(acc.s, o).intact \in {Entry(s, o).intact, TRUE}
        /\ Entry(acc.s, o).refs = Entry(s, o).refs + Uses(names, n, o)
    BY DEF ImportAt
  <2>2. /\ Uses(names, n, o) \in Nat
        /\ Uses(names, n + 1, o) =
               Uses(names, n, o) + (IF names[n + 1] = o THEN 1 ELSE 0)
    BY UsesStep
  <2>3. Entry(s, o).refs \in Nat
    BY EntryFound DEF Good
  <2>4. Entry(t, o) = IF o = names[n + 1] THEN e ELSE Entry(acc.s, o)
    BY <1>1 DEF Becomes
  <2>5. CASE o = names[n + 1]
    <3>1. /\ Entry(t, o) = e
          /\ e.refs = Entry(acc.s, o).refs + 1
          /\ e.lease \in {Entry(acc.s, o).lease, NoReceipt}
          /\ e.intact \in {Entry(acc.s, o).intact, TRUE}
          /\ Uses(names, n + 1, o) = Uses(names, n, o) + 1
      BY <1>1, <2>2, <2>4, <2>5
    <3>2. /\ Entry(t, o).lease \in {Entry(s, o).lease, NoReceipt}
          /\ Entry(t, o).intact \in {Entry(s, o).intact, TRUE}
      BY <2>1, <3>1
    <3>3. Entry(t, o).refs = Entry(s, o).refs + Uses(names, n + 1, o)
      <4> DEFINE x == Entry(s, o).refs
                 y == Entry(acc.s, o).refs
                 u == Uses(names, n, o)
      <4>1. x \in Nat /\ u \in Nat /\ y = x + u
        BY <2>1, <2>2, <2>3
      <4>2. Entry(t, o).refs = y + 1 /\ Uses(names, n + 1, o) = u + 1
        BY <3>1
      <4> HIDE DEF x, y, u
      <4>3. Entry(t, o).refs = x + Uses(names, n + 1, o)
        BY <4>1, <4>2
      <4> QED BY <4>3 DEF x
    <3> QED BY <3>2, <3>3
  <2>6. CASE o # names[n + 1]
    <3>1. /\ Entry(t, o) = Entry(acc.s, o)
          /\ Uses(names, n + 1, o) = Uses(names, n, o)
      BY <2>2, <2>4, <2>6
    <3> QED BY <2>1, <3>1
  <2> QED BY <2>5, <2>6
<1>6. Good(t)
  BY <1>1 DEF Becomes
<1> QED BY <1>3, <1>4, <1>5, <1>6 DEF ImportAt

\* An import keeps the store good, and every prefix of it can be undone.
LEMMA ImportHolds ==
    ASSUME NEW s, Good(s), NEW names \in Seq(Objects), NEW served
    PROVE  ImportAt(Imported(s, names, served), s, names, Len(names))
<1> DEFINE m == Len(names)
<1>1. m \in Nat
  OBVIOUS
<1>2. PICK g : /\ g = [k \in 0..Len(names) |->
                           IF k = 0 THEN Start(s, served)
                           ELSE ImportStep(g[k - 1], names[k])]
               /\ Imported(s, names, served) = g[Len(names)]
  BY ImportedIs
<1> DEFINE P == {k \in 0..m : ImportAt(g[k], s, names, k)}
<1>3. 0 \in P
  <2>1. g[0] = Start(s, served)
    BY <1>1, <1>2
  <2>2. <<>> \in Seq({}) /\ _rollback(s, <<>>) = s
    BY RollbackEmpty
  <2>3. \A o \in Objects : Uses(names, 0, o) = 0 /\ Entry(s, o).refs \in Nat
    BY UsesStep, EntryFound DEF Good
  <2>4. ImportAt(Start(s, served), s, names, 0)
    BY <2>2, <2>3 DEF Start, ImportAt
  <2> QED BY <1>1, <2>1, <2>4
<1>4. ASSUME NEW n \in 0..(m - 1), n \in P PROVE n + 1 \in P
  <2> DEFINE acc == g[n]
             o == names[n + 1]
             next == g[n + 1]
  <2>1. n + 1 \in 0..m /\ n + 1 \in 1..m /\ n \in Nat /\ o \in Objects
    BY <1>1
  <2>2. next = ImportStep(acc, o)
    <3>1. g[n + 1] = ImportStep(g[(n + 1) - 1], names[n + 1])
      BY <1>2, <2>1
    <3>2. (n + 1) - 1 = n
      BY <2>1
    <3> QED BY <3>1, <3>2
  <2>3. ImportAt(acc, s, names, n)
    BY <1>4
  <2> HIDE DEF acc, next
  <2>4. /\ acc = [ok |-> acc.ok, s |-> acc.s, done |-> acc.done,
                  served |-> acc.served]
        /\ Good(acc.s)
    BY <2>3 DEF ImportAt
  <2>5. CASE ~acc.ok
    <3>1. next = acc
      BY <2>2, <2>5 DEF ImportStep
    <3> QED BY <2>1, <2>3, <2>5, <3>1 DEF ImportAt, next
  <2>6. CASE acc.ok /\ CanReuse(acc.s, o)
    <3> DEFINE a == [object |-> o, inserted |-> FALSE]
    <3>1. next = [ok |-> TRUE, s |-> Reused(acc.s, o),
                  done |-> Append(acc.done, a), served |-> acc.served]
      <4>1. acc.ok = TRUE
        BY <2>3, <2>6 DEF ImportAt
      <4>2. next = [acc EXCEPT !.s = Reused(@, o), !.done = Append(@, a)]
        BY <2>2, <2>6 DEF ImportStep
      <4> HIDE DEF a
      <4> QED BY <2>4, <4>1, <4>2
    <3>2. Turns(acc.s, Reused(acc.s, o), o, 1)
      BY <2>1, <2>4, <2>6, ReusedTurns
    <3>3. UndoStep(Reused(acc.s, o), a) = acc.s
      BY <2>1, <2>4, <2>6, UndoReused
    <3> HIDE DEF a
    <3>4. ImportAt(next, s, names, n + 1)
      BY <1>1, <2>3, <2>6, <3>1, <3>2, <3>3, ImportAdvances
    <3> QED BY <2>1, <3>4 DEF next
  <2>7. CASE acc.ok /\ ~CanReuse(acc.s, o) /\ CanInsert(acc.s, o)
                    /\ acc.served > 0
    <3> DEFINE a == [object |-> o, inserted |-> TRUE]
    <3>1. next = [ok |-> TRUE, s |-> Inserted(acc.s, o),
                  done |-> Append(acc.done, a), served |-> acc.served - 1]
      <4>1. acc.ok = TRUE
        BY <2>3, <2>7 DEF ImportAt
      <4>2. next = [acc EXCEPT !.s = Inserted(@, o), !.served = @ - 1,
                               !.done = Append(@, a)]
        BY <2>2, <2>7 DEF ImportStep
      <4> HIDE DEF a
      <4> QED BY <2>4, <4>1, <4>2
    <3>2. Turns(acc.s, Inserted(acc.s, o), o, 1)
      BY <2>1, <2>4, <2>7, InsertedTurns
    <3>3. UndoStep(Inserted(acc.s, o), a) = acc.s
      BY <2>1, <2>4, <2>7, UndoInserted
    <3> HIDE DEF a
    <3>4. ImportAt(next, s, names, n + 1)
      BY <1>1, <2>3, <2>7, <3>1, <3>2, <3>3, ImportAdvances
    <3> QED BY <2>1, <3>4 DEF next
  <2>8. CASE acc.ok /\ ~CanReuse(acc.s, o)
                    /\ ~(CanInsert(acc.s, o) /\ acc.served > 0)
    <3>1. next = [acc EXCEPT !.ok = FALSE]
      BY <2>2, <2>8 DEF ImportStep
    <3>2. next = [ok |-> FALSE, s |-> acc.s, done |-> acc.done,
                  served |-> acc.served]
      BY <2>4, <3>1
    <3>3. ImportAt(next, s, names, n + 1)
      BY <2>3, <3>2 DEF ImportAt
    <3> QED BY <2>1, <3>3 DEF next
  <2> QED BY <2>5, <2>6, <2>7, <2>8
<1> HIDE DEF P
<1>5. \A k \in 0..m : k \in P
  BY <1>1, <1>3, <1>4, Climb
<1>6. m \in P
  BY <1>1, <1>5
<1> QED BY <1>2, <1>6 DEF P

-----------------------------------------------------------------------------
(* The invariant of the store, and its steps in three forms.               *)

StoreTypes == issued \subseteq Receipts /\ held \in [Objects -> Nat]

\* Every reference that a caller was told it holds is counted.
Backed == \A o \in Objects : held[o] <= Entry(st, o).refs

StoreInv == Good(st) /\ StoreTypes /\ Backed

\* One entry changed its references, as its caller knows.
OneTurn ==
    \E o \in Objects, d \in {1, -1, 0} :
        /\ Turns(st, st', o, d)
        /\ d = -1 => held[o] > 0
        /\ held' = [held EXCEPT ![o] = @ + d]
        /\ issued' = issued

\* One lease was given.
OneLease ==
    \E o \in Objects : \E r :
        /\ Leases(st, st', o, r)
        /\ issued' = issued \cup {r}
        /\ held' = held

\* One import ran: it was undone, or every object has its references, of
\* which the caller is told unless the store refuses its snapshot.
Imports(names) ==
    /\ Good(st')
    /\ \A o \in Objects :
           /\ Entry(st', o).lease \in {Entry(st, o).lease, NoReceipt}
           /\ Entry(st', o).intact \in {Entry(st, o).intact, TRUE}
           /\ Entry(st', o).refs =
                  Entry(st, o).refs + Uses(names, Len(names), o)
    /\ held' = IF verify_all(st')
               THEN [o \in Objects |-> held[o] + Uses(names, Len(names), o)]
               ELSE held
OneImport ==
    /\ \/ st' = st /\ held' = held
       \/ \E names \in Seq(Objects) : Imports(names)
    /\ issued' = issued

LEMMA ImportForm ==
    ASSUME Good(st), NEW names \in Seq(Objects), NEW served,
           import_bundle(names, served)
    PROVE  OneImport
<1> DEFINE run == Imported(st, names, served)
<1>1. ImportAt(run, st, names, Len(names))
  BY ImportHolds
<1>2. /\ st' = IF run.ok THEN run.s ELSE _rollback(run.s, run.done)
      /\ held' = IF run.ok /\ verify_all(run.s)
                 THEN [o \in Objects |-> held[o] + ReferencesIn(names, o)]
                 ELSE held
      /\ issued' = issued
  BY DEF import_bundle
<1> HIDE DEF run
<1>3. CASE run.ok
  <2>1. \A o \in Objects : ReferencesIn(names, o) = Uses(names, Len(names), o)
    <3>1. DOMAIN names = 1..Len(names)
      OBVIOUS
    <3> QED BY <3>1 DEF ReferencesIn, Uses
  <2>2. st' = run.s
    BY <1>2, <1>3
  <2>3. Imports(names)
    BY <1>1, <1>2, <1>3, <2>1, <2>2 DEF ImportAt, Imports
  <2> QED BY <1>2, <2>3 DEF OneImport
<1>4. CASE ~run.ok
  <2>1. st' = st
    BY <1>1, <1>2, <1>4 DEF ImportAt
  <2> QED BY <1>2, <1>4, <2>1 DEF OneImport
<1> QED BY <1>3, <1>4

LEMMA StepForm ==
    ASSUME StoreInv, StoreNext
    PROVE  OneTurn \/ OneLease \/ OneImport
<1>1. Good(st) /\ issued \subseteq Receipts /\ held \in [Objects -> Nat]
  BY DEF StoreInv, StoreTypes
<1>2. ASSUME NEW o \in Objects, put(o) PROVE OneTurn
  <2>1. Turns(st, st', o, 1)
    BY <1>1, <1>2, PutTurns
  <2>2. held' = [held EXCEPT ![o] = @ + 1] /\ issued' = issued
    BY <1>2 DEF put
  <2>3. 1 = -1 => held[o] > 0
    OBVIOUS
  <2> QED BY <2>1, <2>2, <2>3 DEF OneTurn
<1>3. ASSUME NEW o \in Objects, release(o) \/ retire(o) PROVE OneTurn
  <2>1. Turns(st, st', o, -1)
    BY <1>1, <1>3, ReleaseTurns, RetireTurns
  <2>2. /\ held[o] > 0 /\ held[o] \in Nat /\ issued' = issued
        /\ held' = [held EXCEPT ![o] = @ - 1]
    BY <1>1, <1>3 DEF release, retire
  <2>3. held[o] - 1 = held[o] + -1
    BY <2>2
  <2>4. held' = [held EXCEPT ![o] = @ + -1]
    BY <2>2, <2>3
  <2> QED BY <2>1, <2>2, <2>4 DEF OneTurn
<1>4. ASSUME NEW o \in Objects, Turns(st, st', o, 0),
             UNCHANGED <<issued, held>>
      PROVE  OneTurn
  <2>1. held[o] \in Nat
    BY <1>1
  <2>2. held' = [held EXCEPT ![o] = @ + 0]
    BY <1>1, <1>4, <2>1
  <2>3. 0 = -1 => held[o] > 0
    OBVIOUS
  <2> QED BY <1>4, <2>2, <2>3 DEF OneTurn
<1>5. ASSUME NEW o \in Objects, quarantine(o) \/ repair(o) PROVE OneTurn
  BY <1>1, <1>4, <1>5, QuarantineTurns, RepairTurns DEF quarantine, repair
<1>6. ASSUME NEW r \in issued, NEW now,
             release_lease(r) \/ expire_lease(r, now)
      PROVE  OneTurn
  <2>1. /\ _current_lease(st, r) /\ UNCHANGED <<issued, held>>
        /\ \E i \in find(st, r.object) : st' = _clear_lease(st, i)
    BY <1>6 DEF release_lease, expire_lease
  <2>2. PICK i \in find(st, r.object) : st' = _clear_lease(st, i)
    BY <2>1
  <2>3. r.object \in Objects
    BY <1>1 DEF Receipts
  <2>4. leased(st.slots[i])
    BY <1>1, <2>1, <2>2, <2>3, EntryKnown DEF _current_lease
  <2>5. Turns(st, st', r.object, 0)
    BY <1>1, <2>2, <2>3, <2>4, ClearTurns
  <2> QED BY <1>4, <2>1, <2>3, <2>5
<1>7. ASSUME NEW o \in Objects, NEW owner \in Owners, NEW now,
             NEW expires \in 1..MaxTick, acquire_lease(o, owner, now, expires)
      PROVE  OneLease
  <2>1. held' = held
    BY <1>7 DEF acquire_lease
  <2> QED BY <1>1, <1>7, <2>1, AcquireLeases DEF OneLease
<1>8. ASSUME NEW r \in issued, NEW now, NEW expires \in 1..MaxTick,
             renew_lease(r, now, expires)
      PROVE  OneLease
  <2>1. held' = held
    BY <1>8 DEF renew_lease
  <2>2. r \in Receipts /\ r.object \in Objects
    BY <1>1 DEF Receipts
  <2> QED BY <1>1, <1>8, <2>1, <2>2, RenewLeases DEF OneLease
<1>9. ASSUME NEW names \in Bundles, NEW served, import_bundle(names, served)
      PROVE  OneImport
  BY <1>1, <1>9, ImportForm, StoreAssumption
<1> QED BY <1>2, <1>3, <1>5, <1>6, <1>7, <1>8, <1>9
        DEF StoreNext, ReferenceStep, LeaseStep, RepairStep

\* No step of the store breaks its invariant.
LEMMA StoreStepKeeps ==
    ASSUME StoreInv, StoreNext
    PROVE  StoreInv'
<1>1. /\ Good(st) /\ issued \subseteq Receipts /\ held \in [Objects -> Nat]
      /\ \A o \in Objects : held[o] <= Entry(st, o).refs
      /\ \A o \in Objects : Entry(st, o).refs \in Nat
  BY EntryFound DEF StoreInv, StoreTypes, Backed, Good
<1>2. CASE OneTurn
  <2>1. PICK o \in Objects, d \in {1, -1, 0} :
            /\ Turns(st, st', o, d)
            /\ d = -1 => held[o] > 0
            /\ held' = [held EXCEPT ![o] = @ + d]
            /\ issued' = issued
    BY <1>2 DEF OneTurn
  <2>2. PICK e : Becomes(st, st', o, e) /\ e.refs = Entry(st, o).refs + d
    BY <2>1 DEF Turns
  <2>3. held[o] \in Nat /\ held[o] + d \in Nat
    BY <1>1, <2>1
  <2>4. StoreTypes'
    BY <1>1, <2>1, <2>3 DEF StoreTypes
  <2>5. ASSUME NEW p \in Objects
        PROVE  held'[p] <= Entry(st', p).refs
    <3>1. Entry(st', p) = IF p = o THEN e ELSE Entry(st, p)
      BY <2>2 DEF Becomes
    <3>2. CASE p = o
      <4> DEFINE x == Entry(st, o).refs
                 h == held[o]
      <4>1. x \in Nat /\ h \in Nat /\ h <= x
        BY <1>1
      <4>2. Entry(st', p).refs = x + d /\ held'[p] = h + d
        BY <1>1, <2>1, <2>2, <3>1, <3>2
      <4> HIDE DEF x, h
      <4> QED BY <2>1, <4>1, <4>2
    <3>3. CASE p # o
      BY <1>1, <2>1, <3>1, <3>3
    <3> QED BY <3>2, <3>3
  <2> QED BY <2>2, <2>4, <2>5 DEF Becomes, StoreInv, Backed
<1>3. CASE OneLease
  <2>0. PICK o \in Objects : \E r : /\ Leases(st, st', o, r)
                                     /\ issued' = issued \cup {r}
                                     /\ held' = held
    BY <1>3 DEF OneLease
  <2>1. PICK r : /\ Leases(st, st', o, r)
                 /\ issued' = issued \cup {r}
                 /\ held' = held
    BY <2>0
  <2>2. PICK e : Becomes(st, st', o, e) /\ e.refs = Entry(st, o).refs
    BY <2>1 DEF Leases
  <2>3. StoreTypes'
    BY <1>1, <2>1 DEF StoreTypes, Leases
  <2>4. \A p \in Objects : held'[p] <= Entry(st', p).refs
    BY <1>1, <2>1, <2>2 DEF Becomes
  <2> QED BY <2>2, <2>3, <2>4 DEF Becomes, StoreInv, Backed
<1>4. CASE OneImport
  <2>1. issued' = issued
    BY <1>4 DEF OneImport
  <2>2. CASE st' = st /\ held' = held
    BY <1>1, <2>1, <2>2 DEF StoreInv, StoreTypes, Backed
  <2>3. CASE \E names \in Seq(Objects) : Imports(names)
    <3>1. PICK names \in Seq(Objects) : Imports(names)
      BY <2>3
    <3> DEFINE u(o) == Uses(names, Len(names), o)
    <3>2. \A o \in Objects : u(o) \in Nat
      BY UsesStep
    <3>3. /\ Good(st')
          /\ \A o \in Objects : Entry(st', o).refs = Entry(st, o).refs + u(o)
          /\ \/ held' = [o \in Objects |-> held[o] + u(o)]
             \/ held' = held
      BY <3>1 DEF Imports
    <3> HIDE DEF u
    <3>4. held' \in [Objects -> Nat]
      BY <1>1, <3>2, <3>3
    <3>5. ASSUME NEW o \in Objects
          PROVE  held'[o] <= Entry(st', o).refs
      <4> DEFINE x == Entry(st, o).refs
      <4>1. /\ x \in Nat /\ u(o) \in Nat /\ held[o] \in Nat
            /\ held[o] <= x
        BY <1>1, <3>2
      <4>2. /\ Entry(st', o).refs = x + u(o)
            /\ held'[o] \in {held[o] + u(o), held[o]}
        BY <3>3
      <4> HIDE DEF x
      <4> QED BY <4>1, <4>2
    <3> QED BY <1>1, <2>1, <3>3, <3>4, <3>5 DEF StoreInv, StoreTypes, Backed
  <2> QED BY <1>4, <2>2, <2>3 DEF OneImport
<1> QED BY <1>2, <1>3, <1>4, StepForm

LEMMA EmptyStoreGood ==
    /\ Good(EmptyStore)
    /\ \A o \in Objects : Entry(EmptyStore, o) = FreeSlot
<1> DEFINE s == EmptyStore
<1>1. \A i \in Slots : s.slots[i] = FreeSlot
  BY DEF EmptyStore
<1>2. Shape(s)
  <2>1. s = [slots |-> s.slots, acct |-> s.acct]
    BY DEF EmptyStore
  <2>2. s.slots = [i \in Slots |-> s.slots[i]]
    BY DEF EmptyStore
  <2> HIDE DEF s
  <2> QED BY <1>1, <2>1, <2>2 DEF Shape, SlotShape
<1>3. \A c \in Counters : s.acct[c] = 0
  BY DEF EmptyStore, Counters
<1>4. s.acct = [c \in Counters |-> s.acct[c]]
  BY DEF EmptyStore, Counters
<1> HIDE DEF s
<1>5. ASSUME NEW c \in Counters PROVE Total(s, c) = 0
  <2>1. \A i \in Slots : weights(s, c)[i] = 0
    BY <1>1, WeightType DEF weights, SlotShape
  <2> QED BY <2>1, SlotsFinite, SumOfZeros DEF Total
<1>6. Tallied(s)
  BY <1>3, <1>4, <1>5 DEF Tallied
<1>7. Within(s)
  BY <1>3, StoreAssumption DEF Within, Counters
<1>8. ASSUME NEW o \in Objects PROVE Entry(s, o) = FreeSlot
  <2>1. find(s, o) = {}
    BY <1>1, FreeSlotFacts DEF find
  <2> QED BY <2>1 DEF Entry
<1> QED BY <1>2, <1>6, <1>7, <1>8 DEF s, Good

\* The store, from an empty one on.
LEMMA StoreAlwaysGood == StoreSpec => []StoreInv
<1>1. StoreInit => StoreInv
  <2>1. ASSUME StoreInit PROVE StoreInv
    <3>1. st = EmptyStore /\ issued = {} /\ held = [o \in Objects |-> 0]
      BY <2>1 DEF StoreInit
    <3>2. \A o \in Objects : Entry(st, o).refs = 0
      BY <3>1, EmptyStoreGood, FreeSlotFacts
    <3> QED BY <3>1, <3>2, EmptyStoreGood DEF StoreInv, StoreTypes, Backed
  <2> QED BY <2>1
<1>2. StoreInv /\ [StoreNext]_storeVars => StoreInv'
  <2>1. ASSUME StoreInv, UNCHANGED storeVars PROVE StoreInv'
    BY <2>1 DEF storeVars, StoreInv, StoreTypes, Backed
  <2> QED BY <2>1, StoreStepKeeps
<1> QED BY <1>1, <1>2, PTL DEF StoreSpec

-----------------------------------------------------------------------------
(* What the invariant says of the audit.                                   *)

\* A good store whose payloads are what they should be passes its audit.
LEMMA GoodVerifies ==
    ASSUME NEW s, Good(s), \A i \in Slots : s.slots[i].intact = TRUE,
           NEW corrupt
    PROVE  _verify_state(s, corrupt)
<1>1. Shape(s) /\ Tallied(s) /\ Within(s)
  BY DEF Good
<1>2. s.acct = Recounted(s)
  BY <1>1, RecountIsTotal DEF Tallied
<1>3. ASSUME NEW i \in Occupied(s)
      PROVE  SlotSound(s.slots[i], corrupt) /\ find(s, s.slots[i].object) = {i}
  <2>1. i \in Slots /\ s.slots[i] # FreeSlot /\ SlotShape(s.slots[i])
    BY <1>1 DEF Occupied, Shape
  <2>2. s.slots[i].object \in Objects /\ i \in find(s, s.slots[i].object)
    BY <2>1, HeldSlotFacts DEF find
  <2>3. find(s, s.slots[i].object) = {i}
    BY <1>1, <2>2, FoundOnce
  <2> QED BY <2>1, <2>3, HeldSlotFacts DEF SlotSound
<1> QED BY <1>1, <1>2, <1>3 DEF _verify_state, Within

LEMMA GoodIsAuditable ==
    ASSUME Good(st)
    PROVE  StoreAuditable
<1> DEFINE s == [st EXCEPT !.slots =
                     [i \in Slots |-> [st.slots[i] EXCEPT !.intact = TRUE]]]
<1>1. Shape(st) /\ Tallied(st) /\ Within(st)
  BY DEF Good
<1>2. /\ s = [slots |-> s.slots, acct |-> s.acct]
      /\ s.slots = [i \in Slots |-> s.slots[i]]
      /\ \A i \in Slots : s.slots[i] = [st.slots[i] EXCEPT !.intact = TRUE]
      /\ s.acct = st.acct
  <2> DEFINE sl == [i \in Slots |-> [st.slots[i] EXCEPT !.intact = TRUE]]
  <2>1. st = [slots |-> st.slots, acct |-> st.acct]
    BY <1>1 DEF Shape
  <2>2. /\ sl = [i \in Slots |-> sl[i]]
        /\ \A i \in Slots : sl[i] = [st.slots[i] EXCEPT !.intact = TRUE]
    OBVIOUS
  <2>3. s = [st EXCEPT !.slots = sl]
    OBVIOUS
  <2> HIDE DEF s, sl
  <2>4. s = [slots |-> sl, acct |-> st.acct]
    BY <2>1, <2>3
  <2> QED BY <2>2, <2>4
<1> HIDE DEF s
<1>3. ASSUME NEW i \in Slots
      PROVE  /\ SlotShape(s.slots[i])
             /\ s.slots[i].intact = TRUE
             /\ s.slots[i].object = st.slots[i].object
             /\ s.slots[i] = FreeSlot <=> st.slots[i] = FreeSlot
             /\ weighs(s.slots[i]) = weighs(st.slots[i])
  <2> DEFINE old == st.slots[i]
             new == s.slots[i]
  <2>1. SlotShape(old) /\ new = [old EXCEPT !.intact = TRUE]
    BY <1>1, <1>2 DEF Shape
  <2> HIDE DEF old, new
  <2>2. CASE old = FreeSlot
    <3>1. new = FreeSlot /\ FreeSlot.intact = TRUE
      BY <2>1, <2>2 DEF FreeSlot
    <3> QED BY <2>2, <3>1 DEF SlotShape, old, new
  <2>3. CASE old # FreeSlot
    <3>1. old \in HeldSlots
      BY <2>1, <2>3 DEF SlotShape
    <3>2. /\ new \in HeldSlots /\ new.intact = TRUE
          /\ new.object = old.object /\ new.state = old.state
          /\ new.refs = old.refs /\ new.lease = old.lease
          /\ new.generation = old.generation /\ new.repairs = old.repairs
      BY <2>1, <3>1 DEF HeldSlots
    <3>3. new # FreeSlot
      BY <3>2, FreeSlotFacts
    <3>4. SlotShape(new)
      BY <2>1, <2>3, <3>2 DEF SlotShape, leased
    <3>5. weighs(new) = weighs(old)
      BY <2>3, <3>2, <3>3 DEF weighs, leased
    <3> QED BY <2>3, <3>2, <3>3, <3>4, <3>5 DEF old, new
  <2> QED BY <2>2, <2>3
<1>4. Shape(s)
  <2>1. ASSUME NEW i \in Slots, s.slots[i] # FreeSlot
        PROVE  Unique(s, i, s.slots[i].object)
    BY <1>1, <1>3, <2>1 DEF Shape, Unique
  <2> QED BY <1>2, <1>3, <2>1 DEF Shape
<1>5. Tallied(s)
  <2>1. \A c \in Counters : weights(s, c) = weights(st, c)
    BY <1>3 DEF weights
  <2> QED BY <1>1, <1>2, <2>1 DEF Tallied, Total
<1>6. Within(s)
  BY <1>1, <1>2 DEF Within
<1>7. _verify_state(s, FALSE)
  BY <1>3, <1>4, <1>5, <1>6, GoodVerifies DEF Good
<1> QED BY <1>7 DEF StoreAuditable, s

\* Whatever operations ran, an audit finds the counters, the slots and the
\* budgets in order (_verify_state of bench/continuation_object_store.py).
THEOREM StoreStaysAuditable == StoreSpec => []StoreAuditable
<1>1. StoreInv => StoreAuditable
  BY GoodIsAuditable DEF StoreInv
<1> QED BY <1>1, StoreAlwaysGood, PTL

-----------------------------------------------------------------------------
(* Leases.                                                                 *)

\* A receipt is current when it is what the entry of its object holds.
LEMMA CurrentIs ==
    ASSUME NEW s, Shape(s), NEW r \in Receipts
    PROVE  /\ _current_lease(s, r) <=> Entry(s, r.object).lease = r
           /\ find(s, r.object) # {} =>
                  slotOf(s, r.object) = Entry(s, r.object)
<1>1. r.object \in Objects /\ r # NoReceipt
  BY FreeSlotFacts DEF Receipts
<1>2. CASE find(s, r.object) = {}
  BY <1>1, <1>2, FreeSlotFacts DEF Entry, _current_lease
<1>3. CASE find(s, r.object) # {}
  BY <1>1, <1>3 DEF Entry, _current_lease, leased
<1> QED BY <1>2, <1>3

\* No step makes an ended lease current: a new one has a new generation, and
\* every other step leaves an entry with the lease it had or none.
LEMMA LeaseStays ==
    ASSUME StoreInv, StoreNext, NEW r \in issued,
           ~_current_lease(st, r), find(st, r.object) # {},
           slotOf(st, r.object).generation >= r.generation
    PROVE  ~_current_lease(st', r)
<1>1. StoreInv'
  BY StoreStepKeeps
<1>2. /\ r \in Receipts /\ r.object \in Objects /\ r # NoReceipt
      /\ Shape(st) /\ Shape(st')
  BY <1>1, FreeSlotFacts DEF StoreInv, StoreTypes, Good, Receipts
<1>3. Entry(st, r.object).lease # r
  BY <1>2, CurrentIs
<1>4. Entry(st', r.object).lease # r
  <2>1. CASE OneTurn
    <3>1. PICK o \in Objects, d \in {1, -1, 0} : Turns(st, st', o, d)
      BY <2>1 DEF OneTurn
    <3>2. PICK e : /\ Becomes(st, st', o, e)
                   /\ e.lease \in {Entry(st, o).lease, NoReceipt}
      BY <3>1 DEF Turns
    <3> QED BY <1>2, <1>3, <3>2 DEF Becomes
  <2>2. CASE OneLease
    <3>1. PICK o \in Objects : \E q : Leases(st, st', o, q)
      BY <2>2 DEF OneLease
    <3>2. PICK q : Leases(st, st', o, q)
      BY <3>1
    <3>3. PICK e : Becomes(st, st', o, e) /\ e.lease = q
      BY <3>2 DEF Leases
    <3>4. CASE r.object = o
      <4>1. Entry(st, o).generation >= r.generation
        BY <1>2, <3>4, CurrentIs
      <4>2. q.generation > Entry(st, o).generation
        BY <3>2 DEF Leases
      <4>3. /\ q.generation \in Nat /\ r.generation \in Nat
            /\ Entry(st, o).generation \in Nat
        <5>1. q \in Receipts
          BY <3>2 DEF Leases
        <5>2. Entry(st, o).generation \in Nat
          BY <1>2, EntryFound, HeldSlotFacts DEF FreeSlot
        <5> QED BY <1>2, <5>1, <5>2, StoreAssumption DEF Receipts
      <4>4. q # r
        BY <4>1, <4>2, <4>3
      <4> QED BY <3>3, <3>4, <4>4 DEF Becomes
    <3>5. CASE r.object # o
      BY <1>2, <1>3, <3>3, <3>5 DEF Becomes
    <3> QED BY <3>4, <3>5
  <2>3. CASE OneImport
    <3>1. CASE st' = st
      BY <1>3, <3>1
    <3>2. CASE \E names \in Seq(Objects) : Imports(names)
      <4>1. Entry(st', r.object).lease \in
                {Entry(st, r.object).lease, NoReceipt}
        BY <1>2, <3>2 DEF Imports
      <4> QED BY <1>2, <1>3, <4>1
    <3> QED BY <2>3, <3>1, <3>2 DEF OneImport
  <2> QED BY <2>1, <2>2, <2>3, StepForm
<1> QED BY <1>2, <1>4, CurrentIs

\* A lease that ended, by whatever way, stays ended while its entry lives
\* (lease_generation in acquire_lease and renew_lease of
\* bench/continuation_object_store.py).
THEOREM EndedLeasesStayEnded == StoreSpec => LeaseNeverReturns
<1> DEFINE A == \A r \in issued :
                   /\ ~_current_lease(st, r)
                   /\ find(st, r.object) # {}
                   /\ slotOf(st, r.object).generation >= r.generation
                   => ~_current_lease(st', r)
<1>1. StoreInv /\ [StoreNext]_storeVars => [A]_storeVars
  BY LeaseStays
<1>2. LeaseNeverReturns <=> [][A]_storeVars
  BY DEF LeaseNeverReturns
<1> HIDE DEF A
<1> QED BY <1>1, <1>2, StoreAlwaysGood, PTL DEF StoreSpec

-----------------------------------------------------------------------------
(* References.                                                             *)

\* Every reference that is counted was told to a caller, and no payload has
\* decayed, as none does in StoreSpec.
Exact ==
    \A o \in Objects : /\ held[o] = Entry(st, o).refs
                       /\ Entry(st, o).intact = TRUE

LEMMA IntactSlots ==
    ASSUME NEW s, Shape(s), \A o \in Objects : Entry(s, o).intact = TRUE
    PROVE  \A i \in Slots : s.slots[i].intact = TRUE
<1>1. ASSUME NEW i \in Slots PROVE s.slots[i].intact = TRUE
  <2>1. CASE s.slots[i] = FreeSlot
    BY <2>1 DEF FreeSlot
  <2>2. CASE s.slots[i] # FreeSlot
    <3>1. s.slots[i].object \in Objects /\ i \in find(s, s.slots[i].object)
      BY <2>2, HeldSlotFacts DEF Shape, find
    <3>2. Entry(s, s.slots[i].object) = s.slots[i]
      BY <3>1, FoundOnce
    <3> QED BY <3>1, <3>2
  <2> QED BY <2>1, <2>2
<1> QED BY <1>1

LEMMA ExactStep ==
    ASSUME StoreInv, Exact, StoreNext, "verify" \in Allowed
    PROVE  Exact'
<1>1. /\ Good(st) /\ issued \subseteq Receipts /\ held \in [Objects -> Nat]
      /\ \A o \in Objects : /\ held[o] = Entry(st, o).refs
                            /\ Entry(st, o).intact = TRUE
  BY DEF StoreInv, StoreTypes, Exact
<1>2. CASE OneTurn
  <2>1. PICK o \in Objects, d \in {1, -1, 0} :
            /\ Turns(st, st', o, d)
            /\ held' = [held EXCEPT ![o] = @ + d]
    BY <1>2 DEF OneTurn
  <2>2. PICK e : /\ Becomes(st, st', o, e) /\ e.refs = Entry(st, o).refs + d
                 /\ e.intact \in {Entry(st, o).intact, TRUE}
    BY <2>1 DEF Turns
  <2>3. ASSUME NEW p \in Objects
        PROVE  held'[p] = Entry(st', p).refs /\ Entry(st', p).intact = TRUE
    <3>1. Entry(st', p) = IF p = o THEN e ELSE Entry(st, p)
      BY <2>2 DEF Becomes
    <3>2. CASE p = o
      BY <1>1, <2>1, <2>2, <3>1, <3>2
    <3>3. CASE p # o
      BY <1>1, <2>1, <3>1, <3>3
    <3> QED BY <3>2, <3>3
  <2> QED BY <2>3 DEF Exact
<1>3. CASE OneLease
  <2>1. PICK o \in Objects : \E r : Leases(st, st', o, r) /\ held' = held
    BY <1>3 DEF OneLease
  <2>2. PICK e : /\ Becomes(st, st', o, e) /\ e.refs = Entry(st, o).refs
                 /\ e.intact = Entry(st, o).intact
    BY <2>1 DEF Leases
  <2> QED BY <1>1, <2>1, <2>2 DEF Becomes, Exact
<1>4. CASE OneImport
  <2>1. CASE st' = st /\ held' = held
    BY <1>1, <2>1 DEF Exact
  <2>2. CASE \E names \in Seq(Objects) : Imports(names)
    <3>1. PICK names \in Seq(Objects) : Imports(names)
      BY <2>2
    <3>2. \A o \in Objects : Entry(st', o).intact = TRUE
      BY <1>1, <3>1 DEF Imports
    <3>3. verify_all(st')
      <4>1. Good(st')
        BY <3>1 DEF Imports
      <4>2. \A i \in Slots : st'.slots[i].intact = TRUE
        BY <3>2, <4>1, IntactSlots DEF Good
      <4> QED BY <4>1, <4>2, GoodVerifies DEF verify_all
    <3>4. \A o \in Objects : held'[o] = Entry(st', o).refs
      BY <1>1, <3>1, <3>3 DEF Imports
    <3> QED BY <3>2, <3>4 DEF Exact
  <2> QED BY <1>4, <2>1, <2>2 DEF OneImport
<1> QED BY <1>2, <1>3, <1>4, StepForm

\* When the grant allows a caller to verify, and no payload decays, the
\* store counts for every object just the references its callers were told
\* they hold: an import that fails leaves none (import_bundle and _rollback
\* of bench/continuation_object_store.py).
THEOREM CountedAsTold ==
    ASSUME "verify" \in Allowed
    PROVE  StoreSpec => []ReferencesHeld
<1>1. StoreInit => Exact
  <2>1. ASSUME StoreInit PROVE Exact
    <3>1. st = EmptyStore /\ held = [o \in Objects |-> 0]
      BY <2>1 DEF StoreInit
    <3>2. FreeSlot.refs = 0 /\ FreeSlot.intact = TRUE
      BY DEF FreeSlot
    <3> QED BY <3>1, <3>2, EmptyStoreGood DEF Exact
  <2> QED BY <2>1
<1>2. StoreInv /\ Exact /\ [StoreNext]_storeVars => Exact'
  <2>1. ASSUME Exact, UNCHANGED storeVars PROVE Exact'
    BY <2>1 DEF storeVars, Exact
  <2> QED BY <2>1, ExactStep
<1>3. Exact => ReferencesHeld
  BY FreeSlotFacts DEF Exact, ReferencesHeld, Entry
<1> QED BY <1>1, <1>2, <1>3, StoreAlwaysGood, PTL DEF StoreSpec

-----------------------------------------------------------------------------
(* The commit of a sweep: what it frees nobody holds.                      *)

LEMMA SweepFrees ==
    ASSUME NEW s, Good(s), NEW p, preview_retired(s, p)
    PROVE  /\ Good(FreedTargets(s, p.targets))
           /\ \A o \in Objects :
                  /\ o \in p.targets => Entry(s, o).refs = 0
                  /\ o \notin p.targets =>
                         Entry(FreedTargets(s, p.targets), o) = Entry(s, o)
<1> DEFINE T == p.targets
           at == {i \in Slots : s.slots[i].object \in T}
           t == FreedTargets(s, T)
           kept == [i \in at |-> s.slots[i].repairs]
<1>1. /\ Shape(s) /\ Tallied(s) /\ Within(s)
      /\ s = [slots |-> s.slots, acct |-> s.acct]
      /\ s.acct = [c \in Counters |-> s.acct[c]]
      /\ \A c \in Counters : s.acct[c] \in Nat
  BY AcctType DEF Good, Shape
<1>2. ASSUME NEW o \in T
      PROVE  /\ o \in Objects
             /\ \E i \in at : /\ s.slots[i].object = o
                              /\ s.slots[i].state = "retired"
                              /\ s.slots[i].refs = 0
                              /\ ~leased(s.slots[i])
             /\ Entry(s, o).refs = 0
  <2>1. /\ find(s, o) # {} /\ slotOf(s, o).state = "retired"
        /\ slotOf(s, o).refs = 0 /\ ~leased(slotOf(s, o))
    BY DEF preview_retired
  <2>2. PICK i \in find(s, o) : slotOf(s, o) = s.slots[i]
    BY <2>1 DEF slotOf
  <2>3. i \in Slots /\ s.slots[i].object = o /\ SlotShape(s.slots[i])
    BY <1>1, <2>2 DEF find, Shape
  <2>4. s.slots[i] # FreeSlot
    BY <2>1, <2>2, FreeSlotFacts
  <2>5. o \in Objects /\ i \in at
    BY <2>3, <2>4, HeldSlotFacts
  <2>6. Entry(s, o).refs = 0
    BY <2>1 DEF Entry
  <2> QED BY <2>1, <2>2, <2>3, <2>5, <2>6
<1>3. ASSUME NEW i \in at
      PROVE  /\ i \in Slots /\ s.slots[i].object \in T
             /\ s.slots[i].object \in Objects
             /\ Unique(s, i, s.slots[i].object)
             /\ SlotShape(s.slots[i]) /\ s.slots[i] # FreeSlot
             /\ s.slots[i].state = "retired" /\ s.slots[i].refs = 0
             /\ ~leased(s.slots[i])
  <2> DEFINE o == s.slots[i].object
  <2>1. i \in Slots /\ o \in T /\ o \in Objects /\ i \in find(s, o)
    BY <1>2 DEF find
  <2>2. PICK j \in at : /\ s.slots[j].object = o
                        /\ s.slots[j].state = "retired"
                        /\ s.slots[j].refs = 0
                        /\ ~leased(s.slots[j])
    BY <1>2, <2>1
  <2>3. /\ SlotShape(s.slots[i]) /\ s.slots[i] # FreeSlot
        /\ Unique(s, i, o)
    BY <1>1, <2>1, FoundOnce
  <2>4. j = i
    BY <2>2, <2>3 DEF Unique
  <2> QED BY <2>1, <2>2, <2>3, <2>4
<1>4. at \subseteq Slots /\ IsFiniteSet(at) /\ IsFiniteSet(Slots \ at)
  BY SlotsFinite, FS_Subset
<1>5. T = {s.slots[i].object : i \in at}
  <2>1. \A o \in T : o \in {s.slots[i].object : i \in at}
    BY <1>2
  <2>2. \A o \in {s.slots[i].object : i \in at} : o \in T
    BY <1>3
  <2> QED BY <2>1, <2>2
<1>6. /\ t = [slots |-> t.slots, acct |-> t.acct]
      /\ t.slots = [i \in Slots |-> IF i \in at THEN FreeSlot ELSE s.slots[i]]
      /\ t.acct = [s.acct EXCEPT
                       !.entries = @ - Cardinality(T),
                       !.retired = @ - Cardinality(T),
                       !.payload = @ - Sum(Bytes, T),
                       !.repairs = @ - Sum(kept, at)]
  BY DEF FreedTargets, Sum
<1> HIDE DEF t, T, at
<1>7. /\ t.slots = [i \in Slots |-> t.slots[i]]
      /\ \A i \in at : t.slots[i] = FreeSlot
      /\ \A i \in Slots \ at : t.slots[i] = s.slots[i]
  BY <1>4, <1>6
<1>8. Shape(t)
  <2>1. ASSUME NEW i \in Slots
        PROVE  /\ SlotShape(t.slots[i])
               /\ t.slots[i] # FreeSlot => Unique(t, i, t.slots[i].object)
    <3>1. CASE i \in at
      BY <1>7, <3>1 DEF SlotShape
    <3>2. CASE i \notin at
      <4>1. t.slots[i] = s.slots[i] /\ SlotShape(s.slots[i])
        BY <1>1, <1>7, <3>2 DEF Shape
      <4>2. ASSUME s.slots[i] # FreeSlot, NEW j \in Slots, j # i
            PROVE  t.slots[j].object # s.slots[i].object
        <5>1. s.slots[j].object # s.slots[i].object
          BY <1>1, <4>2 DEF Shape, Unique
        <5>2. s.slots[i].object \in Objects
          BY <4>1, <4>2, HeldSlotFacts
        <5> QED BY <1>7, <5>1, <5>2, FreeSlotFacts
      <4> QED BY <4>1, <4>2 DEF Unique
    <3> QED BY <3>1, <3>2
  <2> QED BY <1>6, <1>7, <2>1 DEF Shape
<1>9. ASSUME NEW c \in Counters
      PROVE  /\ Sum(weights(s, c), at) \in Nat
             /\ Total(t, c) = Total(s, c) - Sum(weights(s, c), at)
  <2> DEFINE f == weights(s, c)
             g == weights(t, c)
             rest == Slots \ at
  <2>1. \A i \in Slots : f[i] \in Nat /\ g[i] \in Nat
    BY <1>1, <1>8, WeightType DEF weights, Shape
  <2>2. \A i \in rest : g[i] = f[i]
    BY <1>7 DEF weights
  <2>3. \A i \in at : g[i] = 0
    BY <1>4, <1>7, WeightType DEF weights, SlotShape
  <2>4. at \cup rest = Slots /\ at \cap rest = {} /\ IsFiniteSet(rest)
    BY <1>4
  <2> HIDE DEF f, g, rest
  <2>5. Sum(f, Slots) = Sum(f, at) + Sum(f, rest)
    <3>1. \A i \in at \cup rest : f[i] \in Nat
      BY <2>1, <2>4
    <3>2. Sum(f, at \cup rest) = Sum(f, at) + Sum(f, rest)
      BY <1>4, <2>4, <3>1, SumUnion
    <3> QED BY <2>4, <3>2
  <2>6. Sum(g, Slots) = Sum(f, rest)
    <3>1. /\ rest \subseteq Slots
          /\ \A i \in rest : g[i] = f[i] /\ g[i] \in Nat
          /\ \A i \in Slots \ rest : g[i] = 0
      BY <1>4, <2>1, <2>2, <2>3, <2>4
    <3> QED BY <3>1, SlotsFinite, SumOfPart
  <2>7. Sum(f, at) \in Nat /\ Sum(f, rest) \in Nat
    BY <1>4, <2>1, <2>4, SumType
  <2> QED BY <2>5, <2>6, <2>7 DEF Total, f, g
<1>10. ASSUME NEW i \in at
       PROVE  /\ weighs(s.slots[i]).entries = 1
              /\ weighs(s.slots[i]).live = 0
              /\ weighs(s.slots[i]).quarantined = 0
              /\ weighs(s.slots[i]).retired = 1
              /\ weighs(s.slots[i]).payload = Bytes[s.slots[i].object]
              /\ weighs(s.slots[i]).references = 0
              /\ weighs(s.slots[i]).leases = 0
              /\ weighs(s.slots[i]).repairs = s.slots[i].repairs
  BY <1>3 DEF weighs, One
<1>11. /\ Sum(weights(s, "live"), at) = 0
       /\ Sum(weights(s, "quarantined"), at) = 0
       /\ Sum(weights(s, "references"), at) = 0
       /\ Sum(weights(s, "leases"), at) = 0
  <2>1. ASSUME NEW c \in {"live", "quarantined", "references", "leases"}
        PROVE  Sum(weights(s, c), at) = 0
    <3>1. \A i \in at : weights(s, c)[i] = 0
      BY <1>4, <1>10 DEF weights
    <3> QED BY <1>4, <3>1, SumOfZeros
  <2> QED BY <2>1
<1> DEFINE name == [i \in at |-> s.slots[i].object]
<1>12. /\ \A i, j \in at : name[i] = name[j] => i = j
       /\ {name[i] : i \in at} = T
       /\ \A i \in at : name[i] = s.slots[i].object /\ name[i] \in Objects
  <2>1. ASSUME NEW i \in at, NEW j \in at, name[i] = name[j]
        PROVE  i = j
    BY <1>3, <2>1 DEF Unique
  <2> QED BY <1>3, <1>5, <2>1
<1> HIDE DEF name
<1>13. /\ Sum(weights(s, "entries"), at) = Cardinality(T)
       /\ Sum(weights(s, "retired"), at) = Cardinality(T)
  <2> DEFINE ones == [o \in Objects |-> 1]
  <2>1. IsFiniteSet(T)
    <3>1. T \subseteq Objects
      BY <1>2
    <3>2. name \in Surjection(at, T)
      <4>1. name = [i \in at |-> name[i]]
        BY DEF name
      <4> QED BY <1>12, <4>1 DEF Surjection
    <3> QED BY <1>4, <3>2, FS_Surjection
  <2>2. \A o \in T : ones[o] = 1
    BY <1>2
  <2> HIDE DEF ones
  <2>3. Sum(ones, T) = Cardinality(T)
    BY <2>1, <2>2, SumOfOnes
  <2>4. ASSUME NEW c \in {"entries", "retired"}
        PROVE  Sum(weights(s, c), at) = Cardinality(T)
    <3> DEFINE g == weights(s, c)
    <3>1. \A i \in at : g[i] = ones[name[i]] /\ ones[name[i]] \in Nat
      BY <1>3, <1>4, <1>10, <1>12, <2>2 DEF weights
    <3> HIDE DEF g
    <3>2. Sum(ones, {name[i] : i \in at}) = Sum(g, at)
      BY <1>4, <1>12, <3>1, SumReindex
    <3> QED BY <1>12, <2>3, <3>2 DEF g
  <2> QED BY <2>4
<1>14. Sum(weights(s, "payload"), at) = Sum(Bytes, T)
  <2> DEFINE g == weights(s, "payload")
  <2>1. \A i \in at : g[i] = Bytes[name[i]] /\ Bytes[name[i]] \in Nat
    BY <1>4, <1>10, <1>12, StoreAssumption DEF weights
  <2> HIDE DEF g
  <2>2. Sum(Bytes, {name[i] : i \in at}) = Sum(g, at)
    BY <1>4, <1>12, <2>1, SumReindex
  <2> QED BY <1>12, <2>2 DEF g
<1>15. Sum(weights(s, "repairs"), at) = Sum(kept, at)
  <2>1. \A i \in at : weights(s, "repairs")[i] = kept[i]
    BY <1>4, <1>10 DEF weights
  <2> QED BY <1>4, <2>1, SumAgree
<1>16. Tallied(t)
  <2>1. /\ t.acct = [c \in Counters |-> t.acct[c]]
        /\ t.acct.entries = s.acct.entries - Cardinality(T)
        /\ t.acct.live = s.acct.live
        /\ t.acct.quarantined = s.acct.quarantined
        /\ t.acct.retired = s.acct.retired - Cardinality(T)
        /\ t.acct.payload = s.acct.payload - Sum(Bytes, T)
        /\ t.acct.references = s.acct.references
        /\ t.acct.leases = s.acct.leases
        /\ t.acct.repairs = s.acct.repairs - Sum(kept, at)
    BY <1>1, <1>6 DEF Counters
  <2>2. \A c \in Counters : s.acct[c] = Total(s, c) /\ Total(s, c) \in Nat
    BY <1>1 DEF Tallied
  <2>3. \A c \in Counters : t.acct[c] = Total(t, c)
    <3>1. \A c \in {"live", "quarantined", "references", "leases"} :
              t.acct[c] = Total(t, c)
      BY <1>9, <1>11, <2>1, <2>2 DEF Counters
    <3>2. \A c \in {"entries", "retired", "payload", "repairs"} :
              t.acct[c] = Total(t, c)
      BY <1>9, <1>13, <1>14, <1>15, <2>1, <2>2 DEF Counters
    <3> QED BY <3>1, <3>2 DEF Counters
  <2> QED BY <2>1, <2>3 DEF Tallied
<1>17. Within(t)
  <2>1. /\ t.acct.entries = Total(t, "entries")
        /\ t.acct.payload = Total(t, "payload")
        /\ t.acct.references = Total(t, "references")
        /\ s.acct.entries = Total(s, "entries")
        /\ s.acct.payload = Total(s, "payload")
        /\ s.acct.references = Total(s, "references")
    BY <1>1, <1>16 DEF Tallied, Counters
  <2>2. \A c \in {"entries", "payload", "references"} :
            /\ Total(t, c) <= Total(s, c)
            /\ Total(t, c) \in Nat /\ Total(s, c) \in Nat
    <3>1. ASSUME NEW c \in {"entries", "payload", "references"}
          PROVE  /\ Total(t, c) <= Total(s, c)
                 /\ Total(t, c) \in Nat /\ Total(s, c) \in Nat
      <4>1. c \in Counters
        BY DEF Counters
      <4>2. Total(t, c) \in Nat /\ Total(s, c) \in Nat
        BY <1>1, <1>8, <4>1, TotalType
      <4> QED BY <1>9, <4>1, <4>2
    <3> QED BY <3>1
  <2>3. MaxEntries \in Nat /\ MaxPayload \in Nat /\ MaxReferences \in Nat
    BY StoreAssumption
  <2> QED BY <1>1, <2>1, <2>2, <2>3 DEF Within
<1>18. ASSUME NEW o \in Objects, o \notin T
       PROVE  Entry(t, o) = Entry(s, o)
  <2>1. find(t, o) = find(s, o)
    <3>1. ASSUME NEW i \in Slots
          PROVE  t.slots[i].object = o <=> s.slots[i].object = o
      <4>1. CASE i \in at
        BY <1>3, <1>7, <1>18, <4>1, FreeSlotFacts
      <4>2. CASE i \notin at
        BY <1>7, <4>2
      <4> QED BY <4>1, <4>2
    <3> QED BY <3>1 DEF find
  <2>2. CASE find(s, o) = {}
    BY <2>1, <2>2 DEF Entry
  <2>3. CASE find(s, o) # {}
    <3>1. PICK i \in find(s, o) : TRUE
      BY <2>3
    <3>2. i \in Slots \ at
      BY <1>3, <1>18, <3>1 DEF find
    <3>3. Entry(s, o) = s.slots[i] /\ Entry(t, o) = t.slots[i]
      BY <1>1, <1>8, <2>1, <3>1, FoundOnce
    <3> QED BY <1>7, <3>2, <3>3
  <2> QED BY <2>2, <2>3
<1> QED BY <1>2, <1>8, <1>16, <1>17, <1>18 DEF Good, T, t

\* The store stays good under a sweep and through crashes.
LEMMA SweptStoreGood == SweepSpec => []StoreInv
<1>1. SweepInit => StoreInv
  <2>1. ASSUME SweepInit PROVE StoreInv
    <3>1. st = EmptyStore /\ issued = {} /\ held = [o \in Objects |-> 0]
      BY <2>1 DEF SweepInit, StoreInit
    <3>2. \A o \in Objects : Entry(st, o).refs = 0
      BY <3>1, EmptyStoreGood, FreeSlotFacts
    <3> QED BY <3>1, <3>2, EmptyStoreGood DEF StoreInv, StoreTypes, Backed
  <2> QED BY <2>1
<1>2. ASSUME StoreInv, UNCHANGED storeVars PROVE StoreInv'
  BY <1>2 DEF storeVars, StoreInv, StoreTypes, Backed
<1>3. ASSUME StoreInv, crash PROVE StoreInv'
  <2>1. st' = EmptyStore /\ issued' = {} /\ held' = [o \in Objects |-> 0]
    BY <1>3 DEF crash
  <2>2. \A o \in Objects : Entry(st', o).refs = 0
    BY <2>1, EmptyStoreGood, FreeSlotFacts
  <2> QED BY <2>1, <2>2, EmptyStoreGood DEF StoreInv, StoreTypes, Backed
<1>4. ASSUME StoreInv, NEW p, preview_retired(st, p),
             st' = FreedTargets(st, p.targets), UNCHANGED <<issued, held>>
      PROVE  StoreInv'
  <2>1. /\ Good(st')
        /\ \A o \in Objects :
               /\ o \in p.targets => Entry(st, o).refs = 0
               /\ o \notin p.targets => Entry(st', o) = Entry(st, o)
    BY <1>4, SweepFrees DEF StoreInv
  <2>2. ASSUME NEW o \in Objects PROVE held[o] <= Entry(st', o).refs
    <3>1. held[o] \in Nat /\ held[o] <= Entry(st, o).refs
      BY <1>4 DEF StoreInv, StoreTypes, Backed
    <3>2. Entry(st', o).refs \in Nat
      BY <2>1, EntryFound DEF Good
    <3> QED BY <2>1, <3>1, <3>2
  <2> QED BY <1>4, <2>1, <2>2 DEF StoreInv, StoreTypes, Backed
<1>5. ASSUME StoreInv, NEW p, NEW how, NEW chain,
             commit_preview(p, how, chain)
      PROVE  StoreInv'
  BY <1>4, <1>5 DEF commit_preview
<1>6. ASSUME StoreInv, NEW g \in Generations, publishedCommit(g)
      PROVE  StoreInv'
  <2>1. CASE preview_retired(st, Last(handles[g].chain))
    BY <1>5, <1>6, <2>1 DEF publishedCommit
  <2>2. CASE ~preview_retired(st, Last(handles[g].chain))
    BY <1>2, <1>6, <2>2 DEF publishedCommit
  <2> QED BY <2>1, <2>2
<1>7. ASSUME StoreInv, NEW g \in Generations, recover_published_commit(g)
      PROVE  StoreInv'
  BY <1>5, <1>7 DEF recover_published_commit
<1>8. ASSUME StoreInv, SweepStep PROVE StoreInv'
  <2>1. CASE \E g \in Generations : publishedCommit(g)
    BY <1>6, <1>8, <2>1
  <2>2. CASE \E g \in Generations : recover_published_commit(g)
    BY <1>7, <1>8, <2>2
  <2>3. CASE UNCHANGED storeVars
    BY <1>2, <1>8, <2>3
  <2> QED BY <1>8, <2>1, <2>2, <2>3
          DEF SweepStep, prepare, abort, newJournal, preview_commit, publish,
              publishStep
<1>9. StoreInv /\ [SweepNext]_sweepVars => StoreInv'
  <2>1. ASSUME StoreInv, UNCHANGED sweepVars PROVE StoreInv'
    BY <1>2, <2>1 DEF sweepVars
  <2>2. ASSUME StoreInv, SweepNext PROVE StoreInv'
    BY <1>2, <1>3, <1>8, <2>2, StoreStepKeeps
       DEF SweepNext, StoreStep, LogStep
  <2> QED BY <2>1, <2>2
<1> QED BY <1>1, <1>9, PTL DEF SweepSpec

\* Whoever holds a reference finds its object, whatever sweep was prepared,
\* published or recovered meanwhile (preview_retired of
\* bench/continuation_object_store.py).
THEOREM SweepFreesNothingHeld == SweepSpec => []HeldStays
<1>1. StoreInv => HeldStays
  BY FreeSlotFacts DEF StoreInv, StoreTypes, Backed, Entry, HeldStays
<1> QED BY <1>1, SweptStoreGood, PTL

(***************************************************************************)
(* The third part: the payload file implements the atomic reclaim of       *)
(* PayloadReclaim for any payloads, any reclaim records and any number of  *)
(* processes and of deaths.                                                *)
(*                                                                         *)
(* The refinement step that matters is the rename: it must carry out a     *)
(* plan on record from the snapshot that plan starts from.  The code       *)
(* checks the active snapshot just before; the record and the candidate    *)
(* were checked or written earlier, so the invariant says they are still   *)
(* right.  They are because every step after the lock is taken belongs to  *)
(* the one process that has it.                                            *)
(***************************************************************************)

-----------------------------------------------------------------------------
(* The inductive invariant.                                                *)

\* The functions have their domains.
FileShape ==
    /\ DOMAIN work = Workers
    /\ DOMAIN sidecar = Plans
    /\ DOMAIN candidate = Plans

\* Whoever is past taking the lock has it.
LockHeld ==
    \A w \in Workers : work[w].pc \notin {"idle", "creating"} => holder = w

\* What a process in the middle of an operation relies on.
Sound(w) ==
    /\ work[w].pc = "initial_write" => active_file = Torn
    /\ work[w].pc = "plan_write" => work[w].plan \in Plans
    /\ work[w].pc \in {"candidate_write", "promote"} =>
           /\ work[w].plan \in Plans
           /\ sidecar[work[w].plan].state = "whole"
    /\ work[w].pc = "promote" =>
           candidate[work[w].plan] = Whole(after(work[w].plan))

WorkSound == \A w \in Workers : Sound(w)

FileInv == FileShape /\ LockHeld /\ WorkSound

\* What a reader finds, and the plans on record.
Payloads == IF active_file.state = "whole"
            THEN [found |-> TRUE, payloads |-> active_file.payloads]
            ELSE [found |-> FALSE]
Published == {p \in Plans : sidecar[p].state = "whole"}
Found(s) == [found |-> TRUE, payloads |-> s]

\* The four things a step may do to them.
Keeps == Payloads' = Payloads /\ Published' = Published
Creates == /\ Payloads = [found |-> FALSE]
           /\ Payloads' = Found(Initial)
           /\ Published' = Published
Publishes(p) == Published' = Published \cup {p} /\ Payloads' = Payloads
Reclaims(p) == /\ p \in Published
               /\ Payloads = Found(p.before)
               /\ Payloads' = Found(after(p))
               /\ Published' = Published
StepCases ==
    Keeps \/ Creates \/ \E p \in Plans : Publishes(p) \/ Reclaims(p)

-----------------------------------------------------------------------------
\* A whole file is not a torn or an absent one, and its payloads are its own.
LEMMA FileStates ==
    /\ Absent.state = "absent" /\ Torn.state = "torn" /\ Absent # Torn
    /\ \A s : Whole(s).state = "whole" /\ Whole(s).payloads = s
    /\ \A s : Whole(s) # Torn /\ Whole(s) # Absent
<1>1. Absent.state = "absent" /\ Torn.state = "torn"
  BY DEF Absent, Torn
<1>2. \A s : Whole(s).state = "whole" /\ Whole(s).payloads = s
  BY DEF Whole
<1> QED BY <1>1, <1>2

\* A process that changes what it is doing changes nobody else's work.
LEMMA OthersKeep ==
    ASSUME FileShape, NEW w \in Workers, NEW next, Become(w, next)
    PROVE  /\ DOMAIN work' = Workers
           /\ work'[w] = next
           /\ \A v \in Workers \ {w} : work'[v] = work[v]
BY DEF FileShape, Become

\* Nobody else is in the middle of an operation that needs the lock.
LEMMA Alone ==
    ASSUME LockHeld, NEW w \in Workers, holder = w
    PROVE  \A v \in Workers \ {w} : work[v].pc \in {"idle", "creating"}
BY DEF LockHeld

\* It is enough to look at the process that moves, if the others either do
\* not depend on the lock or the files they rely on stay.
LEMMA MoverOnly ==
    ASSUME FileInv, NEW w \in Workers, NEW next, Become(w, next),
           DOMAIN sidecar' = Plans, DOMAIN candidate' = Plans,
           next.pc \notin {"idle", "creating"} => holder' = w,
           Sound(w)',
           \/ holder = w
           \/ /\ UNCHANGED <<active_file, sidecar, candidate>>
              /\ holder' = holder
           \/ holder = NoWorker
    PROVE  FileInv'
<1>1. /\ DOMAIN work' = Workers
      /\ work'[w] = next
      /\ \A v \in Workers \ {w} : work'[v] = work[v]
  BY OthersKeep DEF FileInv
<1>2. FileShape'
  BY <1>1 DEF FileShape
<1>3. CASE holder = w \/ holder = NoWorker
  <2>1. \A v \in Workers \ {w} : work[v].pc \in {"idle", "creating"}
    BY <1>3, Alone, PayloadAssumption DEF FileInv, LockHeld
  <2>2. LockHeld'
    BY <1>1, <2>1 DEF LockHeld
  <2>3. ASSUME NEW v \in Workers \ {w} PROVE Sound(v)'
    BY <1>1, <2>1, <2>3 DEF Sound
  <2>4. WorkSound'
    BY <2>3 DEF WorkSound
  <2> QED BY <1>2, <2>2, <2>4 DEF FileInv
<1>4. CASE UNCHANGED <<active_file, sidecar, candidate>> /\ holder' = holder
  <2>1. LockHeld'
    BY <1>1, <1>4 DEF FileInv, LockHeld
  <2>2. ASSUME NEW v \in Workers \ {w} PROVE Sound(v)'
    BY <1>1, <1>4, <2>2 DEF FileInv, WorkSound, Sound
  <2>3. WorkSound'
    BY <2>2 DEF WorkSound
  <2> QED BY <1>2, <2>1, <2>3 DEF FileInv
<1> QED BY <1>3, <1>4

-----------------------------------------------------------------------------
(* The invariant is inductive.                                             *)

\* Taking, finding and giving up the lock, and dying, leave the files alone.
LEMMA LockSteps ==
    ASSUME FileInv, NEW w \in Workers,
           \/ create_lock(w) \/ create_flock(w) \/ open(w) \/ _refresh(w)
           \/ close(w) \/ die(w)
    PROVE  FileInv'
<1> USE DEF FileInv
<1>f. DOMAIN sidecar' = Plans /\ DOMAIN candidate' = Plans
  BY DEF FileShape, create_lock, create_flock, open, _refresh, close, die
<1>1. CASE create_lock(w)
  <2>1. Become(w, [pc |-> "creating"]) /\ holder' = holder
        /\ UNCHANGED <<active_file, sidecar, candidate>>
    BY <1>1 DEF create_lock
  <2>2. Sound(w)'
    BY <2>1, OthersKeep DEF Sound
  <2> QED BY <1>f, <2>1, <2>2, MoverOnly
<1>2. CASE create_flock(w)
  <2>1. CASE holder = NoWorker
    <3>1. Become(w, [pc |-> "initial"]) /\ holder' = w
      BY <1>2, <2>1 DEF create_flock
    <3>2. Sound(w)'
      BY <3>1, OthersKeep DEF Sound
    <3> QED BY <1>f, <2>1, <3>1, <3>2, MoverOnly
  <2>2. CASE holder # NoWorker
    <3>1. Become(w, Idle) /\ holder' = holder
          /\ UNCHANGED <<active_file, sidecar, candidate>>
      BY <1>2, <2>2 DEF create_flock
    <3>2. Sound(w)'
      BY <3>1, OthersKeep DEF Sound, Idle
    <3> QED BY <1>f, <3>1, <3>2, MoverOnly DEF Idle
  <2> QED BY <2>1, <2>2
<1>3. CASE open(w)
  <2>1. Become(w, [pc |-> "opening"]) /\ holder = NoWorker /\ holder' = w
    BY <1>3 DEF open
  <2>2. Sound(w)'
    BY <2>1, OthersKeep DEF Sound
  <2> QED BY <1>f, <2>1, <2>2, MoverOnly
<1>4. CASE _refresh(w)
  <2>1. holder = w
    BY <1>4 DEF _refresh, LockHeld
  <2>2. \/ Become(w, Open) /\ holder' = holder
        \/ Become(w, Idle)
    BY <1>4 DEF _refresh
  <2>3. Sound(w)'
    BY <2>2, OthersKeep DEF Sound, Open, Idle
  <2> QED BY <1>f, <2>1, <2>2, <2>3, MoverOnly DEF Open, Idle
<1>5. CASE close(w)
  <2>1. holder = w /\ Become(w, Idle)
    BY <1>5 DEF close, LockHeld, Open
  <2>2. Sound(w)'
    BY <2>1, OthersKeep DEF Sound, Idle
  <2> QED BY <1>f, <2>1, <2>2, MoverOnly DEF Idle
<1>6. CASE die(w)
  <2>1. Become(w, Idle) /\ UNCHANGED <<active_file, sidecar, candidate>>
        /\ (holder = w \/ holder' = holder)
    BY <1>6 DEF die
  <2>2. Sound(w)'
    BY <2>1, OthersKeep DEF Sound, Idle
  <2> QED BY <1>f, <2>1, <2>2, MoverOnly DEF Idle
<1> QED BY <1>1, <1>2, <1>3, <1>4, <1>5, <1>6

\* The steps that touch a file are taken by the process that has the lock.
LEMMA FileSteps ==
    ASSUME FileInv, NEW w \in Workers,
           \/ create_active(w) \/ initial_write(w) \/ plan_write(w)
           \/ candidate_write(w) \/ promote_rename(w) \/ io_error(w)
           \/ \E p \in Plans : publish_reclaim_record(w, p) \/ recover(w, p)
    PROVE  FileInv'
<1> USE DEF FileInv
<1>1. holder = w /\ holder' = holder
  BY DEF LockHeld, create_active, initial_write, plan_write, candidate_write,
         promote_rename, io_error, publish_reclaim_record, recover, lockVars,
         Open
<1>2. DOMAIN sidecar' = Plans /\ DOMAIN candidate' = Plans
  BY DEF FileShape, create_active, initial_write, plan_write, candidate_write,
         promote_rename, io_error, publish_reclaim_record, recover
<1>3. SUFFICES ASSUME NEW next, Become(w, next), Sound(w)' PROVE FileInv'
  <2> USE DEF WorkSound, Sound
  <2>1. CASE create_active(w)
    <3>1. Become(w, [pc |-> "initial_write"]) /\ active_file' = Torn
      BY <2>1 DEF create_active
    <3> QED BY <1>3, <3>1, OthersKeep
  <2>2. CASE initial_write(w) \/ plan_write(w) \/ promote_rename(w)
             \/ io_error(w)
    <3>1. Become(w, Open)
      BY <2>2 DEF initial_write, plan_write, promote_rename, io_error
    <3> QED BY <1>3, <3>1, OthersKeep DEF Open
  <2>3. CASE candidate_write(w)
    <3>1. /\ Become(w, At("promote", work[w].plan))
          /\ candidate' = [candidate EXCEPT ![work[w].plan] =
                               Whole(after(work[w].plan))]
          /\ sidecar' = sidecar
          /\ work[w].plan \in Plans
          /\ sidecar[work[w].plan].state = "whole"
      BY <2>3 DEF candidate_write
    <3> QED BY <1>3, <3>1, OthersKeep DEF At, FileShape
  <2>4. CASE \E p \in Plans : publish_reclaim_record(w, p)
    <3>1. PICK p \in Plans : Become(w, At("plan_write", p))
      BY <2>4 DEF publish_reclaim_record
    <3> QED BY <1>3, <3>1, OthersKeep DEF At
  <2>5. CASE \E p \in Plans : recover(w, p)
    <3>1. PICK p \in Plans :
              /\ sidecar[p].state = "whole" /\ sidecar' = sidecar
              /\ \/ Become(w, At("candidate_write", p))
                 \/ /\ Become(w, At("promote", p))
                    /\ candidate[p] = Whole(after(p))
                    /\ candidate' = candidate
      BY <2>5 DEF recover, Recoverable
    <3> QED BY <1>3, <3>1, OthersKeep DEF At
  <2> QED BY <2>1, <2>2, <2>3, <2>4, <2>5
<1> QED BY <1>1, <1>2, <1>3, MoverOnly

\* FileInv holds in every reachable state.
LEMMA Invariance == FileSpec => []FileInv
<1>1. FileInit => FileInv
  BY DEF FileInit, FileInv, FileShape, LockHeld, WorkSound, Sound, Idle
<1>2. FileInv /\ [FileNext]_fileVars => FileInv'
  <2>1. ASSUME FileInv, FileNext PROVE FileInv'
    BY <2>1, LockSteps, FileSteps DEF FileNext, Continue
  <2>2. ASSUME FileInv, UNCHANGED fileVars PROVE FileInv'
    BY <2>2 DEF fileVars, FileInv, FileShape, LockHeld, WorkSound, Sound
  <2> QED BY <2>1, <2>2
<1> QED BY <1>1, <1>2, PTL DEF FileSpec

-----------------------------------------------------------------------------
(* Each step maps to a step of PayloadReclaim, or to none.                 *)

\* Every step keeps what readers find, or does one of its three things.
LEMMA NextCases ==
    ASSUME FileInv, FileNext
    PROVE  StepCases
<1>1. PICK w \in Workers :
        \/ create_lock(w) \/ open(w) \/ close(w)
        \/ Continue(w) \/ die(w) \/ io_error(w)
        \/ \E p \in Plans : publish_reclaim_record(w, p) \/ recover(w, p)
  BY DEF FileNext
<1>2. CASE UNCHANGED <<active_file, sidecar>>
  BY <1>2 DEF StepCases, Keeps, Payloads, Published
<1>3. CASE create_active(w)
  <2>1. active_file = Absent /\ active_file' = Torn /\ sidecar' = sidecar
    BY <1>3 DEF create_active
  <2> QED BY <2>1, FileStates DEF StepCases, Keeps, Payloads, Published
<1>4. CASE initial_write(w)
  <2>1. /\ active_file = Torn /\ active_file' = Whole(Initial)
        /\ sidecar' = sidecar
    BY <1>4 DEF initial_write, FileInv, WorkSound, Sound
  <2> QED BY <2>1, FileStates
          DEF StepCases, Creates, Payloads, Published, Found
<1>5. CASE \E p \in Plans : publish_reclaim_record(w, p)
  <2>1. PICK p \in Plans :
          /\ sidecar[p] = Absent /\ active_file' = active_file
          /\ sidecar' = [sidecar EXCEPT ![p] = Torn]
    BY <1>5 DEF publish_reclaim_record
  <2>2. \A q \in Plans :
          sidecar'[q].state = "whole" <=> sidecar[q].state = "whole"
    BY <2>1, FileStates DEF FileInv, FileShape
  <2> QED BY <2>1, <2>2 DEF StepCases, Keeps, Payloads, Published
<1>6. CASE plan_write(w)
  <2>1. PICK p \in Plans : p = work[w].plan
    BY <1>6 DEF plan_write, FileInv, WorkSound, Sound
  <2>2. /\ sidecar' = [sidecar EXCEPT ![p] = Whole(p.before)]
        /\ active_file' = active_file
    BY <1>6, <2>1 DEF plan_write
  <2>3. \A q \in Plans :
          sidecar'[q].state = "whole" <=> q = p \/ sidecar[q].state = "whole"
    BY <2>2, FileStates DEF FileInv, FileShape
  <2>4. Published' = Published \cup {p}
    BY <2>3 DEF Published
  <2> QED BY <2>2, <2>4 DEF StepCases, Publishes, Payloads
<1>7. CASE promote_rename(w) /\ active_file = Whole(work[w].plan.before)
  <2>1. PICK p \in Plans :
          /\ p = work[w].plan
          /\ sidecar[p].state = "whole"
          /\ candidate[p] = Whole(after(p))
    BY <1>7 DEF promote_rename, FileInv, WorkSound, Sound
  <2>2. active_file' = Whole(after(p)) /\ sidecar' = sidecar
    BY <1>7, <2>1 DEF promote_rename
  <2>3. Reclaims(p)
    BY <1>7, <2>1, <2>2, FileStates DEF Reclaims, Payloads, Published, Found
  <2> QED BY <2>3 DEF StepCases
<1>8. CASE promote_rename(w) /\ active_file # Whole(work[w].plan.before)
  <2>1. UNCHANGED <<active_file, sidecar>>
    BY <1>8 DEF promote_rename
  <2> QED BY <1>2, <2>1
<1>9. CASE \/ create_lock(w) \/ create_flock(w) \/ open(w) \/ _refresh(w)
           \/ close(w) \/ die(w) \/ io_error(w) \/ candidate_write(w)
           \/ \E p \in Plans : recover(w, p)
  <2>1. UNCHANGED <<active_file, sidecar>>
    BY <1>9 DEF create_lock, create_flock, open, _refresh, close, die,
                io_error, candidate_write, recover
  <2> QED BY <1>2, <2>1
<1> QED
  BY <1>1, <1>3, <1>4, <1>5, <1>6, <1>7, <1>8, <1>9 DEF Continue

\* Readers of the payload file see a store that shrinks only by whole plans
\* on record, each in one step, from the snapshot the plan starts from (apply
\* and recover of LockedPayloadStore).
THEOREM PayloadRefinement == FileSpec => AtomicReclaim
<1>1. FileInit => Reclaiming!ReclaimInit
  BY FileStates DEF FileInit, Reclaiming!ReclaimInit, Reclaiming!NoStore
<1>2. FileInv /\ [FileNext]_fileVars =>
        [Reclaiming!Create \/ \E p \in Plans : Reclaiming!Publish(p)
                                   \/ Reclaiming!Reclaim(p)
        ]_(Reclaiming!reclaimVars)
  <2>1. ASSUME StepCases
        PROVE  \/ Reclaiming!Create
               \/ \E p \in Plans : Reclaiming!Publish(p)
                                   \/ Reclaiming!Reclaim(p)
               \/ UNCHANGED Reclaiming!reclaimVars
    <3>1. CASE Keeps
      BY <3>1 DEF Keeps, Payloads, Published, Reclaiming!reclaimVars
    <3>2. CASE Creates
      BY <3>2 DEF Creates, Payloads, Published, Found, Reclaiming!Create,
                  Reclaiming!NoStore, Reclaiming!Store
    <3>3. ASSUME NEW p \in Plans, Publishes(p) PROVE Reclaiming!Publish(p)
      BY <3>3 DEF Publishes, Payloads, Published, Reclaiming!Publish
    <3>4. ASSUME NEW p \in Plans, Reclaims(p) PROVE Reclaiming!Reclaim(p)
      BY <3>4 DEF Reclaims, Payloads, Published, Found, after,
                  Reclaiming!Reclaim, Reclaiming!Store
    <3> QED BY <2>1, <3>1, <3>2, <3>3, <3>4 DEF StepCases
  <2>2. ASSUME UNCHANGED fileVars PROVE UNCHANGED Reclaiming!reclaimVars
    BY <2>2 DEF fileVars, Reclaiming!reclaimVars
  <2> QED BY <2>1, <2>2, NextCases
<1> QED
  BY <1>1, <1>2, Invariance, PTL
     DEF FileSpec, AtomicReclaim, Reclaiming!ReclaimSpec
=============================================================================
