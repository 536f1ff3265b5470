------------------------ MODULE TextDeliveryProofs -------------------------
(***************************************************************************)
(* Proofs about TextDelivery, for any number of results, processes,        *)
(* readers and deaths: a reader without a lock blames only races, and the  *)
(* sink and the checkpoint together take the steps of TextDelivered.       *)
(***************************************************************************)
EXTENDS TextDelivery, TLAPS

-----------------------------------------------------------------------------
(* Everything that is ever selected is known by its number: generation g   *)
(* selects SetNo(g), and while it is selected the sink goes from the       *)
(* ledger LedgerNo(g - 1) to LedgerNo(g).                                  *)

Upto(n) == [i \in 1..n |-> i]
SetNo(g) == Set(g, Upto(IF g = 1 THEN 0 ELSE g - 2))
LedgerNo(g) == IF g = 0 THEN NoLedger ELSE Ledger(Upto(g - 1))

Last == Results + 2
Generations == 1 .. Last
generation == checkpoint.generation

\* The file of a complete archive, or of a complete ledger.
ArchiveNo(g) == File("archive", SetNo(g))
Stored(ledger) == File("ledger", ledger) \in whole

-----------------------------------------------------------------------------
(* The inductive invariant.                                                *)

Steps == {"open_sink", "apply", "ledger", "ledger_write", "ledger_rename",
          "selector", "selector_write", "selector_rename", "progress",
          "archive_write", "candidate", "candidate_write", "select", "close"}
Prepared == {"ledger", "ledger_write", "ledger_rename", "selector",
             "selector_write", "selector_rename"}
Named == {"selector", "selector_write", "selector_rename"}
SinkTaken == {"progress", "archive_write", "candidate", "candidate_write",
              "select"}
Archived == {"candidate", "candidate_write", "select"}

Work == [pc : Steps, set : {SetNo(g) : g \in Generations},
         ledger : {LedgerNo(g) : g \in 0 .. Last}]

DeliveryTypeOK ==
    /\ generation \in Generations /\ checkpoint = SetNo(generation)
    /\ work \in [Workers -> {Idle} \cup Work]
    /\ DOMAIN reader = Readers

\* The sink is where the checkpoint is, or one ahead of it, and the files of
\* everything selected so far are complete.
SelectedInv ==
    /\ sink \in {LedgerNo(generation - 1), LedgerNo(generation)}
    /\ generation = Last => sink = LedgerNo(generation - 1)
    /\ \A g \in 1 .. generation : ArchiveNo(g) \in whole
    /\ sink # NoLedger => Stored(sink)

\* Whoever is past open holds the lock and works at the selected set.
WorkerInv(w) ==
    work[w] # Idle =>
        /\ lease = w
        /\ work[w].pc # "close" =>
              work[w].set = checkpoint /\ generation < Last
        /\ work[w].pc = "apply" =>
              generation > 1 /\ work[w].ledger = sink
        /\ work[w].pc \in Prepared \cup SinkTaken =>
              work[w].ledger = LedgerNo(generation)
        /\ work[w].pc \in Prepared => sink = LedgerNo(generation - 1)
        /\ work[w].pc \in Named => Stored(work[w].ledger)
        /\ work[w].pc \in SinkTaken => sink = work[w].ledger
        /\ work[w].pc \in Archived => ArchiveNo(generation + 1) \in whole

WorkInv == \A w \in Workers : WorkerInv(w)

Reads == {"idle", "set", "sink", "ledger", "recheck_set", "recheck_sink",
          "view", "changed", "unsupported", "missing", "invalid"}

Read == [pc : Reads, set : {SetNo(g) : g \in Generations},
         ledger : {LedgerNo(g) : g \in 0 .. Last}, together : BOOLEAN]

\* What a reader has read was selected once: its files stay complete, and a
\* checkpoint that has moved away from it never comes back.
ReaderInvAt(r) ==
    /\ reader[r].pc \in Reads \ {"missing"}
    /\ reader[r].pc # "idle" =>
          /\ reader[r] \in Read
          /\ reader[r].set.generation <= generation
    /\ reader[r].pc \in {"sink", "ledger"} =>
          reader[r].set.generation > 1
    /\ reader[r].pc = "ledger" => Stored(reader[r].ledger)
    /\ reader[r].pc = "recheck_set" =>
          reader[r].together \/ checkpoint # reader[r].set
    /\ reader[r].pc \in {"recheck_sink", "view"} => reader[r].together
    /\ reader[r].pc = "invalid" => checkpoint # reader[r].set

ReaderInv == \A r \in Readers : ReaderInvAt(r)

DeliveryInv == DeliveryTypeOK /\ SelectedInv /\ WorkInv /\ ReaderInv

-----------------------------------------------------------------------------
(* Sequence numbers, sets and ledgers.                                     *)

\* The sequence 1, 2, ... n: its length, its prefixes and its extension.
LEMMA UptoFacts ==
    ASSUME NEW n \in Nat
    PROVE  /\ Upto(n) \in Seq(Nat) /\ Len(Upto(n)) = n
           /\ Append(Upto(n), n + 1) = Upto(n + 1)
           /\ \A m \in 0 .. n : SubSeq(Upto(n), 1, m) = Upto(m)
           /\ Upto(0) = <<>>
<1>1. Upto(n) \in Seq(Nat) /\ Len(Upto(n)) = n
  BY DEF Upto
<1>2. Upto(n + 1) \in Seq(Nat) /\ Len(Upto(n + 1)) = n + 1
  BY DEF Upto
<1>3. Append(Upto(n), n + 1) = Upto(n + 1)
  BY <1>1, <1>2 DEF Upto
<1>4. ASSUME NEW m \in 0 .. n PROVE SubSeq(Upto(n), 1, m) = Upto(m)
  BY <1>1 DEF Upto
<1>5. Upto(0) = <<>>
  BY DEF Upto
<1> QED BY <1>1, <1>3, <1>4, <1>5

\* The selected sets: their predecessors, the last of them, and the number
\* of the result that is produced from each.
LEMMA SetFacts ==
    ASSUME NEW g \in Generations
    PROVE  /\ SetNo(g).generation = g
           /\ SetNo(g).acknowledged = Upto(IF g = 1 THEN 0 ELSE g - 2)
           /\ Len(SetNo(g).acknowledged) = IF g = 1 THEN 0 ELSE g - 2
           /\ g > 1 => predecessor(SetNo(g)) = SetNo(g - 1)
           /\ Terminal(SetNo(g)) <=> g = Last
           /\ input_sequence(SetNo(g)) = IF g = 1 THEN 1 ELSE g - 1
<1> DEFINE n == IF g = 1 THEN 0 ELSE g - 2
<1>1. n \in Nat /\ g \in Nat /\ g >= 1 /\ Results \in Nat \ {0}
  BY DeliveryAssumption DEF Generations, Last
<1>2. SetNo(g) = Set(g, Upto(n)) /\ Len(Upto(n)) = n /\ Upto(0) = <<>>
  BY <1>1, UptoFacts DEF SetNo
<1>3. /\ SetNo(g).generation = g /\ SetNo(g).acknowledged = Upto(n)
      /\ Len(SetNo(g).acknowledged) = n
  BY <1>2 DEF Set
<1>4. ASSUME g > 1 PROVE predecessor(SetNo(g)) = SetNo(g - 1)
  <2>1. CASE g = 2
    BY <1>2, <1>3, <2>1 DEF predecessor, SetNo
  <2>2. CASE g > 2
    <3>1. n = g - 2 /\ n - 1 \in 0 .. n /\ n - 1 = (g - 1) - 2 /\ g - 1 # 1
          /\ ~(g <= 2)
      BY <1>1, <2>2
    <3>2. SubSeq(Upto(n), 1, n - 1) = Upto(n - 1)
      BY <1>1, <3>1, UptoFacts
    <3>3. predecessor(SetNo(g)) = Set(g - 1, Upto(n - 1))
      BY <1>3, <3>1, <3>2 DEF predecessor
    <3> QED BY <3>1, <3>3 DEF SetNo
  <2> QED BY <1>1, <1>4, <2>1, <2>2
<1>5. Terminal(SetNo(g)) <=> g = Last
  BY <1>1, <1>3 DEF Terminal, Last
<1>6. input_sequence(SetNo(g)) = IF g = 1 THEN 1 ELSE g - 1
  BY <1>1, <1>3 DEF input_sequence
<1> QED BY <1>3, <1>4, <1>5, <1>6

\* The ledgers of the selected sets.
LEMMA LedgerFacts ==
    ASSUME NEW g \in 0 .. Last
    PROVE  /\ LedgerNo(g) = NoLedger <=> g = 0
           /\ g > 0 => /\ LedgerNo(g).acknowledgements = Upto(g - 1)
                       /\ Len(LedgerNo(g).acknowledgements) = g - 1
                       /\ LedgerNo(g) = Ledger(<<>>) <=> g = 1
<1>1. CASE g = 0
  BY <1>1 DEF LedgerNo
<1>2. CASE g > 0
  <2>1. g - 1 \in Nat /\ Last \in Nat
    BY <1>2, DeliveryAssumption DEF Last
  <2>2. LedgerNo(g) = Ledger(Upto(g - 1)) /\ Len(Upto(g - 1)) = g - 1
    <3>1. g # 0
      BY <1>2
    <3>2. Len(Upto(g - 1)) = g - 1
      BY <2>1, UptoFacts
    <3> QED BY <3>1, <3>2 DEF LedgerNo
  <2>3. LedgerNo(g) # NoLedger
    BY <2>2 DEF Ledger, NoLedger
  <2>4. LedgerNo(g).acknowledgements = Upto(g - 1)
    BY <2>2 DEF Ledger
  <2>5. LedgerNo(g) = Ledger(<<>>) <=> g = 1
    <3>1. Ledger(<<>>).acknowledgements = <<>> /\ Len(<<>>) = 0
      BY DEF Ledger
    <3>2. g = 1 => LedgerNo(g) = Ledger(<<>>)
      BY <2>2, UptoFacts
    <3> QED BY <2>1, <2>2, <2>4, <3>1, <3>2
  <2> QED BY <1>2, <2>2, <2>3, <2>4, <2>5
<1> QED BY <1>1, <1>2, DeliveryAssumption DEF Last

\* Sets and ledgers with different numbers differ.
LEMMA SetsDiffer ==
    ASSUME NEW g \in Generations, NEW h \in Generations, SetNo(g) = SetNo(h)
    PROVE  g = h
BY SetFacts

-----------------------------------------------------------------------------
(* Steps of a process and of a reader.                                     *)

\* No complete archive and no complete ledger is touched by the step.
FilesKept ==
    /\ \A s : File("archive", s) \in whole => File("archive", s) \in whole'
    /\ \A l : File("ledger", l) \in whole => File("ledger", l) \in whole'

\* A file is made under another name, or was not complete before.
LEMMA CreateKeeps ==
    ASSUME NEW f, Create(f),
           f.kind \notin {"archive", "ledger"} \/ f \notin whole
    PROVE  FilesKept
BY DEF Create, FilesKept, File

\* Whatever is written stays.
LEMMA WriteKeeps ==
    ASSUME NEW f, Write(f)
    PROVE  FilesKept /\ f \in whole'
BY DEF Write, FilesKept

\* A candidate is renamed away.
LEMMA RenameKeeps ==
    ASSUME NEW f, NEW to, Rename(f, to), f.kind \notin {"archive", "ledger"}
    PROVE  FilesKept /\ to \subseteq whole'
BY DEF Rename, FilesKept, File

\* The lock of the checkpoint keeps all others out.
LEMMA OthersIdle ==
    ASSUME DeliveryInv, NEW w \in Workers, work[w] # Idle \/ lease = NoWorker
    PROVE  \A v \in Workers \ {w} : work[v] = Idle
BY DeliveryAssumption DEF DeliveryInv, WorkInv, WorkerInv

\* A step of one process keeps the invariant if it keeps the files, moves
\* the checkpoint only forward, and keeps what it says about the selection
\* and about that process.
LEMMA WorkerStep ==
    ASSUME DeliveryInv, NEW w \in Workers,
           \A v \in Workers \ {w} : work[v] = Idle,
           NEW next \in {Idle} \cup Work,
           work' = [work EXCEPT ![w] = next],
           FilesKept, UNCHANGED reader,
           generation' \in Generations, checkpoint' = SetNo(generation'),
           UNCHANGED checkpoint \/ generation' > generation,
           SelectedInv', WorkerInv(w)'
    PROVE  DeliveryInv'
<1>1. DeliveryTypeOK'
  BY DEF DeliveryInv, DeliveryTypeOK
<1>2. ASSUME NEW v \in Workers \ {w} PROVE WorkerInv(v)'
  BY <1>2 DEF DeliveryInv, DeliveryTypeOK, WorkerInv
<1>3. ASSUME NEW r \in Readers PROVE ReaderInvAt(r)'
  <2>1. ReaderInvAt(r)
    BY DEF DeliveryInv, ReaderInv
  <2>2. generation <= generation' /\ generation \in Nat /\ generation' \in Nat
    BY DEF DeliveryInv, DeliveryTypeOK, Generations, generation
  <2>3. ASSUME reader[r].pc # "idle", checkpoint # reader[r].set
        PROVE  checkpoint' # reader[r].set
    <3>1. CASE UNCHANGED checkpoint
      BY <2>3, <3>1
    <3>2. CASE generation' > generation
      <4>1. /\ reader[r].set.generation \in Nat
            /\ reader[r].set.generation <= generation
        BY <2>1, <2>3, SetFacts DEF ReaderInvAt, Read, Generations
      <4>2. checkpoint'.generation # reader[r].set.generation
        BY <2>2, <3>2, <4>1 DEF generation
      <4> QED BY <4>2
    <3> QED BY <3>1, <3>2
  <2>4. /\ reader[r].pc # "idle" => reader[r].set.generation \in Nat
        /\ reader[r].pc \in {"invalid", "recheck_set"} => reader[r].pc # "idle"
    BY <2>1, SetFacts DEF ReaderInvAt, Read, Generations
  <2>5. reader[r].pc # "idle" => reader[r].set.generation <= generation'
    BY <2>1, <2>2, <2>4 DEF ReaderInvAt
  <2> QED BY <2>1, <2>3, <2>4, <2>5 DEF ReaderInvAt, FilesKept, Stored
<1> QED BY <1>1, <1>2, <1>3 DEF DeliveryInv, WorkInv, ReaderInv

\* What is said about the selection depends on nothing else than the
\* selection and the complete files.
LEMMA SelectionKept ==
    ASSUME DeliveryInv, FilesKept, UNCHANGED selectedVars
    PROVE  SelectedInv' /\ generation' = generation
BY DEF DeliveryInv, SelectedInv, FilesKept, selectedVars, generation,
       ArchiveNo, Stored

\* A process that is not idle holds the lock, and has a set and a ledger.
LEMMA WorkType ==
    ASSUME DeliveryInv, NEW w \in Workers, work[w] # Idle
    PROVE  /\ work[w] \in Work /\ lease = w
           /\ work = [v \in Workers |-> work[v]]
           /\ generation \in Nat /\ 1 <= generation /\ generation <= Last
           /\ Last \in Nat
BY DeliveryAssumption
   DEF DeliveryInv, DeliveryTypeOK, WorkInv, WorkerInv, Generations, Last

\* The step after which a process has the program counter pc and a ledger.
ProceedsTo(w, pc, ledger) ==
    work' = [work EXCEPT ![w] = [pc |-> pc, set |-> work[w].set,
                                 ledger |-> ledger]]

\* Going on with the ledger one has.
LEMMA GoesAt ==
    ASSUME DeliveryInv, NEW w \in Workers, work[w] # Idle, NEW pc
    PROVE  /\ work' = At(pc, w) => ProceedsTo(w, pc, work[w].ledger)
           /\ \A ledger :
                work' = [work EXCEPT ![w].pc = pc, ![w].ledger = ledger]
                  => ProceedsTo(w, pc, ledger)
           /\ \A ledger :
                work' = [work EXCEPT ![w].ledger = ledger, ![w].pc = pc]
                  => ProceedsTo(w, pc, ledger)
<1>1. work[w] \in Work /\ work = [v \in Workers |-> work[v]]
  BY WorkType
<1>2. work[w] = [pc |-> work[w].pc, set |-> work[w].set,
                 ledger |-> work[w].ledger]
  BY <1>1 DEF Work
<1>3. work' = At(pc, w) => ProceedsTo(w, pc, work[w].ledger)
  <2>1. [work[w] EXCEPT !.pc = pc]
          = [pc |-> pc, set |-> work[w].set, ledger |-> work[w].ledger]
    BY <1>2
  <2> QED BY <1>1, <2>1 DEF At, ProceedsTo
<1>4. ASSUME NEW ledger,
             work' = [work EXCEPT ![w].pc = pc, ![w].ledger = ledger]
      PROVE  ProceedsTo(w, pc, ledger)
  <2>1. work'[w] = [pc |-> pc, set |-> work[w].set, ledger |-> ledger]
    BY <1>1, <1>4 DEF Work
  <2>2. \A v \in Workers \ {w} : work'[v] = work[v]
    BY <1>1, <1>4
  <2>3. work' = [v \in Workers |-> work'[v]]
    BY <1>1, <1>4
  <2> QED BY <1>1, <2>1, <2>2, <2>3 DEF ProceedsTo
<1>5. ASSUME NEW ledger,
             work' = [work EXCEPT ![w].ledger = ledger, ![w].pc = pc]
      PROVE  ProceedsTo(w, pc, ledger)
  <2>1. work'[w] = [pc |-> pc, set |-> work[w].set, ledger |-> ledger]
    BY <1>1, <1>5 DEF Work
  <2>2. \A v \in Workers \ {w} : work'[v] = work[v]
    BY <1>1, <1>5
  <2>3. work' = [v \in Workers |-> work'[v]]
    BY <1>1, <1>5
  <2> QED BY <1>1, <2>1, <2>2, <2>3 DEF ProceedsTo
<1> QED BY <1>3, <1>4, <1>5

\* A step in which a process goes on to pc keeps the invariant if what the
\* invariant says about a process at pc is true of it.
LEMMA GoesOn ==
    ASSUME DeliveryInv, NEW w \in Workers, work[w] # Idle,
           NEW pc \in Steps, NEW ledger \in {LedgerNo(g) : g \in 0 .. Last},
           ProceedsTo(w, pc, ledger),
           FilesKept, UNCHANGED <<checkpoint, lease, reader>>, SelectedInv',
           pc # "close" => work[w].set = checkpoint /\ generation < Last,
           pc = "apply" => generation > 1 /\ ledger = sink',
           pc \in Prepared \cup SinkTaken => ledger = LedgerNo(generation),
           pc \in Prepared => sink' = LedgerNo(generation - 1),
           pc \in Named => File("ledger", ledger) \in whole',
           pc \in SinkTaken => sink' = ledger,
           pc \in Archived => ArchiveNo(generation + 1) \in whole'
    PROVE  DeliveryInv'
<1> DEFINE next == [pc |-> pc, set |-> work[w].set, ledger |-> ledger]
<1>1. work[w] \in Work /\ lease = w /\ work = [v \in Workers |-> work[v]]
  BY WorkType
<1>2. next \in Work
  BY <1>1 DEF Work
<1>3. work' = [work EXCEPT ![w] = next] /\ work'[w] = next
  BY <1>1 DEF ProceedsTo
<1>4. generation' = generation /\ generation \in Generations
      /\ checkpoint' = SetNo(generation')
  BY DEF generation, DeliveryInv, DeliveryTypeOK
<1>5. WorkerInv(w)'
  BY <1>1, <1>3, <1>4 DEF WorkerInv, Stored, ArchiveNo
<1> HIDE DEF next
<1> QED BY <1>2, <1>3, <1>4, <1>5, OthersIdle, WorkerStep

\* open: the selected set is taken under the lock.
LEMMA OpenInv ==
    ASSUME DeliveryInv, NEW w \in Workers, open(w)
    PROVE  DeliveryInv'
<1> DEFINE next == [pc |-> IF Terminal(checkpoint) THEN "close"
                           ELSE "open_sink",
                    set |-> checkpoint, ledger |-> NoLedger]
<1>1. /\ generation \in Generations /\ checkpoint = SetNo(generation)
      /\ work \in [Workers -> {Idle} \cup Work]
  BY DEF DeliveryInv, DeliveryTypeOK
<1>2. LedgerNo(0) = NoLedger /\ 0 \in 0 .. Last
  BY DeliveryAssumption DEF LedgerNo, Last
<1>3. next \in Work
  BY <1>1, <1>2 DEF Work, Steps
<1>4. work' = [work EXCEPT ![w] = next] /\ work'[w] = next /\ lease' = w
  BY <1>1 DEF open
<1>5. FilesKept /\ UNCHANGED <<checkpoint, reader>> /\ UNCHANGED selectedVars
  BY DEF open, fileVars, selectedVars, FilesKept
<1>6. SelectedInv' /\ generation' = generation
  BY <1>5, SelectionKept
<1>7. next.pc # "close" => generation < Last
  <2>1. Terminal(checkpoint) <=> generation = Last
    BY <1>1, SetFacts
  <2> QED BY <1>1, <2>1, DeliveryAssumption DEF Generations, Last
<1>8. WorkerInv(w)'
  BY <1>4, <1>5, <1>6, <1>7
     DEF WorkerInv, Prepared, SinkTaken, Named, Archived
<1>9. \A v \in Workers \ {w} : work[v] = Idle
  BY OthersIdle DEF open
<1> HIDE DEF next
<1> QED BY <1>1, <1>3, <1>4, <1>5, <1>6, <1>8, <1>9, WorkerStep

\* The lock is given back, or lost with its process.
LEMMA CloseInv ==
    ASSUME DeliveryInv, NEW w \in Workers, close(w) \/ die(w)
    PROVE  DeliveryInv'
<1>1. work[w] # Idle /\ work' = [work EXCEPT ![w] = Idle]
      /\ UNCHANGED selectedVars /\ UNCHANGED fileVars /\ UNCHANGED reader
  BY DEF close, die, Idle
<1>2. FilesKept
  BY <1>1 DEF fileVars, FilesKept
<1>3. SelectedInv' /\ generation' = generation
  BY <1>1, <1>2, SelectionKept
<1>4. WorkerInv(w)'
  BY <1>1 DEF WorkerInv, DeliveryInv, DeliveryTypeOK
<1>5. generation \in Generations /\ checkpoint = SetNo(generation)
      /\ UNCHANGED checkpoint
  BY <1>1 DEF DeliveryInv, DeliveryTypeOK, selectedVars
<1> QED BY <1>1, <1>2, <1>3, <1>4, <1>5, OthersIdle, WorkerStep

\* createOrRecoverEmpty: the source looks at the place of the empty sink.
LEMMA CreateSinkInv ==
    ASSUME DeliveryInv, NEW w \in Workers, createOrRecoverEmpty(w)
    PROVE  DeliveryInv'
<1> DEFINE pc == CASE sink = NoLedger -> "ledger"
                   [] sink = Ledger(<<>>) -> "progress"
                   [] OTHER -> "close"
<1>1. work[w] # Idle /\ work[w].pc = "open_sink"
  BY DEF createOrRecoverEmpty, Idle
<1>2. /\ work[w].set = checkpoint /\ generation < Last
      /\ generation \in Generations
  BY <1>1 DEF DeliveryInv, DeliveryTypeOK, WorkInv, WorkerInv
<1>3. generation = 1
  BY <1>2 DEF createOrRecoverEmpty, generation
<1>4. LedgerNo(1) = Ledger(<<>>) /\ LedgerNo(0) = NoLedger /\ 1 \in 0 .. Last
      /\ Ledger(<<>>) # NoLedger
  BY DeliveryAssumption, LedgerFacts, UptoFacts DEF LedgerNo, Last
<1>5. sink \in {LedgerNo(0), LedgerNo(1)}
  BY <1>3 DEF DeliveryInv, SelectedInv
<1>6. \/ pc = "ledger" /\ sink = LedgerNo(0)
      \/ pc = "progress" /\ sink = LedgerNo(1)
  <2>1. CASE sink = NoLedger
    <3>1. sink # Ledger(<<>>)
      BY <1>4, <2>1
    <3>2. pc = "ledger"
      BY <2>1, <3>1
    <3> HIDE DEF pc
    <3> QED BY <1>4, <2>1, <3>2
  <2>2. CASE sink = Ledger(<<>>)
    BY <1>4, <2>2
  <2> QED BY <1>4, <1>5, <2>1, <2>2
<1>7. ProceedsTo(w, pc, Ledger(<<>>))
  BY <1>1, GoesAt DEF createOrRecoverEmpty
<1>8. FilesKept /\ UNCHANGED <<checkpoint, lease, reader>>
      /\ UNCHANGED selectedVars
  BY DEF createOrRecoverEmpty, fileVars, selectedVars, FilesKept
<1>9. SelectedInv'
  BY <1>8, SelectionKept
<1>10. pc \in {"ledger", "progress"} /\ pc \in Steps
       /\ pc \notin Named /\ pc \notin Archived
  BY <1>6 DEF Steps, Named, Archived
<1>11. /\ pc \in Prepared => sink' = LedgerNo(0)
       /\ pc \in SinkTaken => sink' = Ledger(<<>>)
  BY <1>4, <1>6, <1>8 DEF Prepared, SinkTaken, selectedVars
<1> HIDE DEF pc
<1> QED
  BY <1>1, <1>2, <1>3, <1>4, <1>7, <1>8, <1>9, <1>10, <1>11, GoesOn

\* open: the target looks at the selected ledger, which is there.
LEMMA OpenSinkInv ==
    ASSUME DeliveryInv, NEW w \in Workers, open_sink(w)
    PROVE  DeliveryInv'
<1> DEFINE pc == IF validateTargetSink(work[w].set) THEN "apply" ELSE "close"
<1>1. work[w] # Idle /\ work[w].pc = "open_sink"
  BY DEF open_sink, Idle
<1>2. work[w].set = checkpoint /\ generation < Last
  BY <1>1 DEF DeliveryInv, WorkInv, WorkerInv
<1>3. generation > 1 /\ generation \in Nat /\ generation <= Last
      /\ Last \in Nat
  BY <1>1, <1>2, WorkType DEF open_sink, generation
<1>4. sink \in {LedgerNo(g) : g \in 0 .. Last}
  <2>1. generation - 1 \in 0 .. Last /\ generation \in 0 .. Last
    BY <1>3
  <2> QED BY <2>1 DEF DeliveryInv, SelectedInv
<1>5. ProceedsTo(w, pc, sink)
  BY <1>1, GoesAt DEF open_sink
<1>6. FilesKept /\ UNCHANGED <<checkpoint, lease, reader>>
      /\ UNCHANGED selectedVars
  BY DEF open_sink, fileVars, selectedVars, FilesKept
<1>7. SelectedInv'
  BY <1>6, SelectionKept
<1>8. pc \in Steps /\ pc \notin Prepared \cup SinkTaken
      /\ pc \notin Named /\ pc \notin Archived /\ sink' = sink
  BY <1>6 DEF Steps, Prepared, SinkTaken, Named, Archived, selectedVars
<1> HIDE DEF pc
<1> QED
  BY <1>1, <1>2, <1>3, <1>4, <1>5, <1>6, <1>7, <1>8, GoesOn
     DEF Prepared, SinkTaken

\* prepareApply: the result of this generation is in the ledger, or is made
\* its next one.
LEMMA ApplyInv ==
    ASSUME DeliveryInv, NEW w \in Workers, prepareApply(w)
    PROVE  DeliveryInv'
<1> DEFINE acks == work[w].ledger.acknowledgements
           g == generation
<1>1. work[w] # Idle /\ work[w].pc = "apply"
  BY DEF prepareApply, Idle
<1>2. work[w].set = checkpoint /\ g < Last /\ g > 1 /\ work[w].ledger = sink
      /\ checkpoint = SetNo(g) /\ g \in Generations
  BY <1>1 DEF DeliveryInv, DeliveryTypeOK, WorkInv, WorkerInv
<1>3. g \in Nat /\ Last \in Nat /\ g - 1 \in 0 .. Last /\ g \in 0 .. Last
      /\ g - 1 > 0 /\ g > 0 /\ g - 2 \in Nat
  BY <1>1, <1>2, WorkType
<1>4. input_sequence(work[w].set) = g - 1
  BY <1>2, SetFacts
<1>5. FilesKept /\ UNCHANGED <<checkpoint, lease, reader>>
      /\ UNCHANGED selectedVars
  BY DEF prepareApply, fileVars, selectedVars, lockVars, FilesKept
<1>6. SelectedInv' /\ sink' = sink
  BY <1>5, SelectionKept DEF selectedVars
<1>7. sink \in {LedgerNo(g - 1), LedgerNo(g)}
  BY DEF DeliveryInv, SelectedInv
<1>8. LedgerNo(g) \in {LedgerNo(h) : h \in 0 .. Last}
  BY <1>3
<1>9. CASE sink = LedgerNo(g)
  <2>1. Len(acks) = g - 1
    BY <1>2, <1>3, <1>9, LedgerFacts
  <2>2. work' = At("progress", w)
    BY <1>3, <1>4, <2>1 DEF prepareApply
  <2>3. ProceedsTo(w, "progress", LedgerNo(g))
    BY <1>1, <1>2, <1>9, <2>2, GoesAt
  <2> HIDE DEF g
  <2> QED
    BY <1>1, <1>2, <1>5, <1>6, <1>8, <1>9, <2>3, GoesOn
       DEF Steps, Prepared, SinkTaken, Named, Archived, g
<1>10. CASE sink = LedgerNo(g - 1)
  <2>1. acks = Upto(g - 2) /\ Len(acks) = g - 2
    <3>1. g - 1 - 1 = g - 2
      BY <1>3
    <3> QED BY <1>2, <1>3, <1>10, <3>1, LedgerFacts
  <2>2. Append(acks, g - 1) = Upto(g - 1)
    <3>1. g - 2 + 1 = g - 1
      BY <1>3
    <3> QED BY <1>3, <2>1, <3>1, UptoFacts
  <2>3. work' = [work EXCEPT ![w].pc = "ledger",
                             ![w].ledger = Ledger(Append(acks, g - 1))]
    BY <1>3, <1>4, <2>1 DEF prepareApply
  <2>4. Ledger(Append(acks, g - 1)) = LedgerNo(g)
    <3>1. g # 0
      BY <1>3
    <3> QED BY <2>2, <3>1 DEF LedgerNo
  <2>5. ProceedsTo(w, "ledger", LedgerNo(g))
    BY <1>1, <2>3, <2>4, GoesAt
  <2> HIDE DEF g
  <2> QED
    BY <1>1, <1>2, <1>5, <1>6, <1>8, <1>10, <2>5, GoesOn
       DEF Steps, Prepared, SinkTaken, Named, Archived, g
<1> QED BY <1>7, <1>9, <1>10

\* publishLedgerV1: the ledger is complete before it has its name.
LEMMA LedgerInv ==
    ASSUME DeliveryInv, NEW w \in Workers, publishLedgerV1(w)
    PROVE  DeliveryInv'
<1> DEFINE ledger == work[w].ledger
           candidate == File("ledger_candidate", ledger)
           immutable == File("ledger", ledger)
<1>1. work[w] # Idle /\ work[w].pc \in Prepared \ Named
  BY DEF publishLedgerV1, Idle, Prepared, Named
<1>2. /\ work[w].set = checkpoint /\ generation < Last
      /\ ledger = LedgerNo(generation) /\ sink = LedgerNo(generation - 1)
  BY <1>1 DEF DeliveryInv, WorkInv, WorkerInv, Prepared, Named
<1>3. ledger \in {LedgerNo(g) : g \in 0 .. Last}
  BY <1>1, WorkType DEF Work
<1>4. UNCHANGED <<checkpoint, lease, reader>> /\ UNCHANGED selectedVars
      /\ sink' = sink
  BY DEF publishLedgerV1, selectedVars, lockVars
<1>5. candidate.kind \notin {"archive", "ledger"}
  BY DEF File
<1>6. \E pc \in Prepared :
        /\ work' = At(pc, w) /\ FilesKept
        /\ pc \in Named => immutable \in whole'
  <2>1. CASE immutable \in whole /\ work' = At("selector", w)
             /\ UNCHANGED fileVars
    BY <2>1 DEF fileVars, FilesKept, Prepared
  <2>2. CASE Create(candidate) /\ work' = At("ledger_write", w)
    BY <1>5, <2>2, CreateKeeps DEF Prepared, Named
  <2>3. CASE Write(candidate) /\ work' = At("ledger_rename", w)
    BY <2>3, WriteKeeps DEF Prepared, Named
  <2>4. CASE Rename(candidate, {immutable}) /\ work' = At("selector", w)
    BY <1>5, <2>4, RenameKeeps DEF Prepared
  <2> QED BY <2>1, <2>2, <2>3, <2>4 DEF publishLedgerV1
<1>7. PICK pc \in Prepared :
        /\ work' = At(pc, w) /\ FilesKept
        /\ pc \in Named => immutable \in whole'
  BY <1>6
<1>8. ProceedsTo(w, pc, ledger) /\ SelectedInv'
  BY <1>1, <1>4, <1>7, GoesAt, SelectionKept
<1>9. pc \in Steps /\ pc \notin SinkTaken /\ pc \notin Archived
      /\ pc \notin {"close", "apply"}
  BY DEF Prepared, Steps, SinkTaken, Archived
<1> HIDE DEF ledger
<1> QED BY <1>1, <1>2, <1>3, <1>4, <1>7, <1>8, <1>9, GoesOn

\* publishSelectorV1: the sink moves to the ledger of this generation.
LEMMA SelectorInv ==
    ASSUME DeliveryInv, NEW w \in Workers, publishSelectorV1(w)
    PROVE  DeliveryInv'
<1> DEFINE ledger == work[w].ledger
           candidate == File("selector_candidate", ledger)
<1>1. work[w] # Idle /\ work[w].pc \in Named
  BY DEF publishSelectorV1, Idle, Named
<1>2. /\ work[w].set = checkpoint /\ generation < Last
      /\ ledger = LedgerNo(generation) /\ sink = LedgerNo(generation - 1)
      /\ Stored(ledger)
  BY <1>1 DEF DeliveryInv, WorkInv, WorkerInv, Prepared, Named
<1>3. ledger \in {LedgerNo(g) : g \in 0 .. Last}
  BY <1>1, WorkType DEF Work
<1>4. UNCHANGED <<checkpoint, lease, reader>> /\ generation' = generation
  BY DEF publishSelectorV1, lockVars, generation
<1>5. candidate.kind \notin {"archive", "ledger"}
  BY DEF File
<1>6. FilesKept
  <2>1. Create(candidate) \/ Write(candidate) \/ Rename(candidate, {})
    BY DEF publishSelectorV1
  <2> QED BY <1>5, <2>1, CreateKeeps, WriteKeeps, RenameKeeps
<1>7. File("ledger", ledger) \in whole'
  BY <1>2, <1>6 DEF FilesKept, Stored
<1>8. CASE sink' = sink /\ \E pc \in Named : work' = At(pc, w)
  <2>1. PICK pc \in Named : work' = At(pc, w)
    BY <1>8
  <2>2. ProceedsTo(w, pc, ledger) /\ SelectedInv'
    BY <1>1, <1>4, <1>6, <1>8, <2>1, GoesAt, SelectionKept DEF selectedVars
  <2>3. pc \in Steps /\ pc \notin SinkTaken /\ pc \notin Archived
        /\ pc \notin {"close", "apply"}
    BY DEF Named, Steps, SinkTaken, Archived
  <2> HIDE DEF ledger
  <2> QED BY <1>1, <1>2, <1>3, <1>4, <1>6, <1>7, <1>8, <2>2, <2>3, GoesOn
<1>9. CASE sink' = ledger /\ work' = At("progress", w)
  <2>1. generation # Last
    BY <1>1, <1>2, WorkType
  <2>2. SelectedInv'
    BY <1>2, <1>4, <1>6, <1>7, <1>9, <2>1
       DEF SelectedInv, DeliveryInv, FilesKept, ArchiveNo, Stored
  <2>3. ProceedsTo(w, "progress", ledger)
    BY <1>1, <1>9, GoesAt
  <2>4. "progress" \in Steps /\ "progress" \notin Prepared
        /\ "progress" \notin Named /\ "progress" \notin Archived
    BY DEF Steps, Prepared, Named, Archived
  <2> HIDE DEF ledger
  <2> QED BY <1>1, <1>2, <1>3, <1>4, <1>6, <1>7, <1>9, <2>2, <2>3,
              <2>4, GoesOn
<1> QED BY <1>8, <1>9 DEF publishSelectorV1, Named

\* recoverV1: the archive of the next set is complete before it is selected.
LEMMA RecoverInv ==
    ASSUME DeliveryInv, NEW w \in Workers, recoverV1(w)
    PROVE  DeliveryInv'
<1> DEFINE g == generation
           ledger == work[w].ledger
           archive == ArchiveNo(g + 1)
           candidate == File("set_candidate", SetNo(g + 1))
<1>1. work[w] # Idle /\ work[w].pc \in SinkTaken
  BY DEF recoverV1, ensureExactFileV1, Idle, SinkTaken
<1>2. /\ work[w].set = checkpoint /\ g < Last /\ ledger = LedgerNo(g)
      /\ sink = ledger /\ checkpoint = SetNo(g)
      /\ (work[w].pc \in Archived => archive \in whole)
  BY <1>1
     DEF DeliveryInv, DeliveryTypeOK, WorkInv, WorkerInv, SinkTaken, Archived
<1>3. g \in Nat /\ 1 <= g /\ g <= Last /\ Last \in Nat /\ g + 1 \in Generations
      /\ g \in 0 .. Last /\ g > 0 /\ g \in Generations /\ g - 1 \in Nat
  <2>1. g \in Nat /\ 1 <= g /\ Last \in Nat
    BY <1>1, WorkType
  <2> QED BY <1>2, <2>1 DEF Generations
<1>4. next_set(w) = SetNo(g + 1)
  <2>1. ledger.acknowledgements = Upto(g - 1)
    BY <1>2, <1>3, LedgerFacts
  <2>2. work[w].set.generation = g /\ input_sequence(work[w].set)
          = IF g = 1 THEN 1 ELSE g - 1
    BY <1>2, <1>3, SetFacts
  <2>3. CASE g = 1
    BY <2>2, <2>3, UptoFacts DEF next_set, SetNo
  <2>4. CASE g # 1
    <3>1. SubSeq(Upto(g - 1), 1, g - 1) = Upto(g - 1)
      <4>1. g - 1 \in 0 .. (g - 1)
        BY <1>3
      <4> QED BY <1>3, <4>1, UptoFacts
    <3>2. g + 1 # 1 /\ (g + 1) - 2 = g - 1
      BY <1>3
    <3> QED BY <2>1, <2>2, <2>4, <3>1, <3>2 DEF next_set, SetNo
  <2> QED BY <2>3, <2>4
<1>5. ledger \in {LedgerNo(h) : h \in 0 .. Last}
  BY <1>2, <1>3
<1>6. candidate.kind \notin {"archive", "ledger"} /\ archive.kind = "archive"
  BY DEF File, ArchiveNo
<1>7. UNCHANGED <<lease, sink, reader>>
  BY DEF recoverV1, lockVars
<1>8. CASE UNCHANGED checkpoint /\
           ( \/ ensureExactFileV1(w, archive, "progress", "archive_write",
                                  "candidate")
             \/ ensureExactFileV1(w, candidate, "candidate",
                                  "candidate_write", "select") )
  <2>1. \E pc \in SinkTaken : /\ work' = At(pc, w) /\ FilesKept
                              /\ pc \in Archived => archive \in whole'
    <3>1. CASE Create(archive) /\ archive \notin whole
               /\ work' = At("archive_write", w)
      BY <3>1, CreateKeeps DEF SinkTaken, Archived
    <3>2. CASE archive \in whole /\ UNCHANGED fileVars
               /\ work' = At("candidate", w)
      BY <3>2 DEF SinkTaken, fileVars, FilesKept
    <3>3. CASE Write(archive) /\ work' = At("candidate", w)
      BY <3>3, WriteKeeps DEF SinkTaken
    <3>4. CASE \/ work[w].pc = "candidate" /\ Create(candidate)
                  /\ work' = At("candidate_write", w)
               \/ work[w].pc = "candidate" /\ UNCHANGED fileVars
                  /\ work' = At("select", w)
               \/ work[w].pc = "candidate_write" /\ Write(candidate)
                  /\ work' = At("select", w)
      <4>1. archive \in whole
        BY <1>2, <3>4 DEF Archived
      <4>2. FilesKept
        BY <1>6, <3>4, CreateKeeps, WriteKeeps DEF fileVars, FilesKept
      <4>3. archive \in whole'
        BY <4>1, <4>2 DEF FilesKept, ArchiveNo
      <4> HIDE DEF archive, candidate
      <4> QED BY <3>4, <4>2, <4>3 DEF SinkTaken
    <3> HIDE DEF archive, candidate
    <3> QED BY <1>8, <3>1, <3>2, <3>3, <3>4 DEF ensureExactFileV1
  <2>2. PICK pc \in SinkTaken : /\ work' = At(pc, w) /\ FilesKept
                                /\ pc \in Archived => archive \in whole'
    BY <2>1
  <2>3. ProceedsTo(w, pc, ledger) /\ SelectedInv'
    BY <1>1, <1>7, <1>8, <2>2, GoesAt, SelectionKept DEF selectedVars
  <2>4. pc \in Steps /\ pc \notin Prepared /\ pc \notin Named
        /\ pc \notin {"close", "apply"}
    BY DEF SinkTaken, Steps, Prepared, Named
  <2> HIDE DEF ledger
  <2> QED BY <1>1, <1>2, <1>5, <1>7, <1>8, <2>2, <2>3, <2>4, GoesOn
<1>9. CASE work[w].pc = "select" /\ Rename(candidate, {})
           /\ checkpoint' = SetNo(g + 1) /\ work' = At("close", w)
  <2>1. FilesKept
    BY <1>6, <1>9, RenameKeeps
  <2>2. generation' = g + 1 /\ generation' > g /\ generation' \in Generations
        /\ checkpoint' = SetNo(generation')
    BY <1>3, <1>9, SetFacts DEF generation
  <2>3. archive \in whole /\ archive \in whole'
    BY <1>2, <1>9, <2>1 DEF Archived, FilesKept, ArchiveNo
  <2>4. SelectedInv'
    <3>1. sink' = LedgerNo(generation' - 1)
      <4>1. generation' - 1 = g
        BY <1>3, <2>2
      <4> QED BY <1>2, <1>7, <4>1
    <3>2. Stored(sink)'
      <4>1. Stored(sink)
        BY <1>2, <1>3, LedgerFacts DEF DeliveryInv, SelectedInv
      <4> QED BY <1>7, <2>1, <4>1 DEF Stored, FilesKept
    <3>3. ASSUME NEW h \in 1 .. generation' PROVE ArchiveNo(h) \in whole'
      <4>1. CASE h = g + 1
        BY <2>3, <4>1
      <4>2. CASE h # g + 1
        <5>1. h \in 1 .. g
          BY <1>3, <2>2, <4>2
        <5>2. ArchiveNo(h) \in whole
          BY <5>1 DEF DeliveryInv, SelectedInv
        <5> QED BY <2>1, <5>2 DEF FilesKept, ArchiveNo
      <4> QED BY <4>1, <4>2
    <3> QED BY <3>1, <3>2, <3>3 DEF SelectedInv, ArchiveNo
  <2>5. ProceedsTo(w, "close", ledger)
    BY <1>1, <1>9, GoesAt
  <2>6. WorkerInv(w)' /\ [pc |-> "close", set |-> work[w].set,
                          ledger |-> ledger] \in Work
    <3>1. work[w] \in Work /\ lease = w
      BY <1>1, WorkType
    <3>2. work'[w].pc = "close"
      BY <2>5 DEF ProceedsTo, DeliveryInv, DeliveryTypeOK
    <3> QED
      BY <1>7, <3>1, <3>2
         DEF WorkerInv, Work, Steps, Prepared, SinkTaken, Named, Archived
  <2> HIDE DEF g
  <2> QED
    BY <1>1, <1>7, <2>1, <2>2, <2>4, <2>5, <2>6, OthersIdle, WorkerStep
       DEF ProceedsTo, g
<1> QED BY <1>4, <1>8, <1>9 DEF recoverV1, ArchiveNo

-----------------------------------------------------------------------------
(* Steps of a reader.                                                      *)

\* A selected pair of a checkpoint and a ledger is one that the reader
\* accepts (reconcileV1).
LEMMA SelectedReconciles ==
    ASSUME DeliveryInv, generation > 1
    PROVE  Reconciled(checkpoint, sink.acknowledgements)
<1> DEFINE g == generation
           acks == sink.acknowledgements
           taken == checkpoint.acknowledged
<1>1. g \in Generations /\ checkpoint = SetNo(g)
      /\ sink \in {LedgerNo(g - 1), LedgerNo(g)}
      /\ (g = Last => sink = LedgerNo(g - 1))
  BY DEF DeliveryInv, DeliveryTypeOK, SelectedInv
<1>2. g \in Nat /\ g > 1 /\ g <= Last /\ Last \in Nat /\ g - 2 \in Nat
      /\ g - 1 \in Nat /\ g - 1 \in 0 .. Last /\ g \in 0 .. Last
  BY <1>1, DeliveryAssumption DEF Generations, Last
<1>3. taken = Upto(g - 2) /\ Len(taken) = g - 2
      /\ (Terminal(checkpoint) <=> g = Last)
  BY <1>1, <1>2, SetFacts
<1>4. PICK n \in {g - 2, g - 1} : acks = Upto(n) /\ (g = Last => n = g - 2)
  <2>1. CASE sink = LedgerNo(g - 1)
    <3>1. g - 1 > 0 /\ g - 1 - 1 = g - 2
      BY <1>2
    <3> QED BY <1>2, <2>1, <3>1, LedgerFacts
  <2>2. CASE sink = LedgerNo(g) /\ g # Last
    <3>1. g > 0
      BY <1>2
    <3> QED BY <1>2, <2>2, <3>1, LedgerFacts
  <2> QED BY <1>1, <2>1, <2>2
<1>5. n \in Nat /\ g - 2 \in 0 .. n
  BY <1>2
<1>6. Len(acks) = n /\ SubSeq(acks, 1, g - 2) = Upto(g - 2)
  BY <1>4, <1>5, UptoFacts
<1>7. Len(acks) - Len(taken) \in (IF Terminal(checkpoint) THEN {0} ELSE {0, 1})
  <2>1. Len(acks) - Len(taken) = n - (g - 2)
    BY <1>3, <1>6
  <2>2. n - (g - 2) \in {0, 1} /\ (g = Last => n - (g - 2) = 0)
    BY <1>2, <1>4
  <2> QED BY <1>3, <2>1, <2>2
<1>8. acks = [i \in 1..Len(acks) |-> i]
  BY <1>4, <1>6 DEF Upto
<1> HIDE DEF acks, taken
<1> QED BY <1>3, <1>6, <1>7, <1>8 DEF Reconciled, acks, taken

\* A reader may stop at a file only if it is not there: both archives of a
\* set that was selected are.
LEMMA SelectedRetained ==
    ASSUME DeliveryInv, NEW set \in {SetNo(g) : g \in Generations},
           set.generation <= generation
    PROVE  Retained(set) /\ set = SetNo(set.generation)
           /\ set.generation \in Nat
<1>1. PICK h \in Generations : set = SetNo(h)
  OBVIOUS
<1>2. h \in Nat /\ 1 <= h /\ set.generation = h /\ h <= generation
  BY <1>1, SetFacts DEF Generations
<1>3. generation \in Nat
  BY DEF DeliveryInv, DeliveryTypeOK, Generations
<1>4. h \in 1 .. generation /\ (h > 1 => h - 1 \in 1 .. generation)
  BY <1>2, <1>3
<1>5. ArchiveNo(h) \in whole /\ (h > 1 => ArchiveNo(h - 1) \in whole)
  BY <1>4 DEF DeliveryInv, SelectedInv
<1>6. h > 1 => predecessor(set) = SetNo(h - 1)
  BY <1>1, SetFacts
<1> QED BY <1>1, <1>2, <1>5, <1>6 DEF Retained, ArchiveNo

\* What a step of a reader leaves behind is true of it.
LEMMA ReadInv ==
    ASSUME DeliveryInv, NEW r \in Readers, inspectDirectoryV1(r)
    PROVE  ReaderInvAt(r)'
<1>1. /\ generation \in Generations /\ checkpoint = SetNo(generation)
      /\ DOMAIN reader = Readers /\ ReaderInvAt(r)
  BY DEF DeliveryInv, DeliveryTypeOK, ReaderInv
<1>2. generation \in Nat /\ 1 <= generation /\ generation <= Last
      /\ Last \in Nat
  BY <1>1, DeliveryAssumption DEF Generations, Last
<1>3. UNCHANGED <<checkpoint, sink, whole>> /\ generation' = generation
  BY DEF inspectDirectoryV1, read_checkpoint, readSelectedSet, read_sink,
         readSelectedLedger, recheck_checkpoint, recheck_sink, finish,
         writerVars, selectedVars, fileVars, generation
<1>4. ASSUME NEW next, Reading(r, next) PROVE reader'[r] = next
  BY <1>1, <1>4 DEF Reading
<1>5. ASSUME NEW pc \in Reads, Goes(r, pc), reader[r] \in Read
      PROVE  /\ reader'[r] \in Read /\ reader'[r].pc = pc
             /\ reader'[r].set = reader[r].set
             /\ reader'[r].ledger = reader[r].ledger
             /\ reader'[r].together = reader[r].together
  <2>1. reader'[r] = [reader[r] EXCEPT !.pc = pc]
    BY <1>4, <1>5 DEF Goes
  <2> QED BY <1>5, <2>1 DEF Read
<1>6. 0 \in 0 .. Last /\ LedgerNo(0) = NoLedger
  BY <1>2 DEF LedgerNo
<1>7. CASE read_checkpoint(r)
  <2>1. reader'[r] = [pc |-> "set", set |-> checkpoint, ledger |-> NoLedger,
                      together |-> FALSE]
    BY <1>4, <1>7 DEF read_checkpoint
  <2>2. reader'[r] \in Read
    BY <1>1, <1>6, <2>1 DEF Read, Reads
  <2>3. reader'[r].set.generation <= generation
    BY <1>2, <2>1 DEF generation
  <2> QED BY <1>3, <2>1, <2>2, <2>3 DEF ReaderInvAt, Reads
<1>8. CASE readSelectedSet(r)
  <2> DEFINE set == reader[r].set
             pc == CASE checkpoint # set -> "changed"
                     [] set.generation < 2 -> "unsupported"
                     [] ~Retained(set) -> "missing"
                     [] OTHER -> "sink"
  <2>1. reader[r].pc = "set" /\ Goes(r, pc)
    BY <1>8 DEF readSelectedSet
  <2>2. reader[r] \in Read /\ set.generation <= generation
    BY <1>1, <2>1 DEF ReaderInvAt
  <2>3. Retained(set) /\ set.generation \in Nat
    BY <2>2, SelectedRetained DEF Read
  <2>4. pc \in {"changed", "unsupported", "sink"}
        /\ (pc = "sink" => set.generation > 1)
    BY <2>3
  <2> HIDE DEF pc
  <2>5. pc \in Reads
    BY <2>4 DEF Reads
  <2> QED BY <1>3, <1>5, <2>1, <2>2, <2>4, <2>5 DEF ReaderInvAt, Reads
<1>9. CASE read_sink(r)
  <2>1. reader[r].pc = "sink"
    BY <1>9 DEF read_sink
  <2>2. reader[r] \in Read /\ reader[r].set.generation <= generation
        /\ reader[r].set.generation > 1 /\ reader[r].set.generation \in Nat
    BY <1>1, <2>1, SelectedRetained DEF ReaderInvAt, Read
  <2>3. generation - 1 \in 0 .. Last /\ generation \in 0 .. Last
        /\ generation - 1 # 0 /\ generation # 0
    BY <1>2, <2>2
  <2>4. sink # NoLedger /\ sink \in {LedgerNo(g) : g \in 0 .. Last}
    BY <2>3, LedgerFacts DEF DeliveryInv, SelectedInv
  <2>5. Stored(sink)
    BY <2>4 DEF DeliveryInv, SelectedInv
  <2>6. reader'[r] = [reader[r] EXCEPT !.pc = "ledger", !.ledger = sink]
    BY <1>4, <1>9, <2>4 DEF read_sink
  <2>7. /\ reader'[r] \in Read /\ reader'[r].pc = "ledger"
        /\ reader'[r].set = reader[r].set /\ reader'[r].ledger = sink
    BY <2>2, <2>4, <2>6 DEF Read, Reads
  <2> QED BY <1>3, <2>2, <2>5, <2>7 DEF ReaderInvAt, Reads, Stored
<1>10. CASE readSelectedLedger(r)
  <2> DEFINE set == reader[r].set
             ledger == reader[r].ledger
             pc == CASE File("ledger", ledger) \notin whole -> "missing"
                     [] sink # ledger -> "changed"
                     [] Reconciled(set, ledger.acknowledgements)
                          -> "recheck_set"
                     [] OTHER -> "invalid"
             together == checkpoint = set
  <2>1. reader[r].pc = "ledger"
    BY <1>10 DEF readSelectedLedger
  <2>2. reader[r] \in Read /\ set.generation <= generation
        /\ set.generation > 1 /\ set.generation \in Nat /\ Stored(ledger)
    BY <1>1, <2>1, SelectedRetained DEF ReaderInvAt, Read
  <2>3. generation > 1
    BY <1>2, <2>2
  <2>4. pc \in {"changed", "recheck_set", "invalid"}
    BY <2>2 DEF Stored
  <2>5. pc = "invalid" => checkpoint # set
    BY <2>3, SelectedReconciles
  <2>6. reader'[r] = [reader[r] EXCEPT !.together = together, !.pc = pc]
    BY <1>4, <1>10 DEF readSelectedLedger
  <2>7. pc \in Reads /\ together \in BOOLEAN
    BY <2>4 DEF Reads
  <2> HIDE DEF pc
  <2>8. /\ reader'[r] \in Read /\ reader'[r].pc = pc
        /\ reader'[r].set = set
    BY <2>2, <2>6, <2>7 DEF Read
  <2>9. reader'[r].together <=> checkpoint = set
    BY <2>2, <2>6 DEF Read
  <2> QED
    BY <1>3, <2>2, <2>4, <2>5, <2>7, <2>8, <2>9 DEF ReaderInvAt, Reads
<1>11. CASE recheck_checkpoint(r) \/ recheck_sink(r)
  <2>1. reader[r].pc \in {"recheck_set", "recheck_sink"}
    BY <1>11 DEF recheck_checkpoint, recheck_sink
  <2>2. reader[r] \in Read /\ reader[r].set.generation <= generation
    BY <1>1, <2>1 DEF ReaderInvAt
  <2>3. PICK pc \in {"recheck_sink", "view", "changed"} :
          /\ Goes(r, pc)
          /\ pc = "recheck_sink" => checkpoint = reader[r].set
                                    /\ reader[r].pc = "recheck_set"
          /\ pc = "view" => reader[r].pc = "recheck_sink"
    BY <1>11 DEF recheck_checkpoint, recheck_sink
  <2>4. pc # "changed" => reader[r].together
    BY <1>1, <2>3 DEF ReaderInvAt
  <2>5. pc \in Reads
    BY DEF Reads
  <2> QED BY <1>3, <1>5, <2>2, <2>3, <2>4, <2>5 DEF ReaderInvAt, Reads
<1>12. CASE finish(r)
  BY <1>4, <1>12 DEF finish, ReaderInvAt, Idle, Reads
<1> QED
  BY <1>7, <1>8, <1>9, <1>10, <1>11, <1>12 DEF inspectDirectoryV1

\* A reader changes nothing, and nothing that is true of another reader.
LEMMA ReaderStep ==
    ASSUME DeliveryInv, NEW r \in Readers, inspectDirectoryV1(r)
    PROVE  DeliveryInv'
<1>1. writerVars' = writerVars /\ \E next : Reading(r, next)
  BY DEF inspectDirectoryV1, read_checkpoint, readSelectedSet, read_sink,
         readSelectedLedger, recheck_checkpoint, recheck_sink, finish, Goes
<1>2. DOMAIN reader' = Readers
      /\ \A q \in Readers \ {r} : reader'[q] = reader[q]
  BY <1>1 DEF Reading, DeliveryInv, DeliveryTypeOK
<1>3. DeliveryTypeOK' /\ SelectedInv' /\ WorkInv'
  BY <1>1, <1>2
     DEF DeliveryInv, DeliveryTypeOK, SelectedInv, WorkInv, WorkerInv,
         writerVars, selectedVars, fileVars, lockVars, generation, Stored,
         ArchiveNo
<1>4. ASSUME NEW q \in Readers \ {r} PROVE ReaderInvAt(q)'
  BY <1>1, <1>2
     DEF DeliveryInv, ReaderInv, ReaderInvAt, writerVars, selectedVars,
         fileVars, generation, Stored
<1> QED BY <1>3, <1>4, ReadInv DEF DeliveryInv, ReaderInv

-----------------------------------------------------------------------------
(* The invariant.                                                          *)

\* Generation one and an absent sink satisfy it.
LEMMA InitDelivery == DeliveryInit => DeliveryInv
<1> SUFFICES ASSUME DeliveryInit PROVE DeliveryInv
  OBVIOUS
<1>1. 1 \in Generations /\ 1 # Last
  BY DeliveryAssumption DEF Generations, Last
<1>2. SetNo(1) = Set(1, <<>>) /\ LedgerNo(1 - 1) = NoLedger
  BY UptoFacts DEF SetNo, LedgerNo
<1>3. generation = 1 /\ checkpoint = SetNo(1)
  BY <1>2 DEF DeliveryInit, generation, Set
<1>4. DeliveryTypeOK
  BY <1>1, <1>3 DEF DeliveryInit, DeliveryTypeOK
<1>5. SelectedInv
  <2>1. \A g \in 1 .. generation : g = 1
    BY <1>3
  <2> QED
    BY <1>1, <1>2, <1>3, <2>1 DEF DeliveryInit, SelectedInv, ArchiveNo
<1>6. WorkInv /\ ReaderInv
  BY DEF DeliveryInit, WorkInv, WorkerInv, ReaderInv, ReaderInvAt, Idle, Reads
<1> QED BY <1>4, <1>5, <1>6 DEF DeliveryInv

\* Every step of every process and every reader keeps it.
LEMMA NextDelivery == DeliveryInv /\ [DeliveryNext]_deliveryVars => DeliveryInv'
<1> SUFFICES ASSUME DeliveryInv, [DeliveryNext]_deliveryVars
             PROVE  DeliveryInv'
  OBVIOUS
<1>1. ASSUME NEW w \in Workers, open(w) \/ Continue(w) \/ die(w)
      PROVE  DeliveryInv'
  BY <1>1, OpenInv, CreateSinkInv, OpenSinkInv, ApplyInv, LedgerInv,
     SelectorInv, RecoverInv, CloseInv DEF Continue
<1>2. ASSUME NEW r \in Readers, inspectDirectoryV1(r) PROVE DeliveryInv'
  BY <1>2, ReaderStep
<1>3. CASE UNCHANGED deliveryVars
  BY <1>3
     DEF deliveryVars, DeliveryInv, DeliveryTypeOK, SelectedInv, WorkInv,
         WorkerInv, ReaderInv, ReaderInvAt, generation, Stored, ArchiveNo
<1> QED BY <1>1, <1>2, <1>3 DEF DeliveryNext

\* DeliveryInv holds in every reachable state.
LEMMA DeliveryInvariance == DeliverySpec => []DeliveryInv
BY InitDelivery, NextDelivery, PTL DEF DeliverySpec

\* A reader without a lock misses no file its selectors name, finds a
\* contradiction only after the checkpoint has moved, and shows only what
\* was selected at one moment (inspectDirectoryV1), wherever writers are
\* killed.
THEOREM ReadersBlameOnlyRaces == DeliverySpec => []ReaderBlamesOnlyRaces
<1>1. DeliveryInv => ReaderBlamesOnlyRaces
  BY DEF DeliveryInv, ReaderInv, ReaderInvAt, ReaderBlamesOnlyRaces
<1> QED BY <1>1, DeliveryInvariance, PTL

-----------------------------------------------------------------------------
(* The steps of TextDelivered.                                             *)

\* What the sink has delivered, and what the checkpoint has acknowledged.
sinkDelivered == IF sink = NoLedger THEN <<>> ELSE sink.acknowledgements
setAcknowledged == Len(checkpoint.acknowledged)

\* The sink's selector moves by one result that the checkpoint awaits, or
\* from an absent sink to an empty one.
LEMMA SelectorDelivers ==
    ASSUME DeliveryInv, NEW w \in Workers, publishSelectorV1(w)
    PROVE  Delivered!Deliver \/ UNCHANGED <<sinkDelivered, setAcknowledged>>
<1>1. UNCHANGED checkpoint
  BY DEF publishSelectorV1
<1>2. CASE UNCHANGED sink
  BY <1>1, <1>2 DEF sinkDelivered, setAcknowledged
<1>3. CASE sink' = work[w].ledger
  <2> DEFINE g == generation
  <2>1. work[w] # Idle /\ work[w].pc \in Named
    BY DEF publishSelectorV1, Idle, Named
  <2>2. /\ g < Last /\ sink' = LedgerNo(g) /\ sink = LedgerNo(g - 1)
        /\ checkpoint = SetNo(g) /\ g \in Generations
    BY <1>3, <2>1
       DEF DeliveryInv, DeliveryTypeOK, WorkInv, WorkerInv, Prepared, Named
  <2>3. g \in Nat /\ 1 <= g /\ Last \in Nat /\ Last = Results + 2
        /\ g \in 0 .. Last /\ g - 1 \in 0 .. Last /\ Results \in Nat
    BY <2>1, <2>2, WorkType, DeliveryAssumption DEF Last
  <2>4. sinkDelivered' = Upto(g - 1)
    <3>1. sink' # NoLedger /\ sink'.acknowledgements = Upto(g - 1)
      BY <2>2, <2>3, LedgerFacts
    <3> QED BY <3>1 DEF sinkDelivered
  <2>5. CASE g = 1
    <3>1. sink = NoLedger
      BY <2>2, <2>5 DEF LedgerNo
    <3>2. Upto(g - 1) = <<>>
      BY <2>5, UptoFacts
    <3> HIDE DEF g
    <3> QED BY <1>1, <2>4, <3>1, <3>2 DEF sinkDelivered, setAcknowledged
  <2>6. CASE g # 1
    <3>1. g - 1 > 0 /\ g - 1 - 1 = g - 2 /\ g - 2 \in Nat /\ g - 2 < Results
          /\ g - 2 + 1 = g - 1
      BY <2>2, <2>3, <2>6
    <3>2. sinkDelivered = Upto(g - 2)
      <4>1. sink # NoLedger /\ sink.acknowledgements = Upto(g - 2)
        BY <2>2, <2>3, <3>1, LedgerFacts
      <4> QED BY <4>1 DEF sinkDelivered
    <3>3. setAcknowledged = g - 2 /\ setAcknowledged' = setAcknowledged
      BY <1>1, <2>2, <2>6, SetFacts DEF setAcknowledged
    <3>4. Append(sinkDelivered, setAcknowledged + 1) = Upto(g - 1)
          /\ Len(sinkDelivered) = setAcknowledged
      BY <3>1, <3>2, <3>3, UptoFacts
    <3>5. setAcknowledged < Results
      BY <3>1, <3>3
    <3> QED
      BY <2>4, <3>3, <3>4, <3>5
         DEF Delivered!Deliver, sinkDelivered, setAcknowledged
  <2> QED BY <2>5, <2>6
<1> QED BY <1>2, <1>3 DEF publishSelectorV1

\* The checkpoint's selector moves by the result that the sink has taken, or
\* passes from the source to the target.
LEMMA RecoverAcknowledges ==
    ASSUME DeliveryInv, DeliveryInv', NEW w \in Workers, recoverV1(w)
    PROVE  Delivered!Acknowledge
             \/ UNCHANGED <<sinkDelivered, setAcknowledged>>
<1>1. UNCHANGED sink
  BY DEF recoverV1
<1>2. CASE UNCHANGED checkpoint
  BY <1>1, <1>2 DEF sinkDelivered, setAcknowledged
<1>3. CASE work[w].pc = "select" /\ checkpoint' = next_set(w)
  <2> DEFINE g == generation
  <2>1. work[w] # Idle
    BY <1>3 DEF Idle
  <2>2. /\ g < Last /\ sink = LedgerNo(g) /\ work[w].set = checkpoint
        /\ checkpoint = SetNo(g) /\ g \in Generations
        /\ checkpoint' = SetNo(generation') /\ generation' \in Generations
    BY <1>3, <2>1
       DEF DeliveryInv, DeliveryTypeOK, WorkInv, WorkerInv, SinkTaken
  <2>3. generation' = g + 1
    BY <1>3, <2>2 DEF next_set, generation, Set
  <2>4. g \in Nat /\ 1 <= g /\ g \in 0 .. Last /\ g > 0
    BY <2>1, <2>2, WorkType
  <2>5. setAcknowledged = (IF g = 1 THEN 0 ELSE g - 2)
        /\ setAcknowledged' = g - 1
    <3>1. setAcknowledged' = IF g + 1 = 1 THEN 0 ELSE (g + 1) - 2
      BY <2>2, <2>3, SetFacts DEF setAcknowledged
    <3> QED BY <2>2, <2>4, <3>1, SetFacts DEF setAcknowledged
  <2>6. Len(sinkDelivered) = g - 1
    BY <2>2, <2>4, LedgerFacts DEF sinkDelivered
  <2>7. sinkDelivered' = sinkDelivered
    BY <1>1 DEF sinkDelivered
  <2>8. CASE g = 1
    BY <2>5, <2>7, <2>8
  <2>9. CASE g # 1
    <3>1. Len(sinkDelivered) = setAcknowledged + 1
      BY <2>4, <2>5, <2>6, <2>9
    <3> QED
      BY <2>5, <2>6, <2>7, <3>1
         DEF Delivered!Acknowledge, sinkDelivered, setAcknowledged
  <2> QED BY <2>8, <2>9
<1> QED BY <1>2, <1>3 DEF recoverV1

\* Whatever is killed, every result is delivered in its order and once, and
\* none before its predecessor is acknowledged: the sink and the checkpoint
\* take the steps of TextDelivered (advanceSourceFileV1 and
\* advanceTargetFileV1).
THEOREM DeliversInOrder == DeliverySpec => Delivered!DeliveredSafely
<1>1. DeliveryInit => Delivered!DeliveredInit
  BY DEF DeliveryInit, Delivered!DeliveredInit, Set
<1>2. DeliveryInv /\ DeliveryInv' /\ [DeliveryNext]_deliveryVars =>
        [Delivered!DeliveredNext]_(Delivered!deliveredVars)
  <2> SUFFICES ASSUME DeliveryInv, DeliveryInv', [DeliveryNext]_deliveryVars
               PROVE  \/ Delivered!Deliver \/ Delivered!Acknowledge
                      \/ UNCHANGED <<sinkDelivered, setAcknowledged>>
    BY DEF Delivered!DeliveredNext, Delivered!deliveredVars, sinkDelivered,
           setAcknowledged
  <2>1. CASE UNCHANGED selectedVars
    BY <2>1 DEF selectedVars, sinkDelivered, setAcknowledged
  <2>2. CASE \E w \in Workers : publishSelectorV1(w)
    BY <2>2, SelectorDelivers
  <2>3. CASE \E w \in Workers : recoverV1(w)
    BY <2>3, RecoverAcknowledges
  <2>4. ASSUME NEW w \in Workers, open(w) \/ Continue(w) \/ die(w),
               ~publishSelectorV1(w), ~recoverV1(w)
        PROVE  UNCHANGED selectedVars
    BY <2>4
       DEF Continue, open, die, close, createOrRecoverEmpty, open_sink,
           prepareApply, publishLedgerV1, selectedVars
  <2>5. ASSUME NEW r \in Readers, inspectDirectoryV1(r)
        PROVE  UNCHANGED selectedVars
    BY <2>5
       DEF inspectDirectoryV1, read_checkpoint, readSelectedSet, read_sink,
           readSelectedLedger, recheck_checkpoint, recheck_sink, finish,
           writerVars
  <2>6. CASE UNCHANGED deliveryVars
    BY <2>1, <2>6 DEF deliveryVars, selectedVars
  <2> QED
    BY <2>1, <2>2, <2>3, <2>4, <2>5, <2>6 DEF DeliveryNext
<1> QED
  BY <1>1, <1>2, DeliveryInvariance, PTL
     DEF DeliverySpec, Delivered!DeliveredSafely
=============================================================================
