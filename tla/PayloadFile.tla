---------------------------- MODULE PayloadFile ----------------------------
(***************************************************************************)
(* The copy-on-write file of payloads: LockedPayloadStore of               *)
(* bench/continuation_object_payload_file.py over the snapshots of         *)
(* bench/continuation_object_payload_store.py.                             *)
(*                                                                         *)
(* Processes share a directory with a lock file, the active snapshot, and  *)
(* for every reclaim record its sidecar and its candidate.  A file is      *)
(* created empty and written later, so a process that dies or fails in     *)
(* between leaves it torn.  What survives a loss of power is not modelled: *)
(* the syncs change nothing another process sees.                          *)
(***************************************************************************)
EXTENDS Naturals

CONSTANTS Initial,         \* the payloads the store is created with
          Plans,           \* reclaim records: [before, targets]
          Workers,         \* the processes
          NoWorker,
          MaxDeaths        \* bound: deaths and I/O errors

ASSUME PayloadAssumption ==
    /\ \A p \in Plans : p.targets # {} /\ p.targets \subseteq p.before
    /\ NoWorker \notin Workers
    /\ MaxDeaths \in Nat

VARIABLES lock_file,       \* whether the lock file exists
          holder,          \* who has it locked
          active_file,     \* the active snapshot file
          sidecar,         \* the published record of each plan
          candidate,       \* the candidate snapshot of each plan
          work,            \* what each process is doing: [pc, plan]
          deaths

fileVars == <<lock_file, holder, active_file, sidecar, candidate, work,
              deaths>>

Absent == [state |-> "absent"]
Torn == [state |-> "torn"]
Whole(s) == [state |-> "whole", payloads |-> s]

Idle == [pc |-> "idle"]
Open == [pc |-> "open"]
At(pc, p) == [pc |-> pc, plan |-> p]

Become(w, next) == work' = [work EXCEPT ![w] = next]
after(p) == p.before \ p.targets
lockVars == <<lock_file, holder>>

-----------------------------------------------------------------------------
\* LockedPayloadStore.create: the lock file first, and only if it is new.
create_lock(w) ==
    /\ work[w] = Idle
    /\ ~lock_file
    /\ lock_file' = TRUE
    /\ Become(w, [pc |-> "creating"])
    /\ UNCHANGED <<holder, active_file, sidecar, candidate, deaths>>

\* Someone else may have locked the new file meanwhile: then create raises.
create_flock(w) ==
    /\ work[w].pc = "creating"
    /\ IF holder = NoWorker
       THEN holder' = w /\ Become(w, [pc |-> "initial"])
       ELSE Become(w, Idle) /\ UNCHANGED holder
    /\ UNCHANGED <<lock_file, active_file, sidecar, candidate, deaths>>

create_active(w) ==
    /\ work[w].pc = "initial"
    /\ active_file = Absent
    /\ active_file' = Torn
    /\ Become(w, [pc |-> "initial_write"])
    /\ UNCHANGED <<lockVars, sidecar, candidate, deaths>>

initial_write(w) ==
    /\ work[w].pc = "initial_write"
    /\ active_file' = Whole(Initial)
    /\ Become(w, Open)
    /\ UNCHANGED <<lockVars, sidecar, candidate, deaths>>

\* LockedPayloadStore.open takes the lock, then reads the active file.
open(w) ==
    /\ work[w] = Idle
    /\ lock_file
    /\ holder = NoWorker
    /\ holder' = w
    /\ Become(w, [pc |-> "opening"])
    /\ UNCHANGED <<lock_file, active_file, sidecar, candidate, deaths>>

\* _refresh raises on anything but a whole snapshot, and open closes again.
_refresh(w) ==
    /\ work[w].pc = "opening"
    /\ IF active_file.state = "whole"
       THEN Become(w, Open) /\ UNCHANGED holder
       ELSE Become(w, Idle) /\ holder' = NoWorker
    /\ UNCHANGED <<lock_file, active_file, sidecar, candidate, deaths>>

close(w) ==
    /\ work[w] = Open
    /\ holder' = NoWorker
    /\ Become(w, Idle)
    /\ UNCHANGED <<lock_file, active_file, sidecar, candidate, deaths>>

-----------------------------------------------------------------------------
\* publish_reclaim_record: a record that is there already is only compared.
publish_reclaim_record(w, p) ==
    /\ work[w] = Open
    /\ sidecar[p] = Absent
    /\ sidecar' = [sidecar EXCEPT ![p] = Torn]
    /\ Become(w, At("plan_write", p))
    /\ UNCHANGED <<lockVars, active_file, candidate, deaths>>

plan_write(w) ==
    /\ work[w].pc = "plan_write"
    /\ sidecar' = [sidecar EXCEPT ![work[w].plan] = Whole(work[w].plan.before)]
    /\ Become(w, Open)
    /\ UNCHANGED <<lockVars, active_file, candidate, deaths>>

-----------------------------------------------------------------------------
\* _verify_sidecar, _refresh and the comparison with the record's snapshot:
\* at the successor nothing is left to do, anywhere else recovery raises.
Recoverable(p) == sidecar[p].state = "whole" /\ active_file = Whole(p.before)

\* Mutant: whatever candidate is there is promoted.
recoverAnyCandidate(w, p) ==
    /\ work[w] = Open
    /\ Recoverable(p)
    /\ \/ /\ candidate[p] = Absent
          /\ candidate' = [candidate EXCEPT ![p] = Torn]
          /\ Become(w, At("candidate_write", p))
       \/ /\ candidate[p] # Absent
          /\ Become(w, At("promote", p))
          /\ UNCHANGED candidate
    /\ UNCHANGED <<lockVars, active_file, sidecar, deaths>>

\* Mutant: a candidate that is there already is an error.
recoverNewCandidate(w, p) ==
    /\ work[w] = Open
    /\ Recoverable(p)
    /\ candidate[p] = Absent
    /\ candidate' = [candidate EXCEPT ![p] = Torn]
    /\ Become(w, At("candidate_write", p))
    /\ UNCHANGED <<lockVars, active_file, sidecar, deaths>>

\* recover and apply up to the candidate: it is made, or it is there with
\* the very bytes; with any others recovery raises, now and every time.
recover(w, p) ==
    /\ work[w] = Open
    /\ Recoverable(p)
    /\ \/ /\ candidate[p] = Absent
          /\ candidate' = [candidate EXCEPT ![p] = Torn]
          /\ Become(w, At("candidate_write", p))
       \/ /\ candidate[p] = Whole(after(p))
          /\ Become(w, At("promote", p))
          /\ UNCHANGED candidate
    /\ UNCHANGED <<lockVars, active_file, sidecar, deaths>>

candidate_write(w) ==
    /\ work[w].pc = "candidate_write"
    /\ candidate' = [candidate EXCEPT ![work[w].plan] =
                         Whole(after(work[w].plan))]
    /\ Become(w, At("promote", work[w].plan))
    /\ UNCHANGED <<lockVars, active_file, sidecar, deaths>>

\* The active file is read once more before the candidate takes its name.
promote_rename(w) ==
    /\ work[w].pc = "promote"
    /\ LET p == work[w].plan
       IN  IF active_file = Whole(p.before)
           THEN /\ active_file' = candidate[p]
                /\ candidate' = [candidate EXCEPT ![p] = Absent]
           ELSE UNCHANGED <<active_file, candidate>>
    /\ Become(w, Open)
    /\ UNCHANGED <<lockVars, sidecar, deaths>>

-----------------------------------------------------------------------------
\* A process is killed: the system releases its lock.
die(w) ==
    /\ work[w] # Idle
    /\ deaths < MaxDeaths
    /\ deaths' = deaths + 1
    /\ Become(w, Idle)
    /\ holder' = IF holder = w THEN NoWorker ELSE holder
    /\ UNCHANGED <<lock_file, active_file, sidecar, candidate>>

\* A write fails and raises; the store stays open and its files stay.
io_error(w) ==
    /\ work[w].pc \in {"plan_write", "candidate_write"}
    /\ deaths < MaxDeaths
    /\ deaths' = deaths + 1
    /\ Become(w, Open)
    /\ UNCHANGED <<lockVars, active_file, sidecar, candidate>>

FileInit ==
    /\ lock_file = FALSE
    /\ holder = NoWorker
    /\ active_file = Absent
    /\ sidecar = [p \in Plans |-> Absent]
    /\ candidate = [p \in Plans |-> Absent]
    /\ work = [w \in Workers |-> Idle]
    /\ deaths = 0

\* What a process has begun.
Continue(w) ==
    \/ create_flock(w) \/ create_active(w) \/ initial_write(w) \/ _refresh(w)
    \/ plan_write(w) \/ candidate_write(w) \/ promote_rename(w)

FileNext ==
    \E w \in Workers :
        \/ create_lock(w) \/ open(w) \/ close(w)
        \/ Continue(w) \/ die(w) \/ io_error(w)
        \/ \E p \in Plans : publish_reclaim_record(w, p) \/ recover(w, p)

\* A process that lives goes on, the store is reopened whenever its lock is
\* free, and who opens it goes on trying the recovery of what is on record.
FileFairness ==
    /\ \A w \in Workers : WF_fileVars(Continue(w))
    /\ WF_fileVars(\E w \in Workers : open(w))
    /\ \A p \in Plans : SF_fileVars(\E w \in Workers : recover(w, p))

FileSpec == FileInit /\ [][FileNext]_fileVars /\ FileFairness

-----------------------------------------------------------------------------
\* The file as its readers find it.
Reclaiming == INSTANCE PayloadReclaim WITH
    payloads <- IF active_file.state = "whole"
                THEN [found |-> TRUE, payloads |-> active_file.payloads]
                ELSE [found |-> FALSE],
    published <- {p \in Plans : sidecar[p].state = "whole"}

\* The directory is a store that shrinks by whole published plans: at every
\* moment a reader finds a whole snapshot, the old one or the successor of a
\* plan whose record is readable, whatever candidates dead processes left
\* (publish_reclaim_record, apply and recover of
\* bench/continuation_object_payload_file.py).
AtomicReclaim == Reclaiming!ReclaimSpec
=============================================================================
