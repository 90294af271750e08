----------------------------- MODULE ReadWriteLock -----------------------------
(***************************************************************************)
(* common/ReadWriteLock: the lock that keeps the match-action tables still *)
(* while the P4 pipelines of the cores read them, and lets the control     *)
(* plane agent change them.  It is built from one sc_event, cond, on which *)
(* readers and writers alike sleep.  SystemC processes are cooperative: a  *)
(* call runs without interruption from its entry, or from its wake-up, to  *)
(* the next wait(cond), and notify() wakes exactly the processes asleep at *)
(* that moment.                                                            *)
(***************************************************************************)
EXTENDS Naturals

CONSTANTS Readers,   \* the threads that run P4Application
          Writers,   \* the threads that insert table entries
          NoProc,    \* nullptr
          Commands   \* bound: exclusive sections each writer asks for

ASSUME ProcsAssumption == /\ Readers \cap Writers = {}
                          /\ NoProc \notin Readers \cup Writers

ASSUME CommandsAssumption == Commands \in Nat

VARIABLES readers,   \* std::set of processes that hold the read lock
          writer,    \* the process that holds or has claimed the write lock
          cond,      \* processes asleep on the event
          pc,        \* where each process stands in the lock's functions
          left       \* commands each writer still has to carry out

lockvars == <<readers, writer, cond, pc, left>>

Procs == Readers \cup Writers

(* "entry" is the loop that waits for no writer, in read_lock() and in     *)
(* write_lock() alike; "drain" is write_lock()'s second loop, which waits  *)
(* for the readers to leave.                                               *)
LockInit == /\ readers = {}
            /\ writer = NoProc
            /\ cond = {}
            /\ pc = [p \in Procs |-> "idle"]
            /\ left = [w \in Writers |-> Commands]

AtEntry(p) == pc[p] \in {"idle", "entry"} /\ p \notin cond

Notify == cond' = {}

-------------------------------------------------------------------------------
(* read_lock() *)

ReadLockWait(r) == /\ AtEntry(r)
                   /\ writer # NoProc
                   /\ pc' = [pc EXCEPT ![r] = "entry"]
                   /\ cond' = cond \cup {r}
                   /\ UNCHANGED <<readers, writer, left>>

(* Faulty variant: the reader takes the lock in the writer's name.         *)
ReadLockAcquireAsWriter(r) == /\ AtEntry(r)
                              /\ writer = NoProc
                              /\ pc' = [pc EXCEPT ![r] = "reading"]
                              /\ readers' = readers \cup {r}
                              /\ writer' = r
                              /\ UNCHANGED <<cond, left>>

(* Faulty variant: the reader only looks for a writer that has started,    *)
(* not for one that has claimed the lock.                                  *)
ReadLockAcquireEager(r) == /\ AtEntry(r)
                           /\ \A w \in Writers : pc[w] # "writing"
                           /\ pc' = [pc EXCEPT ![r] = "reading"]
                           /\ readers' = readers \cup {r}
                           /\ UNCHANGED <<writer, cond, left>>

ReadLockAcquire(r) == /\ AtEntry(r)
                      /\ writer = NoProc
                      /\ pc' = [pc EXCEPT ![r] = "reading"]
                      /\ readers' = readers \cup {r}
                      /\ UNCHANGED <<writer, cond, left>>

(* Faulty variant: the last reader does not wake the waiting writer.       *)
ReadUnlockSilent(r) == /\ pc[r] = "reading"
                       /\ pc' = [pc EXCEPT ![r] = "idle"]
                       /\ readers' = readers \ {r}
                       /\ UNCHANGED <<writer, cond, left>>

ReadUnlock(r) == /\ pc[r] = "reading"
                 /\ pc' = [pc EXCEPT ![r] = "idle"]
                 /\ readers' = readers \ {r}
                 /\ IF readers' = {} /\ writer # NoProc
                      THEN Notify
                      ELSE UNCHANGED cond
                 /\ UNCHANGED <<writer, left>>

-------------------------------------------------------------------------------
(* write_lock() *)

WriteLockWait(w) == /\ AtEntry(w)
                    /\ left[w] > 0
                    /\ writer # NoProc
                    /\ pc' = [pc EXCEPT ![w] = "entry"]
                    /\ cond' = cond \cup {w}
                    /\ UNCHANGED <<readers, writer, left>>

(* Faulty variant: the writer starts while readers are still inside.       *)
WriteLockClaimAtOnce(w) == /\ AtEntry(w)
                           /\ left[w] > 0
                           /\ writer = NoProc
                           /\ writer' = w
                           /\ pc' = [pc EXCEPT ![w] = "writing"]
                           /\ UNCHANGED <<readers, cond, left>>

(* The claim stops new readers at once; the section starts only when those *)
(* already inside have left.                                               *)
WriteLockClaim(w) == /\ AtEntry(w)
                     /\ left[w] > 0
                     /\ writer = NoProc
                     /\ writer' = w
                     /\ \/ /\ readers = {}
                           /\ pc' = [pc EXCEPT ![w] = "writing"]
                           /\ UNCHANGED cond
                        \/ /\ readers # {}
                           /\ pc' = [pc EXCEPT ![w] = "drain"]
                           /\ cond' = cond \cup {w}
                     /\ UNCHANGED <<readers, left>>

(* The loop tests again after every wake-up.                               *)
WriteLockDrain(w) == /\ pc[w] = "drain" /\ w \notin cond
                     /\ pc' = [pc EXCEPT ![w] = IF readers = {} THEN "writing"
                                                              ELSE "drain"]
                     /\ cond' = IF readers = {} THEN cond ELSE cond \cup {w}
                     /\ UNCHANGED <<readers, writer, left>>

(* Faulty variant: the writer leaves without notify().                     *)
WriteUnlockSilent(w) == /\ pc[w] = "writing"
                        /\ pc' = [pc EXCEPT ![w] = "idle"]
                        /\ writer' = NoProc
                        /\ left' = [left EXCEPT ![w] = @ - 1]
                        /\ UNCHANGED <<readers, cond>>

WriteUnlock(w) == /\ pc[w] = "writing"
                  /\ pc' = [pc EXCEPT ![w] = "idle"]
                  /\ writer' = NoProc
                  /\ left' = [left EXCEPT ![w] = @ - 1]
                  /\ Notify
                  /\ UNCHANGED readers

-------------------------------------------------------------------------------
ReadStep(r) == ReadLockWait(r) \/ ReadLockAcquire(r) \/ ReadUnlock(r)

WriteStep(w) == \/ WriteLockWait(w)  \/ WriteLockClaim(w)
                \/ WriteLockDrain(w) \/ WriteUnlock(w)

LockNext == \/ \E r \in Readers : ReadStep(r)
            \/ \E w \in Writers : WriteStep(w)

LockSpec == LockInit /\ [][LockNext]_lockvars

(* A runnable process is scheduled, and a process inside its section       *)
(* leaves it: pipelines and insertions are finite.  A writer carries out   *)
(* the commands it was given; a core need not ask for the lock again.      *)
Fairness == /\ \A r \in Readers : WF_lockvars(pc[r] # "idle" /\ ReadStep(r))
            /\ \A w \in Writers : WF_lockvars(WriteStep(w))

FairSpec == LockSpec /\ Fairness

-------------------------------------------------------------------------------
TypeOK == /\ readers \in SUBSET Readers
          /\ writer \in Writers \cup {NoProc}
          /\ cond \in SUBSET Procs
          /\ pc \in [Procs -> {"idle", "entry", "drain", "reading", "writing"}]
          /\ left \in [Writers -> 0..Commands]

(* Table lookups and table changes exclude each other: while a process is  *)
(* between write_lock() and write_unlock(), no process is between          *)
(* read_lock() and read_unlock() and no other one writes.                  *)
MutualExclusion ==
    \A w \in Writers : pc[w] = "writing" =>
        /\ \A r \in Readers : pc[r] # "reading"
        /\ \A v \in Writers : pc[v] = "writing" => v = w

(* No wake-up is lost: a process asleep on cond is owed a notify() by one  *)
(* that is still going to call it.  A process asleep in the entry loop is  *)
(* owed one by the writer it saw, and the writer asleep in the drain loop  *)
(* by the readers still inside.                                            *)
NoLostWakeup ==
    \A p \in cond : \/ pc[p] = "entry" /\ writer # NoProc
                    \/ pc[p] = "drain" /\ readers # {}

(* Once a writer has claimed the lock, the set of readers only shrinks, so *)
(* a stream of packets cannot hold the control plane off.                  *)
WriterPreference == [][writer # NoProc => readers' \subseteq readers]_lockvars

(* Every command the control plane has left is carried out in the end,     *)
(* however often the cores take the lock for reading, and a core that      *)
(* finds the lock claimed gets it in the end.                              *)
EverybodyServed == /\ <>(\A w \in Writers : left[w] = 0)
                   /\ \A r \in Readers : pc[r] = "entry" ~> pc[r] = "reading"

(* The lock is the abstract one: a process is inside its section exactly   *)
(* from the return of the lock call to the unlock call.                    *)
Abstract == INSTANCE RWLockSpec
                WITH sharing <- {p \in Readers : pc[p] = "reading"},
                     exclusive <- {p \in Writers : pc[p] = "writing"}

AbstractSpec == Abstract!Spec

-------------------------------------------------------------------------------
(* The inductive invariant.  The places of a process agree with the lock's *)
(* own two variables; a writer that has called the lock has a command to   *)
(* carry out; a section that has started has no reader inside; sleepers    *)
(* are owed a notify().  None of them is inductive without the others.     *)
PlacesAgree ==
    /\ readers = {r \in Readers : pc[r] = "reading"}
    /\ \A w \in Writers : pc[w] \in {"drain", "writing"} <=> writer = w
    /\ \A w \in Writers : pc[w] # "reading"
    /\ \A r \in Readers : pc[r] \notin {"drain", "writing"}

CommandOwed == \A w \in Writers : pc[w] # "idle" => left[w] > 0

WriterAlone == \A w \in Writers : pc[w] = "writing" => readers = {}

LockInv == TypeOK /\ PlacesAgree /\ CommandOwed /\ WriterAlone /\ NoLostWakeup
===============================================================================
