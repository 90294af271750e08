------------------------------ MODULE RWLockSpec ------------------------------
(***************************************************************************)
(* What a readers-writer lock promises to the processes that use it: the   *)
(* processes inside a shared section and the ones inside an exclusive      *)
(* section are never inside together, and an exclusive section has one     *)
(* owner.  ReadWriteLock implements this module.                           *)
(***************************************************************************)
CONSTANTS Readers,   \* processes that take the lock for reading
          Writers    \* processes that take it for writing

VARIABLES sharing,   \* readers between read_lock() and read_unlock()
          exclusive  \* writers between write_lock() and write_unlock()

vars == <<sharing, exclusive>>

Init == sharing = {} /\ exclusive = {}

Share(r) == /\ exclusive = {}
            /\ r \notin sharing
            /\ sharing' = sharing \cup {r}
            /\ UNCHANGED exclusive

Unshare(r) == /\ r \in sharing
              /\ sharing' = sharing \ {r}
              /\ UNCHANGED exclusive

Exclude(w) == /\ sharing = {}
              /\ exclusive = {}
              /\ exclusive' = {w}
              /\ UNCHANGED sharing

Release(w) == /\ exclusive = {w}
              /\ exclusive' = {}
              /\ UNCHANGED sharing

Next == \/ \E r \in Readers : Share(r) \/ Unshare(r)
        \/ \E w \in Writers : Exclude(w) \/ Release(w)

Spec == Init /\ [][Next]_vars
===============================================================================
