-------------------------- MODULE ControlPlane_proof --------------------------
(***************************************************************************)
(* Results about the control plane and its agent.                          *)
(*                                                                         *)
(* LookupsAtomic, for any cores, tables and bounds.  It is not inductive:  *)
(* that the agent may begin a change only when no core is in a lookup is   *)
(* the lock's doing, and that no core gets in while it goes on follows     *)
(* from the agent's holding the lock for as long as it stands at "apply".  *)
(*                                                                         *)
(* InsertedOnce, when the debugger begins at most one transaction.  The    *)
(* commands that are queued and the one the agent is woken for are one     *)
(* line, in which the insertions are numbered in their order.  An          *)
(* insertion moves from the front of the line through the transaction or   *)
(* the batches under way to the end of a table; each of these is in order, *)
(* and each is behind what follows it.  That a transaction is not applied  *)
(* a second time needs the places of its beginning and its end in the      *)
(* line.                                                                   *)
(*                                                                         *)
(* ConfirmedInstalled, under the same condition.  An entry leaves a batch  *)
(* only for its table or for those refused, a table never loses one, and   *)
(* what answers for an entry of a batch is earlier than the entry, so that *)
(* no insertion is refused for its own key.  The first packet finds the    *)
(* file's insertions settled because nothing but insertions stands in line *)
(* before the command that lets packets in.  With a row to spare and no    *)
(* two insertions of one key nothing is refused: a table is in order, and  *)
(* an increasing sequence of the numbers up to n is no longer than n.      *)
(***************************************************************************)
EXTENDS ControlPlane, SequenceTheorems, WellFoundedInduction, TLAPS

-------------------------------------------------------------------------------
(* Lookups                                                                 *)

\* The agent holds the write lock exactly while it changes tables, and then
\* there is no reader.
LockKept == /\ exclusive = IF agent = "apply" THEN {"agent"} ELSE {}
            /\ exclusive # {} => sharing = {}

LEMMA LockKeptInit == Init => LockKept
  BY DEF Init, LockKept, Lock!Init

\* The steps that leave lock and agent's place alone, or move the agent between
\* places outside the lock.
LEMMA LockKeptOutside ==
  ASSUME LockKept, UNCHANGED lockvars,
         agent' = "apply" <=> agent = "apply"
  PROVE  LockKept'
  BY DEF LockKept, lockvars

LEMMA LockKeptNext == LockKept /\ [Next]_vars => LockKept'
<1> SUFFICES ASSUME LockKept, [Next]_vars PROVE LockKept'
  OBVIOUS
<1>1. CASE Load
  BY <1>1, LockKeptOutside DEF Load, agentvars
<1>2. ASSUME NEW type \in DebugTypes, NEW t \in Tables, NEW e \in Entries, DoCommand(type, t, e)
      PROVE  LockKept'
  BY <1>2, LockKeptOutside DEF DoCommand, agentvars
<1>3. CASE SendCommand
  BY <1>3, LockKeptOutside DEF SendCommand
<1>4. CASE AcceptResult
  BY <1>4, LockKeptOutside DEF AcceptResult, agentvars
<1>5. CASE Agent
  <2>1. CASE AgentStart
    BY <2>1, LockKeptOutside DEF AgentStart
  <2>2. CASE ProcessBegin
    BY <2>2, LockKeptOutside DEF ProcessBegin, Gets, Answer
  <2>3. CASE RecordInsert
    BY <2>3, LockKeptOutside DEF RecordInsert, Gets, Answer
  <2>4. CASE ProcessDelete
    BY <2>4, LockKeptOutside DEF ProcessDelete, Gets, Answer
  <2>5. CASE ProcessBoot
    BY <2>5, LockKeptOutside DEF ProcessBoot, Gets, Answer
  <2>6. CASE ProcessInsert
    BY <2>6, LockKeptOutside DEF ProcessInsert, Gets
  <2>7. CASE ProcessEnd
    BY <2>7, LockKeptOutside DEF ProcessEnd, Gets
  <2>8. CASE AddEntry \/ RefuseEntries
    BY <2>8, LockKeptOutside DEF AddEntry, RefuseEntries
  <2>9. CASE WriteUnlock
    BY <2>9 DEF WriteUnlock, Answer, LockKept, Lock!Release
  <2> QED
    BY <1>5, <2>1, <2>2, <2>3, <2>4, <2>5, <2>6, <2>7, <2>8, <2>9 DEF Agent
<1>6. CASE WriteLock
  BY <1>6 DEF WriteLock, LockKept, Lock!Exclude
<1>7. ASSUME NEW k \in Cores, StartLookup(k)
      PROVE  LockKept'
  BY <1>7 DEF StartLookup, LockKept, Lock!Share, agentvars
<1>8. ASSUME NEW k \in Cores, EndLookup(k)
      PROVE  LockKept'
  BY <1>8 DEF EndLookup, LockKept, Lock!Unshare, agentvars
<1>9. CASE UNCHANGED vars
  BY <1>9, LockKeptOutside DEF vars, agentvars
<1> QED
  BY <1>1, <1>2, <1>3, <1>4, <1>5, <1>6, <1>7, <1>8, <1>9 DEF Next

\* A lookup finds every transaction, and every insertion, not begun or
\* complete: the agent adds entries only under the write lock, and cores look up
\* under the read lock (ControlPlaneAgent.cpp, P4Application.cpp).
THEOREM LookupsStayAtomic == Spec => []LookupsAtomic
<1>1. LockKept => LookupsAtomic
  BY DEF LockKept, LookupsAtomic
<1> QED
  BY LockKeptInit, LockKeptNext, <1>1, PTL DEF Spec

-------------------------------------------------------------------------------
(* Sequences                                                               *)

Increasing(s) == \A i, j \in 1..Len(s) : i < j => s[i] < s[j]

\* Every entry of s comes before every one of u.
Before(s, u) == \A x \in Elements(s), y \in Elements(u) : x < y

LEMMA ElementsTyped ==
  ASSUME NEW S, NEW s \in Seq(S)
  PROVE  Elements(s) \subseteq S
  BY DEF Elements

LEMMA ElementsAppend ==
  ASSUME NEW S, NEW s \in Seq(S), NEW e \in S
  PROVE  /\ Append(s, e) \in Seq(S)
         /\ Elements(Append(s, e)) = Elements(s) \cup {e}
<1>1. /\ Append(s, e) \in Seq(S)
      /\ Len(Append(s, e)) = Len(s) + 1 /\ Len(s) \in Nat
      /\ Append(s, e)[Len(s) + 1] = e
      /\ \A i \in 1..Len(s) : Append(s, e)[i] = s[i]
  OBVIOUS
<1>2. 1..(Len(s) + 1) = (1..Len(s)) \cup {Len(s) + 1}
  BY <1>1
<1> QED
  BY <1>1, <1>2 DEF Elements

LEMMA IncreasingAppend ==
  ASSUME NEW s \in Seq(Nat), NEW e \in Nat, Increasing(s), \A x \in Elements(s) : x < e
  PROVE  Increasing(Append(s, e))
<1>1. /\ Len(Append(s, e)) = Len(s) + 1 /\ Len(s) \in Nat
      /\ Append(s, e)[Len(s) + 1] = e
      /\ \A i \in 1..Len(s) : Append(s, e)[i] = s[i]
  OBVIOUS
<1>2. \A i \in 1..Len(s) : s[i] < e
  BY DEF Elements
<1> QED
  BY <1>1, <1>2 DEF Increasing

LEMMA LeastMember ==
  ASSUME NEW S \in SUBSET Nat, S # {}
  PROVE  \E n \in S : \A m \in S : n =< m
<1>1. PICK n \in S : \A m \in S : <<m, n>> \notin OpToRel(<, Nat)
  BY NatLessThanWellFounded, WFMin
<1>2. \A m \in S : <<m, n>> \notin OpToRel(<, Nat) => n =< m
  BY DEF OpToRel
<1> QED
  BY <1>1, <1>2

\* An increasing sequence of the numbers up to n is no longer than n.
LEMMA IncreasingFits ==
  ASSUME NEW n \in Nat, NEW s \in Seq(1..n), Increasing(s)
  PROVE  Len(s) =< n
<1> DEFINE Small == {i \in 1..Len(s) : s[i] < i}
<1>1. Small = {}
  <2> SUFFICES ASSUME Small # {} PROVE FALSE
    OBVIOUS
  <2>1. PICK i \in Small : \A j \in Small : i =< j
    <3>1. Small \in SUBSET Nat
      OBVIOUS
    <3> HIDE DEF Small
    <3> QED
      BY <3>1, LeastMember
  <2>2. i \in 1..Len(s) /\ s[i] \in 1..n /\ s[i] < i
    OBVIOUS
  <2>3. i - 1 \in 1..Len(s) /\ s[i - 1] \in 1..n
    BY <2>2
  <2>4. s[i - 1] < s[i]
    <3>1. i - 1 < i
      BY <2>2
    <3> HIDE DEF Small
    <3> QED
      BY <2>2, <2>3, <3>1 DEF Increasing
  <2>5. i - 1 \in Small
    BY <2>2, <2>3, <2>4
  <2> QED
    BY <2>1, <2>2, <2>5
<1>2. CASE Len(s) = 0
  BY <1>2
<1>3. CASE Len(s) # 0
  <2>1. Len(s) \in 1..Len(s) /\ s[Len(s)] \in 1..n
    BY <1>3
  <2>2. ~ (s[Len(s)] < Len(s))
    BY <1>1, <2>1
  <2> QED
    BY <2>1, <2>2
<1> QED
  BY <1>2, <1>3

-------------------------------------------------------------------------------
(* mt_add_entry: the first n entries of a batch are taken from it.         *)

Batches == [table : Tables, entries : Seq(Entries)]

LEMMA RestShape ==
  ASSUME TypeOK, NEW b \in todo, NEW n \in 1..Len(b.entries)
  PROVE  \E r \in Batches :
            /\ Rest(b, n) = (todo \ {b}) \cup {r}
            /\ r.table = b.table /\ r.entries \in Seq(Entries)
            /\ Elements(b.entries) = {b.entries[i] : i \in 1..n} \cup Elements(r.entries)
            /\ Increasing(b.entries) =>
                 /\ Increasing(r.entries)
                 /\ \A i \in 1..n : \A x \in Elements(r.entries) : b.entries[i] < x
<1>1. b.entries \in Seq(Entries) /\ n \in Nat /\ n =< Len(b.entries) /\ Len(b.entries) \in Nat
  BY DEF TypeOK
<1>2. PICK s : s = SubSeq(b.entries, n + 1, Len(b.entries))
  OBVIOUS
<1>3. /\ s \in Seq(Entries) /\ Len(s) = Len(b.entries) - n
      /\ \A i \in 1..Len(s) : s[i] = b.entries[i + n]
  BY <1>1, <1>2
<1>4. Elements(s) = {b.entries[i] : i \in (n + 1)..Len(b.entries)}
  <2>1. ASSUME NEW i \in 1..Len(s)
        PROVE  i + n \in (n + 1)..Len(b.entries) /\ s[i] = b.entries[i + n]
    BY <1>1, <1>3
  <2>2. ASSUME NEW i \in (n + 1)..Len(b.entries)
        PROVE  i - n \in 1..Len(s) /\ s[i - n] = b.entries[i]
    <3>1. i - n \in 1..Len(s) /\ (i - n) + n = i
      BY <1>1, <1>3
    <3> QED
      BY <1>3, <3>1
  <2> QED
    BY <2>1, <2>2 DEF Elements
<1>5. 1..Len(b.entries) = (1..n) \cup ((n + 1)..Len(b.entries))
  BY <1>1
<1>6. Elements(b.entries) = {b.entries[i] : i \in 1..n} \cup Elements(s)
  BY <1>4, <1>5 DEF Elements
<1>7. ASSUME Increasing(b.entries)
      PROVE  Increasing(s) /\ \A i \in 1..n : \A x \in Elements(s) : b.entries[i] < x
  <2>1. Increasing(s)
    <3>1. \A i, j \in 1..Len(s) : i < j =>
             i + n \in 1..Len(b.entries) /\ j + n \in 1..Len(b.entries) /\ i + n < j + n
      BY <1>1, <1>3
    <3> QED
      BY <1>3, <1>7, <3>1 DEF Increasing
  <2>2. \A i \in 1..n, j \in (n + 1)..Len(b.entries) : b.entries[i] < b.entries[j]
    <3>1. \A i \in 1..n, j \in (n + 1)..Len(b.entries) :
             i \in 1..Len(b.entries) /\ j \in 1..Len(b.entries) /\ i < j
      BY <1>1
    <3> QED
      BY <1>7, <3>1 DEF Increasing
  <2> QED
    BY <1>4, <2>1, <2>2
<1>8. PICK r : r = [table |-> b.table, entries |-> s]
  OBVIOUS
<1>9. r.table = b.table /\ r.entries = s /\ r \in Batches
  BY <1>3, <1>8 DEF TypeOK, Batches
<1>10. Rest(b, n) = (todo \ {b}) \cup {r}
  BY <1>2, <1>8 DEF Rest, Batch
<1> QED
  BY <1>3, <1>6, <1>7, <1>9, <1>10

LEMMA AddEntryShape ==
  ASSUME TypeOK, AddEntry
  PROVE  \E b \in todo, e \in Entries, r \in Batches :
            /\ b.table \in Tables /\ e \in Elements(b.entries) /\ ~Refuses(b.table, e)
            /\ todo' = (todo \ {b}) \cup {r}
            /\ r.table = b.table /\ r.entries \in Seq(Entries)
            /\ Elements(b.entries) = {e} \cup Elements(r.entries)
            /\ Increasing(b.entries) =>
                 Increasing(r.entries) /\ \A x \in Elements(r.entries) : e < x
            /\ tables' = [tables EXCEPT ![b.table] = Append(tables[b.table], e)]
            /\ current_result' = current_result \cup {e}
<1>1. PICK b \in todo : /\ b.entries # <<>> /\ ~Refuses(b.table, b.entries[1])
                        /\ tables' = [tables EXCEPT ![b.table] = Append(@, b.entries[1])]
                        /\ current_result' = current_result \cup {b.entries[1]}
                        /\ todo' = Rest(b, 1)
  BY DEF AddEntry
<1>2. b.entries \in Seq(Entries) /\ b.table \in Tables
  BY DEF TypeOK
<1>3. 1 \in 1..Len(b.entries) /\ b.entries[1] \in Entries
  BY <1>1, <1>2
<1>4. PICK e : e = b.entries[1]
  OBVIOUS
<1>5. PICK r \in Batches :
         /\ Rest(b, 1) = (todo \ {b}) \cup {r}
         /\ r.table = b.table /\ r.entries \in Seq(Entries)
         /\ Elements(b.entries) = {b.entries[i] : i \in 1..1} \cup Elements(r.entries)
         /\ Increasing(b.entries) =>
              /\ Increasing(r.entries)
              /\ \A i \in 1..1 : \A x \in Elements(r.entries) : b.entries[i] < x
  BY <1>3, RestShape
<1>6. \A i \in 1..1 : i = 1
  OBVIOUS
<1>7. {b.entries[i] : i \in 1..1} = {e}
  BY <1>4, <1>6
<1>8. e \in Elements(b.entries) /\ Elements(b.entries) = {e} \cup Elements(r.entries)
  BY <1>5, <1>7
<1>9. Increasing(b.entries) => Increasing(r.entries) /\ \A x \in Elements(r.entries) : e < x
  BY <1>4, <1>5, <1>6
<1> QED
  BY <1>1, <1>2, <1>3, <1>4, <1>5, <1>8, <1>9

LEMMA RefuseEntriesShape ==
  ASSUME TypeOK, RefuseEntries
  PROVE  \E b \in todo, left \in SUBSET Entries, r \in Batches :
            /\ b.table \in Tables /\ \E e \in left : Refuses(b.table, e)
            /\ todo' = (todo \ {b}) \cup {r}
            /\ r.table = b.table /\ r.entries \in Seq(Entries)
            /\ Elements(b.entries) = left \cup Elements(r.entries)
            /\ Increasing(b.entries) => Increasing(r.entries)
            /\ refused' = refused \cup {[table |-> b.table, entry |-> e] : e \in left}
            /\ current_result' = current_result \cup left
<1>0. PICK b \in todo : \E n \in {1, Len(b.entries)} \cap (1..Len(b.entries)) :
         /\ \E e \in {b.entries[i] : i \in 1..n} : Refuses(b.table, e)
         /\ refused' = refused \cup {[table |-> b.table, entry |-> e] :
                                      e \in {b.entries[i] : i \in 1..n}}
         /\ current_result' = current_result \cup {b.entries[i] : i \in 1..n}
         /\ todo' = Rest(b, n)
  BY DEF RefuseEntries
<1>1. PICK n \in 1..Len(b.entries) :
         /\ \E e \in {b.entries[i] : i \in 1..n} : Refuses(b.table, e)
         /\ refused' = refused \cup {[table |-> b.table, entry |-> e] :
                                      e \in {b.entries[i] : i \in 1..n}}
         /\ current_result' = current_result \cup {b.entries[i] : i \in 1..n}
         /\ todo' = Rest(b, n)
  BY <1>0
<1>2. b.entries \in Seq(Entries) /\ b.table \in Tables
  BY DEF TypeOK
<1>3. PICK left : left = {b.entries[i] : i \in 1..n}
  OBVIOUS
<1>4. left \in SUBSET Entries
  BY <1>2, <1>3
<1>5. PICK r \in Batches :
         /\ Rest(b, n) = (todo \ {b}) \cup {r}
         /\ r.table = b.table /\ r.entries \in Seq(Entries)
         /\ Elements(b.entries) = {b.entries[i] : i \in 1..n} \cup Elements(r.entries)
         /\ Increasing(b.entries) =>
              /\ Increasing(r.entries)
              /\ \A i \in 1..n : \A x \in Elements(r.entries) : b.entries[i] < x
  BY <1>2, RestShape
<1> QED
  BY <1>1, <1>2, <1>3, <1>4, <1>5

-------------------------------------------------------------------------------
(* The line of commands: what is queued, and before it the command that    *)
(* the agent has been woken for and has not looked at yet.                 *)

Ahead == IF agent = "woken" THEN 0..Len(queue) ELSE 1..Len(queue)

Cmd(i) == IF i = 0 THEN current_command ELSE queue[i]

Changing == agent \in {"lock", "apply"}

\* Where the two threads stand relative to each other
Places == /\ agent \in {"woken", "lock", "apply"} => pc = "waiting"
          /\ todo # {} => Changing
          /\ Changing => ~in_transaction /\ current_command.type # "Delete"

\* The debugger is quiet until the file has been read.
Quiet == IF loaded THEN entries =< BootCount + debug.commands
         ELSE /\ queue = <<>> /\ entries = 0 /\ pc = "pop"
              /\ debug.transactions = 0 /\ ~debug.inside

\* Insertions stand in line in the order of their numbers.
Numbered ==
    \A i \in Ahead :
        /\ Cmd(i).type = "Delete" => Cmd(i).entry \in Entries
        /\ Cmd(i).type = "Insert" => Cmd(i).entry \in 1..entries
        /\ Cmd(i).type = "Insert" =>
              \A j \in Ahead : i < j /\ Cmd(j).type = "Insert" => Cmd(i).entry < Cmd(j).entry

TypeInv == TypeOK /\ Places /\ Quiet /\ Numbered

\* The commands ahead are some that were ahead, in their order.
Onward == /\ entries' = entries
          /\ \E d \in {0, 1} : \A i \in Ahead' : i + d \in Ahead /\ Cmd(i)' = Cmd(i + d)

LEMMA LineTyped ==
  ASSUME TypeOK
  PROVE  /\ Ahead \subseteq 0..Len(queue) /\ Len(queue) \in Nat
         /\ \A i \in Ahead : i \in Nat /\ Cmd(i) \in Command
  BY DEF TypeOK, Ahead, Cmd

LEMMA OnwardKept ==
  ASSUME UNCHANGED <<queue, current_command, entries>>, agent' = "woken" => agent = "woken", TypeOK
  PROVE  Onward
<1>1. \A i \in Ahead' : i + 0 \in Ahead /\ Cmd(i)' = Cmd(i + 0)
  BY DEF Ahead, Cmd, TypeOK
<1> QED
  BY <1>1 DEF Onward

LEMMA OnwardSent ==
  ASSUME SendCommand, TypeOK, Places
  PROVE  Onward
<1>1. /\ queue \in Seq(Command) /\ queue # <<>> /\ queue' = Tail(queue)
      /\ current_command' = Head(queue) /\ agent # "woken" /\ entries' = entries
  BY DEF SendCommand, Places, TypeOK
<1>2. /\ Len(Tail(queue)) = Len(queue) - 1 /\ Len(queue) \in Nat \ {0}
      /\ Head(queue) = queue[1]
      /\ \A i \in 1..(Len(queue) - 1) : Tail(queue)[i] = queue[i + 1]
  BY <1>1
<1>3. \A i \in Ahead' : i + 1 \in Ahead /\ Cmd(i)' = Cmd(i + 1)
  BY <1>1, <1>2 DEF Ahead, Cmd
<1> QED
  BY <1>1, <1>3 DEF Onward

\* What the debugger adds goes to the end.
LEMMA LineGrows ==
  ASSUME TypeOK, NEW c \in Command, queue' = Append(queue, c),
         UNCHANGED <<agent, current_command>>
  PROVE  \E n \in Nat \ {0} :
            /\ Ahead' = Ahead \cup {n}
            /\ Cmd(n)' = c
            /\ \A i \in Ahead : i < n /\ Cmd(i)' = Cmd(i)
<1>1. /\ queue' \in Seq(Command) /\ Len(queue') = Len(queue) + 1 /\ Len(queue) \in Nat
      /\ queue'[Len(queue) + 1] = c
      /\ \A i \in 1..Len(queue) : queue'[i] = queue[i]
  BY DEF TypeOK
<1>2. /\ 1..(Len(queue) + 1) = (1..Len(queue)) \cup {Len(queue) + 1}
      /\ 0..(Len(queue) + 1) = (0..Len(queue)) \cup {Len(queue) + 1}
  BY <1>1
<1>3. Ahead' = Ahead \cup {Len(queue) + 1}
  BY <1>1, <1>2 DEF Ahead
<1>4. \A i \in Ahead : i \in 0..Len(queue)
  BY <1>1 DEF Ahead
<1>5. PICK n \in Nat \ {0} : n = Len(queue) + 1
  BY <1>1
<1>6. Cmd(n)' = c
  BY <1>1, <1>5 DEF Cmd
<1>7. \A i \in Ahead : i < n /\ Cmd(i)' = Cmd(i)
  BY <1>1, <1>4, <1>5 DEF Cmd
<1> QED
  BY <1>3, <1>5, <1>6, <1>7

\* The file's insertions come first, numbered from one, and then the command
\* that lets packets in.
LEMMA LineLoaded ==
  ASSUME TypeOK, Places, Quiet, Load, NEW f \in [1..BootCount -> Tables],
         queue' = queue \o [i \in 1..BootCount |->
                    [type |-> "Insert", table |-> f[i], entry |-> entries + i]]
                    \o <<NoCommand>>
  PROVE  /\ queue' \in Seq(Command)
         /\ Ahead' = 1..(BootCount + 1)
         /\ Cmd(BootCount + 1)' = NoCommand
         /\ \A i \in 1..BootCount : Cmd(i)' = [type |-> "Insert", table |-> f[i], entry |-> i]
<1> DEFINE file == [i \in 1..BootCount |-> [type |-> "Insert", table |-> f[i], entry |-> entries + i]]
<1>1. /\ BootCount \in Nat /\ DebugCount \in Nat /\ entries = 0 /\ queue = <<>>
      /\ agent' # "woken" /\ NoCommand \in Command
  BY ControlAssumption DEF Quiet, Load, Places, agentvars, NoCommand, Command
<1>2. file \in Seq(Command) /\ Len(file) = BootCount
  <2>1. \A i \in 1..BootCount : [type |-> "Insert", table |-> f[i], entry |-> entries + i] \in Command
    BY <1>1 DEF Command, Entries
  <2> QED
    BY <1>1, <2>1
<1>3. queue' = file \o <<NoCommand>>
  <2> HIDE DEF file
  <2>1. queue' = <<>> \o file \o <<NoCommand>>
    BY <1>1 DEF file
  <2> QED
    BY <2>1, <1>2, ConcatEmptySeq
<1>4. /\ queue' \in Seq(Command) /\ Len(queue') = BootCount + 1
      /\ queue'[BootCount + 1] = NoCommand
      /\ \A i \in 1..BootCount : queue'[i] = file[i]
  <2> HIDE DEF file
  <2>1. <<NoCommand>> \in Seq(Command) /\ Len(<<NoCommand>>) = 1 /\ <<NoCommand>>[1] = NoCommand
    BY <1>1
  <2>2. /\ Len(file \o <<NoCommand>>) = BootCount + 1
        /\ \A i \in 1..(BootCount + 1) :
              (file \o <<NoCommand>>)[i] = IF i =< BootCount THEN file[i] ELSE <<NoCommand>>[i - BootCount]
    BY <1>1, <1>2, <2>1, ConcatProperties
  <2>3. file \o <<NoCommand>> \in Seq(Command)
    BY <1>2, <2>1, ConcatProperties
  <2> HIDE DEF NoCommand
  <2>4. queue'[BootCount + 1] = <<NoCommand>>[1]
    <3>1. BootCount + 1 \in 1..(BootCount + 1) /\ ~ (BootCount + 1 =< BootCount)
          /\ BootCount + 1 - BootCount = 1
      BY <1>1
    <3>2. (file \o <<NoCommand>>)[BootCount + 1] = <<NoCommand>>[BootCount + 1 - BootCount]
      BY <2>2, <3>1
    <3>3. <<NoCommand>>[BootCount + 1 - BootCount] = <<NoCommand>>[1]
      BY <3>1, Zenon
    <3> QED
      BY <1>3, <3>2, <3>3
  <2>5. \A i \in 1..BootCount : i \in 1..(BootCount + 1) /\ i =< BootCount
    BY <1>1
  <2> QED
    BY <1>3, <2>1, <2>2, <2>3, <2>4, <2>5
<1>5. \A i \in 1..BootCount : file[i] = [type |-> "Insert", table |-> f[i], entry |-> i]
  BY <1>1
<1> HIDE DEF file
<1> QED
  BY <1>1, <1>4, <1>5 DEF Ahead, Cmd

\* Every other step lets the line be or takes from its front.
LEMMA StepsOnward ==
  ASSUME TypeOK, Places, [Next]_vars
  PROVE  \/ Onward
         \/ Load
         \/ \E type \in DebugTypes, t \in Tables, e \in Entries : DoCommand(type, t, e)
<1>1. CASE SendCommand
  BY <1>1, OnwardSent
<1>2. CASE AcceptResult
  BY <1>2, OnwardKept DEF AcceptResult, agentvars
<1>3. CASE Agent
  <2>1. CASE AgentStart
    BY <2>1, OnwardKept DEF AgentStart, cpvars
  <2>2. CASE ProcessBegin
    BY <2>2, OnwardKept DEF ProcessBegin, Gets, Answer
  <2>3. CASE RecordInsert
    BY <2>3, OnwardKept DEF RecordInsert, Gets, Answer
  <2>4. CASE ProcessDelete
    BY <2>4, OnwardKept DEF ProcessDelete, Gets, Answer
  <2>5. CASE ProcessBoot
    BY <2>5, OnwardKept DEF ProcessBoot, Gets, Answer
  <2>6. CASE ProcessInsert
    BY <2>6, OnwardKept DEF ProcessInsert, Gets, cpvars
  <2>7. CASE ProcessEnd
    BY <2>7, OnwardKept DEF ProcessEnd, Gets, cpvars
  <2>8. CASE AddEntry \/ RefuseEntries
    BY <2>8, OnwardKept DEF AddEntry, RefuseEntries, cpvars
  <2>9. CASE WriteUnlock
    BY <2>9, OnwardKept DEF WriteUnlock, Answer
  <2> QED
    BY <1>3, <2>1, <2>2, <2>3, <2>4, <2>5, <2>6, <2>7, <2>8, <2>9 DEF Agent
<1>4. CASE WriteLock
  BY <1>4, OnwardKept DEF WriteLock, cpvars
<1>5. ASSUME NEW k \in Cores, StartLookup(k) \/ EndLookup(k) PROVE Onward
  BY <1>5, OnwardKept DEF StartLookup, EndLookup, cpvars, agentvars
<1>6. CASE UNCHANGED vars
  BY <1>6, OnwardKept DEF vars, cpvars, agentvars
<1> QED
  BY <1>1, <1>2, <1>3, <1>4, <1>5, <1>6 DEF Next

LEMMA CurrentTyped ==
  ASSUME TypeInv, agent = "woken"
  PROVE  /\ 0 \in Ahead /\ Cmd(0) = current_command
         /\ current_command.type = "Insert" => current_command.entry \in 1..entries
         /\ current_command.type \in {"Insert", "Delete"} => current_command.entry \in Entries
<1>1. entries \in Nat /\ entries =< BootCount + DebugCount /\ {BootCount, DebugCount} \subseteq Nat
  BY ControlAssumption DEF TypeInv, TypeOK, Quiet
<1>2. 0 \in Ahead /\ Cmd(0) = current_command
  BY DEF TypeInv, TypeOK, Ahead, Cmd
<1>3. /\ current_command.type = "Insert" => current_command.entry \in 1..entries
      /\ current_command.type = "Delete" => current_command.entry \in Entries
  BY <1>2 DEF TypeInv, Numbered
<1> QED
  BY <1>1, <1>2, <1>3 DEF Entries

LEMMA TypeInvInit == Init => TypeInv
<1> SUFFICES ASSUME Init PROVE TypeInv
  OBVIOUS
<1>1. {BootCount, DebugCount, Transactions, Rows} \subseteq Nat /\ Tables # {}
  BY ControlAssumption
<1>2. NoCommand \in Command
  BY <1>1 DEF NoCommand, Command
<1>3. debug \in [commands : 0..DebugCount, transactions : 0..Transactions, inside : BOOLEAN]
  BY <1>1 DEF Init
<1>4. /\ tables \in [Tables -> Seq(Entries)] /\ transaction \in [Tables -> Seq(Entries)]
      /\ \A t \in Tables : Len(tables[t]) =< Rows
  BY <1>1 DEF Init
<1>5. TypeOK
  <2>1. queue \in Seq(Command) /\ entries \in Nat /\ current_command \in Command
    BY <1>2 DEF Init
  <2>2. view \in [Entries -> {"none", "sent", "confirmed", "deleting", "deleted"}]
    BY DEF Init
  <2> QED
    BY <1>3, <1>4, <2>1, <2>2 DEF Init, TypeOK, Lock!Init
<1>6. Places /\ Quiet
  BY DEF Init, Places, Quiet, Changing
<1>7. Numbered
  BY DEF Init, Numbered, Ahead
<1> QED
  BY <1>5, <1>6, <1>7 DEF TypeInv

LEMMA TypeOKNext == TypeInv /\ [Next]_vars => TypeOK'
<1> SUFFICES ASSUME TypeInv, [Next]_vars PROVE TypeOK'
  OBVIOUS
<1> USE DEF TypeInv
<1>0. /\ {BootCount, DebugCount, Transactions, Rows} \subseteq Nat
      /\ DebugTypes \subseteq {"Begin", "End", "Insert", "Delete"}
  BY ControlAssumption
<1>1. CASE Load
  <2>1. ASSUME NEW f \in [1..BootCount -> Tables],
               queue' = queue \o [i \in 1..BootCount |->
                          [type |-> "Insert", table |-> f[i], entry |-> entries + i]]
                          \o <<NoCommand>>
        PROVE  queue' \in Seq(Command)
    BY <1>1, <2>1, LineLoaded
  <2>2. queue' \in Seq(Command)
    BY <1>1, <2>1 DEF Load, TypeOK
  <2> QED
    BY SMTT(60), <1>0, <1>1, <2>2 DEF Load, TypeOK, agentvars, lockvars
<1>2. ASSUME NEW type \in DebugTypes, NEW t \in Tables, NEW e \in Entries, DoCommand(type, t, e)
      PROVE  TypeOK'
  <2>1. queue' \in Seq(Command)
    BY <1>0, <1>2 DEF DoCommand, TypeOK, Command
  <2>2. debug' \in [commands : 0..DebugCount, transactions : 0..Transactions, inside : BOOLEAN]
    <3>1. /\ debug.commands \in 0..DebugCount /\ debug.commands < DebugCount
          /\ debug.transactions \in 0..Transactions /\ debug.inside \in BOOLEAN
          /\ type = "Begin" => debug.transactions < Transactions
      BY <1>2 DEF DoCommand, TypeOK
    <3>2. /\ debug.commands + 1 \in 0..DebugCount
          /\ debug.transactions + (IF type = "Begin" THEN 1 ELSE 0) \in 0..Transactions
      BY <1>0, <3>1
    <3> QED
      BY <1>2, <3>1, <3>2 DEF DoCommand
  <2>3. entries' \in Nat
    BY <1>0, <1>2 DEF DoCommand, TypeOK, Entries
  <2> QED
    BY <1>2, <2>1, <2>2, <2>3 DEF DoCommand, TypeOK, agentvars, lockvars
<1>3. CASE SendCommand
  <2>1. queue' \in Seq(Command) /\ current_command' \in Command
    BY <1>3 DEF SendCommand, TypeOK
  <2>2. view' \in [Entries -> {"none", "sent", "confirmed", "deleting", "deleted"}]
    BY <1>3 DEF SendCommand, TypeOK, accept_command
  <2> QED
    BY <1>3, <2>1, <2>2 DEF SendCommand, TypeOK, lockvars
<1>4. CASE AcceptResult
  BY <1>4 DEF AcceptResult, accept_result, TypeOK, agentvars, lockvars
<1>5. CASE Agent
  <2>1. CASE AgentStart
    BY <2>1 DEF AgentStart, TypeOK, cpvars, lockvars
  <2>2. CASE ProcessBegin
    BY <2>2 DEF ProcessBegin, Gets, Answer, TypeOK, lockvars
  <2>3. CASE RecordInsert
    <3>1. current_command.entry \in Entries /\ current_command.table \in Tables
      BY <2>3, CurrentTyped DEF RecordInsert, Gets, TypeOK, Command
    <3>2. transaction' \in [Tables -> Seq(Entries)]
      BY <2>3, <3>1 DEF RecordInsert, TypeOK
    <3> QED
      BY <2>3, <3>2 DEF RecordInsert, Gets, Answer, TypeOK, lockvars
  <2>4. CASE ProcessDelete
    <3>1. current_command.entry \in Entries
      BY <2>4, CurrentTyped DEF ProcessDelete, Gets
    <3> QED
      BY <2>4, <3>1 DEF ProcessDelete, Gets, Answer, TypeOK, lockvars
  <2>5. CASE ProcessBoot
    BY <2>5 DEF ProcessBoot, Gets, Answer, TypeOK, lockvars
  <2>6. CASE ProcessInsert
    <3>1. current_command.entry \in Entries /\ current_command.table \in Tables
      BY <2>6, CurrentTyped DEF ProcessInsert, Gets, TypeOK, Command
    <3>2. \A b \in todo' : b.table \in Tables /\ b.entries \in Seq(Entries)
      <4>0. <<current_command.entry>> \in Seq(Entries)
        BY <3>1
      <4>1. PICK s : s \in Seq(Entries) /\ s = <<current_command.entry>>
        BY <4>0, Zenon
      <4>2. todo' = {[table |-> current_command.table, entries |-> s]}
        BY <2>6, <4>1 DEF ProcessInsert, Batch
      <4>3. \A b \in todo' : b.table = current_command.table /\ b.entries = s
        BY <4>2
      <4> QED
        BY <3>1, <4>1, <4>3
    <3> QED
      BY <2>6, <3>2 DEF ProcessInsert, Gets, TypeOK, cpvars, lockvars
  <2>7. CASE ProcessEnd
    <3>1. \A b \in todo' : b.table \in Tables /\ b.entries \in Seq(Entries)
      BY <2>7 DEF ProcessEnd, Batch, TypeOK
    <3> QED
      BY <2>7, <3>1 DEF ProcessEnd, Gets, TypeOK, cpvars, lockvars
  <2>8. CASE AddEntry
    <3>1. PICK b \in todo, e \in Entries, r \in Batches :
            /\ b.table \in Tables /\ ~Refuses(b.table, e)
            /\ todo' = (todo \ {b}) \cup {r}
            /\ r.table = b.table /\ r.entries \in Seq(Entries)
            /\ tables' = [tables EXCEPT ![b.table] = Append(tables[b.table], e)]
            /\ current_result' = current_result \cup {e}
      BY <2>8, AddEntryShape
    <3>2. Append(tables[b.table], e) \in Seq(Entries)
          /\ Len(Append(tables[b.table], e)) = Len(tables[b.table]) + 1
      BY <3>1 DEF TypeOK
    <3>3. Len(tables[b.table]) + 1 =< Rows
      BY <1>0, <3>1 DEF TypeOK, Refuses
    <3>4. tables' \in [Tables -> Seq(Entries)] /\ \A t \in Tables : Len(tables'[t]) =< Rows
      BY <3>1, <3>2, <3>3 DEF TypeOK
    <3>5. \A c \in todo' : c.table \in Tables /\ c.entries \in Seq(Entries)
      BY <3>1 DEF TypeOK
    <3>6. current_result' \in SUBSET Entries
      BY <3>1 DEF TypeOK
    <3> QED
      BY <2>8, <3>4, <3>5, <3>6 DEF AddEntry, TypeOK, cpvars, lockvars
  <2>10. CASE RefuseEntries
    <3>1. PICK b \in todo, left \in SUBSET Entries, r \in Batches :
            /\ b.table \in Tables
            /\ todo' = (todo \ {b}) \cup {r}
            /\ r.table = b.table /\ r.entries \in Seq(Entries)
            /\ refused' = refused \cup {[table |-> b.table, entry |-> e] : e \in left}
            /\ current_result' = current_result \cup left
      BY <2>10, RefuseEntriesShape
    <3>2. \A c \in todo' : c.table \in Tables /\ c.entries \in Seq(Entries)
      BY <3>1 DEF TypeOK
    <3>3. current_result' \in SUBSET Entries
      BY <3>1 DEF TypeOK
    <3>4. refused' \in SUBSET [table : Tables, entry : Entries]
      BY <3>1 DEF TypeOK
    <3> QED
      BY <2>10, <3>2, <3>3, <3>4 DEF RefuseEntries, TypeOK, cpvars, lockvars
  <2>9. CASE WriteUnlock
    BY <2>9 DEF WriteUnlock, Answer, TypeOK, Lock!Release
  <2> QED
    BY <1>5, <2>1, <2>2, <2>3, <2>4, <2>5, <2>6, <2>7, <2>8, <2>9, <2>10 DEF Agent
<1>6. CASE WriteLock
  BY <1>6 DEF WriteLock, TypeOK, Lock!Exclude, cpvars
<1>7. ASSUME NEW k \in Cores, StartLookup(k) \/ EndLookup(k) PROVE TypeOK'
  BY <1>7 DEF StartLookup, EndLookup, TypeOK, Lock!Share, Lock!Unshare, cpvars, agentvars
<1>8. CASE UNCHANGED vars
  BY <1>8 DEF vars, TypeOK, cpvars, agentvars, lockvars
<1> QED
  BY <1>1, <1>2, <1>3, <1>4, <1>5, <1>6, <1>7, <1>8 DEF Next

LEMMA PlacesNext == TypeInv /\ [Next]_vars => Places'
<1> SUFFICES ASSUME TypeInv, [Next]_vars PROVE Places'
  OBVIOUS
<1> USE DEF TypeInv, Places, Changing
<1>1. CASE Load
  BY <1>1 DEF Load, agentvars
<1>2. ASSUME NEW type \in DebugTypes, NEW t \in Tables, NEW e \in Entries, DoCommand(type, t, e)
      PROVE  Places'
  BY <1>2 DEF DoCommand, agentvars
<1>3. CASE SendCommand
  BY <1>3 DEF SendCommand, TypeOK
<1>4. CASE AcceptResult
  BY <1>4 DEF AcceptResult, agentvars
<1>5. CASE Agent
  <2>1. CASE AgentStart
    BY <2>1 DEF AgentStart
  <2>2. CASE ProcessBegin
    BY <2>2 DEF ProcessBegin, Gets, Answer
  <2>3. CASE RecordInsert
    BY <2>3 DEF RecordInsert, Gets, Answer
  <2>4. CASE ProcessDelete
    BY <2>4 DEF ProcessDelete, Gets, Answer
  <2>5. CASE ProcessBoot
    BY <2>5 DEF ProcessBoot, Gets, Answer
  <2>6. CASE ProcessInsert
    BY <2>6 DEF ProcessInsert, Gets, cpvars
  <2>7. CASE ProcessEnd
    BY <2>7 DEF ProcessEnd, Gets, cpvars
  <2>8. CASE AddEntry \/ RefuseEntries
    <3>1. /\ agent' = agent /\ agent = "apply" /\ pc' = pc
          /\ in_transaction' = in_transaction /\ current_command' = current_command
      BY <2>8 DEF AddEntry, RefuseEntries, cpvars
    <3> QED
      BY <3>1
  <2>9. CASE WriteUnlock
    BY <2>9 DEF WriteUnlock, Answer
  <2> QED
    BY <1>5, <2>1, <2>2, <2>3, <2>4, <2>5, <2>6, <2>7, <2>8, <2>9 DEF Agent
<1>6. CASE WriteLock
  BY <1>6 DEF WriteLock, cpvars
<1>7. ASSUME NEW k \in Cores, StartLookup(k) \/ EndLookup(k) PROVE Places'
  BY <1>7 DEF StartLookup, EndLookup, cpvars, agentvars
<1>8. CASE UNCHANGED vars
  BY <1>8 DEF vars, cpvars, agentvars
<1> QED
  BY <1>1, <1>2, <1>3, <1>4, <1>5, <1>6, <1>7, <1>8 DEF Next

LEMMA QuietNext == TypeInv /\ [Next]_vars => Quiet'
<1> SUFFICES ASSUME TypeInv, [Next]_vars PROVE Quiet'
  OBVIOUS
<1> USE DEF TypeInv
<1>0. {BootCount, DebugCount} \subseteq Nat
  BY ControlAssumption
<1>1. CASE Load
  <2>1. debug.commands \in Nat /\ debug' = debug /\ loaded' /\ entries = 0
    BY <1>0, <1>1 DEF Load, TypeOK, Quiet
  <2>2. entries' = entries \/ entries' = entries + BootCount
    BY <1>1 DEF Load
  <2> QED
    BY <1>0, <2>1, <2>2 DEF Quiet
<1>2. ASSUME NEW type \in DebugTypes, NEW t \in Tables, NEW e \in Entries, DoCommand(type, t, e)
      PROVE  Quiet'
  <2>1. /\ debug.commands \in Nat /\ debug'.commands = debug.commands + 1
        /\ loaded /\ loaded' = loaded /\ entries \in Nat
    BY <1>2 DEF DoCommand, TypeOK
  <2>2. entries' = entries \/ entries' = entries + 1
    BY <1>2 DEF DoCommand
  <2> QED
    BY <1>0, <2>1, <2>2 DEF Quiet
<1>3. CASE SendCommand
  BY <1>3 DEF SendCommand, Quiet
<1>4. CASE AcceptResult
  BY <1>4 DEF AcceptResult, Quiet
<1>5. CASE Agent
  <2>1. UNCHANGED <<queue, loaded, debug, entries>> /\ (pc' = pc \/ pc = "waiting")
    BY <1>5 DEF Agent, AgentStart, ProcessBegin, RecordInsert, ProcessDelete, ProcessBoot,
       ProcessInsert, ProcessEnd, AddEntry, RefuseEntries, WriteUnlock, Answer, cpvars
  <2> QED
    BY <2>1 DEF Quiet
<1>6. CASE WriteLock
  BY <1>6 DEF WriteLock, Quiet, cpvars
<1>7. ASSUME NEW k \in Cores, StartLookup(k) \/ EndLookup(k) PROVE Quiet'
  BY <1>7 DEF StartLookup, EndLookup, Quiet, cpvars
<1>8. CASE UNCHANGED vars
  BY <1>8 DEF vars, Quiet, cpvars
<1> QED
  BY <1>1, <1>2, <1>3, <1>4, <1>5, <1>6, <1>7, <1>8 DEF Next

LEMMA NumberedNext == TypeInv /\ [Next]_vars => Numbered'
<1> SUFFICES ASSUME TypeInv, [Next]_vars PROVE Numbered'
  OBVIOUS
<1> USE DEF TypeInv
<1>1. CASE Onward
  <2>1. PICK d \in {0, 1} : \A i \in Ahead' : i + d \in Ahead /\ Cmd(i)' = Cmd(i + d)
    BY <1>1 DEF Onward
  <2>2. entries' = entries /\ \A i \in Ahead' : i \in Nat
    BY <1>1, TypeOKNext DEF Onward, Ahead, TypeOK
  <2>3. \A i, j \in Ahead' : i < j => i + d < j + d
    BY <2>2
  <2> QED
    BY <2>1, <2>2, <2>3 DEF Numbered
<1>2. CASE Load
  <2>1. CASE UNCHANGED <<queue, entries>>
    BY <1>2, <2>1, OnwardKept, <1>1 DEF Load, agentvars
  <2>2. ASSUME NEW f \in [1..BootCount -> Tables], entries' = entries + BootCount,
               queue' = queue \o [i \in 1..BootCount |->
                          [type |-> "Insert", table |-> f[i], entry |-> entries + i]]
                          \o <<NoCommand>>
        PROVE  Numbered'
    <3>1. /\ Ahead' = 1..(BootCount + 1) /\ Cmd(BootCount + 1)' = NoCommand
          /\ \A i \in 1..BootCount : Cmd(i)' = [type |-> "Insert", table |-> f[i], entry |-> i]
      BY <1>2, <2>2, LineLoaded
    <3>2. BootCount \in Nat /\ entries' = BootCount
      BY <1>2, <2>2, ControlAssumption DEF Load, Quiet
    <3>3. \A i \in 1..BootCount : Cmd(i)'.type = "Insert" /\ Cmd(i)'.entry = i
      BY <3>1
    <3>4. Cmd(BootCount + 1)'.type = "Boot"
      BY <3>1 DEF NoCommand
    <3>5. \A i \in Ahead' : i \in 1..BootCount \/ i = BootCount + 1
      BY <3>1, <3>2
    <3> QED
      BY <3>2, <3>3, <3>4, <3>5 DEF Numbered
  <2> QED
    BY <1>2, <2>1, <2>2 DEF Load
<1>3. ASSUME NEW type \in DebugTypes, NEW t \in Tables, NEW e \in Entries, DoCommand(type, t, e)
      PROVE  Numbered'
  <2>1. PICK c \in Command :
           /\ queue' = Append(queue, c) /\ c.type = type
           /\ type = "Insert" => c.entry = entries + 1 /\ entries' = entries + 1
           /\ type # "Insert" => entries' = entries
           /\ type = "Delete" => c.entry = e
    <3>1. [type |-> type, table |-> t,
           entry |-> IF type \in {"Insert", "Delete"} THEN e ELSE 0] \in Command
      BY ControlAssumption DEF Command
    <3> QED
      BY <1>3, <3>1 DEF DoCommand
  <2>2. PICK n \in Nat \ {0} : /\ Ahead' = Ahead \cup {n} /\ Cmd(n)' = c
                               /\ \A i \in Ahead : i < n /\ Cmd(i)' = Cmd(i)
    BY <1>3, <2>1, LineGrows DEF DoCommand, agentvars
  <2>3. /\ entries \in Nat /\ entries' \in Nat /\ entries =< entries'
        /\ \A i \in Ahead : i \in Nat
    BY <2>1, LineTyped DEF TypeOK
  <2>4. ASSUME NEW i \in Ahead
        PROVE  /\ Cmd(i)'.type = "Delete" => Cmd(i)'.entry \in Entries
               /\ Cmd(i)'.type = "Insert" => Cmd(i)'.entry \in 1..entries'
               /\ Cmd(i)'.type = "Insert" =>
                    \A j \in Ahead : i < j /\ Cmd(j)'.type = "Insert" => Cmd(i)'.entry < Cmd(j)'.entry
    BY <2>2, <2>3 DEF Numbered
  <2>5. /\ c.type = "Delete" => c.entry \in Entries
        /\ c.type = "Insert" => c.entry \in 1..entries'
    BY <2>1, <2>3
  <2>6. ASSUME NEW i \in Ahead, Cmd(i)'.type = "Insert", c.type = "Insert"
        PROVE  Cmd(i)'.entry < c.entry
    <3>1. Cmd(i).entry \in 1..entries
      BY <2>2, <2>6 DEF Numbered
    <3> QED
      BY <2>1, <2>2, <2>3, <2>6, <3>1
  <2> QED
    BY <2>2, <2>3, <2>4, <2>5, <2>6 DEF Numbered
<1> QED
  BY <1>1, <1>2, <1>3, StepsOnward

\* The types of ControlPlane.tla, and with them that the commands in line are
\* numbered in their order, whatever the debugger does.
THEOREM TypeCorrect == Spec => []TypeOK
<1>1. TypeInv /\ [Next]_vars => TypeInv'
  BY TypeOKNext, PlacesNext, QuietNext, NumberedNext DEF TypeInv
<1>2. TypeInv => TypeOK
  BY DEF TypeInv
<1> QED
  BY TypeInvInit, <1>1, <1>2, PTL DEF Spec

-------------------------------------------------------------------------------
(* Insertions are carried out in the order they were accepted, and once.   *)
(* The agent never empties a transaction it has applied, so that a second  *)
(* one would apply the first again: what follows is about one transaction. *)

\* The agent has recorded the insertion, is applying it or has applied it.
Past(e) == \/ \E t \in Tables : e \in Elements(tables[t]) \/ e \in Elements(transaction[t])
           \/ \E b \in todo : e \in Elements(b.entries)

Behind ==
    \A e \in Entries : Past(e) =>
        /\ e =< entries
        /\ \A i \in Ahead : Cmd(i).type = "Insert" => e < Cmd(i).entry

Recorded == \E t \in Tables : transaction[t] # <<>>

\* Beginning and end of the transaction are in line only before they are
\* carried out, and nothing is recorded before the one and applied after the
\* other.
OneTransaction ==
    /\ debug.inside \/ in_transaction \/ Recorded => debug.transactions = 1
    /\ Recorded /\ ~in_transaction => ~debug.inside
    /\ \A i \in Ahead :
          /\ Cmd(i).type \in {"Begin", "End"} =>
                debug.transactions = 1 /\ (Recorded => in_transaction)
          /\ Cmd(i).type = "End" =>
                ~debug.inside /\ \A j \in Ahead : i < j => Cmd(j).type \notin {"Begin", "End"}

Sorted ==
    /\ \A t \in Tables : /\ Increasing(tables[t]) /\ Increasing(transaction[t])
                         /\ in_transaction => Before(tables[t], transaction[t])
    /\ \A b \in todo : /\ Increasing(b.entries) /\ Before(tables[b.table], b.entries)
                       /\ \A c \in todo : b.table = c.table => b = c

OrderInv == Behind /\ OneTransaction /\ Sorted

LEMMA OrderInvInit == Init => OrderInv
<1> SUFFICES ASSUME Init PROVE OrderInv
  OBVIOUS
<1>1. Behind
  BY DEF Init, Behind, Past, Elements
<1>2. OneTransaction
  BY DEF Init, OneTransaction, Recorded, Ahead
<1>3. Sorted
  BY DEF Init, Sorted, Increasing
<1> QED
  BY <1>1, <1>2, <1>3 DEF OrderInv

\* What a step adds to the past it takes from the front of the line.
LEMMA PastGrows ==
  ASSUME TypeInv, [Next]_vars, NEW e \in Entries, Past(e)'
  PROVE  \/ Past(e)
         \/ /\ agent = "woken" /\ agent' # "woken"
            /\ UNCHANGED <<queue, entries>>
            /\ current_command.type = "Insert" /\ e = current_command.entry
<1> USE DEF TypeInv
<1>1. CASE UNCHANGED <<tables, transaction, todo>>
  BY <1>1 DEF Past
<1>2. CASE RecordInsert
  <2>1. /\ current_command.entry \in Entries /\ current_command.table \in Tables
        /\ current_command.type = "Insert"
    BY <1>2, CurrentTyped DEF RecordInsert, Gets, TypeOK, Command
  <2>2. \A t \in Tables : \/ transaction'[t] = transaction[t]
                          \/ transaction'[t] = Append(transaction[t], current_command.entry)
    BY <1>2 DEF RecordInsert, TypeOK
  <2>3. \A t \in Tables : e \in Elements(transaction'[t]) =>
           e \in Elements(transaction[t]) \/ e = current_command.entry
    <3>1. ASSUME NEW t \in Tables, e \in Elements(transaction'[t])
          PROVE  e \in Elements(transaction[t]) \/ e = current_command.entry
      <4>1. Elements(Append(transaction[t], current_command.entry))
              = Elements(transaction[t]) \cup {current_command.entry}
        <5>1. transaction[t] \in Seq(Entries)
          BY DEF TypeOK
        <5> QED
          BY <2>1, <5>1, ElementsAppend
      <4> QED
        BY <2>2, <3>1, <4>1
    <3> QED
      BY <3>1
  <2>4. /\ tables' = tables /\ todo' = todo /\ agent = "woken" /\ agent' # "woken"
        /\ UNCHANGED <<queue, entries>>
    BY <1>2 DEF RecordInsert, Gets, Answer
  <2> QED
    BY <2>1, <2>3, <2>4 DEF Past
<1>3. CASE ProcessInsert
  <2>1. /\ tables' = tables /\ transaction' = transaction /\ agent = "woken" /\ agent' # "woken"
        /\ UNCHANGED <<queue, entries>> /\ current_command.type = "Insert"
    BY <1>3 DEF ProcessInsert, Gets, cpvars
  <2>2. PICK s : s = <<current_command.entry>>
    OBVIOUS
  <2>3. todo' = {[table |-> current_command.table, entries |-> s]}
    BY <1>3, <2>2 DEF ProcessInsert, Batch
  <2>4. \A b \in todo' : b.entries = s
    BY <2>3
  <2>5. Elements(s) = {current_command.entry}
    BY <2>2 DEF Elements
  <2> QED
    BY <2>1, <2>4, <2>5 DEF Past
<1>4. CASE ProcessEnd
  <2>1. tables' = tables /\ transaction' = transaction
    BY <1>4 DEF ProcessEnd
  <2>2. \A b \in todo' : \E t \in Tables : b.entries = transaction[t]
    BY <1>4 DEF ProcessEnd, Batch
  <2> QED
    BY <2>1, <2>2 DEF Past
<1>5. CASE AddEntry
  <2>1. PICK b \in todo, f \in Entries, r \in Batches :
          /\ b.table \in Tables /\ f \in Elements(b.entries)
          /\ todo' = (todo \ {b}) \cup {r}
          /\ Elements(b.entries) = {f} \cup Elements(r.entries)
          /\ tables' = [tables EXCEPT ![b.table] = Append(tables[b.table], f)]
    BY <1>5, AddEntryShape
  <2>2. Elements(Append(tables[b.table], f)) = Elements(tables[b.table]) \cup {f}
    <3>1. tables[b.table] \in Seq(Entries)
      BY <2>1 DEF TypeOK
    <3> QED
      BY <3>1, ElementsAppend
  <2>3. \A t \in Tables : Elements(tables'[t]) \subseteq Elements(tables[t]) \cup Elements(b.entries)
    BY <2>1, <2>2 DEF TypeOK
  <2>4. \A c \in todo' : c \in todo \/ Elements(c.entries) \subseteq Elements(b.entries)
    BY <2>1
  <2>5. transaction' = transaction
    BY <1>5 DEF AddEntry
  <2> QED
    BY <2>3, <2>4, <2>5 DEF Past
<1>6. CASE RefuseEntries
  <2>1. PICK b \in todo, left \in SUBSET Entries, r \in Batches :
          /\ todo' = (todo \ {b}) \cup {r}
          /\ Elements(b.entries) = left \cup Elements(r.entries)
    BY <1>6, RefuseEntriesShape
  <2>2. \A c \in todo' : c \in todo \/ Elements(c.entries) \subseteq Elements(b.entries)
    BY <2>1
  <2>3. UNCHANGED <<tables, transaction>>
    BY <1>6 DEF RefuseEntries
  <2> QED
    BY <2>2, <2>3 DEF Past
<1>7. CASE WriteUnlock
  <2>1. UNCHANGED <<tables, transaction>> /\ todo' = {}
    BY <1>7 DEF WriteUnlock
  <2> QED
    BY <2>1 DEF Past
<1> QED
  <2>1. \/ UNCHANGED <<tables, transaction, todo>>
        \/ RecordInsert \/ ProcessInsert \/ ProcessEnd \/ AddEntry \/ RefuseEntries \/ WriteUnlock
    BY DEF Next, Agent, Load, DoCommand, SendCommand, AcceptResult, AgentStart, ProcessBegin,
       ProcessDelete, ProcessBoot, WriteLock, StartLookup, EndLookup, vars, agentvars
  <2> QED
    BY <1>1, <1>2, <1>3, <1>4, <1>5, <1>6, <1>7, <2>1

LEMMA BehindNext == TypeInv /\ Behind /\ [Next]_vars => Behind'
<1> SUFFICES ASSUME TypeInv, Behind, [Next]_vars, NEW e \in Entries, Past(e)'
             PROVE  /\ e =< entries'
                    /\ \A i \in Ahead' : Cmd(i)'.type = "Insert" => e < Cmd(i)'.entry
  BY DEF Behind
<1>0. entries \in Nat /\ e \in Nat /\ {BootCount, DebugCount} \subseteq Nat
  BY ControlAssumption DEF TypeInv, TypeOK, Entries
<1>1. CASE ~Past(e)
  <2>1. /\ agent = "woken" /\ agent' # "woken"
        /\ UNCHANGED <<queue, entries>>
        /\ current_command.type = "Insert" /\ e = current_command.entry
    BY <1>1, PastGrows
  <2>2. /\ 0 \in Ahead /\ Cmd(0) = current_command /\ current_command.entry \in 1..entries
    BY <2>1, CurrentTyped
  <2>3. \A i \in Ahead' : i \in Ahead /\ 0 < i /\ Cmd(i)' = Cmd(i)
    BY <2>1 DEF Ahead, Cmd, TypeInv, TypeOK
  <2>4. Numbered
    BY DEF TypeInv
  <2> QED
    BY <1>0, <2>1, <2>2, <2>3, <2>4 DEF Numbered
<1>2. CASE Past(e) /\ Onward
  BY <1>2 DEF Behind, Onward
<1>3. CASE Past(e) /\ Load
  <2>1. e =< entries /\ entries = 0
    BY <1>3 DEF Behind, Load, TypeInv, Quiet
  <2> QED
    BY <1>0, <2>1 DEF Entries
<1>4. ASSUME Past(e), NEW type \in DebugTypes, NEW t \in Tables, NEW f \in Entries, DoCommand(type, t, f)
      PROVE  /\ e =< entries'
             /\ \A i \in Ahead' : Cmd(i)'.type = "Insert" => e < Cmd(i)'.entry
  <2>1. PICK c \in Command :
           /\ queue' = Append(queue, c) /\ c.type = type
           /\ type = "Insert" => c.entry = entries + 1 /\ entries' = entries + 1
           /\ type # "Insert" => entries' = entries
    <3>1. [type |-> type, table |-> t,
           entry |-> IF type \in {"Insert", "Delete"} THEN f ELSE 0] \in Command
      BY ControlAssumption DEF Command
    <3> QED
      BY <1>4, <3>1 DEF DoCommand
  <2>2. PICK n \in Nat \ {0} : /\ Ahead' = Ahead \cup {n} /\ Cmd(n)' = c
                               /\ \A i \in Ahead : i < n /\ Cmd(i)' = Cmd(i)
    BY <1>4, <2>1, LineGrows DEF DoCommand, agentvars, TypeInv
  <2>3. e =< entries
    BY <1>4 DEF Behind
  <2>4. \A i \in Ahead : Cmd(i)'.type = "Insert" => e < Cmd(i)'.entry
    BY <1>4, <2>2 DEF Behind
  <2>5. c.type = "Insert" => e < c.entry
    BY <1>0, <2>1, <2>3
  <2> QED
    BY <1>0, <2>1, <2>2, <2>3, <2>4, <2>5
<1> QED
  BY <1>1, <1>2, <1>3, <1>4, StepsOnward DEF TypeInv

LEMMA OneTransactionNext ==
  ASSUME Transactions =< 1
  PROVE  TypeInv /\ OneTransaction /\ [Next]_vars => OneTransaction'
<1> SUFFICES ASSUME TypeInv, OneTransaction, [Next]_vars PROVE OneTransaction'
  OBVIOUS
<1> USE DEF TypeInv
<1>0. /\ debug.transactions \in {0, 1} /\ debug.inside \in BOOLEAN
      /\ Transactions \in Nat
  BY ControlAssumption DEF TypeOK
<1>1. CASE Onward /\ UNCHANGED <<debug, in_transaction, transaction>>
  <2>1. PICK d \in {0, 1} : \A i \in Ahead' : i + d \in Ahead /\ Cmd(i)' = Cmd(i + d)
    BY <1>1 DEF Onward
  <2>2. \A i \in Ahead' : i \in Nat
    BY TypeOKNext DEF Ahead, TypeOK
  <2>3. \A i, j \in Ahead' : i < j => i + d < j + d
    BY <2>2
  <2>4. Recorded' <=> Recorded
    BY <1>1 DEF Recorded
  <2> QED
    BY <1>1, <2>1, <2>3, <2>4 DEF OneTransaction
<1>2. ASSUME agent = "woken", agent' # "woken", UNCHANGED <<queue, debug>>
      PROVE  \A i \in Ahead' : i \in Ahead /\ 0 < i /\ Cmd(i)' = Cmd(i)
  BY <1>2 DEF Ahead, Cmd, TypeOK
<1>3. CASE ProcessBegin
  <2>1. /\ agent = "woken" /\ agent' # "woken" /\ UNCHANGED <<queue, debug, transaction>>
        /\ current_command.type = "Begin" /\ in_transaction'
    BY <1>3 DEF ProcessBegin, Gets, Answer
  <2>2. debug.transactions = 1
    BY <2>1, CurrentTyped DEF OneTransaction
  <2> QED
    BY <1>2, <2>1, <2>2 DEF OneTransaction
<1>4. CASE RecordInsert
  <2>1. /\ agent = "woken" /\ agent' # "woken" /\ UNCHANGED <<queue, debug>>
        /\ in_transaction /\ in_transaction'
    BY <1>4 DEF RecordInsert, Gets, Answer
  <2> QED
    BY <1>2, <2>1 DEF OneTransaction
<1>5. CASE ProcessEnd
  <2>1. /\ agent = "woken" /\ agent' # "woken" /\ UNCHANGED <<queue, debug, transaction>>
        /\ current_command.type = "End" /\ ~in_transaction'
    BY <1>5 DEF ProcessEnd, Gets, cpvars
  <2>2. 0 \in Ahead /\ Cmd(0).type = "End"
    BY <2>1, CurrentTyped
  <2>3. \A i \in Ahead' : Cmd(i)'.type \notin {"Begin", "End"}
    BY <1>2, <2>1, <2>2 DEF OneTransaction
  <2>4. ~debug.inside /\ debug.transactions = 1
    BY <2>2 DEF OneTransaction
  <2> QED
    BY <2>1, <2>3, <2>4 DEF OneTransaction
<1>6. CASE Load
  <2>1. CASE UNCHANGED <<queue, entries>>
    <3>1. Onward
      BY <1>6, <2>1, OnwardKept DEF Load, agentvars
    <3> QED
      BY <1>1, <1>6, <3>1 DEF Load, agentvars
  <2>2. ASSUME NEW f \in [1..BootCount -> Tables],
               queue' = queue \o [i \in 1..BootCount |->
                          [type |-> "Insert", table |-> f[i], entry |-> entries + i]]
                          \o <<NoCommand>>
        PROVE  OneTransaction'
    <3>1. /\ Ahead' = 1..(BootCount + 1) /\ Cmd(BootCount + 1)' = NoCommand
          /\ \A i \in 1..BootCount : Cmd(i)' = [type |-> "Insert", table |-> f[i], entry |-> i]
      BY <1>6, <2>2, LineLoaded
    <3>2. \A i \in Ahead' : i \in 1..BootCount \/ i = BootCount + 1
      BY <3>1, ControlAssumption
    <3>3. \A i \in 1..BootCount : Cmd(i)'.type = "Insert"
      BY <3>1
    <3>4. Cmd(BootCount + 1)'.type = "Boot"
      BY <3>1 DEF NoCommand
    <3>5. \A i \in Ahead' : Cmd(i)'.type \notin {"Begin", "End"}
      BY <3>2, <3>3, <3>4
    <3>6. UNCHANGED <<debug, in_transaction, transaction>>
      BY <1>6 DEF Load, agentvars
    <3> QED
      BY <3>5, <3>6 DEF OneTransaction, Recorded
  <2> QED
    BY <1>6, <2>1, <2>2 DEF Load
<1>7. ASSUME NEW type \in DebugTypes, NEW t \in Tables, NEW e \in Entries, DoCommand(type, t, e)
      PROVE  OneTransaction'
  <2>1. PICK c \in Command : queue' = Append(queue, c) /\ c.type = type
    <3>1. [type |-> type, table |-> t,
           entry |-> IF type \in {"Insert", "Delete"} THEN e ELSE 0] \in Command
      BY ControlAssumption DEF Command
    <3> QED
      BY <1>7, <3>1 DEF DoCommand
  <2>2. PICK n \in Nat \ {0} : /\ Ahead' = Ahead \cup {n} /\ Cmd(n)' = c
                               /\ \A i \in Ahead : i \in Nat /\ i < n /\ Cmd(i)' = Cmd(i)
    BY <1>7, <2>1, LineGrows, LineTyped DEF DoCommand, agentvars
  <2>3. /\ UNCHANGED <<in_transaction, transaction>>
        /\ debug'.transactions = debug.transactions + (IF type = "Begin" THEN 1 ELSE 0)
        /\ debug'.inside = IF type \in {"Begin", "End"} THEN type = "Begin" ELSE debug.inside
        /\ type = "Begin" => debug.transactions < Transactions
        /\ type = "End" => debug.inside
    BY <1>7 DEF DoCommand, agentvars
  <2>4. Recorded' <=> Recorded
    BY <2>3 DEF Recorded
  <2>5. CASE type = "Begin"
    <3>1. /\ debug.transactions = 0 /\ debug'.transactions = 1
          /\ ~debug.inside /\ ~in_transaction /\ ~Recorded
          /\ \A i \in Ahead : Cmd(i).type \notin {"Begin", "End"}
      BY <1>0, <2>3, <2>5 DEF OneTransaction
    <3> QED
      BY <2>1, <2>2, <2>3, <2>4, <2>5, <3>1 DEF OneTransaction
  <2>6. CASE type = "End"
    <3>1. /\ debug.transactions = 1 /\ debug'.transactions = 1 /\ debug.inside /\ ~debug'.inside
          /\ Recorded => in_transaction
          /\ \A i \in Ahead : Cmd(i).type # "End"
      <4>1. debug'.transactions = debug.transactions + 0
        BY <2>3, <2>6
      <4>2. debug'.transactions = debug.transactions
        BY <1>0, <4>1
      <4>3. debug.inside /\ ~debug'.inside
        BY <2>3, <2>6, Zenon
      <4> QED
        BY <4>2, <4>3 DEF OneTransaction
    <3>2. \A i \in Ahead' : n < i => FALSE
      BY <2>2
    <3> QED
      BY <2>1, <2>2, <2>3, <2>4, <2>6, <3>1, <3>2 DEF OneTransaction
  <2>7. CASE type \notin {"Begin", "End"}
    <3>1. debug'.transactions = debug.transactions /\ debug'.inside = debug.inside
      BY <1>0, <2>3, <2>7
    <3> QED
      BY <2>1, <2>2, <2>3, <2>4, <2>7, <3>1 DEF OneTransaction
  <2> QED
    BY <2>5, <2>6, <2>7
<1> QED
  <2>1. \/ UNCHANGED <<debug, in_transaction, transaction>>
        \/ ProcessBegin \/ RecordInsert \/ ProcessEnd \/ Load
        \/ \E type \in DebugTypes, t \in Tables, e \in Entries : DoCommand(type, t, e)
    BY DEF Next, Agent, SendCommand, AcceptResult, AgentStart, ProcessDelete, ProcessBoot, ProcessInsert,
       AddEntry, RefuseEntries, WriteLock, WriteUnlock, StartLookup, EndLookup, vars, agentvars, cpvars
  <2> QED
    BY <1>1, <1>3, <1>4, <1>5, <1>6, <1>7, <2>1, StepsOnward

LEMMA SortedNext == TypeInv /\ OrderInv /\ [Next]_vars => Sorted'
<1> SUFFICES ASSUME TypeInv, OrderInv, [Next]_vars PROVE Sorted'
  OBVIOUS
<1> USE DEF TypeInv, OrderInv
<1>0. Entries \subseteq Nat
  BY ControlAssumption DEF Entries
<1>1. CASE UNCHANGED <<in_transaction, transaction, tables, todo>>
  BY <1>1 DEF Sorted
<1>2. CASE ProcessBegin
  <2>1. UNCHANGED <<transaction, tables, todo>> /\ agent = "woken" /\ current_command.type = "Begin"
    BY <1>2 DEF ProcessBegin, Gets
  <2>2. Recorded => in_transaction
    BY <2>1, CurrentTyped DEF OneTransaction
  <2>3. ~Recorded => \A t \in Tables : Elements(transaction[t]) = {}
    BY DEF Recorded, Elements
  <2> QED
    BY <2>1, <2>2, <2>3 DEF Sorted, Before
<1>3. CASE RecordInsert
  <2>1. /\ agent = "woken" /\ current_command.type = "Insert" /\ in_transaction
        /\ UNCHANGED <<in_transaction, tables, todo>>
        /\ transaction' = [transaction EXCEPT ![current_command.table] =
                              Append(@, current_command.entry)]
    BY <1>3 DEF RecordInsert, Gets
  <2>2. PICK e \in Entries : e = current_command.entry /\ Cmd(0).entry = e /\ 0 \in Ahead
    BY <2>1, CurrentTyped
  <2>3. ASSUME NEW t \in Tables
        PROVE  Increasing(tables'[t]) /\ Increasing(transaction'[t]) /\ Before(tables'[t], transaction'[t])
    <3>1. /\ transaction[t] \in Seq(Entries) /\ tables[t] \in Seq(Entries)
          /\ Increasing(transaction[t]) /\ Increasing(tables[t]) /\ Before(tables[t], transaction[t])
      BY <2>1 DEF TypeOK, Sorted
    <3>2. CASE transaction'[t] = transaction[t]
      BY <2>1, <3>1, <3>2
    <3>3. CASE transaction'[t] = Append(transaction[t], e)
      <4>1. \A x \in Elements(transaction[t]) \cup Elements(tables[t]) : x < e
        <5>1. \A x \in Elements(transaction[t]) \cup Elements(tables[t]) : x \in Entries /\ Past(x)
          BY <3>1, ElementsTyped DEF Past
        <5>2. Cmd(0).type = "Insert"
          BY <2>1, CurrentTyped
        <5> QED
          BY <2>2, <5>1, <5>2 DEF Behind
      <4>2. Increasing(Append(transaction[t], e))
        <5>1. transaction[t] \in Seq(Nat) /\ e \in Nat
          BY <1>0, <3>1, SeqMonotonic
        <5> QED
          BY <3>1, <4>1, <5>1, IncreasingAppend
      <4>3. Elements(Append(transaction[t], e)) = Elements(transaction[t]) \cup {e}
        BY <3>1, ElementsAppend
      <4>4. Before(tables[t], Append(transaction[t], e))
        BY <3>1, <4>1, <4>3 DEF Before
      <4> QED
        BY <2>1, <3>1, <3>3, <4>2, <4>4
    <3> QED
      BY <2>1, <2>2, <3>2, <3>3 DEF TypeOK
  <2>4. todo = {}
    BY <2>1 DEF Places, Changing
  <2> QED
    BY <2>1, <2>3, <2>4 DEF Sorted
<1>4. CASE ProcessInsert
  <2>1. /\ agent = "woken" /\ current_command.type = "Insert" /\ ~in_transaction
        /\ UNCHANGED <<in_transaction, tables, transaction>>
    BY <1>4 DEF ProcessInsert, Gets
  <2>2. PICK e \in Entries : e = current_command.entry /\ Cmd(0).entry = e /\ 0 \in Ahead
    BY <2>1, CurrentTyped
  <2>3. PICK s : s = <<e>>
    OBVIOUS
  <2>4. Elements(s) = {e} /\ Increasing(s)
    BY <2>3 DEF Elements, Increasing
  <2>5. todo' = {[table |-> current_command.table, entries |-> s]}
    BY <1>4, <2>2, <2>3 DEF ProcessInsert, Batch
  <2>6. \A b \in todo' : b.table = current_command.table /\ b.entries = s
    BY <2>5
  <2>7. current_command.table \in Tables
    BY DEF TypeOK, Command
  <2>8. Before(tables[current_command.table], s)
    <3>1. \A x \in Elements(tables[current_command.table]) : x \in Entries /\ Past(x)
      BY <2>7, ElementsTyped DEF Past, TypeOK
    <3>2. Cmd(0).type = "Insert"
      BY <2>1, CurrentTyped
    <3> QED
      BY <2>2, <2>4, <3>1, <3>2 DEF Before, Behind
  <2> QED
    BY <2>1, <2>4, <2>5, <2>6, <2>8 DEF Sorted
<1>5. CASE ProcessEnd
  <2>1. /\ agent = "woken" /\ current_command.type = "End" /\ ~in_transaction'
        /\ UNCHANGED <<tables, transaction>>
        /\ todo' = {[table |-> t, entries |-> transaction[t]] :
                       t \in {u \in Tables : transaction[u] # <<>>}}
    BY <1>5 DEF ProcessEnd, Gets, Batch
  <2>2. Recorded => in_transaction
    BY <2>1, CurrentTyped DEF OneTransaction
  <2>3. \A b \in todo' : /\ b.table \in Tables /\ transaction[b.table] # <<>>
                         /\ b = [table |-> b.table, entries |-> transaction[b.table]]
    BY <2>1
  <2>4. \A b \in todo' : b.entries = transaction[b.table] /\ Recorded
    BY <2>3 DEF Recorded
  <2>5. \A b, c \in todo' : b.table = c.table => b = c
    BY <2>3
  <2> QED
    BY <2>1, <2>2, <2>3, <2>4, <2>5 DEF Sorted
<1>6. CASE AddEntry
  <2>1. PICK b \in todo, e \in Entries, r \in Batches :
          /\ b.table \in Tables /\ e \in Elements(b.entries)
          /\ todo' = (todo \ {b}) \cup {r}
          /\ r.table = b.table /\ r.entries \in Seq(Entries)
          /\ Elements(b.entries) = {e} \cup Elements(r.entries)
          /\ Increasing(b.entries) =>
               Increasing(r.entries) /\ \A x \in Elements(r.entries) : e < x
          /\ tables' = [tables EXCEPT ![b.table] = Append(tables[b.table], e)]
    BY <1>6, AddEntryShape
  <2>2. /\ Increasing(b.entries) /\ Before(tables[b.table], b.entries)
        /\ Increasing(tables[b.table]) /\ tables[b.table] \in Seq(Entries)
    BY <2>1 DEF Sorted, TypeOK
  <2>3. PICK new : new = Append(tables[b.table], e)
    OBVIOUS
  <2>4. Increasing(new)
    <3>1. tables[b.table] \in Seq(Nat) /\ e \in Nat
      BY <1>0, <2>2, SeqMonotonic
    <3>2. \A x \in Elements(tables[b.table]) : x < e
      BY <2>1, <2>2 DEF Before
    <3> QED
      BY <2>2, <2>3, <3>1, <3>2, IncreasingAppend
  <2>5. Elements(new) = Elements(tables[b.table]) \cup {e}
    BY <2>2, <2>3, ElementsAppend
  <2>6. Increasing(r.entries) /\ Before(new, r.entries)
    BY <2>1, <2>2, <2>5 DEF Before
  <2>7. tables'[b.table] = new /\ \A t \in Tables : t # b.table => tables'[t] = tables[t]
    BY <2>1, <2>3 DEF TypeOK
  <2>8. UNCHANGED <<in_transaction, transaction>> /\ ~in_transaction
    BY <1>6 DEF AddEntry, Places, Changing
  <2>9. \A t \in Tables : Increasing(tables'[t]) /\ Increasing(transaction'[t])
    BY <2>4, <2>7, <2>8 DEF Sorted
  <2>10. \A c \in todo' : c = r \/ (/\ c \in todo /\ c.table # b.table /\ c.table \in Tables
                                  /\ tables'[c.table] = tables[c.table])
    BY <2>1, <2>7 DEF Sorted, TypeOK
  <2>11. \A c \in todo' : Increasing(c.entries) /\ Before(tables'[c.table], c.entries)
    BY <2>1, <2>6, <2>7, <2>10 DEF Sorted
  <2>12. \A c, d \in todo' : c.table = d.table => c = d
    BY <2>1, <2>10 DEF Sorted
  <2> QED
    BY <2>8, <2>9, <2>11, <2>12 DEF Sorted
<1>7. CASE RefuseEntries
  <2>1. PICK b \in todo, left \in SUBSET Entries, r \in Batches :
          /\ todo' = (todo \ {b}) \cup {r}
          /\ r.table = b.table
          /\ Elements(b.entries) = left \cup Elements(r.entries)
          /\ Increasing(b.entries) => Increasing(r.entries)
    BY <1>7, RefuseEntriesShape
  <2>2. UNCHANGED <<in_transaction, transaction, tables>>
    BY <1>7 DEF RefuseEntries
  <2>3. Increasing(r.entries) /\ Before(tables[r.table], r.entries)
    BY <2>1 DEF Sorted, Before
  <2>4. \A c \in todo' : c = r \/ (c \in todo /\ c.table # b.table)
    BY <2>1 DEF Sorted
  <2>5. \A c \in todo' : Increasing(c.entries) /\ Before(tables[c.table], c.entries)
    BY <2>3, <2>4 DEF Sorted
  <2>6. \A c, d \in todo' : c.table = d.table => c = d
    BY <2>1, <2>4 DEF Sorted
  <2> QED
    BY <2>2, <2>5, <2>6 DEF Sorted
<1>8. CASE WriteUnlock
  <2>1. UNCHANGED <<in_transaction, transaction, tables>> /\ todo' = {}
    BY <1>8 DEF WriteUnlock
  <2> QED
    BY <2>1 DEF Sorted
<1> QED
  <2>1. \/ UNCHANGED <<in_transaction, transaction, tables, todo>>
        \/ ProcessBegin \/ RecordInsert \/ ProcessInsert \/ ProcessEnd
        \/ AddEntry \/ RefuseEntries \/ WriteUnlock
    BY DEF Next, Agent, Load, DoCommand, SendCommand, AcceptResult, AgentStart, ProcessDelete, ProcessBoot,
       WriteLock, StartLookup, EndLookup, vars, agentvars
  <2> QED
    BY <1>1, <1>2, <1>3, <1>4, <1>5, <1>6, <1>7, <1>8, <2>1

LEMMA OrderInvariant ==
  ASSUME Transactions =< 1
  PROVE  Spec => [](TypeInv /\ OrderInv)
<1>1. TypeInv /\ [Next]_vars => TypeInv'
  BY TypeOKNext, PlacesNext, QuietNext, NumberedNext DEF TypeInv
<1>2. TypeInv /\ OrderInv /\ [Next]_vars => OrderInv'
  BY BehindNext, OneTransactionNext, SortedNext DEF OrderInv
<1> QED
  BY TypeInvInit, OrderInvInit, <1>1, <1>2, PTL DEF Spec

\* With one transaction at most, an insertion is carried out once, and a table
\* holds its entries in the order the commands were given, also those that a
\* transaction kept back (ControlPlaneAgent.cpp,
\* process).
THEOREM InsertedOnceHolds ==
  ASSUME Transactions =< 1
  PROVE  Spec => []InsertedOnce
<1>1. OrderInv => InsertedOnce
  BY DEF OrderInv, Sorted, Increasing, InsertedOnce
<1> QED
  BY OrderInvariant, <1>1, PTL

-------------------------------------------------------------------------------
(* What the debugger is shown, and the packets that are let in             *)

\* The command was sent before the agent first waited, and nobody wakes it.
Lost == pc = "waiting" /\ agent \in {"start", "waiting"}

Placed(e) == e \in Settled \/ \E b \in todo : e \in Elements(b.entries)

\* Every insertion of the file is carried out before the command that lets
\* packets in: none is behind it, and none of them is kept back.
Booting ==
    /\ accepting => 1..BootCount \subseteq Settled
    /\ ~Lost =>
         \A i \in Ahead : Cmd(i).type = "Boot" =>
            /\ ~in_transaction
            /\ \A j \in Ahead : j < i => Cmd(j).type = "Insert"
            /\ \A e \in 1..BootCount :
                  \/ Placed(e)
                  \/ \E j \in Ahead : j < i /\ Cmd(j).type = "Insert" /\ Cmd(j).entry = e

Results ==
    /\ \A e \in Entries : view[e] = "confirmed" => e \in Settled
    /\ agent = "apply" => current_result \subseteq Settled
    /\ pc = "result" /\ current_command.type # "Delete" => current_result \subseteq Settled

ResultInv == Booting /\ Results /\ RefusedRightly

LEMMA ResultInvInit == Init => ResultInv
  BY DEF Init, ResultInv, Booting, Results, RefusedRightly, Ahead

\* What is in a table stays there, and what leaves a batch is added or refused.
LEMMA SettledGrows ==
  ASSUME TypeInv, [Next]_vars
  PROVE  /\ \A t \in Tables : Elements(tables[t]) \subseteq Elements(tables'[t])
         /\ Settled \subseteq Settled'
         /\ AddEntry \/ RefuseEntries => /\ current_result' \subseteq current_result \cup Settled'
                                        /\ \A e : Placed(e) => Placed(e)'
<1> USE DEF TypeInv
<1>1. CASE UNCHANGED <<tables, refused>> /\ ~AddEntry /\ ~RefuseEntries
  BY <1>1 DEF Settled, Installed
<1>2. CASE AddEntry
  <2>1. PICK b \in todo, f \in Entries, r \in Batches :
          /\ b.table \in Tables
          /\ todo' = (todo \ {b}) \cup {r}
          /\ Elements(b.entries) = {f} \cup Elements(r.entries)
          /\ tables' = [tables EXCEPT ![b.table] = Append(tables[b.table], f)]
          /\ current_result' = current_result \cup {f}
    BY <1>2, AddEntryShape
  <2>2. Elements(Append(tables[b.table], f)) = Elements(tables[b.table]) \cup {f}
    <3>1. tables[b.table] \in Seq(Entries)
      BY <2>1 DEF TypeOK
    <3> QED
      BY <3>1, ElementsAppend
  <2>3. /\ \A t \in Tables : Elements(tables[t]) \subseteq Elements(tables'[t])
        /\ f \in Elements(tables'[b.table])
    BY <2>1, <2>2 DEF TypeOK
  <2>4. Installed \subseteq Installed' /\ f \in Installed' /\ refused' = refused
    BY <1>2, <2>1, <2>3 DEF Installed, AddEntry
  <2>5. Settled \subseteq Settled' /\ f \in Settled'
    BY <2>4 DEF Settled
  <2>6. ASSUME NEW e, Placed(e) PROVE Placed(e)'
    BY <2>1, <2>5, <2>6 DEF Placed
  <2> QED
    BY <2>1, <2>3, <2>5, <2>6
<1>3. CASE RefuseEntries
  <2>1. PICK b \in todo, left \in SUBSET Entries, r \in Batches :
          /\ todo' = (todo \ {b}) \cup {r}
          /\ Elements(b.entries) = left \cup Elements(r.entries)
          /\ refused' = refused \cup {[table |-> b.table, entry |-> e] : e \in left}
          /\ current_result' = current_result \cup left
    BY <1>3, RefuseEntriesShape
  <2>2. tables' = tables
    BY <1>3 DEF RefuseEntries
  <2>3. left \subseteq {q.entry : q \in refused'} /\ refused \subseteq refused'
    <3>1. ASSUME NEW e \in left PROVE e \in {q.entry : q \in refused'}
      <4>1. PICK q : q = [table |-> b.table, entry |-> e]
        OBVIOUS
      <4>2. q \in refused' /\ q.entry = e
        BY <2>1, <4>1
      <4> QED
        BY <4>2
    <3> QED
      BY <2>1, <3>1
  <2>4. Settled \subseteq Settled' /\ left \subseteq Settled'
    BY <2>2, <2>3 DEF Settled, Installed
  <2>5. ASSUME NEW e, Placed(e) PROVE Placed(e)'
    BY <2>1, <2>4, <2>5 DEF Placed
  <2> QED
    BY <2>1, <2>2, <2>4, <2>5
<1> QED
  <2>1. UNCHANGED <<tables, refused>> \/ AddEntry \/ RefuseEntries
    BY DEF Next, Agent, Load, DoCommand, SendCommand, AcceptResult, AgentStart, ProcessBegin,
       RecordInsert, ProcessDelete, ProcessBoot, ProcessInsert, ProcessEnd, WriteLock, WriteUnlock,
       StartLookup, EndLookup, vars, agentvars
  <2> QED
    BY <1>1, <1>2, <1>3, <2>1

\* A full table stays full, and what answers for an entry stays in its table;
\* in a batch every entry is later than those of its table.
LEMMA RefusedRightlyNext == TypeInv /\ Sorted /\ RefusedRightly /\ [Next]_vars => RefusedRightly'
<1> SUFFICES ASSUME TypeInv, Sorted, RefusedRightly, [Next]_vars PROVE RefusedRightly'
  OBVIOUS
<1> USE DEF TypeInv
<1>0. Rows \in Nat
  BY ControlAssumption
<1>1. CASE UNCHANGED <<tables, refused>>
  BY <1>1 DEF RefusedRightly
<1>2. CASE AddEntry
  <2>1. PICK b \in todo, e \in Entries :
          /\ b.table \in Tables /\ ~Refuses(b.table, e)
          /\ tables' = [tables EXCEPT ![b.table] = Append(tables[b.table], e)]
    BY <1>2, AddEntryShape
  <2>2. \A t \in Tables : Len(tables[t]) = Rows => tables'[t] = tables[t]
    BY <1>0, <2>1 DEF TypeOK, Refuses
  <2>3. /\ refused' = refused
        /\ \A q \in refused : q.table \in Tables
    BY <1>2 DEF AddEntry, TypeOK
  <2>4. \A t \in Tables : Elements(tables[t]) \subseteq Elements(tables'[t])
    BY SettledGrows
  <2> QED
    BY <2>2, <2>3, <2>4 DEF RefusedRightly
<1>3. CASE RefuseEntries
  <2>1. PICK b \in todo, left \in SUBSET Entries, r \in Batches :
          /\ b.table \in Tables /\ \E e \in left : Refuses(b.table, e)
          /\ Elements(b.entries) = left \cup Elements(r.entries)
          /\ refused' = refused \cup {[table |-> b.table, entry |-> e] : e \in left}
    BY <1>3, RefuseEntriesShape
  <2>2. tables' = tables
    BY <1>3 DEF RefuseEntries
  <2>3. PICK e \in left : Refuses(b.table, e)
    BY <2>1
  <2>4. ASSUME NEW q \in refused', q \notin refused PROVE q.table = b.table
    BY <2>1, <2>4
  <2>5. CASE Len(tables[b.table]) >= Rows
    <3>1. Len(tables[b.table]) = Rows
      BY <1>0, <2>1, <2>5 DEF TypeOK
    <3> QED
      BY <2>1, <2>2, <2>4, <3>1 DEF RefusedRightly
  <2>6. CASE \E f \in Elements(tables[b.table]) : <<f, e>> \in Answers
    <3>1. PICK f \in Elements(tables[b.table]) : <<f, e>> \in Answers
      BY <2>6
    <3>2. f < e
      BY <2>1 DEF Sorted, Before
    <3>3. PICK p \in refused' : p.table = b.table /\ p.entry = e
      <4>1. PICK p : p = [table |-> b.table, entry |-> e]
        OBVIOUS
      <4> QED
        BY <2>1, <4>1
    <3> QED
      BY <2>1, <2>2, <2>4, <3>1, <3>2, <3>3 DEF RefusedRightly
  <2> QED
    BY <2>3, <2>5, <2>6 DEF Refuses
<1> QED
  <2>1. UNCHANGED <<tables, refused>> \/ AddEntry \/ RefuseEntries
    BY DEF Next, Agent, Load, DoCommand, SendCommand, AcceptResult, AgentStart, ProcessBegin,
       RecordInsert, ProcessDelete, ProcessBoot, ProcessInsert, ProcessEnd, WriteLock, WriteUnlock,
       StartLookup, EndLookup, vars, agentvars
  <2> QED
    BY <1>1, <1>2, <1>3, <2>1

LEMMA ResultsNext == TypeInv /\ Results /\ [Next]_vars => Results'
<1> SUFFICES ASSUME TypeInv, Results, [Next]_vars PROVE Results'
  OBVIOUS
<1>0. Settled \subseteq Settled'
  BY SettledGrows
<1> USE DEF TypeInv
<1>1. CASE UNCHANGED <<view, agent, current_result, pc, current_command>>
  BY <1>0, <1>1 DEF Results
<1>2. CASE SendCommand
  <2>1. \A e \in Entries : view'[e] = "confirmed" => view[e] = "confirmed"
    BY <1>2 DEF SendCommand, accept_command, TypeOK
  <2> QED
    BY <1>0, <1>2, <2>1 DEF SendCommand, Results, Places
<1>3. CASE AcceptResult
  <2>1. \A e \in Entries : view'[e] = "confirmed" =>
           view[e] = "confirmed" \/ (current_command.type # "Delete" /\ e \in current_result)
    BY <1>3 DEF AcceptResult, accept_result
  <2> QED
    BY <1>0, <1>3, <2>1 DEF AcceptResult, Results, agentvars
<1>4. CASE AgentStart
  BY <1>0, <1>4 DEF AgentStart, Results, cpvars
<1>5. CASE ProcessBegin \/ RecordInsert \/ ProcessBoot
  BY <1>0, <1>5 DEF ProcessBegin, RecordInsert, ProcessBoot, Gets, Answer, Results
<1>6. CASE ProcessDelete
  BY <1>0, <1>6 DEF ProcessDelete, Gets, Answer, Results
<1>7. CASE ProcessInsert \/ ProcessEnd
  BY <1>0, <1>7 DEF ProcessInsert, ProcessEnd, Results, cpvars
<1>8. CASE AddEntry \/ RefuseEntries
  <2>1. current_result' \subseteq current_result \cup Settled'
    BY <1>8, SettledGrows
  <2>2. agent = "apply" /\ UNCHANGED <<view, pc, agent, current_command>> /\ pc = "waiting"
    BY <1>8 DEF AddEntry, RefuseEntries, cpvars, Places
  <2> QED
    BY <1>0, <2>1, <2>2 DEF Results
<1>9. CASE WriteLock
  BY <1>0, <1>9 DEF WriteLock, Results, cpvars
<1>10. CASE WriteUnlock
  BY <1>0, <1>10 DEF WriteUnlock, Answer, Results
<1> QED
  <2>1. \/ UNCHANGED <<view, agent, current_result, pc, current_command>>
        \/ SendCommand \/ AcceptResult \/ Agent \/ WriteLock
    BY DEF Next, Load, DoCommand, StartLookup, EndLookup, vars, cpvars, agentvars
  <2> QED
    BY <1>1, <1>2, <1>3, <1>4, <1>5, <1>6, <1>7, <1>8, <1>9, <1>10, <2>1 DEF Agent

\* A step that takes nothing from the line.
LEMMA BootingKept ==
  ASSUME TypeInv, OrderInv, Booting, Settled \subseteq Settled',
         UNCHANGED <<queue, current_command, in_transaction>>,
         agent' = "woken" <=> agent = "woken", ~Lost' => ~Lost, accepting' = accepting,
         \A e \in 1..BootCount : Placed(e) => Placed(e)'
  PROVE  Booting'
<1>1. Ahead' = Ahead /\ \A i \in Ahead : Cmd(i)' = Cmd(i)
  BY DEF Ahead, Cmd
<1> QED
  BY <1>1 DEF Booting

\* A step that takes a command that is no insertion: the command that lets
\* packets in is not behind it.
LEMMA BootingPast ==
  ASSUME TypeInv, Booting, Settled \subseteq Settled', UNCHANGED queue,
         agent = "woken", agent' # "woken",
         current_command.type # "Insert" \/ in_transaction, accepting' = accepting
  PROVE  Booting'
<1>1. \A i \in Ahead' : i \in Ahead /\ 0 < i /\ Cmd(i)' = Cmd(i)
  BY DEF Ahead, Cmd, TypeInv, TypeOK
<1>2. 0 \in Ahead /\ Cmd(0) = current_command /\ ~Lost
  BY CurrentTyped DEF Lost
<1>3. \A i \in Ahead' : Cmd(i)'.type # "Boot"
  BY <1>1, <1>2 DEF Booting
<1> QED
  BY <1>3 DEF Booting

LEMMA BootingNext == TypeInv /\ OrderInv /\ Booting /\ [Next]_vars => Booting'
<1> SUFFICES ASSUME TypeInv, OrderInv, Booting, [Next]_vars PROVE Booting'
  OBVIOUS
<1>0. Settled \subseteq Settled'
  BY SettledGrows
<1> USE DEF TypeInv
<1>1. CASE Load
  <2>1. CASE UNCHANGED <<queue, entries>>
    <3>1. UNCHANGED <<current_command, in_transaction, accepting, agent, pc, todo>>
      BY <1>1 DEF Load, agentvars
    <3> QED
      BY <1>0, <2>1, <3>1, BootingKept DEF Lost, Placed
  <2>2. ASSUME NEW f \in [1..BootCount -> Tables],
               queue' = queue \o [i \in 1..BootCount |->
                          [type |-> "Insert", table |-> f[i], entry |-> entries + i]]
                          \o <<NoCommand>>
        PROVE  Booting'
    <3>1. /\ Ahead' = 1..(BootCount + 1) /\ Cmd(BootCount + 1)' = NoCommand
          /\ \A i \in 1..BootCount : Cmd(i)' = [type |-> "Insert", table |-> f[i], entry |-> i]
      BY <1>1, <2>2, LineLoaded
    <3>2. /\ BootCount \in Nat
          /\ \A i \in Ahead' : i \in 1..BootCount \/ i = BootCount + 1
          /\ \A i \in 1..BootCount : i \in Ahead' /\ i < BootCount + 1
      BY <3>1, ControlAssumption
    <3>3. \A i \in 1..BootCount : Cmd(i)'.type = "Insert" /\ Cmd(i)'.entry = i
      BY <3>1
    <3>4. UNCHANGED <<in_transaction, transaction, accepting>> /\ ~in_transaction
      BY <1>1 DEF Load, agentvars, OrderInv, OneTransaction, Quiet
    <3>5. \A i \in Ahead' : Cmd(i)'.type = "Boot" => i = BootCount + 1
      BY <3>2, <3>3
    <3>6. \A j \in Ahead' : j < BootCount + 1 => Cmd(j)'.type = "Insert"
      BY <3>2, <3>3
    <3>7. \A e \in 1..BootCount :
             \E j \in Ahead' : j < BootCount + 1 /\ Cmd(j)'.type = "Insert" /\ Cmd(j)'.entry = e
      BY <3>2, <3>3
    <3> QED
      BY <1>0, <3>4, <3>5, <3>6, <3>7 DEF Booting
  <2> QED
    BY <1>1, <2>1, <2>2 DEF Load
<1>2. ASSUME NEW type \in DebugTypes, NEW t \in Tables, NEW e \in Entries, DoCommand(type, t, e)
      PROVE  Booting'
  <2>1. PICK c \in Command : queue' = Append(queue, c) /\ c.type # "Boot"
    <3>1. [type |-> type, table |-> t,
           entry |-> IF type \in {"Insert", "Delete"} THEN e ELSE 0] \in Command
      BY ControlAssumption DEF Command
    <3> QED
      BY <1>2, <3>1, ControlAssumption DEF DoCommand
  <2>2. PICK n \in Nat \ {0} : /\ Ahead' = Ahead \cup {n} /\ Cmd(n)' = c
                               /\ \A i \in Ahead : i \in Nat /\ i < n /\ Cmd(i)' = Cmd(i)
    BY <1>2, <2>1, LineGrows, LineTyped DEF DoCommand, agentvars
  <2>3. UNCHANGED <<in_transaction, accepting, todo, tables, refused, agent, pc>>
    BY <1>2 DEF DoCommand, agentvars
  <2>4. (Lost' <=> Lost) /\ \A x \in 1..BootCount : Placed(x) => Placed(x)'
    BY <2>3 DEF Lost, Placed, Settled, Installed
  <2>5. \A i \in Ahead : ~(n < i)
    BY <2>2
  <2> QED
    BY <1>0, <2>1, <2>2, <2>3, <2>4, <2>5 DEF Booting
<1>3. CASE SendCommand
  <2>1. CASE agent = "start"
    BY <1>0, <1>3, <2>1 DEF SendCommand, Booting, Lost
  <2>2. CASE agent = "waiting"
    <3>1. /\ agent' = "woken" /\ current_command' = Head(queue) /\ queue' = Tail(queue) /\ queue # <<>>
          /\ UNCHANGED <<in_transaction, accepting, todo, tables, refused>> /\ ~Lost
      BY <1>3, <2>2 DEF SendCommand, Lost
    <3>2. /\ Len(Tail(queue)) = Len(queue) - 1 /\ Len(queue) \in Nat \ {0}
          /\ Head(queue) = queue[1]
          /\ \A i \in 1..(Len(queue) - 1) : Tail(queue)[i] = queue[i + 1]
      BY <3>1 DEF TypeOK
    <3>3. \A i \in Ahead' : i \in Int /\ i + 1 \in Ahead /\ Cmd(i)' = Cmd(i + 1)
      BY <2>2, <3>1, <3>2 DEF Ahead, Cmd
    <3>4. \A i \in Ahead : i \in Int /\ i - 1 \in Ahead' /\ Cmd(i - 1)' = Cmd(i)
      BY <2>2, <3>1, <3>2 DEF Ahead, Cmd
    <3>5. \A x \in 1..BootCount : Placed(x) => Placed(x)'
      BY <3>1 DEF Placed, Settled, Installed
    <3>6. ASSUME NEW i \in Ahead', Cmd(i)'.type = "Boot"
          PROVE  /\ ~in_transaction
                 /\ \A j \in Ahead' : j < i => Cmd(j)'.type = "Insert"
                 /\ \A x \in 1..BootCount :
                       \/ Placed(x)'
                       \/ \E j \in Ahead' : j < i /\ Cmd(j)'.type = "Insert" /\ Cmd(j)'.entry = x
      <4>1. i + 1 \in Ahead /\ Cmd(i + 1).type = "Boot"
        BY <3>3, <3>6
      <4>2. /\ ~in_transaction
            /\ \A j \in Ahead : j < i + 1 => Cmd(j).type = "Insert"
            /\ \A x \in 1..BootCount :
                  \/ Placed(x)
                  \/ \E j \in Ahead : j < i + 1 /\ Cmd(j).type = "Insert" /\ Cmd(j).entry = x
        BY <3>1, <4>1 DEF Booting
      <4>3. ASSUME NEW j \in Ahead', j < i PROVE Cmd(j)'.type = "Insert"
        <5>1. j + 1 \in Ahead /\ j + 1 < i + 1 /\ Cmd(j)' = Cmd(j + 1)
          BY <3>3, <4>3
        <5> QED
          BY <4>2, <5>1
      <4>4. ASSUME NEW x, NEW j \in Ahead, j < i + 1, Cmd(j).type = "Insert", Cmd(j).entry = x
            PROVE  \E k \in Ahead' : k < i /\ Cmd(k)'.type = "Insert" /\ Cmd(k)'.entry = x
        <5>1. j - 1 \in Ahead' /\ j - 1 < i /\ Cmd(j - 1)' = Cmd(j)
          BY <3>3, <3>4, <4>4
        <5>2. Cmd(j - 1)'.type = "Insert" /\ Cmd(j - 1)'.entry = x
          BY <4>4, <5>1
        <5> QED
          BY <5>1, <5>2
      <4> QED
        BY <3>5, <4>2, <4>3, <4>4
    <3> QED
      BY <1>0, <3>1, <3>6 DEF Booting
  <2> QED
    BY <1>3, <2>1, <2>2 DEF SendCommand, Places, TypeOK
<1>4. CASE AcceptResult
  BY <1>0, <1>4, BootingKept DEF AcceptResult, Lost, Placed, agentvars
<1>5. CASE AgentStart
  BY <1>0, <1>5, BootingKept DEF AgentStart, Lost, Placed, cpvars
<1>6. CASE ProcessBegin \/ RecordInsert \/ ProcessDelete \/ ProcessEnd
  BY <1>0, <1>6, BootingPast DEF ProcessBegin, RecordInsert, ProcessDelete, ProcessEnd, Gets, Answer, cpvars
<1>7. CASE ProcessBoot
  <2>1. /\ agent = "woken" /\ agent' # "woken" /\ current_command.type = "Boot" /\ UNCHANGED queue
    BY <1>7 DEF ProcessBoot, Gets, Answer
  <2>2. /\ 0 \in Ahead /\ Cmd(0) = current_command /\ ~Lost /\ todo = {}
        /\ \A j \in Ahead : ~(j < 0)
    BY <2>1, CurrentTyped, LineTyped DEF Lost, Places, Changing
  <2>3. 1..BootCount \subseteq Settled
    BY <2>1, <2>2 DEF Booting, Placed
  <2>4. \A i \in Ahead' : i \in Ahead /\ 0 < i /\ Cmd(i)' = Cmd(i)
    BY <2>1 DEF Ahead, Cmd, TypeOK
  <2>5. \A i \in Ahead' : Cmd(i)'.type # "Boot"
    BY <2>1, <2>2, <2>4 DEF Booting
  <2> QED
    BY <1>0, <2>3, <2>5 DEF Booting
<1>8. CASE ProcessInsert
  <2>1. /\ agent = "woken" /\ agent' = "lock" /\ UNCHANGED <<queue, accepting, in_transaction, tables, refused>>
        /\ todo = {} /\ current_command.type = "Insert"
    BY <1>8 DEF ProcessInsert, Gets, cpvars, Places, Changing
  <2>2. 0 \in Ahead /\ Cmd(0) = current_command /\ ~Lost
    BY <2>1, CurrentTyped DEF Lost
  <2>3. /\ \A i \in Ahead' : i \in Ahead /\ 0 < i /\ Cmd(i)' = Cmd(i)
        /\ \A i \in Ahead : i = 0 \/ i \in Ahead'
    BY <2>1 DEF Ahead, Cmd, TypeOK
  <2>4. Placed(current_command.entry)'
    <3>1. PICK s : s = <<current_command.entry>>
      OBVIOUS
    <3>2. todo' = {[table |-> current_command.table, entries |-> s]}
      BY <1>8, <3>1 DEF ProcessInsert, Batch
    <3>3. PICK b \in todo' : b.entries = s
      BY <3>2
    <3>4. current_command.entry \in Elements(s)
      BY <3>1 DEF Elements
    <3>5. PICK e : e = current_command.entry
      OBVIOUS
    <3>6. Placed(e)'
      BY <3>3, <3>4, <3>5 DEF Placed
    <3>7. current_command' = current_command
      BY <1>8 DEF ProcessInsert
    <3> QED
      BY <3>5, <3>6, <3>7
  <2>5. \A e \in 1..BootCount : Placed(e) => Placed(e)'
    BY <2>1 DEF Placed, Settled, Installed
  <2>6. current_command' = current_command
    BY <1>8 DEF ProcessInsert
  <2>7. ASSUME NEW i \in Ahead', Cmd(i)'.type = "Boot", NEW e \in 1..BootCount
        PROVE  \/ Placed(e)'
               \/ \E j \in Ahead' : j < i /\ Cmd(j)'.type = "Insert" /\ Cmd(j)'.entry = e
    <3>1. \/ Placed(e)
          \/ \E j \in Ahead : j < i /\ Cmd(j).type = "Insert" /\ Cmd(j).entry = e
      BY <2>2, <2>3, <2>7 DEF Booting
    <3>2. e = current_command.entry => Placed(e)'
      BY <2>4, <2>6
    <3> QED
      BY <2>2, <2>3, <2>5, <3>1, <3>2
  <2> QED
    BY <1>0, <2>1, <2>2, <2>3, <2>7 DEF Booting
<1>9. CASE AddEntry \/ RefuseEntries
  <2>1. \A e \in 1..BootCount : Placed(e) => Placed(e)'
    BY <1>9, SettledGrows
  <2>2. UNCHANGED <<queue, current_command, in_transaction, agent, pc, accepting>>
    BY <1>9 DEF AddEntry, RefuseEntries, cpvars
  <2> QED
    BY <1>0, <2>1, <2>2, BootingKept DEF Lost
<1>10. CASE WriteLock
  <2>1. UNCHANGED <<queue, current_command, in_transaction, accepting, todo, tables, refused, pc>>
        /\ agent = "lock" /\ agent' = "apply"
    BY <1>10 DEF WriteLock, cpvars
  <2> QED
    BY <1>0, <2>1, BootingKept DEF Lost, Placed, Settled, Installed
<1>11. CASE WriteUnlock
  <2>1. UNCHANGED <<queue, current_command, in_transaction, accepting, tables, refused>>
        /\ agent = "apply" /\ agent' = "waiting"
    BY <1>11 DEF WriteUnlock, Answer
  <2>2. \A b \in todo : Elements(b.entries) = {}
    BY <1>11 DEF WriteUnlock, Elements
  <2>3. \A e \in 1..BootCount : Placed(e) => Placed(e)'
    BY <2>1, <2>2 DEF Placed, Settled, Installed
  <2> QED
    BY <1>0, <2>1, <2>3, BootingKept DEF Lost
<1>12. CASE UNCHANGED <<cpvars, agentvars, accepting>>
  BY <1>0, <1>12, BootingKept DEF cpvars, agentvars, Lost, Placed, Settled, Installed
<1> QED
  <2>1. [Next]_vars => \/ Load \/ SendCommand \/ AcceptResult \/ Agent \/ WriteLock
                       \/ \E type \in DebugTypes, t \in Tables, e \in Entries : DoCommand(type, t, e)
                       \/ UNCHANGED <<cpvars, agentvars, accepting>>
    BY DEF Next, StartLookup, EndLookup, vars
  <2> QED
    BY <1>1, <1>2, <1>3, <1>4, <1>5, <1>6, <1>7, <1>8, <1>9, <1>10, <1>11, <1>12, <2>1 DEF Agent

\* With one transaction at most: what the debugger is shown as confirmed is in
\* a table or was refused by a full table or for what an earlier insertion
\* answers, and the same is true of the file's insertions when the first packet
\* is let in (ControlPlane.cpp, ControlPlaneAgent.cpp:150, P4.cpp:187).
THEOREM ConfirmedInstalledHolds ==
  ASSUME Transactions =< 1
  PROVE  Spec => []ConfirmedInstalled
<1>1. TypeInv /\ OrderInv /\ ResultInv /\ [Next]_vars => ResultInv'
  BY BootingNext, ResultsNext, RefusedRightlyNext DEF ResultInv, OrderInv
<1>2. TypeInv /\ ResultInv => ConfirmedInstalled
  BY DEF TypeInv, ResultInv, Results, Booting, ConfirmedInstalled
<1> QED
  BY OrderInvariant, ResultInvInit, <1>1, <1>2, PTL DEF Spec

\* What the debugger is shown and the first packet relies on, with no way out.
NothingMissing == /\ \A e \in Entries : view[e] = "confirmed" => e \in Installed
                  /\ accepting => 1..BootCount \subseteq Installed

\* Where no insertion answers for a later one, and a table has a row to spare
\* for all of them, nothing is refused: what is confirmed is in a table.
THEOREM NothingMissingHolds ==
  ASSUME Transactions =< 1, BootCount + DebugCount < Rows,
         \A f, e \in Entries : f < e => <<f, e>> \notin Answers
  PROVE  Spec => []NothingMissing
<1>1. TypeInv /\ OrderInv /\ ConfirmedInstalled => NothingMissing
  <2> SUFFICES ASSUME TypeInv, OrderInv, ConfirmedInstalled PROVE NothingMissing
    OBVIOUS
  <2>1. ASSUME NEW r \in refused PROVE FALSE
    <3>1. r.table \in Tables /\ tables[r.table] \in Seq(Entries) /\ Increasing(tables[r.table])
      BY DEF TypeInv, TypeOK, OrderInv, Sorted
    <3>2. Len(tables[r.table]) # Rows
      <4>1. /\ BootCount + DebugCount \in Nat /\ Rows \in Nat
            /\ tables[r.table] \in Seq(1..(BootCount + DebugCount))
        BY <3>1, ControlAssumption DEF Entries
      <4>2. Len(tables[r.table]) =< BootCount + DebugCount
        BY <3>1, <4>1, IncreasingFits
      <4> QED
        BY <3>1, <4>1, <4>2
    <3>3. PICK f \in Elements(tables[r.table]), q \in refused : f < q.entry /\ <<f, q.entry>> \in Answers
      BY <3>2 DEF ConfirmedInstalled, RefusedRightly
    <3>4. f \in Entries /\ q.entry \in Entries
      BY <3>1, ElementsTyped DEF TypeInv, TypeOK
    <3> QED
      BY <3>3, <3>4
  <2>2. Settled = Installed
    BY <2>1 DEF Settled
  <2> QED
    BY <2>2 DEF ConfirmedInstalled, NothingMissing
<1> QED
  BY OrderInvariant, ConfirmedInstalledHolds, <1>1, PTL
===============================================================================
