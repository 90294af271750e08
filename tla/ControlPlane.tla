------------------------------ MODULE ControlPlane ------------------------------
(***************************************************************************)
(* ControlPlane and ControlPlaneAgent: table commands come from the       *)
(* configuration file at start-up and from the debugger later.  The       *)
(* control plane hands them one at a time to the agent, which changes the *)
(* match-action tables under the write lock, and shows the debugger a view *)
(* of what it sent and what came back.  Insertions inside a transaction   *)
(* are applied together at its end.  Only when everything in the file is  *)
(* done does the splitter let packets in, and the cores look tables up    *)
(* under the read lock.                                                   *)
(*                                                                        *)
(* The lock is RWLockSpec, which ReadWriteLock implements, with the       *)
(* preference for the writer that ReadWriteLock adds to it.               *)
(***************************************************************************)
EXTENDS Naturals, Sequences, FiniteSets

CONSTANTS Cores,
          Tables,
          BootCount,   \* bound: insertions in the configuration file
          DebugCount,  \* bound: commands of the debugger
          DebugTypes,  \* the kinds of command it uses
          Transactions, \* bound: transactions it begins
          Rows,        \* rows of a table
          Answers,     \* <<f, e>>: where f is in a table, entry_exists() is
                       \* true of e: its own key, a default route, or a longer
                       \* route that the trie finds in its place (P4Tables)
          AgentFirst   \* whether the agent waits before the first command

ASSUME ControlAssumption == /\ {BootCount, DebugCount, Transactions, Rows} \subseteq Nat
                            /\ DebugTypes \subseteq {"Begin", "End", "Insert", "Delete"}
                            /\ AgentFirst \in BOOLEAN
                            /\ Tables # {}

(* Insertions are numbered in the order the control plane accepts them.   *)
Entries == 1..(BootCount + DebugCount)

ASSUME AnswersAssumption == /\ Answers \subseteq Entries \X Entries
                            /\ \A e \in Entries : <<e, e>> \in Answers

Command == [type : {"Begin", "End", "Insert", "Delete", "Boot"},
            table : Tables, entry : Entries \cup {0}]

VARIABLES
    queue,           \* command_queue
    loaded,          \* ControlPlaneThread has run
    debug,           \* what the debugger has used up: commands, transactions,
                     \* and whether it is inside a transaction
    entries,         \* insertions queued so far
    view,            \* what the debugger is shown of each entry
    pc,              \* where ControlPlane::command_processing_thread stands
    agent,           \* where ControlPlaneAgent::command_processing_thread stands
    current_command,
    current_result,  \* the entries it confirms, {} for none
    in_transaction,
    transaction,     \* per table, the insertions recorded
    todo,            \* what the agent has still to apply, table by table
    tables,          \* the entries of each table, in order
    refused,         \* history: what mt_add_entry left out, and of which table
    sharing,         \* cores in a lookup
    exclusive,       \* {"agent"} while it changes tables
    accepting        \* the splitter accepts packets

cpvars == <<queue, loaded, debug, entries, view, pc>>
agentvars == <<agent, current_command, current_result, in_transaction,
               transaction, todo, tables, refused>>
lockvars == <<sharing, exclusive>>
vars == <<cpvars, agentvars, lockvars, accepting>>

Lock == INSTANCE RWLockSpec WITH Readers <- Cores, Writers <- {"agent"}

NoCommand == [type |-> "Boot", table |-> CHOOSE t \in Tables : TRUE, entry |-> 0]

Init == /\ queue = <<>> /\ loaded = FALSE
        /\ debug = [commands |-> 0, transactions |-> 0, inside |-> FALSE]
        /\ entries = 0
        /\ view = [e \in Entries |-> "none"]
        /\ pc = "pop"
        /\ agent = "start"
        /\ current_command = NoCommand /\ current_result = {}
        /\ in_transaction = FALSE
        /\ transaction = [t \in Tables |-> <<>>]
        /\ todo = {}
        /\ tables = [t \in Tables |-> <<>>] /\ refused = {}
        /\ Lock!Init
        /\ accepting = FALSE

-------------------------------------------------------------------------------
(* ControlPlane                                                           *)

(* ControlPlaneThread: the file's insertions, then BootComplete; neither  *)
(* if there is no such file, and then packets are never let in.           *)
Load == /\ ~loaded
        /\ loaded' = TRUE
        /\ \/ /\ \E f \in [1..BootCount -> Tables] :
                    queue' = queue \o [i \in 1..BootCount |->
                               [type |-> "Insert", table |-> f[i], entry |-> entries + i]]
                               \o <<NoCommand>>
              /\ entries' = entries + BootCount
           \/ UNCHANGED <<queue, entries>>
        /\ UNCHANGED <<debug, view, pc, agentvars, lockvars, accepting>>

(* do_command: the debugger's commands, once the simulation runs.  It ends *)
(* only what it began, and deletes only what it sees confirmed.           *)
DoCommand(type, t, e) ==
    /\ loaded
    /\ debug.commands < DebugCount
    /\ type \in DebugTypes
    /\ type = "Begin" => ~debug.inside /\ debug.transactions < Transactions
    /\ type = "End" => debug.inside
    /\ IF type = "Delete" THEN view[e] = "confirmed" ELSE e = entries + 1
    /\ debug' = [commands |-> debug.commands + 1,
                 transactions |-> debug.transactions + (IF type = "Begin" THEN 1 ELSE 0),
                 inside |-> IF type \in {"Begin", "End"} THEN type = "Begin"
                            ELSE debug.inside]
    /\ queue' = Append(queue, [type |-> type, table |-> t,
                               entry |-> IF type \in {"Insert", "Delete"} THEN e ELSE 0])
    /\ entries' = IF type = "Insert" THEN e ELSE entries
    /\ UNCHANGED <<loaded, view, pc, agentvars, lockvars, accepting>>

(* The debugger is shown a command before it is sent, and the result; a   *)
(* result that says the command failed shows it nothing.                  *)
accept_command(cmd) ==
    CASE cmd.type = "Insert" -> [view EXCEPT ![cmd.entry] = "sent"]
      [] cmd.type = "Delete" -> [view EXCEPT ![cmd.entry] = "deleting"]
      [] OTHER               -> view

accept_result(result) ==
    [e \in Entries |-> IF e \notin result THEN view[e]
                       ELSE IF current_command.type = "Delete" THEN "deleted"
                       ELSE "confirmed"]

(* command_processing_thread shows the command to the debugger, sets      *)
(* current_command, notifies new_command and waits for command_processed. *)
SendCommand ==
    LET cmd == Head(queue) IN
    /\ pc = "pop" /\ queue # <<>>
    /\ AgentFirst => agent # "start"
    /\ queue' = Tail(queue)
    /\ view' = accept_command(cmd)
    /\ current_command' = cmd
    /\ agent' = IF agent = "waiting" THEN "woken" ELSE agent
    /\ pc' = "waiting"
    /\ UNCHANGED <<loaded, debug, entries, current_result, in_transaction,
                   transaction, todo, tables, refused, lockvars, accepting>>

AcceptResult ==
    /\ pc = "result"
    /\ view' = accept_result(current_result)
    /\ pc' = "pop"
    /\ UNCHANGED <<queue, loaded, debug, entries, agentvars, lockvars, accepting>>

-------------------------------------------------------------------------------
(* ControlPlaneAgent                                                      *)

AgentStart == /\ agent = "start"
              /\ agent' = "waiting"
              /\ UNCHANGED <<cpvars, current_command, current_result, in_transaction,
                             transaction, todo, tables, refused, lockvars, accepting>>

(* The result is set, command_processed notified, new_command waited for. *)
Answer(result) == /\ current_result' = result
                  /\ agent' = "waiting"
                  /\ pc' = IF pc = "waiting" THEN "result" ELSE pc

Gets(type) == agent = "woken" /\ current_command.type = type

(* Faulty variant: no answer is given.                                    *)
ProcessBeginSilent ==
    /\ Gets("Begin")
    /\ in_transaction' = TRUE
    /\ agent' = "waiting"
    /\ UNCHANGED <<cpvars, current_command, current_result, transaction, todo,
                   tables, refused, lockvars, accepting>>

ProcessBegin == /\ Gets("Begin")
                /\ in_transaction' = TRUE
                /\ Answer({})
                /\ UNCHANGED <<queue, loaded, debug, entries, view, current_command,
                               transaction, todo, tables, refused, lockvars, accepting>>

(* Faulty variants: the recorded insertion is confirmed at once; it is    *)
(* recorded ahead of the others.                                          *)
RecordInsertConfirmed ==
    /\ Gets("Insert") /\ in_transaction
    /\ transaction' = [transaction EXCEPT ![current_command.table] =
                         Append(@, current_command.entry)]
    /\ Answer({current_command.entry})
    /\ UNCHANGED <<queue, loaded, debug, entries, view, current_command,
                   in_transaction, todo, tables, refused, lockvars, accepting>>

RecordInsertFront ==
    /\ Gets("Insert") /\ in_transaction
    /\ transaction' = [transaction EXCEPT ![current_command.table] =
                         <<current_command.entry>> \o @]
    /\ Answer({})
    /\ UNCHANGED <<queue, loaded, debug, entries, view, current_command,
                   in_transaction, todo, tables, refused, lockvars, accepting>>

RecordInsert == /\ Gets("Insert") /\ in_transaction
                /\ transaction' = [transaction EXCEPT ![current_command.table] =
                                     Append(@, current_command.entry)]
                /\ Answer({})
                /\ UNCHANGED <<queue, loaded, debug, entries, view, current_command,
                               in_transaction, todo, tables, refused, lockvars, accepting>>

(* Deletions and modifications succeed, and do nothing.                   *)
ProcessDelete == /\ Gets("Delete")
                 /\ Answer({current_command.entry})
                 /\ UNCHANGED <<queue, loaded, debug, entries, view, current_command,
                                in_transaction, transaction, todo, tables, refused, lockvars,
                                accepting>>

ProcessBoot == /\ Gets("Boot")
               /\ accepting' = TRUE
               /\ Answer({})
               /\ UNCHANGED <<queue, loaded, debug, entries, view, current_command,
                              in_transaction, transaction, todo, tables, refused, lockvars>>

(* An insertion outside a transaction, or the end of one, asks for the    *)
(* write lock.                                                            *)
Elements(s) == {s[i] : i \in 1..Len(s)}

Batch(t, s) == [table |-> t, entries |-> s]

ProcessInsert == /\ Gets("Insert") /\ ~in_transaction
                 /\ todo' = {Batch(current_command.table, <<current_command.entry>>)}
                 /\ agent' = "lock"
                 /\ UNCHANGED <<cpvars, current_command, current_result,
                                in_transaction, transaction, tables, refused, lockvars,
                                accepting>>

ProcessEnd == /\ Gets("End")
              /\ in_transaction' = FALSE
              /\ todo' = {Batch(t, transaction[t]) :
                          t \in {u \in Tables : transaction[u] # <<>>}}
              /\ agent' = "lock"
              /\ UNCHANGED <<cpvars, current_command, current_result, transaction,
                             tables, refused, lockvars, accepting>>

(* Faulty variant: the tables are changed while lookups are under way.    *)
WriteLockShared == /\ agent = "lock"
                   /\ agent' = "apply"
                   /\ exclusive' = {"agent"}
                   /\ current_result' = {}
                   /\ UNCHANGED <<cpvars, current_command, in_transaction,
                                  transaction, todo, tables, refused, sharing, accepting>>

WriteLock == /\ agent = "lock"
             /\ Lock!Exclude("agent")
             /\ agent' = "apply"
             /\ current_result' = {}
             /\ UNCHANGED <<cpvars, current_command, in_transaction, transaction,
                            todo, tables, refused, accepting>>

(* mt_add_entry, of a library that is not in src/: an entry is added when *)
(* there is a row for it and entry_exists() is false of it.  A batch with *)
(* one that is refused goes on without it, or the rest is given up, as the   *)
(* library likes.  The agent does not look at the return code: what was   *)
(* refused is in the result with the others.                              *)
Refuses(t, e) == \/ Len(tables[t]) >= Rows
                 \/ \E f \in Elements(tables[t]) : <<f, e>> \in Answers

Rest(b, n) == (todo \ {b}) \cup {Batch(b.table, SubSeq(b.entries, n + 1, Len(b.entries)))}

AddEntry ==
    /\ agent = "apply"
    /\ \E b \in todo : LET e == b.entries[1] IN
          /\ b.entries # <<>> /\ ~Refuses(b.table, e)
          /\ tables' = [tables EXCEPT ![b.table] = Append(@, e)]
          /\ current_result' = current_result \cup {e}
          /\ todo' = Rest(b, 1)
    /\ UNCHANGED <<cpvars, agent, current_command, in_transaction, transaction,
                   refused, lockvars, accepting>>

RefuseEntries ==
    /\ agent = "apply"
    /\ \E b \in todo : \E n \in {1, Len(b.entries)} \cap (1..Len(b.entries)) :
          LET left == {b.entries[i] : i \in 1..n} IN
          /\ \E e \in left : Refuses(b.table, e)
          /\ refused' = refused \cup {[table |-> b.table, entry |-> e] : e \in left}
          /\ current_result' = current_result \cup left
          /\ todo' = Rest(b, n)
    /\ UNCHANGED <<cpvars, agent, current_command, in_transaction, transaction,
                   tables, lockvars, accepting>>

WriteUnlock == /\ agent = "apply" /\ \A b \in todo : b.entries = <<>>
               /\ Lock!Release("agent")
               /\ todo' = {}
               /\ Answer(current_result)
               /\ UNCHANGED <<queue, loaded, debug, entries, view, current_command,
                              in_transaction, transaction, tables, refused, accepting>>

-------------------------------------------------------------------------------
(* P4Application, on the cores, for packets the splitter let in.  An agent *)
(* that waits for the lock has claimed it, and new lookups wait.          *)

StartLookup(k) == /\ accepting
                  /\ agent # "lock"
                  /\ Lock!Share(k)
                  /\ UNCHANGED <<cpvars, agentvars, accepting>>

EndLookup(k) == /\ Lock!Unshare(k)
                /\ UNCHANGED <<cpvars, agentvars, accepting>>

-------------------------------------------------------------------------------
Agent == \/ AgentStart \/ ProcessBegin \/ RecordInsert \/ ProcessDelete
         \/ ProcessBoot \/ ProcessInsert \/ ProcessEnd \/ AddEntry
         \/ RefuseEntries \/ WriteUnlock

Next == \/ Load
        \/ \E type \in DebugTypes, t \in Tables, e \in Entries : DoCommand(type, t, e)
        \/ SendCommand \/ AcceptResult
        \/ Agent \/ WriteLock
        \/ \E k \in Cores : StartLookup(k) \/ EndLookup(k)

Spec == Init /\ [][Next]_vars

(* Threads run and lookups end; debugger and packets may stop.            *)
Fairness == /\ WF_vars(Load) /\ WF_vars(SendCommand) /\ WF_vars(AcceptResult)
            /\ WF_vars(Agent \/ WriteLock)
            /\ \A k \in Cores : WF_vars(EndLookup(k))

FairSpec == Spec /\ Fairness

-------------------------------------------------------------------------------
Installed == UNION {Elements(tables[t]) : t \in Tables}

TypeOK == /\ queue \in Seq(Command)
          /\ loaded \in BOOLEAN
          /\ debug \in [commands : 0..DebugCount, transactions : 0..Transactions,
                        inside : BOOLEAN]
          /\ entries \in Nat
          /\ view \in [Entries -> {"none", "sent", "confirmed", "deleting", "deleted"}]
          /\ pc \in {"pop", "waiting", "result"}
          /\ agent \in {"start", "waiting", "woken", "lock", "apply"}
          /\ current_command \in Command
          /\ current_result \in SUBSET Entries
          /\ in_transaction \in BOOLEAN
          /\ transaction \in [Tables -> Seq(Entries)]
          /\ \A b \in todo : b.table \in Tables /\ b.entries \in Seq(Entries)
          /\ tables \in [Tables -> Seq(Entries)]
          /\ \A t \in Tables : Len(tables[t]) =< Rows
          /\ refused \in SUBSET [table : Tables, entry : Entries]
          /\ sharing \in SUBSET Cores /\ exclusive \in SUBSET {"agent"}
          /\ accepting \in BOOLEAN

(* A refused insertion has a cause: its table is full, or one added earlier  *)
(* answers for it or for another that was refused with it.                *)
RefusedRightly ==
    \A r \in refused :
        \/ Len(tables[r.table]) = Rows
        \/ \E f \in Elements(tables[r.table]), q \in refused :
              q.table = r.table /\ f < q.entry /\ <<f, q.entry>> \in Answers

Settled == Installed \cup {r.entry : r \in refused}

(* What the debugger is shown as confirmed is in a table, unless the table   *)
(* refused it for a cause, which the agent does not tell; and so is every *)
(* insertion of the configuration file when the first packet is let in.   *)
ConfirmedInstalled == /\ TypeOK
                      /\ \A e \in Entries : view[e] = "confirmed" => e \in Settled
                      /\ accepting => 1..BootCount \subseteq Settled
                      /\ RefusedRightly

(* An insertion is carried out once: the tables hold no entry twice, and  *)
(* each holds them in the order the commands were given.                  *)
InsertedOnce ==
    \A t \in Tables : \A i, j \in 1..Len(tables[t]) :
        i < j => tables[t][i] < tables[t][j]

(* A lookup finds a transaction, and any insertion, not begun or complete. *)
LookupsAtomic == sharing # {} => agent # "apply"

(* Every command is carried out.                                          *)
CommandsFinish == loaded ~> (queue = <<>> /\ pc = "pop")
===============================================================================
