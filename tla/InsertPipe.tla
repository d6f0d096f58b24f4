----------------------------- MODULE InsertPipe -----------------------------
(***************************************************************************)
(* The way of the insert items from the CaConnSet to the database: the     *)
(* insert queue, the hook (daqingest/src/daemon/inserthook.rs) with its    *)
(* own queue, and the insert workers (scywr/src/insertworker.rs).  A       *)
(* worker goes on after a failed insert, with the item lost; each stage    *)
(* ends when all senders before it are gone and its queue is empty.        *)
(***************************************************************************)
EXTENDS Naturals, FiniteSets

CONSTANTS InsertCap,     \* insert_item_queue_cap
          HookCap,       \* of the hook's queue, 256 in the code
          InsertWorkers

ASSUME PipeAssumption ==
  /\ {InsertCap, HookCap} \subseteq Nat \ {0}
  /\ IsFiniteSet(InsertWorkers) /\ InsertWorkers # {}

VARIABLES insertq,  \* how many items are in the insert queue
          hook,     \* "recv", "send" with an item in hand, "ended"
          hookq,    \* how many are in the hook's queue
          inserter, \* per worker "recv", "insert", "sleep", "ended"
          stored,   \* history: how many items the set has passed on
          inserted, \* history: how many are in the database
          dropped   \* history: how many are not, as the insert failed or was left out

pipeVars == <<insertq, hook, hookq, inserter, stored, inserted, dropped>>

PipeInit ==
  /\ insertq = 0 /\ hook = "recv" /\ hookq = 0
  /\ inserter = [w \in InsertWorkers |-> "recv"]
  /\ stored = 0 /\ inserted = 0 /\ dropped = 0

\* What CaConnSet does with storage_insert_tx.
Store ==
  /\ insertq < InsertCap
  /\ insertq' = insertq + 1 /\ stored' = stored + 1
  /\ UNCHANGED <<hook, hookq, inserter, inserted, dropped>>

HookRecv ==
  /\ hook = "recv" /\ insertq > 0
  /\ insertq' = insertq - 1 /\ hook' = "send"
  /\ UNCHANGED <<hookq, inserter, stored, inserted, dropped>>

HookSend ==
  /\ hook = "send" /\ hookq < HookCap
  /\ hookq' = hookq + 1 /\ hook' = "recv"
  /\ UNCHANGED <<insertq, inserter, stored, inserted, dropped>>

\* Mutant: the hook ends as soon as the senders are gone.
HookEndsEarly(senderGone) ==
  /\ hook = "recv" /\ senderGone
  /\ hook' = "ended"
  /\ UNCHANGED <<insertq, hookq, inserter, stored, inserted, dropped>>

HookEnds(senderGone) ==
  /\ hook = "recv" /\ insertq = 0 /\ senderGone
  /\ hook' = "ended"
  /\ UNCHANGED <<insertq, hookq, inserter, stored, inserted, dropped>>

WorkerRecv(w) ==
  /\ inserter[w] = "recv" /\ hookq > 0
  /\ hookq' = hookq - 1
  /\ inserter' = [inserter EXCEPT ![w] = "insert"]
  /\ UNCHANGED <<insertq, hook, stored, inserted, dropped>>

\* The database takes the item, or insert_frac leaves it out, or the insert
\* fails: the worker sleeps (back_off_sleep) and the item is gone.
WorkerInserts(w) ==
  /\ inserter[w] = "insert"
  /\ \/ /\ inserter' = [inserter EXCEPT ![w] = "recv"]
        /\ inserted' = inserted + 1
        /\ UNCHANGED <<stored, dropped>>
     \/ /\ \E st \in {"recv", "sleep"} : inserter' = [inserter EXCEPT ![w] = st]
        /\ dropped' = dropped + 1
        /\ UNCHANGED <<stored, inserted>>
  /\ UNCHANGED <<insertq, hook, hookq>>

WorkerWakes(w) ==
  /\ inserter[w] = "sleep"
  /\ inserter' = [inserter EXCEPT ![w] = "recv"]
  /\ UNCHANGED <<insertq, hook, hookq, stored, inserted, dropped>>

WorkerEnds(w) ==
  /\ inserter[w] = "recv" /\ hookq = 0 /\ hook = "ended"
  /\ inserter' = [inserter EXCEPT ![w] = "ended"]
  /\ UNCHANGED <<insertq, hook, hookq, stored, inserted, dropped>>

HookStep(senderGone) == HookRecv \/ HookSend \/ HookEnds(senderGone)

InserterStep(w) == WorkerRecv(w) \/ WorkerInserts(w) \/ WorkerWakes(w) \/ WorkerEnds(w)

PipeTypeOK ==
  /\ insertq \in 0 .. InsertCap /\ hookq \in 0 .. HookCap
  /\ hook \in {"recv", "send", "ended"}
  /\ inserter \in [InsertWorkers -> {"recv", "insert", "sleep", "ended"}]
  /\ stored \in Nat /\ inserted \in Nat /\ dropped \in Nat
=============================================================================
