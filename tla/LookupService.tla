--------------------------- MODULE LookupService ---------------------------
(* What whoever asks for the series of a channel is promised: a query is    *)
(* answered at most once, with the series that its own key has in the       *)
(* database, or it is lost.  Queries are answered in any order.             *)
CONSTANTS Queries, Keys, Series, KeyOf, NoSeries

VARIABLES pending, \* the queries that may still be answered
          lost,    \* the queries that will never be
          answer,  \* the answer given to each query, if any
          table    \* the series of each key, if it has one

vars == <<pending, lost, answer, table>>

Init == /\ pending = {} /\ lost = {}
        /\ answer = [q \in Queries |-> NoSeries]
        /\ table \in [Keys -> Series \cup {NoSeries}]
        /\ \A j, k \in Keys : table[j] = table[k] => j = k \/ table[j] = NoSeries

New == {q \in Queries : q \notin pending \cup lost /\ answer[q] = NoSeries}

Ask == \E q \in New :
  /\ pending' = pending \cup {q}
  /\ UNCHANGED <<lost, answer, table>>

\* Nobody is left to answer.
AskInVain == \E q \in New :
  /\ lost' = lost \cup {q}
  /\ UNCHANGED <<pending, answer, table>>

\* A key gets its series once and for all, and no two the same.
Register ==
  /\ table' \in [Keys -> Series \cup {NoSeries}]
  /\ \A k \in Keys : table[k] # NoSeries => table'[k] = table[k]
  /\ \A j, k \in Keys : table'[j] = table'[k] => j = k \/ table'[j] = NoSeries
  /\ UNCHANGED <<pending, lost, answer>>

Answer == \E q \in pending :
  /\ table[KeyOf[q]] # NoSeries
  /\ answer' = [answer EXCEPT ![q] = table[KeyOf[q]]]
  /\ pending' = pending \ {q}
  /\ UNCHANGED <<lost, table>>

Lose ==
  /\ pending' \subseteq pending
  /\ lost' = lost \cup (pending \ pending')
  /\ UNCHANGED <<answer, table>>

Next == Ask \/ AskInVain \/ Register \/ Answer \/ Lose

Spec == Init /\ [][Next]_vars
=============================================================================
