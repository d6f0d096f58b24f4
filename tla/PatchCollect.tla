---------------------------- MODULE PatchCollect ----------------------------
(***************************************************************************)
(* How time bins become patches (netfetch/src/patchcollect.rs).  A bin is  *)
(* the number of its start in units of bin_len; a patch is bin_count bins  *)
(* from a multiple of bin_count.  Bins before the first patch edge are     *)
(* dropped; from then on the collector is locked.                          *)
(***************************************************************************)
EXTENDS Naturals, Sequences, FiniteSetsExt

CONSTANTS BinCount,   \* 1 in the code
          PassLimit   \* 20

\* Three passes suffice, see NoBinLost, and one more has to find nothing left.
ASSUME PatchAssumption == BinCount \in Nat \ {0} /\ PassLimit \in Nat /\ PassLimit >= 4

\* No coll is as an empty one.
Collector(coll, locked, outq) == [coll |-> coll, locked |-> locked, outq |-> outq]

NewCollect == Collector(<<>>, FALSE, <<>>)

StartsPatch(bin) == bin % BinCount = 0
EndsPatch(bin)   == (bin + 1) % BinCount = 0

Begins(item) == {i \in DOMAIN item : StartsPatch(item[i])}
Ends(item)   == {i \in DOMAIN item : EndsPatch(item[i])}

Take(item, n) == SubSeq(item, 1, n)
Drop(item, n) == SubSeq(item, n + 1, Len(item))

\* Not locked: go on from the first bin that starts a patch.
PassUnlocked(p) ==
  IF Begins(p.item) = {} THEN [item |-> <<>>, c |-> p.c]
  ELSE LET i == Min(Begins(p.item))
       IN [item |-> Drop(p.item, i - 1), c |-> Collector(<<>>, TRUE, p.c.outq)]

\* Locked: up to the last bin that ends a patch, all is one patch.
\* Mutant: what is collected already does not go into the patch.
PassLockedForgets(p) ==
  IF Ends(p.item) = {}
  THEN [item |-> <<>>, c |-> Collector(p.c.coll \o p.item, TRUE, p.c.outq)]
  ELSE LET i == Max(Ends(p.item))
       IN [item |-> Drop(p.item, i),
           c    |-> Collector(<<>>, TRUE, Append(p.c.outq, Take(p.item, i)))]

PassLocked(p) ==
  IF Ends(p.item) = {}
  THEN [item |-> <<>>, c |-> Collector(p.c.coll \o p.item, TRUE, p.c.outq)]
  ELSE LET i == Max(Ends(p.item))
       IN [item |-> Drop(p.item, i),
           c    |-> Collector(<<>>, TRUE, Append(p.c.outq, p.c.coll \o Take(p.item, i)))]

Pass(p) == IF p.item = <<>> THEN p
           ELSE IF p.c.locked THEN PassLocked(p) ELSE PassUnlocked(p)

\* ingest: the collector afterwards, and the item that the last pass found, which
\* is an error if anything was left of it.
Ingest(c, item) ==
  LET passes[k \in 0 .. PassLimit] ==
        IF k = 0 THEN [item |-> item, c |-> c] ELSE Pass(passes[k - 1])
  IN  [item |-> passes[PassLimit - 1].item, c |-> passes[PassLimit].c]

\* take_outq
WithoutOutq(c) == Collector(c.coll, c.locked, <<>>)
=============================================================================
