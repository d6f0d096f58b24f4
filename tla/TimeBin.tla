------------------------------ MODULE TimeBin ------------------------------
(***************************************************************************)
(* The time bins of a channel (netfetch/src/timebin.rs): events are kept   *)
(* until the CaConn's tick, go through the binner (external), whose        *)
(* finished bins go to PatchCollect; each patch is a row of the store,     *)
(* found by the number of the patch.                                       *)
(***************************************************************************)
EXTENDS PatchCollect

CONSTANTS OffMax,   \* 1000: off_msp, off_lsp are quotient and rest by it
          MaxReady, \* the most bins that are finished at one tick
          MaxBin    \* bound of the bins

ASSUME TimeBinAssumption ==
  OffMax \in Nat \ {0} /\ {MaxReady, MaxBin} \subseteq Nat /\ BinCount <= MaxBin

VARIABLES
  did_setup, \* setup_for knows scalars of five types
  acc,       \* whether there are events since the last tick
  next,      \* the bin that the binner finishes next
  pc,        \* patch_collect
  patches,   \* the rows: what went into the insert queue
  first,     \* history: the first bin
  ticks,     \* history: what next has been between the ticks
  failed     \* an error has reached the CaConn, which shuts down

binVars == <<did_setup, acc, next, pc, patches, first, ticks, failed>>

BinInit ==
  /\ did_setup = FALSE /\ acc = FALSE
  /\ next \in 0 .. BinCount - 1 /\ first = next /\ ticks = {next}
  /\ pc = NewCollect /\ patches = <<>> /\ failed = FALSE

SetupFor ==
  /\ ~did_setup /\ ~failed
  /\ did_setup' = TRUE
  /\ UNCHANGED <<acc, next, pc, patches, first, ticks, failed>>

\* A value of another type than the channel's is an error.
Push ==
  /\ did_setup /\ ~failed
  /\ \/ acc' = TRUE /\ UNCHANGED failed
     \/ failed' = TRUE /\ UNCHANGED acc
  /\ UNCHANGED <<did_setup, next, pc, patches, first, ticks>>

\* store_patch
\* Mutant: the offset is counted in bins, not in patches.
RowByBins(patch) == [off_msp |-> patch[1] \div OffMax, off_lsp |-> patch[1] % OffMax, bins |-> patch]

Row(patch) == [off_msp |-> (patch[1] \div BinCount) \div OffMax,
               off_lsp |-> (patch[1] \div BinCount) % OffMax,
               bins    |-> patch]

StorePatch(p) ==
  IF \E i \in DOMAIN p.c.outq : p.c.outq[i] = <<>>
  THEN failed' = TRUE /\ UNCHANGED patches
  ELSE patches' = patches \o [i \in DOMAIN p.c.outq |-> Row(p.c.outq[i])] /\ UNCHANGED failed

\* The bins from a up to b.
Bins(a, b) == [i \in 1 .. b - a |-> a + i - 1]

BinTick ==
  /\ acc /\ ~failed
  /\ acc' = FALSE
  /\ \E n \in 0 .. MaxReady :
       LET p == Ingest(pc, Bins(next, next + n)) IN
       /\ next + n <= MaxBin
       /\ next' = next + n /\ ticks' = ticks \cup {next + n}
       /\ IF p.item # <<>> THEN failed' = TRUE /\ pc' = p.c /\ UNCHANGED patches
          ELSE StorePatch(p) /\ pc' = WithoutOutq(p.c)
  /\ UNCHANGED <<did_setup, first>>

BinNext == SetupFor \/ Push \/ BinTick

BinSpec == BinInit /\ [][BinNext]_binVars

-----------------------------------------------------------------------------
BinTypeOK ==
  /\ {did_setup, acc, failed} \subseteq BOOLEAN
  /\ next \in 0 .. MaxBin /\ first \in 0 .. BinCount - 1 /\ ticks \subseteq 0 .. next
  /\ pc.locked \in BOOLEAN /\ pc.coll \in Seq(0 .. MaxBin) /\ pc.outq \in Seq({})
  /\ \A i \in DOMAIN patches :
       patches[i].off_msp \in Nat /\ patches[i].off_lsp \in 0 .. OffMax - 1

\* All bins of the rows, one row after the other.
AllBins(rs) ==
  LET f[i \in 0 .. Len(rs)] == IF i = 0 THEN <<>> ELSE f[i - 1] \o rs[i].bins
  IN  f[Len(rs)]

\* Where the first patch begins.
FirstEdge == IF first = 0 THEN 0 ELSE BinCount

(* From the first patch edge on every bin is in the rows or in the          *)
(* collector, once and in order, however the bins come in: the passes over  *)
(* the bins of a tick suffice.                                              *)
NoBinLost ==
  /\ BinTypeOK
  /\ IF pc.locked THEN AllBins(patches) \o pc.coll = Bins(FirstEdge, next) ELSE next <= FirstEdge

\* A row at the place of the patch that begins with bin e has just its bins.
Found(e) ==
  \E i \in DOMAIN patches :
    /\ (patches[i].off_msp * OffMax + patches[i].off_lsp) * BinCount = e
    /\ patches[i].bins = Bins(e, e + BinCount)

\* The tick that finished it finished neither the patch before it nor the one after it.
EndsAlone(e) ==
  /\ e = FirstEdge \/ \E m \in ticks : e <= m /\ m < e + BinCount
  /\ \E m \in ticks : e + BinCount <= m /\ m < e + 2 * BinCount

(* Which patches a reader finds: one that is finished has a row of its own  *)
(* bin_count bins, at its place, if and only if no other patch was finished *)
(* at the same tick.  Patches that are finished together become one row, at *)
(* the place of the first, with more bins than its bin_count says: what the *)
(* "bin count mismatch" of patchcollect.rs:101 reports and lets pass.       *)
FoundUnlessJoined ==
  \A e \in FirstEdge .. next :
    StartsPatch(e) /\ e + BinCount <= next => (Found(e) <=> EndsAlone(e))

=============================================================================
