--------------------------- MODULE CostModelCheck ---------------------------
(***************************************************************************)
(* Checks the pure operators of gc.c over every input in a bounded range.  *)
(* Each state is one input of get_cb_cost (the section's valid-block and  *)
(* mtime totals, and the bounds held in sit_info, with min <= max since   *)
(* they start equal and only widen) beside one node offset for            *)
(* start_bidx_of_node.                                                     *)
(***************************************************************************)
EXTENDS CostModel, StartBidx

CONSTANT MAXT           \* largest mtime

VARIABLES vsum, msum, mm, nofs

VSums == 0..(SPS * BLKS)
MSums == 0..(SPS * MAXT)
Bounds == {b \in [min : 0..MAXT, max : 0..MAXT] : b.min <= b.max}
Offsets == 0..MAXOFS

Probe == /\ vsum \in VSums
         /\ msum \in MSums
         /\ mm \in Bounds
         /\ nofs \in Offsets

Init == Probe
\* Each step picks a new cost input or a new node offset.
Next == \/ /\ vsum' \in VSums
           /\ msum' \in MSums
           /\ mm' \in Bounds
           /\ UNCHANGED nofs
        \/ nofs' \in Offsets /\ UNCHANGED <<vsum, msum, mm>>
Spec == Init /\ [][Next]_<<vsum, msum, mm, nofs>>

Cost(v, t) == get_cb_cost(v, t, mm).cost

TypeOK == vsum \in VSums /\ msum \in MSums /\ mm \in Bounds /\ nofs \in Offsets

\* P6: the cost-benefit cost that get_victim_by_default minimises never
\* prefers a section with more valid blocks over one with fewer at the same
\* age, nor a younger section over an older one at the same utilisation.
CbMonotone ==
    /\ \A v \in 0..vsum : Cost(v, msum) <= Cost(vsum, msum)
    /\ \A t \in 0..msum : Cost(vsum, t) <= Cost(vsum, msum)

\* get_cb_cost agrees with the design's formula, including the age of 100
\* it gives a section when the widened min and max mtime are equal.
CbCostMatchesRef == get_cb_cost(vsum, msum, mm).cost = CbCostRef(vsum, msum, mm)

\* For the inode (offset 0) and every direct node, the block index that
\* gc_data_segment adds ofs_in_node to (gc.c 594-595) is the number of data
\* addresses held by the inode and the direct nodes before it in the tree:
\* the branch boundaries and the dec correction of start_bidx_of_node place
\* each direct node behind the right number of indirect nodes.
StartBidxMatchesRef ==
  (nofs = 0 \/ IsDirectNode(nofs)) => start_bidx_of_node(nofs) = RefStartBidx(nofs)

=============================================================================
