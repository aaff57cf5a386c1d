--------------------------- MODULE MCDepthFirstItr ---------------------------
EXTENDS DepthFirstItr, TLC

\* The graphs in which every member is below the anchor, which is 4.  A cover's
\* iterator goes through it in the order of the ids.
graphs ==
  LET links == {S \in SUBSET {<<h, l>> \in (1..4) \X (1..4) : l < h} :
                  \A l \in 1..3 : \E h \in 1..4 : <<h, l>> \in S}
  IN {[m \in 1..4 |-> SetToSortSeq({l \in 1..4 : <<m, l>> \in S}, <)] : S \in links}

\* The filters let everything through, not the middle of the graph, or not the
\* anchor; strict leaves the anchor out too.
setups ==
  {[cover |-> g, order |-> o, filter |-> f[1], strict |-> f[2], visit_once |-> v] :
     g \in graphs, o \in Orders, v \in BOOLEAN,
     f \in {<<1..4, FALSE>>, <<1..4, TRUE>>, <<{1, 2, 4}, FALSE>>, <<{1, 3}, FALSE>>}}
==============================================================================
