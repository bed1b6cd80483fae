---------------------------- MODULE MCPageIndex ----------------------------
(* Instances of PageIndex: a long and a short version of a page, one that  *)
(* differs from the long one in its url only, and another long one.        *)
EXTENDS PageIndex, TLC

CONSTANTS web1, web2, worker, p1, p2, long, longUrl, other, short

HashOf == [v \in Versions |-> IF v = longUrl THEN long ELSE v]
ChunksOf == [v \in Versions |-> IF v = short THEN 1 ELSE 2]
TaskSymmetry == Permutations(Tasks)

(* The page is indexed already and nothing but re-index calls arrive: the  *)
(* bulk run of the worker reaches the page while POST /index serves it.    *)
ReindexSpec ==
  /\ row = [p \in Pages |-> long]
  /\ vecs = [p \in Pages |-> Contents(long)]
  /\ op = [t \in Tasks |-> Idle]
  /\ held = [t \in Tasks |-> {}]
  /\ damaged = {}
  /\ [][\E t \in Tasks :
           \/ \E p \in Pages, v \in Versions : SkipUnchanged(t, p, v) \/ StartIndex(t, p, v)
           \/ Step(t)
           \/ Respond(t)]_vars
=============================================================================
