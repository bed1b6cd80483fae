--------------------------- MODULE Chunking_proofs ---------------------------
(* Proofs about Chunking, for every window size, overlap and text.         *)
EXTENDS Chunking, TLAPS

(* Everything before the overlap of the window at hand with the one before *)
(* it is in a chunk already, but for what the tail may lose.               *)
Inv ==
  /\ TypeOK
  /\ (start > 0 /\ len > 0) => 0 \in kept
  /\ start > 0 => \A t \in Nat : (t < start + Overlap /\ t < len - TailLoss) => Covered(t)

\* Before the first window nothing is claimed.
LEMMA InvInit == Init => Inv
BY ChunkingAssumption DEF Init, Inv, TypeOK

\* A window that is kept or dropped leaves at most the tail uncovered.
LEMMA InvNext == Inv /\ [Next]_vars => Inv'
<1> SUFFICES ASSUME Inv, [Next]_vars
             PROVE  Inv'
  OBVIOUS
<1> USE ChunkingAssumption DEF Inv, TypeOK
<1>1. CASE Keep
  <2>1. /\ len' = len /\ kept' = kept \cup {start}
        /\ start' = start + (ChunkSize - Overlap) /\ start < len
    BY <1>1 DEF Keep, NextStart, Stride
  <2>2. TypeOK'
    BY <2>1
  <2>3. ((start > 0 /\ len > 0) => 0 \in kept)'
    BY <2>1
  <2>4. ASSUME NEW t \in Nat, t < start' + Overlap, t < len - TailLoss
        PROVE  Covered(t)'
    <3>1. t < len
      BY <2>4 DEF TailLoss
    <3>2. CASE t >= start
      BY <3>1, <3>2, <2>1, <2>4 DEF Covered, End
    <3>3. CASE t < start
      <4>1. Covered(t)
        BY <3>3, <2>4
      <4> QED
        BY <4>1, <2>1 DEF Covered, End
    <3> QED
      BY <3>2, <3>3
  <2> QED
    BY <2>1, <2>2, <2>3, <2>4 DEF TailLoss
<1>2. CASE Drop
  <2>1. /\ len' = len /\ kept' = kept
        /\ start' = start + (ChunkSize - Overlap)
        /\ start < len /\ start # 0 /\ End(start) - start < MinSize
    BY <1>2 DEF Drop, NextStart, Stride, Keeps, End
  <2>2. End(start) = len
    BY <2>1 DEF End
  <2>3. ASSUME NEW t \in Nat, t < len - TailLoss
        PROVE  Covered(t)
    <3>1. t < start + Overlap
      BY <2>1, <2>2, <2>3 DEF TailLoss
    <3> QED
      BY <3>1, <2>1, <2>3
  <2>4. ASSUME NEW t \in Nat, Covered(t)
        PROVE  Covered(t)'
    BY <2>1, <2>4 DEF Covered, End
  <2>5. TypeOK'
    BY <2>1
  <2>6. ((start > 0 /\ len > 0) => 0 \in kept)'
    BY <2>1
  <2> QED
    BY <2>1, <2>3, <2>4, <2>5, <2>6 DEF TailLoss
<1>3. CASE UNCHANGED vars
  BY <1>3 DEF vars, Covered, End, TailLoss
<1> QED
  BY <1>1, <1>2, <1>3 DEF Next

\* The invariant holds in every state of the loop.
LEMMA Invariant == Spec => []Inv
<1> QED
  BY InvInit, InvNext, PTL DEF Spec

(* chunk_text leaves no page with text without a chunk, whatever the       *)
(* settings: its first window is kept however short the text is.           *)
THEOREM FirstChunkIsKept == Spec => []FirstChunkKept
<1>1. Inv => FirstChunkKept
  BY ChunkingAssumption DEF Inv, TypeOK, FirstChunkKept, Done
<1> QED
  BY <1>1, Invariant, PTL

(* chunk_text loses at most the last MinSize - 1 - Overlap tokens of a     *)
(* text, whatever the settings.                                            *)
THEOREM TailLossBounded == Spec => []OnlyTailLost
<1>1. Inv => OnlyTailLost
  BY ChunkingAssumption DEF Inv, TypeOK, OnlyTailLost, Done
<1> QED
  BY <1>1, Invariant, PTL

-----------------------------------------------------------------------------
(* A kept window follows a kept one: a window is dropped only where the    *)
(* text ends, and what would come after it is shorter still.               *)
Follows(s) == s - Stride \in kept /\ s - Stride >= 0

Chain ==
  /\ TypeOK
  /\ start > 0 => \/ Follows(start)
                  \/ start - Stride \in Nat /\ End(start - Stride) < start - Stride + MinSize
  /\ \A s \in kept \ {0} : Follows(s) /\ s + MinSize <= len

\* Every window keeps the chain.
LEMMA ChainNext == Chain /\ [Next]_vars => Chain'
<1> SUFFICES ASSUME Chain, [Next]_vars
             PROVE  Chain'
  OBVIOUS
<1> USE ChunkingAssumption DEF Chain, TypeOK
<1>1. Stride \in Nat \ {0}
  BY DEF Stride
<1>2. len \in Nat
  OBVIOUS
<1>3. CASE Keep
  <2>1. /\ len' = len /\ kept' = kept \cup {start} /\ start' = start + Stride
        /\ start < len /\ (start = 0 \/ End(start) - start >= MinSize)
    BY <1>3 DEF Keep, Keeps, NextStart
  <2>2. start' - Stride = start /\ start' \in Nat
    BY <1>1, <2>1
  <2>3. (Follows(start))'
    BY <1>1, <2>1, <2>2 DEF Follows, Stride
  <2>4. ASSUME start # 0
        PROVE  Follows(start) /\ start + MinSize <= len
    <3>1. start + MinSize <= len
      BY <2>1, <2>4, <1>2 DEF End
    <3>2. ~(start - Stride \in Nat /\ End(start - Stride) < start - Stride + MinSize)
      BY <1>1, <1>2, <3>1 DEF End
    <3> QED
      BY <2>4, <3>1, <3>2
  <2>5. ASSUME NEW s \in kept \cup {start}, s # 0
        PROVE  Follows(s)' /\ s + MinSize <= len'
    <3>1. Follows(s) /\ s + MinSize <= len
      BY <2>4, <2>5
    <3> QED
      BY <2>1, <3>1 DEF Follows, Stride
  <2>6. \A s \in kept' \ {0} : Follows(s)' /\ s + MinSize <= len'
    BY <2>1, <2>5
  <2>7. TypeOK'
    BY <2>1, <2>2
  <2> QED
    BY <2>3, <2>6, <2>7
<1>4. CASE Drop
  <2>1. /\ len' = len /\ kept' = kept /\ start' = start + Stride
        /\ start < len /\ ~(End(start) - start >= MinSize)
    BY <1>4 DEF Drop, Keeps, NextStart
  <2>2. start' - Stride = start /\ start' \in Nat
    BY <1>1, <2>1
  <2>3. End(start) \in Nat
    BY <1>2 DEF End
  <2>4. End(start) < start + MinSize
    BY <2>1, <2>3
  <2>5. (start - Stride \in Nat /\ End(start - Stride) < start - Stride + MinSize)'
    <3>1. (start - Stride)' = start
      BY <2>2 DEF Stride
    <3>2. End(start - Stride)' = End(start)
      BY <2>1, <3>1 DEF End
    <3> QED
      BY <2>4, <3>1, <3>2
  <2>6. ASSUME NEW s \in kept \ {0}
        PROVE  Follows(s)' /\ s + MinSize <= len'
    <3>1. Follows(s) /\ s + MinSize <= len
      BY <2>6
    <3> QED
      BY <2>1, <3>1 DEF Follows, Stride
  <2>7. TypeOK'
    BY <2>1, <2>2
  <2> QED
    BY <2>1, <2>5, <2>6, <2>7
<1>5. CASE UNCHANGED vars
  BY <1>5 DEF vars, Follows, End, Stride
<1> QED
  BY <1>3, <1>4, <1>5 DEF Next

(* Every chunk but the first repeats the last Overlap tokens of the one    *)
(* before it, as long as no chunk is smaller than the overlap: the windows *)
(* of config.py overlap by 40 tokens and are kept from 50 on.              *)
THEOREM ChunksHangTogether ==
  ASSUME Overlap <= MinSize
  PROVE  Spec => []ChunksOverlap
<1>1. Init => Chain
  BY ChunkingAssumption DEF Init, Chain, TypeOK
<1>2. Chain => ChunksOverlap
  <2> SUFFICES ASSUME Chain, NEW s \in kept \ {0}
               PROVE  \E r \in kept : r < s /\ End(r) - s = Overlap
    BY DEF ChunksOverlap
  <2>1. s - Stride \in kept /\ s + MinSize <= len /\ s \in Nat /\ len \in Nat
    BY ChunkingAssumption DEF Chain, Follows, TypeOK
  <2>2. s - Stride < s /\ End(s - Stride) - s = Overlap
    BY <2>1, ChunkingAssumption DEF End, Stride
  <2> QED
    BY <2>1, <2>2
<1> QED
  BY <1>1, <1>2, ChainNext, PTL DEF Spec
=============================================================================
