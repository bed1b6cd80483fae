------------------------------ MODULE Chunking ------------------------------
(***************************************************************************)
(* chunk_text of app/services/chunking_service.py: the windows it cuts a   *)
(* text of len tokens into.  A window is known by its first token; tokens  *)
(* are numbered from 0.                                                    *)
(***************************************************************************)
EXTENDS Integers

CONSTANTS
  ChunkSize,  \* CHUNK_SIZE
  Overlap,    \* CHUNK_OVERLAP
  MinSize,    \* MIN_CHUNK_SIZE
  Lengths     \* token counts of the texts considered

(* The overlap is smaller than the window, else the loop does not end; a   *)
(* full window is long enough to be kept.                                  *)
ASSUME ChunkingAssumption ==
  /\ ChunkSize \in Nat /\ Overlap \in Nat /\ Overlap < ChunkSize
  /\ MinSize \in Nat /\ MinSize <= ChunkSize
  /\ Lengths \subseteq Nat

VARIABLES
  len,    \* number of tokens of the text
  start,  \* first token of the window at hand
  kept    \* the windows kept as chunks

vars == <<len, start, kept>>

-----------------------------------------------------------------------------
Stride == ChunkSize - Overlap
\* The token after the last one of window s.
End(s) == IF s + ChunkSize < len THEN s + ChunkSize ELSE len

\* Mutants of Keeps: a short page has no chunk; the smallest tail is dropped.
KeepsLongOnly(s) == End(s) - s >= MinSize
KeepsLonger(s) == s = 0 \/ End(s) - s > MinSize

Keeps(s) == s = 0 \/ End(s) - s >= MinSize

\* Mutant of NextStart: the windows do not overlap.
NextStartApart(s) == s + ChunkSize

NextStart(s) == s + Stride

Init ==
  /\ len \in Lengths
  /\ start = 0
  /\ kept = {}

Keep ==
  /\ start < len /\ Keeps(start)
  /\ kept' = kept \cup {start}
  /\ start' = NextStart(start)
  /\ UNCHANGED len

Drop ==
  /\ start < len /\ ~Keeps(start)
  /\ start' = NextStart(start)
  /\ UNCHANGED <<len, kept>>

Next == Keep \/ Drop

Spec == Init /\ [][Next]_vars

Done == start >= len

-----------------------------------------------------------------------------
TypeOK ==
  /\ len \in Lengths
  /\ start \in Nat
  /\ kept \in SUBSET Nat

Covered(t) == \E s \in kept : s <= t /\ t < End(s)

(* A page with any text has a chunk that begins with its first token: the  *)
(* sole window of a short page is kept whatever its size.                  *)
FirstChunkKept == (Done /\ len > 0) => 0 \in kept

(* Dropping short tails loses at most the last MinSize - 1 - Overlap       *)
(* tokens of a page: none when MinSize <= Overlap + 1.                     *)
TailLoss == IF MinSize > Overlap + 1 THEN MinSize - 1 - Overlap ELSE 0

OnlyTailLost == Done => \A t \in 0..(len - 1) : t < len - TailLoss => Covered(t)

(* Chunks hang together: every chunk but the first repeats the last        *)
(* Overlap tokens of another one, so no passage is cut in two unseen.      *)
ChunksOverlap ==
  \A s \in kept \ {0} : \E r \in kept : r < s /\ End(r) - s = Overlap
=============================================================================
