---------------------------- MODULE MCAlgorithms ----------------------------
(* The two algorithms whose loops are stepped through, side by side: a     *)
(* behaviour cuts one text with the sizes of app/config.py, or ranks one   *)
(* answer.  Scores are in thousandths: two round down to 0.84 and two      *)
(* round up to 0.85, so raw and rounded scores compare in every way.       *)
EXTENDS Chunking, SearchRanking

CONSTANTS p1, p2, p3

UpToThreeWindows == 0..700

CutsText ==
  /\ Init
  /\ matches = <<>> /\ limit = 1 /\ topK = 1 /\ at = 1
  /\ seen = <<>> /\ raised = FALSE /\ best = <<>>

RanksAnswer ==
  /\ len = 0 /\ start = 0 /\ kept = {}
  /\ SearchInit

EitherSpec ==
  /\ CutsText \/ RanksAnswer
  /\ [][\/ Next /\ UNCHANGED searchVars
        \/ Look /\ UNCHANGED vars]_<<vars, searchVars>>
=============================================================================
