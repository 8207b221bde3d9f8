---------------------------- MODULE MCExecutors ----------------------------
EXTENDS Executors, TLC

(* Two deaths share a permit; a portal and penalties share a character.     *)
MCJobs == {"death1", "death2", "portal", "penalty"}
MCKindOf == "death1" :> "death" @@ "death2" :> "death" @@ "portal" :> "portal" @@ "penalty" :> "penalty"
MCCharacterOf == "death1" :> 1 @@ "death2" :> 2 @@ "portal" :> 1 @@ "penalty" :> 1
MCWorkers == {"w1", "w2", "w3"}
MCWorkerOf == "w1" :> "death" @@ "w2" :> "portal" @@ "w3" :> "penalty"
=============================================================================
