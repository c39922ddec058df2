----------------------------- MODULE AtomicCalls -----------------------------
(***************************************************************************)
(* What the calls of a Database that change it promise to their caller     *)
(* (dbinterface/database.h: 0 for success, an error in errorMsg otherwise): *)
(* a change reaches the disk in one step, while its own call runs, and the *)
(* answer tells whether it did.  How far the answer can be trusted depends *)
(* on the class of the call.                                               *)
(***************************************************************************)
CONSTANT Calls

VARIABLES
  class,   (* the promise of a call, once it was made                      *)
  disk,    (* the calls whose change is on the disk                        *)
  answer   (* what the caller was told; "lost" when the program ended      *)

avars == <<class, disk, answer>>

(* "whole"   the change is on the disk if and only if the answer is "ok"   *)
(* "late"    "ok" only with the change on the disk                         *)
(* "joins"   "failed" only without the change on the disk                  *)
(* "reports" the call never changes anything                               *)
Class == {"whole", "late", "joins", "reports"}

Unknown == "unknown"

Init ==
  /\ class = [c \in Calls |-> Unknown]
  /\ disk = {}
  /\ answer = [c \in Calls |-> "none"]

Running(c) == class[c] # Unknown /\ answer[c] = "none"

Make(c) ==
  /\ class[c] = Unknown
  /\ \E k \in Class : class' = [class EXCEPT ![c] = k]
  /\ UNCHANGED <<disk, answer>>

Save(c) ==
  /\ Running(c) /\ class[c] # "reports" /\ c \notin disk
  /\ disk' = disk \cup {c}
  /\ UNCHANGED <<class, answer>>

Answer(c, a) ==
  /\ Running(c)
  /\ answer' = [answer EXCEPT ![c] = a]
  /\ UNCHANGED <<class, disk>>

Succeed(c) == Answer(c, "ok") /\ (class[c] \in {"whole", "late"} => c \in disk)

Fail(c) == Answer(c, "failed") /\ (class[c] # "late" => c \notin disk)

Lose(c) == Answer(c, "lost")

Next == \E c \in Calls : Make(c) \/ Save(c) \/ Succeed(c) \/ Fail(c) \/ Lose(c)

Spec == Init /\ [][Next]_avars
=============================================================================
