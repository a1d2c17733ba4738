------------------------------ MODULE JobQueue ------------------------------
(***************************************************************************)
(* What a job queue promises about one unit of work, whatever the rows,    *)
(* leases and retries behind it: an item waits, is held, and is worked on  *)
(* by at most one worker while it is held; it leaves the held state only   *)
(* once nobody works on it, and a waiting item is never dropped.           *)
(***************************************************************************)
CONSTANTS Item, Worker

VARIABLES
  item,  \* "idle", "queued" or "held"
  busy   \* the workers at work on an item

Init ==
  /\ item = [k \in Item |-> "idle"]
  /\ busy = [k \in Item |-> {}]

Submit(k) ==
  /\ item[k] = "idle"
  /\ item' = [item EXCEPT ![k] = "queued"]
  /\ UNCHANGED busy

(* A batch is taken at once, each item by a worker of its own. *)
Take(S) ==
  /\ \A k \in S : item[k] = "queued"
  /\ item' = [k \in Item |-> IF k \in S THEN "held" ELSE item[k]]
  /\ \E w \in [S -> Worker] :
       busy' = [k \in Item |-> IF k \in S THEN {w[k]} ELSE busy[k]]

(* Workers stop, by themselves or with the process they run in. *)
Stop(W) ==
  /\ busy' = [k \in Item |-> busy[k] \ W]
  /\ UNCHANGED item

Finish(k) ==
  /\ item[k] = "held" /\ busy[k] = {}
  /\ item' = [item EXCEPT ![k] = "idle"]
  /\ UNCHANGED busy

Return(S) ==
  /\ \A k \in S : item[k] = "held" /\ busy[k] = {}
  /\ item' = [k \in Item |-> IF k \in S THEN "queued" ELSE item[k]]
  /\ UNCHANGED busy

Next ==
  \/ \E k \in Item : Submit(k) \/ Finish(k)
  \/ \E S \in SUBSET Item : Take(S) \/ Return(S)
  \/ \E W \in SUBSET Worker : Stop(W)

Spec == Init /\ [][Next]_<<item, busy>>
=============================================================================
