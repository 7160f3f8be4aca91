------------------------------ MODULE Website ------------------------------
(* External: the website that owns the credit reservations. Its code is not   *)
(* in this repository. This is what the workload relies on: `started` claims  *)
(* a pending reservation once, the first terminal receipt settles it, and a   *)
(* repeated terminal receipt is acknowledged again or refused, but changes    *)
(* nothing. A refusal is a 409, which the receipt client does not retry.      *)

Receipts == {"started", "succeeded", "failed"}
Reservations == {"pending", "claimed", "charged", "returned"}
Settled == {"charged", "returned"}

SettledBy(receipt) == IF receipt = "succeeded" THEN "charged" ELSE "returned"

(* The states a receipt can leave a reservation in, each with the reply.      *)
Replies(site, receipt) ==
    CASE receipt = "started" /\ site = "pending" -> {[to |-> "claimed", reply |-> "ok"]}
      [] receipt # "started" /\ site = "claimed" ->
            {[to |-> SettledBy(receipt), reply |-> "ok"]}
      [] receipt # "started" /\ site = SettledBy(receipt) ->
            [to : {site}, reply : {"ok", "refused"}]
      [] OTHER -> {[to |-> site, reply |-> "refused"]}
=============================================================================
