---------------------------- MODULE MCAtomicStore ----------------------------
(* Two targets, one or two idempotency keys and a few requests for TLC. *)
EXTENDS AtomicStore, TLC

Expect(what, version) == [expected |-> what, version |-> version]

Request(conditions, operations) == [conditions |-> conditions, operations |-> operations]

CompareAndSet(t, version) == Request(t :> Expect("version", version), t :> "write")

(* Create one target and compare-and-remove the other, in one batch. *)
Move(version) == Request((1 :> Expect("missing", 0)) @@ (2 :> Expect("version", version)),
                         (1 :> "write") @@ (2 :> "remove"))

MCRequests == {CompareAndSet(1, v) : v \in 1..2}
              \cup {Move(v) : v \in 1..2}

(* For the runs about receipts: one target is enough there. *)
MCReceiptRequests == {Request(1 :> Expect("present", 0), 1 :> "remove"),
                    Request(1 :> Expect("missing", 0), 1 :> "write")}

MCTargets == 1..2

MCOneTarget == {1}

MCNoRetention == -1
===============================================================================
