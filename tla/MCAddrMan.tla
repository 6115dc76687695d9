----------------------------- MODULE MCAddrMan ------------------------------
(***************************************************************************)
(* Instances of AddrMan for TLC: four services on three hosts (a and a2    *)
(* differ in the port only), told of by two sources; two new buckets and   *)
(* one tried bucket, so that all of them fill up and an entry can be in    *)
(* two.                                                                    *)
(***************************************************************************)
EXTENDS AddrMan

MCServices == {"a", "a2", "b", "c"}
MCHost == [s \in MCServices |-> IF s = "a2" THEN "a" ELSE s]
MCNewBucket == [x \in MCServices \X {"p", "q"} |->
    IF x[1] \in {"a", "b"} /\ x[2] = "q" THEN 2 ELSE 1]
MCTriedBucket == [s \in MCServices |-> 1]
=============================================================================
