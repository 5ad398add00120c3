----------------------------- MODULE MCArtifacts -----------------------------
(***************************************************************************)
(* Instances of Artifacts: what three calls ask for. At first the object p *)
(* belongs to the artifact s, and at o are bytes that an earlier write of  *)
(* unknown outcome left.                                                   *)
(***************************************************************************)
EXTENDS Artifacts, TLC

Asking(kind, artifact, object, key, source) ==
  [kind |-> kind, artifact |-> artifact, object |-> object, key |-> key,
   bytes |-> "x", source |-> source]

MCStored == "o" :> "x" @@ "p" :> "x"
MCRecorded == "s" :> "p"

(* An object is imported while its only artifact is deleted and a repair
   looks for objects that no record refers to. *)
Shared == "c1" :> Asking("delete", "s", "p", None, None)
          @@ "c2" :> Asking("import", "a", "p", None, None)
          @@ "c3" :> Asking("repair", "a", "p", None, None)

(* Two writes of one idempotency key, one of which may die, and the
   deletion of what it writes. *)
Retried == "c1" :> Asking("write", "a", "m", "k", None)
           @@ "c2" :> Asking("write", "b", "n", "k", None)
           @@ "c3" :> Asking("delete", "a", "m", None, None)

(* A write that finds left-over bytes at its object, with a source that is
   deleted meanwhile, and a repair of the left-over bytes. *)
Adopted == "c1" :> Asking("delete", "s", "p", None, None)
           @@ "c2" :> Asking("write", "a", "o", None, "s")
           @@ "c3" :> Asking("repair", "a", "o", None, None)

MCRequests == {Shared, Retried, Adopted}

(* A retry under a deterministic id, without an idempotency key, overlaps
   the write it retries. *)
TwinRequests == {"c1" :> Asking("write", "a", "m", None, None)
                 @@ "c2" :> Asking("write", "a", "m", None, None)}
==============================================================================
