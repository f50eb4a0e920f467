------------------------------ MODULE Registry ------------------------------
(***************************************************************************)
(* What a project promises whoever reads its manifest, however many        *)
(* commands run at once: the manifest appears once, then changes one whole *)
(* command at a time, and a change only ever adds consistent entries or    *)
(* moves last_verified forward.                                            *)
(*                                                                         *)
(* Each action constrains the manifest before and after, with no parameter *)
(* to guess, so that a run can evaluate this specification as a property   *)
(* of Project.                                                             *)
(***************************************************************************)
EXTENDS Manifest

CONSTANT Starts     \* the manifests a project may be found with

\* A project is found with no manifest or with a consistent one.
StartsConsistent == \A m \in Starts : m = NoProject \/ (m \in Manifests /\ Consistent(m))

VARIABLE manifest

Exists == manifest # NoProject

(***************************************************************************)
(* The actions: init, add, import of a job record, import of a comparison  *)
(* record, verify's stamp.                                                 *)
(***************************************************************************)
Create == ~Exists /\ manifest' = NewManifest

Register == Exists /\ manifest' \in Manifests /\ Registers(manifest, manifest')

ImportJob == Exists /\ manifest' \in Manifests /\ ImportsJob(manifest, manifest')

ImportEvaluation ==
    Exists /\ manifest' \in Manifests /\ ImportsEvaluation(manifest, manifest')

Stamp == Exists /\ manifest' \in Manifests /\ Stamps(manifest, manifest')

Init == manifest \in Starts

Next == Create \/ Register \/ ImportJob \/ ImportEvaluation \/ Stamp

Spec == Init /\ [][Next]_manifest

(***************************************************************************)
(* What follows from the promise.                                          *)
(***************************************************************************)
\* Whatever the commands did, ids, paths, job records and comparison records
\* are unique and no derivation or evaluation names an asset that is not there.
ManifestConsistent == Exists => Consistent(manifest)
=============================================================================
