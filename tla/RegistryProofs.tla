--------------------------- MODULE RegistryProofs ---------------------------
(***************************************************************************)
(* Registry for every vocabulary and every start: a consistent manifest    *)
(* stays consistent.  The inductive invariant adds the manifest's type,    *)
(* which is what lets entries be compared before and after a step.         *)
(***************************************************************************)
EXTENDS Registry, ManifestProofs

(***************************************************************************)
(* The actions.                                                            *)
(***************************************************************************)
Typed == manifest = NoProject \/ manifest \in Manifests

IInv == Typed /\ ManifestConsistent

LEMMA Present == ASSUME IInv, Exists PROVE manifest \in Manifests /\ Consistent(manifest)
BY DEF IInv, Typed, ManifestConsistent, Exists

\* A step is the first manifest or a change of the one there was.
LEMMA StepChanges ==
  ASSUME IInv, Next
  PROVE  \/ Create
         \/ /\ manifest \in Manifests /\ Consistent(manifest)
            /\ manifest' \in Manifests /\ Changes(manifest, manifest')
BY Present DEF Next, Register, ImportJob, ImportEvaluation, Stamp, Changes

(***************************************************************************)
(* The theorems.                                                           *)
(***************************************************************************)
LEMMA InitIInv == StartsConsistent /\ Init => IInv
BY DEF StartsConsistent, Init, IInv, Typed, ManifestConsistent, Exists

LEMMA NextIInv == IInv /\ [Next]_manifest => IInv'
<1> SUFFICES ASSUME IInv, [Next]_manifest PROVE IInv'
  OBVIOUS
<1>1. CASE UNCHANGED manifest
  BY <1>1 DEF IInv, Typed, ManifestConsistent, Exists
<1>2. CASE Next
  BY <1>2, StepChanges, ChangesConsistent, NewManifestConsistent
  DEF Create, IInv, Typed, ManifestConsistent
<1> QED BY <1>1, <1>2

\* Unique ids, paths and imported records, and no dangling link, however many
\* commands wrote and in whatever order (add, import, stamp_verified).
THEOREM AlwaysConsistent == StartsConsistent /\ Spec => []ManifestConsistent
BY InitIInv, NextIInv, PTL DEF Spec, IInv
=============================================================================
