----------------------------- MODULE StrictRead -----------------------------
(***************************************************************************)
(* The manifest as a JSON document (manifest.rs, the serde structs and     *)
(* load_manifest): people and other tools edit it, commands read it        *)
(* strictly and write it back.  A document is followed at one object of    *)
(* each kind, an object at the class of the value of each field:           *)
(*   "good"      what the schema asks for                                  *)
(*   "off"       of the right JSON type, but not of the schema's pattern,  *)
(*               constant, key pattern or minimal length                   *)
(*   "wrong"     of another JSON type                                      *)
(*   "wide"      with a number the field's type cannot hold: for a size,   *)
(*               1.0 or one beyond 64 bits; elsewhere, one no 64-bit       *)
(*               integer or double can hold exactly                        *)
(*   "rounded"   that number as a double near it                           *)
(*   "unparsed"  JSON that serde_json does not take for JSON: a number     *)
(*               beyond every double, lists more than 127 deep, half of a  *)
(*               surrogate pair                                            *)
(*   "listed"    for what holds another object: that object as an array of *)
(*               its fields' values                                        *)
(* The schema's table and the code's are written down separately, each     *)
(* from its own source, to be compared.                                    *)
(***************************************************************************)
EXTENDS Integers

CONSTANTS NoProject,    \* there is no manifest file
          Sealed,       \* there is one that cannot be read
          Garbage,      \* its bytes are not JSON
          Starts,       \* what a behaviour finds
          MaxEdits      \* bound: edits by hand in a behaviour

ASSUME MaxEditsAssumption == MaxEdits \in Nat

VARIABLES doc, last, edits
vars == <<doc, last, edits>>

(***************************************************************************)
(* The schema (schemas/project/v0).                                        *)
(***************************************************************************)
SchemaRequired == [
    manifest   |-> {"schema", "project", "assets", "derivations", "evaluations"},
    project    |-> {"id", "name", "created_at"},
    asset      |-> {"id", "path", "sha256", "size", "role", "added_at"},
    derivation |-> {"id", "inputs", "outputs", "tool", "created_at"},
    job        |-> {"path", "sha256"},
    evaluation |-> {"id", "candidates", "preference", "created_at", "record"},
    record     |-> {"path", "sha256"}]

SchemaProperties == [k \in DOMAIN SchemaRequired |-> SchemaRequired[k] \cup {"ext"} \cup
    CASE k = "asset"      -> {"last_verified"}
      [] k = "derivation" -> {"tool_version", "params", "job"}
      [] k = "evaluation" -> {"confidence"}
      [] OTHER            -> {}]

\* The fields that have a pattern, a constant, a key pattern or a least length.
Patterned == {"schema", "sha256", "role", "inputs", "outputs", "candidates", "preference", "ext"}
HasPattern(k, f) == f \in Patterned \/ (f = "id" /\ k # "project")

SchemaConforms(f, v) ==
    \/ v \in {"good", "wide", "rounded", "unparsed"}
    \/ v = "null" /\ f \in {"preference", "confidence"}

SchemaAccepts(d) ==
    \A k \in DOMAIN d :
        /\ \A f \in SchemaRequired[k] : d[k][f] # "absent"
        /\ \A f \in DOMAIN d[k] : d[k][f] # "absent" =>
              f \in SchemaProperties[k] /\ SchemaConforms(f, d[k][f])

(***************************************************************************)
(* The structs: fields of a plain type, and those of an Option.            *)
(***************************************************************************)
Required == [
    manifest   |-> {"schema", "project", "assets", "derivations", "evaluations"},
    project    |-> {"id", "name", "created_at"},
    asset      |-> {"id", "path", "sha256", "size", "role", "added_at"},
    derivation |-> {"id", "inputs", "outputs", "tool", "created_at"},
    job        |-> {"path", "sha256"},
    evaluation |-> {"id", "candidates", "created_at", "record"},
    record     |-> {"path", "sha256"}]

Optional == [
    manifest   |-> {"ext"},
    project    |-> {"ext"},
    asset      |-> {"last_verified", "ext"},
    derivation |-> {"tool_version", "params", "job", "ext"},
    job        |-> {"ext"},
    evaluation |-> {"confidence", "ext"},
    record     |-> {"ext"}]

\* The Option that must be there: required_nullable.
RequiredNullable == [k \in DOMAIN Required |-> IF k = "evaluation" THEN {"preference"} ELSE {}]

\* The structs' fields in the order they are declared in.
Order == [
    manifest   |-> <<"schema", "project", "assets", "derivations", "evaluations", "ext">>,
    project    |-> <<"id", "name", "created_at", "ext">>,
    asset      |-> <<"id", "path", "sha256", "size", "role", "added_at", "last_verified", "ext">>,
    derivation |-> <<"id", "inputs", "outputs", "tool", "tool_version", "params", "created_at",
                     "job", "ext">>,
    job        |-> <<"path", "sha256", "ext">>,
    evaluation |-> <<"id", "candidates", "preference", "confidence", "created_at", "record",
                     "ext">>,
    record     |-> <<"path", "sha256", "ext">>]

Place(k, f) == CHOOSE i \in DOMAIN Order[k] : Order[k][i] = f

Kinds == DOMAIN Required
Known(k) == Required[k] \cup Optional[k] \cup RequiredNullable[k]
Fields(k) == Known(k) \cup {"stray"}

\* Where the objects inside another one hang.
Holder == [project    |-> <<"manifest", "project">>,     asset  |-> <<"manifest", "assets">>,
           derivation |-> <<"manifest", "derivations">>, job    |-> <<"derivation", "job">>,
           evaluation |-> <<"manifest", "evaluations">>, record |-> <<"evaluation", "record">>]
Containers == {Holder[k][2] : k \in DOMAIN Holder}

Opaque == {"ext", "params", "confidence"}

\* What the schema takes any text, number or value for.
Unchecked == Opaque \cup {"name", "path", "tool", "tool_version", "size"}

Classes == {"absent", "null", "good", "off", "wrong", "wide", "rounded", "unparsed", "listed"}

Values(k, f) ==
    IF f = "stray" THEN {"absent", "good"}
    ELSE {"absent", "null", "good"}
           \cup (IF f = "confidence" THEN {} ELSE {"wrong"})
           \cup (IF HasPattern(k, f) THEN {"off"} ELSE {})
           \cup (IF f = "size" THEN {"wide"} ELSE {})
           \cup (IF f \in Opaque THEN {"wide", "rounded"} ELSE {})
           \cup (IF f \in Unchecked THEN {"unparsed"} ELSE {})
           \cup (IF f \in Containers THEN {"listed"} ELSE {})

(***************************************************************************)
(* Reading.                                                                *)
(***************************************************************************)
\* Every Option a field that may be left out, or be there as something else
\* than null.
ReadsPlainOptions(k, f, v) ==
    \/ v \in {"good", "off", "rounded", "listed"} /\ f \in Known(k)
    \/ v = "wide" /\ f \in Opaque
    \/ v = "null" /\ f \in Optional[k]
    \/ v = "absent" /\ f \notin Required[k] \cup RequiredNullable[k]

\* What serde makes of one field: patterns are not its business, null is None, an
\* array is taken for a struct, and an unknown field (deny_unknown_fields), or an
\* element after the last, must not be there.  A field left out of an object is
\* one the array ends before.
Reads(k, f, v) ==
    \/ v \in {"good", "off", "rounded", "listed"} /\ f \in Known(k)
    \/ v = "wide" /\ f \in Opaque
    \/ v = "null" /\ f \in Optional[k] \cup RequiredNullable[k]
    \/ v = "absent" /\ f \notin Required[k] \cup RequiredNullable[k]

\* A walk that does not reach the hashed references.
ValidateOuterExtKeys(d) ==
    \A k \in DOMAIN d \ {"job", "record"} : d[k].ext # "off"

ValidateExtKeys(d) == \A k \in DOMAIN d : d[k].ext # "off"

Unparsed(d) == \E k \in DOMAIN d : \E f \in Fields(k) : d[k][f] = "unparsed"

LoadError(d) ==
    CASE d = NoProject -> "NotAProject"
      [] d = Sealed    -> "Unreadable"
      [] d = Garbage   -> "Parse"
      [] OTHER ->
           IF Unparsed(d) THEN "Parse"
           ELSE IF d.manifest.schema # "good" THEN "UnrecognizedSchema"
           ELSE IF \E k \in DOMAIN d : \E f \in Fields(k) : ~Reads(k, f, d[k][f]) THEN "Invalid"
           ELSE IF ValidateExtKeys(d) THEN "none" ELSE "InvalidExtKey"

Opens(d) == LoadError(d) = "none"

(***************************************************************************)
(* Writing.                                                                *)
(***************************************************************************)
\* A preference that is None is skipped, as other Options are.
CanonicalSkippingNulls(d) ==
    [k \in DOMAIN d |-> [f \in Fields(k) |->
        CASE d[k][f] = "null"   -> "absent"
          [] d[k][f] = "wide"   -> "rounded"
          [] d[k][f] = "listed" -> "good"
          [] OTHER              -> d[k][f]]]

\* to_canonical_json of what was read: an Option that is None is skipped, but
\* for the preference, a number has been a double, a struct becomes an object.
Canonical(d) ==
    [k \in DOMAIN d |-> [f \in Fields(k) |->
        CASE d[k][f] = "null" /\ f \in Optional[k] -> "absent"
          [] d[k][f] = "wide"                      -> "rounded"
          [] d[k][f] = "listed"                    -> "good"
          [] OTHER                                 -> d[k][f]]]

\* A new object of a kind, with some of its optional fields.
Object(k, given) ==
    [f \in Fields(k) |-> IF f \in Required[k] \cup RequiredNullable[k] \cup given
                         THEN "good" ELSE "absent"]

\* The objects, unless the document has one of the first's kind to follow.
Gains(d, k, objects) ==
    IF k \in DOMAIN d THEN d
    ELSE [j \in DOMAIN d \cup DOMAIN objects |->
             IF j \in DOMAIN d THEN d[j] ELSE objects[j]]

WithAsset(d) == Gains(d, "asset", [asset |-> Object("asset", {})])

\* The ids an entry may copy: slugs, or whatever an asset in the manifest has.
IdValues(d) == {"good"} \cup (IF "asset" \in DOMAIN d THEN {d.asset.id} ELSE {})

Answer(kind) == last' = kind /\ UNCHANGED <<doc, edits>>

\* write_atomic writes the document whole, or fails.
Save(new, kind) ==
    \/ doc' = Canonical(new) /\ last' = kind /\ UNCHANGED edits
    \/ Answer("Io")

(***************************************************************************)
(* The commands, for what they make of the document: Project has the rest. *)
(* A refusal for another reason, or a run with nothing to do, leaves it as *)
(* Show does.                                                              *)
(***************************************************************************)
InitProject ==
    IF doc = NoProject
    THEN Save([manifest |-> Object("manifest", {}), project |-> Object("project", {})], "Created")
    ELSE Answer("AlreadyExists")

Show == Answer(IF Opens(doc) THEN "Shown" ELSE LoadError(doc))

Add == Opens(doc) /\ Save(WithAsset(doc), "Added")

\* An import that forgets the derivation's reference to its job.
ImportJobUnlinked ==
    /\ Opens(doc)
    /\ Save(Gains(WithAsset(doc), "derivation",
                  [derivation |-> Object("derivation", {"tool_version", "params"}),
                   job |-> Object("job", {})]), "Imported")

\* A job record may list no stems: then there are no outputs.
ImportJob ==
    /\ Opens(doc)
    /\ \E in \in IdValues(doc), out \in IdValues(doc) \cup {"off"} :
          LET derivation == [Object("derivation", {"tool_version", "params", "job"})
                                EXCEPT !.inputs = in, !.outputs = out]
          IN  Save(Gains(WithAsset(doc), "derivation",
                         [derivation |-> derivation, job |-> Object("job", {})]), "Imported")

ImportRecord ==
    /\ Opens(doc) /\ "asset" \in DOMAIN doc
    /\ \E id \in IdValues(doc), preferred \in IdValues(doc) \cup {"null"},
          given \in SUBSET {"confidence"} :
          LET evaluation == [Object("evaluation", given)
                                EXCEPT !.candidates = id, !.preference = preferred]
          IN  Save(Gains(doc, "evaluation",
                         [evaluation |-> evaluation, record |-> Object("record", {})]),
                   "EvaluationImported")

\* A stamp on an asset built anew from what identifies it.
StampedAnew(asset) == Object("asset", {"last_verified"})

Stamped(asset) == [asset EXCEPT !.last_verified = "good"]

\* A hash that is not lower-case hexadecimal is never the file's.
Verify ==
    /\ Opens(doc) /\ "asset" \in DOMAIN doc /\ doc.asset.sha256 = "good"
    /\ Save([doc EXCEPT !.asset = Stamped(doc.asset)], "Verified")

(***************************************************************************)
(* Everybody else.                                                         *)
(***************************************************************************)
Held == {"good", "listed"}

IsArray(d, k) == k \in DOMAIN Holder /\ d[Holder[k][1]][Holder[k][2]] = "listed"

\* In an array, f comes before g; an element too many comes last.
Precedes(k, f, g) == f \in Known(k) /\ (g = "stray" \/ Place(k, f) < Place(k, g))

\* An array ends before its first field that is left out, and to have a later one
\* must have something for those before.
SetElement(k, object, f, v) ==
    [g \in Fields(k) |->
        IF g = f THEN v
        ELSE IF v = "absent" /\ Precedes(k, f, g) THEN "absent"
        ELSE IF v # "absent" /\ Precedes(k, g, f) /\ object[g] = "absent" THEN "null"
        ELSE object[g]]

AsArray(k, object) ==
    [g \in Fields(k) |-> IF g \in Known(k) /\ object[g] = "absent" THEN "null" ELSE object[g]]

SetField(d, k, f, v) ==
    [j \in DOMAIN d |->
        CASE j = k /\ IsArray(d, k) -> SetElement(k, d[k], f, v)
          [] j = k /\ ~IsArray(d, k) -> [d[k] EXCEPT ![f] = v]
          [] j # k /\ v = "listed" /\ j \in DOMAIN Holder /\ Holder[j] = <<k, f>>
                                    -> AsArray(j, d[j])
          [] OTHER                  -> d[j]]

\* The kinds whose object, or whose object's object, is still held.
Kept(d) ==
    {j \in DOMAIN d : j \in DOMAIN Holder =>
        /\ d[Holder[j][1]][Holder[j][2]] \in Held
        /\ LET outer == Holder[j][1]
           IN  outer \in DOMAIN Holder => d[Holder[outer][1]][Holder[outer][2]] \in Held}

Edited(d, k, f, v) ==
    LET new == SetField(d, k, f, v) IN [j \in Kept(new) |-> new[j]]

\* An object is written as an array when there is one to write.
HandEdit ==
    /\ edits < MaxEdits /\ doc \notin {NoProject, Sealed, Garbage}
    /\ \E k \in DOMAIN doc : \E f \in Fields(k) : \E v \in Values(k, f) \ {"rounded"} :
          /\ v = "good" => f \notin Containers
          /\ v = "listed" => \E j \in DOMAIN doc \cap DOMAIN Holder : Holder[j] = <<k, f>>
          /\ doc' = Edited(doc, k, f, v)
    /\ last' = "edited" /\ edits' = edits + 1

Spoil ==
    /\ edits < MaxEdits /\ doc # NoProject
    /\ doc' \in {Sealed, Garbage, NoProject}
    /\ last' = "edited" /\ edits' = edits + 1

(***************************************************************************)
(* What a behaviour finds: a document of this shape, or none.              *)
(***************************************************************************)
IsDocument(d) == d \notin {NoProject, Sealed, Garbage}

\* Objects of known kinds, with a value for each of their fields.
Typed(d) ==
    /\ DOMAIN d \subseteq Kinds /\ "manifest" \in DOMAIN d
    /\ \A k \in DOMAIN d :
          /\ DOMAIN d[k] = Fields(k)
          /\ \A f \in Fields(k) : d[k][f] \in Values(k, f)

\* An object is inside another one just where that one's field says so; one of
\* a list need not be the one that is followed, but the array that is is.
Nested(d) ==
    \A k \in DOMAIN Holder :
        LET outer == Holder[k][1]
            field == Holder[k][2]
        IN  /\ k \in DOMAIN d => outer \in DOMAIN d /\ d[outer][field] \in Held
            /\ outer \in DOMAIN d =>
                 /\ k \in {"project", "job", "record"} /\ d[outer][field] \in Held => k \in DOMAIN d
                 /\ d[outer][field] = "listed" => k \in DOMAIN d

\* An array leaves nothing out before what it has.
Positional(d) ==
    \A k \in DOMAIN d : IsArray(d, k) =>
        \A f, g \in Fields(k) :
            Precedes(k, f, g) /\ d[k][f] = "absent" => d[k][g] = "absent"

ASSUME StartsAssumption == \A d \in Starts : IsDocument(d) => Typed(d) /\ Nested(d) /\ Positional(d)

\* The three that are no document are none whatever its objects.
ASSUME MarksAssumption ==
    \A kinds \in SUBSET Kinds : \A mark \in {NoProject, Sealed, Garbage} :
        mark \notin [kinds -> UNION {[Fields(k) -> Classes] : k \in Kinds}]

\* A document with every object and every field there is.
Complete == [k \in Kinds |-> Object(k, Optional[k])]

FromComplete == {Complete}
FromNothing == {NoProject}

Init == /\ doc \in Starts
        /\ last = "none" /\ edits = 0

Command == InitProject \/ Show \/ Add \/ ImportJob \/ ImportRecord \/ Verify

Next == Command \/ HandEdit \/ Spoil

Spec == Init /\ [][Next]_vars

(***************************************************************************)
(* Properties.                                                             *)
(***************************************************************************)
Written == {"Created", "Added", "Imported", "EvaluationImported", "Verified"}

\* A document is made of objects of known kinds, an object inside another one
\* being there just when the field that holds it says so, and the arrays among
\* them end before the first field they leave out.
TypeOK ==
    /\ edits \in 0..MaxEdits
    /\ IsDocument(doc) => Typed(doc) /\ Nested(doc) /\ Positional(doc)

\* What a command wrote, the next command reads: whatever optional and null
\* values the document went in with, the tool does not lock itself out.
WrittenIsReadable == last \in Written => Opens(doc)

\* A document the published schema accepts is one the tool reads, so that a third
\* tool that follows the schema is not refused, but for two: JSON with a number,
\* a nesting or an escape that serde_json refuses to parse, and a size that is an
\* integer to the schema and not to Rust's u64 (1.0, or beyond 64 bits).
SchemaValidIsRead ==
    IsDocument(doc) /\ SchemaAccepts(doc) =>
        \/ Opens(doc)
        \/ LoadError(doc) = "Parse" /\ Unparsed(doc)
        \/ LoadError(doc) = "Invalid" /\ doc.asset.size = "wide"

\* What the tool reads, the schema accepts too, but for three liberties: null for
\* an optional field, strings and lists not held to their patterns, and an array
\* of its fields' values for an object inside the manifest.
Strictly(d) ==
    [k \in DOMAIN d |-> [f \in Fields(k) |->
        CASE d[k][f] = "null" /\ f \in Optional[k] -> "absent"
          [] d[k][f] = "off" /\ f # "ext"          -> "good"
          [] d[k][f] = "listed"                    -> "good"
          [] OTHER                                 -> d[k][f]]]
OffShapeRefused == Opens(doc) => SchemaAccepts(Strictly(doc))

\* A rewrite carries every object and every value it read, those the tool knows
\* nothing of included; a file the tool cannot read it leaves alone.
CarriesAll ==
    last' # "edited" /\ doc # NoProject =>
        IF ~Opens(doc) THEN doc' = doc
        ELSE \A k \in DOMAIN doc :
                /\ k \in DOMAIN doc'
                /\ \A f \in Fields(k) :
                      \/ doc[k][f] \in {"absent", "null"}
                      \/ doc'[k][f] = doc[k][f]
                      \/ doc[k][f] = "wide" /\ doc'[k][f] = "rounded"
                      \/ doc[k][f] = "listed" /\ doc'[k][f] = "good"
NothingIsDropped == [][CarriesAll]_vars

(***************************************************************************)
(* What the documents say and the code does not do (the runs that end in a *)
(* violation).                                                             *)
(***************************************************************************)
\* The tool never writes a manifest the published schema rejects.
EmitsSchemaValid == last \in Written => SchemaAccepts(doc)

\* The values under ext are carried through a rewrite verbatim.
ExtIsVerbatim == [][
    last' # "edited" /\ IsDocument(doc) =>
        \A k \in DOMAIN doc : doc[k].ext = "wide" => doc'[k].ext = "wide"]_vars
=============================================================================
