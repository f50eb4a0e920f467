-------------------------- MODULE StrictReadProofs --------------------------
(***************************************************************************)
(* StrictRead for any number of edits by hand, in any order with the       *)
(* commands.  The tables of the schema and of the structs are compared     *)
(* kind by kind first; from there on a document is read, rewritten and     *)
(* judged field by field.                                                  *)
(***************************************************************************)
EXTENDS StrictRead, TLAPS

(***************************************************************************)
(* The tables.                                                             *)
(***************************************************************************)
LEMMA KindsAre ==
  Kinds = {"manifest", "project", "asset", "derivation", "job", "evaluation", "record"}
BY DEF Kinds, Required

\* No field is both left out when it is null and asked for.
LEMMA Options ==
  ASSUME NEW k \in Kinds
  PROVE  /\ "ext" \in Optional[k] /\ "stray" \notin Known(k)
         /\ Optional[k] \cap (Required[k] \cup RequiredNullable[k]) = {}
BY KindsAre DEF Optional, Required, RequiredNullable, Known

\* What the schema asks for is what the structs ask for.
LEMMA TablesAgree ==
  /\ DOMAIN SchemaRequired = Kinds
  /\ \A k \in Kinds : /\ SchemaRequired[k] = Required[k] \cup RequiredNullable[k]
                      /\ SchemaProperties[k] = Known(k)
<1>1. DOMAIN SchemaRequired = Kinds
  BY DEF SchemaRequired, Kinds, Required
<1>2. \A k \in Kinds : SchemaRequired[k] = Required[k] \cup RequiredNullable[k]
  BY KindsAre DEF Required, SchemaRequired, RequiredNullable
<1>3. \A k \in Kinds : SchemaProperties[k] = Known(k)
  BY KindsAre DEF Required, SchemaRequired, RequiredNullable, Optional, Known, SchemaProperties
<1> QED BY <1>1, <1>2, <1>3

LEMMA SizeIsAsset == \A k \in Kinds : "size" \in Fields(k) => k = "asset"
BY KindsAre DEF Optional, Required, RequiredNullable, Known, Fields

LEMMA SchemaIsManifests ==
  "schema" \in Fields("manifest") /\ "schema" \in Required["manifest"] /\ "manifest" \in Kinds
BY KindsAre DEF Required, Known, Fields

\* Every field has its place among its struct's.
LEMMA PlaceIsInt == ASSUME NEW k \in Kinds, NEW f \in Known(k) PROVE Place(k, f) \in Int
<1>1. \E i \in DOMAIN Order[k] : Order[k][i] = f
  <2>1. CASE k \in {"manifest", "project", "job", "record"}
    <3>1. Order[k][1] = Order[k][1] /\ {1, 2, 3} \subseteq DOMAIN Order[k]
      BY <2>1 DEF Order
    <3> QED BY <2>1, <3>1 DEF Order, Known, Required, Optional, RequiredNullable
  <2>2. CASE k = "asset"
    BY <2>2 DEF Order, Known, Required, Optional, RequiredNullable
  <2>3. CASE k = "derivation"
    BY <2>3 DEF Order, Known, Required, Optional, RequiredNullable
  <2>4. CASE k = "evaluation"
    BY <2>4 DEF Order, Known, Required, Optional, RequiredNullable
  <2> QED BY <2>1, <2>2, <2>3, <2>4, KindsAre
<1>2. DOMAIN Order[k] \subseteq Int
  BY KindsAre DEF Order
<1> QED BY <1>1, <1>2 DEF Place

LEMMA PrecedesChains ==
  ASSUME NEW k \in Kinds, NEW f \in Fields(k), NEW g \in Fields(k), NEW h \in Fields(k),
         Precedes(k, f, g), Precedes(k, g, h)
  PROVE  Precedes(k, f, h)
<1>1. f \in Known(k) /\ g \in Known(k) /\ g # "stray"
  BY Options DEF Precedes
<1>2. CASE h = "stray"
  BY <1>1, <1>2 DEF Precedes
<1>3. CASE h # "stray"
  <2>1. h \in Known(k)
    BY <1>3 DEF Fields
  <2>2. Place(k, f) < Place(k, g) /\ Place(k, g) < Place(k, h)
    BY <1>1, <1>3 DEF Precedes
  <2> QED BY <1>1, <2>1, <2>2, PlaceIsInt DEF Precedes
<1> QED BY <1>2, <1>3

LEMMA HolderKinds ==
  ASSUME NEW k \in DOMAIN Holder
  PROVE  /\ k \in Kinds /\ Holder[k][1] \in Kinds /\ Holder[k][2] \in Fields(Holder[k][1])
         /\ Holder[k][2] \in Containers
         /\ Holder[k][2] \notin Unchecked \cup {"stray"}
BY KindsAre DEF Holder, Required, Optional, RequiredNullable, Known, Fields, Containers,
               Opaque, Unchecked

\* What holds an object has no pattern, and no name of something else.
LEMMA ContainersPlain ==
  ASSUME NEW k \in Kinds, NEW f \in Containers
  PROVE  ~HasPattern(k, f) /\ f \notin Unchecked \cup {"stray", "last_verified"}
BY DEF Containers, Holder, HasPattern, Patterned, Unchecked, Opaque

(***************************************************************************)
(* Reading.                                                                *)
(***************************************************************************)
AllReads(d) == \A k \in DOMAIN d : \A f \in Fields(k) : Reads(k, f, d[k][f])

Readable(d) ==
    /\ Typed(d) /\ Nested(d) /\ d.manifest.schema = "good"
    /\ AllReads(d) /\ ValidateExtKeys(d)

LEMMA OpensReads ==
  ASSUME NEW d, Opens(d)
  PROVE  IsDocument(d) /\ d.manifest.schema = "good" /\ AllReads(d) /\ ValidateExtKeys(d)
<1>1. LoadError(d) = "none"
  BY DEF Opens
<1> QED BY <1>1 DEF LoadError, IsDocument, AllReads

LEMMA ReadsOpens ==
  ASSUME NEW d, IsDocument(d), d.manifest.schema = "good", AllReads(d), ValidateExtKeys(d)
  PROVE  Opens(d)
<1>1. ~Unparsed(d)
  BY DEF Unparsed, AllReads, Reads
<1> QED BY <1>1 DEF Opens, LoadError, IsDocument, AllReads

\* Of what is read, only opaque values can hold a wide number, and a field that
\* is asked for is there.
LEMMA ValuesRead ==
  ASSUME NEW k \in Kinds, NEW f \in Fields(k), NEW v \in Values(k, f), Reads(k, f, v)
  PROVE  /\ f \in Known(k) \/ v = "absent"
         /\ v = "wide" => f \in Opaque
         /\ v \in {"absent", "null", "good", "off", "wide", "rounded", "listed"}
         /\ v = "listed" => f \in Containers
         /\ v = "null" => f \in Optional[k] \cup RequiredNullable[k]
         /\ v = "absent" => f \notin Required[k] \cup RequiredNullable[k]
         /\ v = "off" => HasPattern(k, f)
<1>1. f \in Known(k) \/ f = "stray"
  BY DEF Fields
<1>2. f = "stray" => v \in {"absent", "good"} /\ f \notin Known(k)
  BY Options DEF Values
<1>3. v \in Classes
  BY DEF Values, Classes
<1>4. (v = "off" => HasPattern(k, f)) /\ (v = "listed" => f \in Containers)
  BY DEF Values
<1>5. "stray" \notin Opaque
  BY DEF Opaque
<1> QED BY <1>1, <1>2, <1>3, <1>4, <1>5 DEF Reads, Classes

\* A list or an object that is read is there, or its field may be left out.
LEMMA ReadIsHeld ==
  ASSUME NEW d, Readable(d), NEW k \in DOMAIN Holder, Holder[k][1] \in DOMAIN d,
         Holder[k][1] = "manifest" \/ k = "record"
  PROVE  d[Holder[k][1]][Holder[k][2]] \in Held
<1> DEFINE o == Holder[k][1]
           g == Holder[k][2]
<1>1. o \in Kinds /\ g \in Fields(o) /\ d[o][g] \in Values(o, g) /\ Reads(o, g, d[o][g])
  BY HolderKinds DEF Readable, Typed, AllReads
<1>2. g \in Required[o] /\ ~HasPattern(o, g)
  BY DEF Holder, Required, HasPattern, Patterned
<1>3. d[o][g] \notin {"wide", "rounded", "off"}
  BY <1>1, <1>2, HolderKinds DEF Values, Unchecked
<1>4. o \in Kinds /\ g \notin Optional[o] \cup RequiredNullable[o]
  BY <1>1, <1>2, KindsAre DEF Holder, Optional, RequiredNullable, Kinds, Required
<1> QED BY <1>1, <1>2, <1>3, <1>4, ValuesRead DEF Held

(***************************************************************************)
(* Writing.                                                                *)
(***************************************************************************)
Rewritten(k, f, v) ==
    CASE v = "null" /\ f \in Optional[k] -> "absent"
      [] v = "wide"                      -> "rounded"
      [] v = "listed"                    -> "good"
      [] OTHER                           -> v

LEMMA CanonicalFields ==
  ASSUME NEW d, Typed(d)
  PROVE  /\ DOMAIN Canonical(d) = DOMAIN d /\ DOMAIN d \subseteq Kinds
         /\ \A k \in DOMAIN d :
               /\ DOMAIN Canonical(d)[k] = Fields(k)
               /\ \A f \in Fields(k) : Canonical(d)[k][f] = Rewritten(k, f, d[k][f])
BY DEF Canonical, Rewritten, Typed

\* What was read is written as something that is read again, and a field holds
\* an object just if it did.
LEMMA RewrittenReads ==
  ASSUME NEW k \in Kinds, NEW f \in Fields(k), NEW v \in Values(k, f), Reads(k, f, v)
  PROVE  /\ Rewritten(k, f, v) \in Values(k, f) \ {"wide", "listed"}
         /\ Reads(k, f, Rewritten(k, f, v))
         /\ Rewritten(k, f, v) \in Held <=> v \in Held
         /\ v = "good" => Rewritten(k, f, v) = "good"
         /\ Rewritten(k, f, v) = "off" <=> v = "off"
<1>1. /\ f \in Known(k) \/ v = "absent"
      /\ v = "wide" => f \in Opaque
      /\ v = "listed" => f \in Containers
  BY ValuesRead
<1> USE DEF Held
<1>2. CASE v = "null" /\ f \in Optional[k]
  <2>1. "absent" \in Values(k, f)
    BY DEF Values
  <2>2. f \notin Required[k] \cup RequiredNullable[k]
    BY <1>2, Options
  <2> QED BY <1>2, <2>1, <2>2 DEF Rewritten, Reads
<1>3. CASE v = "wide"
  <2>1. f \in Opaque /\ f # "stray"
    BY <1>1, <1>3 DEF Opaque
  <2>2. "rounded" \in Values(k, f)
    BY <2>1 DEF Values
  <2> QED BY <1>1, <1>3, <2>2 DEF Rewritten, Reads
<1>4. CASE v = "listed"
  <2>1. "good" \in Values(k, f)
    BY DEF Values
  <2> QED BY <1>1, <1>4, <2>1 DEF Rewritten, Reads
<1>5. CASE v \notin {"wide", "listed"} /\ ~(v = "null" /\ f \in Optional[k])
  BY <1>5 DEF Rewritten
<1> QED BY <1>2, <1>3, <1>4, <1>5

LEMMA CanonicalIsDocument ==
  ASSUME NEW d, Typed(d), AllReads(d) PROVE IsDocument(Canonical(d))
<1> DEFINE Objects == UNION {[Fields(k) -> Classes] : k \in Kinds}
           new == Canonical(d)
<1>1. ASSUME NEW k \in DOMAIN d PROVE new[k] \in [Fields(k) -> Classes]
  <2>1. \A f \in Fields(k) : new[k][f] \in Values(k, f)
    BY CanonicalFields, RewrittenReads DEF Typed, AllReads
  <2>2. \A f \in Fields(k) : Values(k, f) \subseteq Classes
    BY DEF Values, Classes
  <2>3. new[k] = [f \in Fields(k) |-> new[k][f]]
    BY DEF Canonical
  <2> QED BY <2>1, <2>2, <2>3
<1>2. new = [k \in DOMAIN d |-> new[k]]
  BY DEF Canonical
<1>3. DOMAIN d \subseteq Kinds
  BY DEF Typed
<1>4. \A k \in DOMAIN d : new[k] \in Objects
  BY <1>1, <1>3
<1>5. new \in [DOMAIN d -> Objects]
  <2> HIDE DEF new, Objects
  <2> QED BY <1>2, <1>4
<1> QED BY <1>3, <1>5, MarksAssumption DEF IsDocument

\* What a rewrite leaves is what it took, as readable.
LEMMA CanonicalReadable ==
  ASSUME NEW d, Readable(d)
  PROVE  Readable(Canonical(d)) /\ Opens(Canonical(d)) /\ Positional(Canonical(d))
<1> DEFINE new == Canonical(d)
<1>1. /\ Typed(d) /\ Nested(d) /\ AllReads(d) /\ ValidateExtKeys(d)
      /\ d.manifest.schema = "good"
  BY DEF Readable
<1>2. /\ DOMAIN new = DOMAIN d /\ DOMAIN d \subseteq Kinds /\ "manifest" \in DOMAIN d
      /\ \A k \in DOMAIN d :
            /\ DOMAIN new[k] = Fields(k)
            /\ \A f \in Fields(k) :
                  /\ new[k][f] \in Values(k, f) \ {"listed"} /\ Reads(k, f, new[k][f])
                  /\ new[k][f] \in Held <=> d[k][f] \in Held
                  /\ d[k][f] = "good" => new[k][f] = "good"
                  /\ new[k][f] = "off" <=> d[k][f] = "off"
  BY <1>1, CanonicalFields, RewrittenReads DEF Typed, AllReads
<1> HIDE DEF new
<1>3. Typed(new) /\ AllReads(new)
  BY <1>2 DEF Typed, AllReads
<1>4. Nested(new)
  BY <1>1, <1>2, HolderKinds DEF Nested
<1>5. ValidateExtKeys(new)
  <2>1. \A k \in DOMAIN d : "ext" \in Fields(k)
    BY <1>2, Options DEF Fields, Known
  <2> QED BY <1>1, <1>2, <2>1 DEF ValidateExtKeys
<1>6. new.manifest.schema = "good"
  BY <1>1, <1>2, SchemaIsManifests
<1>7. Readable(new)
  BY <1>3, <1>4, <1>5, <1>6 DEF Readable
<1>8. IsDocument(new)
  BY <1>1, CanonicalIsDocument DEF new
<1>9. Positional(new)
  BY <1>2, <1>4, HolderKinds DEF Positional, IsArray, Nested
<1> QED BY <1>3, <1>5, <1>6, <1>7, <1>8, <1>9, ReadsOpens DEF new

(***************************************************************************)
(* The objects commands add.                                               *)
(***************************************************************************)
Fits(k, object) ==
    /\ DOMAIN object = Fields(k)
    /\ \A f \in Fields(k) : object[f] \in Values(k, f) /\ Reads(k, f, object[f])
    /\ object.ext # "off"

LEMMA ObjectFits ==
  ASSUME NEW k \in Kinds, NEW given \in SUBSET Optional[k]
  PROVE  /\ Fits(k, Object(k, given))
         /\ \A f \in Fields(k) : f \in Required[k] \cup RequiredNullable[k] \cup given
               => Object(k, given)[f] = "good"
<1> DEFINE o == Object(k, given)
           there == Required[k] \cup RequiredNullable[k] \cup given
<1>1. /\ DOMAIN o = Fields(k)
      /\ \A f \in Fields(k) : o[f] = IF f \in there THEN "good" ELSE "absent"
  BY DEF Object
<1>2. there \subseteq Known(k)
  BY DEF Known
<1>3. \A f \in Fields(k) : "good" \in Values(k, f) /\ "absent" \in Values(k, f)
  BY DEF Values
<1>4. \A f \in there : Reads(k, f, "good")
  BY <1>2 DEF Reads
<1>5. \A f \in Fields(k) : f \notin there => Reads(k, f, "absent")
  BY DEF Reads
<1>6. "ext" \in Fields(k)
  BY Options DEF Fields, Known
<1> HIDE DEF o, there
<1>7. Fits(k, o)
  BY <1>1, <1>3, <1>4, <1>5, <1>6 DEF Fits
<1> QED BY <1>1, <1>7 DEF o, there

LEMMA ObjectNotListed ==
  ASSUME NEW k, NEW given, NEW f \in Fields(k) PROVE Object(k, given)[f] # "listed"
BY DEF Object

LEMMA SetFits ==
  ASSUME NEW k \in Kinds, NEW object, Fits(k, object),
         NEW f \in Fields(k) \ {"ext"}, NEW v \in Values(k, f), Reads(k, f, v)
  PROVE  Fits(k, [object EXCEPT ![f] = v])
<1>1. "ext" \in Fields(k)
  BY Options DEF Fields, Known
<1> QED BY <1>1 DEF Fits

\* The ids to copy are ids that were read.
LEMMA IdsRead == ASSUME NEW d, Readable(d) PROVE IdValues(d) \subseteq {"good", "off"}
<1>1. CASE "asset" \in DOMAIN d
  <2>1. /\ "asset" \in Kinds /\ "id" \in Fields("asset") /\ "id" \notin Opaque \cup Containers
        /\ "id" \notin Optional["asset"] \cup RequiredNullable["asset"]
        /\ "id" \in Required["asset"]
    BY KindsAre DEF Required, Known, Fields, Opaque, Optional, RequiredNullable, Containers, Holder
  <2>2. d.asset.id \in Values("asset", "id") /\ Reads("asset", "id", d.asset.id)
    BY <1>1, <2>1 DEF Readable, Typed, AllReads
  <2>3. d.asset.id \notin {"wide", "rounded"}
    BY <2>1, <2>2 DEF Values
  <2> QED BY <2>1, <2>2, <2>3, ValuesRead DEF IdValues
<1>2. CASE "asset" \notin DOMAIN d
  BY <1>2 DEF IdValues
<1> QED BY <1>1, <1>2

LEMMA GainsReadable ==
  ASSUME NEW d, Readable(d), NEW k, NEW objects, DOMAIN objects \subseteq Kinds,
         \A j \in DOMAIN objects : Fits(j, objects[j]), Nested(Gains(d, k, objects))
  PROVE  Readable(Gains(d, k, objects))
<1> DEFINE new == Gains(d, k, objects)
<1>1. CASE k \in DOMAIN d
  BY <1>1 DEF Gains
<1>2. CASE k \notin DOMAIN d
  <2>1. /\ DOMAIN new = DOMAIN d \cup DOMAIN objects
        /\ \A j \in DOMAIN d : new[j] = d[j]
        /\ \A j \in DOMAIN objects \ DOMAIN d : new[j] = objects[j]
    BY <1>2 DEF Gains
  <2>2. Nested(new)
    OBVIOUS
  <2> HIDE DEF new
  <2>3. Typed(new) /\ AllReads(new) /\ ValidateExtKeys(new) /\ new.manifest.schema = "good"
    BY <2>1 DEF Readable, Typed, AllReads, ValidateExtKeys, Fits
  <2> QED BY <2>2, <2>3 DEF Readable, new
<1> QED BY <1>1, <1>2

(***************************************************************************)
(* The documents commands write.                                           *)
(***************************************************************************)
LEMMA WithAssetReadable ==
  ASSUME NEW d, Readable(d) PROVE Readable(WithAsset(d)) /\ "asset" \in DOMAIN WithAsset(d)
<1> DEFINE objects == [asset |-> Object("asset", {})]
           new == Gains(d, "asset", objects)
<1>1. CASE "asset" \in DOMAIN d
  BY <1>1 DEF WithAsset, Gains
<1>2. CASE "asset" \notin DOMAIN d
  <2>1. DOMAIN objects = {"asset"} /\ "asset" \in Kinds /\ Fits("asset", objects.asset)
    BY ObjectFits, KindsAre
  <2>2. /\ DOMAIN new = DOMAIN d \cup {"asset"}
        /\ \A j \in DOMAIN d : new[j] = d[j]
    BY <1>2 DEF Gains
  <2>3. /\ Nested(d) /\ "manifest" \in DOMAIN d
        /\ \A k \in DOMAIN Holder : Holder[k][1] = "manifest" => d["manifest"][Holder[k][2]] \in Held
    BY ReadIsHeld DEF Readable, Typed
  <2> HIDE DEF new
  <2>4. \A k \in DOMAIN Holder : /\ Holder[k][1] # "asset"
                                 /\ k = "asset" => Holder[k][1] = "manifest"
    BY DEF Holder
  <2>5. Nested(new)
    BY <2>2, <2>3, <2>4 DEF Nested
  <2> QED BY <2>1, <2>2, <2>5, GainsReadable DEF new, WithAsset
<1> QED BY <1>1, <1>2

\* An entry comes with the object inside it.
LEMMA EntryReadable ==
  ASSUME NEW d, Readable(d), NEW entry, NEW part, NEW objects,
         <<entry, part>> \in {<<"derivation", "job">>, <<"evaluation", "record">>},
         DOMAIN objects = {entry, part}, Fits(entry, objects[entry]), Fits(part, objects[part]),
         objects[entry][part] = "good"
  PROVE  Readable(Gains(d, entry, objects))
<1> DEFINE new == Gains(d, entry, objects)
<1>1. CASE entry \in DOMAIN d
  BY <1>1 DEF Gains
<1>2. CASE entry \notin DOMAIN d
  <2>1. /\ entry \in DOMAIN Holder /\ Holder[entry][1] = "manifest"
        /\ part \in DOMAIN Holder /\ Holder[part] = <<entry, part>>
        /\ \A k \in DOMAIN Holder : Holder[k][1] = entry => k = part
        /\ \A k \in DOMAIN Holder : Holder[k][1] # part
        /\ entry # part /\ entry \notin {"project", "job", "record"}
    BY DEF Holder
  <2>2. DOMAIN objects \subseteq Kinds /\ \A j \in DOMAIN objects : Fits(j, objects[j])
    BY KindsAre
  <2>3. Nested(d) /\ "manifest" \in DOMAIN d /\ d["manifest"][Holder[entry][2]] \in Held
    BY <2>1, ReadIsHeld DEF Readable, Typed
  <2>4. part \notin DOMAIN d
    BY <1>2, <2>1, <2>3 DEF Nested
  <2>5. /\ DOMAIN new = DOMAIN d \cup {entry, part}
        /\ \A j \in DOMAIN d : new[j] = d[j]
        /\ new[entry] = objects[entry]
    BY <1>2 DEF Gains
  <2> HIDE DEF new
  <2>6. Nested(new)
    <3> SUFFICES ASSUME NEW k \in DOMAIN Holder
                 PROVE  LET outer == Holder[k][1]
                            field == Holder[k][2]
                        IN  /\ k \in DOMAIN new => outer \in DOMAIN new /\ new[outer][field] \in Held
                            /\ outer \in DOMAIN new =>
                                 /\ k \in {"project", "job", "record"} /\ new[outer][field] \in Held
                                      => k \in DOMAIN new
                                 /\ new[outer][field] = "listed" => k \in DOMAIN new
      BY DEF Nested
    <3>1. CASE k = part
      BY <2>1, <2>5, <3>1 DEF Held
    <3>2. CASE k = entry
      BY <2>1, <2>3, <2>5, <3>2
    <3>3. CASE k \notin {entry, part}
      BY <2>1, <2>3, <2>4, <2>5, <3>3 DEF Nested
    <3> QED BY <3>1, <3>2, <3>3
  <2> QED BY <2>2, <2>6, GainsReadable DEF new
<1> QED BY <1>1, <1>2

\* What import of a job record adds, whatever asset's id its lists name.
LEMMA DerivationFits ==
  ASSUME NEW in \in {"good", "off"}, NEW out \in {"good", "off"}
  PROVE  LET o == [Object("derivation", {"tool_version", "params", "job"})
                      EXCEPT !.inputs = in, !.outputs = out]
         IN  Fits("derivation", o) /\ o["job"] = "good"
<1> DEFINE bare == Object("derivation", {"tool_version", "params", "job"})
           half == [bare EXCEPT !["inputs"] = in]
           full == [half EXCEPT !["outputs"] = out]
<1>1. /\ "derivation" \in Kinds
      /\ {"tool_version", "params", "job"} \in SUBSET Optional["derivation"]
      /\ {"inputs", "outputs", "job"} \subseteq Known("derivation")
      /\ {"inputs", "outputs", "job"} \subseteq Fields("derivation")
  BY KindsAre DEF Optional, Required, Known, Fields
<1>2. Fits("derivation", bare) /\ bare["job"] = "good"
  BY <1>1, ObjectFits
<1>3. ASSUME NEW f \in {"inputs", "outputs"}, NEW v \in {"good", "off"}
      PROVE  /\ f \in Fields("derivation") \ {"ext"} /\ v \in Values("derivation", f)
             /\ Reads("derivation", f, v)
  BY <1>1 DEF Values, HasPattern, Patterned, Reads
<1> HIDE DEF bare
<1>4. Fits("derivation", half)
  BY <1>1, <1>2, <1>3, SetFits
<1>5. half["job"] = "good"
  BY <1>1, <1>2 DEF Fits
<1> HIDE DEF half
<1>6. Fits("derivation", full)
  BY <1>1, <1>4, <1>3, SetFits
<1>7. full["job"] = "good"
  BY <1>1, <1>4, <1>5 DEF Fits
<1> QED BY <1>6, <1>7 DEF full, half, bare

\* What import of a comparison record adds.
LEMMA EvaluationFits ==
  ASSUME NEW given \in SUBSET {"confidence"},
         NEW id \in {"good", "off"}, NEW preferred \in {"good", "off", "null"}
  PROVE  LET o == [Object("evaluation", given) EXCEPT !.candidates = id, !.preference = preferred]
         IN  Fits("evaluation", o) /\ o["record"] = "good"
<1> DEFINE bare == Object("evaluation", given)
           half == [bare EXCEPT !["candidates"] = id]
           full == [half EXCEPT !["preference"] = preferred]
<1>1. /\ "evaluation" \in Kinds /\ given \in SUBSET Optional["evaluation"]
      /\ {"candidates", "preference", "record"} \subseteq Known("evaluation")
      /\ {"candidates", "preference", "record"} \subseteq Fields("evaluation")
      /\ "record" \in Required["evaluation"] /\ "preference" \in RequiredNullable["evaluation"]
  BY KindsAre DEF Optional, Required, RequiredNullable, Known, Fields
<1>2. Fits("evaluation", bare) /\ bare["record"] = "good"
  BY <1>1, ObjectFits
<1>3. /\ id \in Values("evaluation", "candidates") /\ Reads("evaluation", "candidates", id)
      /\ preferred \in Values("evaluation", "preference")
      /\ Reads("evaluation", "preference", preferred)
  BY <1>1 DEF Values, HasPattern, Patterned, Reads
<1> HIDE DEF bare
<1>4. Fits("evaluation", half)
  BY <1>1, <1>2, <1>3, SetFits
<1>5. half["record"] = "good"
  BY <1>1, <1>2 DEF Fits
<1> HIDE DEF half
<1>6. Fits("evaluation", full)
  BY <1>1, <1>4, <1>3, SetFits
<1>7. full["record"] = "good"
  BY <1>1, <1>4, <1>5 DEF Fits
<1> QED BY <1>6, <1>7 DEF full, half, bare

LEMMA EmptyReadable ==
  Readable([manifest |-> Object("manifest", {}), project |-> Object("project", {})])
<1> DEFINE d == [manifest |-> Object("manifest", {}), project |-> Object("project", {})]
<1>1. /\ {"manifest", "project"} \subseteq Kinds
      /\ {} \in SUBSET Optional["manifest"] /\ {} \in SUBSET Optional["project"]
      /\ {"schema", "project"} \subseteq Required["manifest"] \cap Fields("manifest")
  BY KindsAre DEF Required, Known, Fields
<1>2. /\ DOMAIN d = {"manifest", "project"}
      /\ Fits("manifest", d["manifest"]) /\ Fits("project", d["project"])
      /\ d["manifest"]["schema"] = "good" /\ d["manifest"]["project"] = "good"
  BY <1>1, ObjectFits
<1> HIDE DEF d
<1>3. Typed(d) /\ AllReads(d) /\ ValidateExtKeys(d) /\ d.manifest.schema = "good"
  BY <1>1, <1>2 DEF Typed, AllReads, ValidateExtKeys, Fits
<1>4. Nested(d)
  <2>1. /\ Holder["project"] = <<"manifest", "project">>
        /\ \A k \in DOMAIN Holder : k \in DOMAIN d => k = "project"
        /\ \A k \in {"job", "record"} : Holder[k][1] \notin DOMAIN d
    BY <1>2 DEF Holder
  <2>2. ASSUME NEW k \in DOMAIN Holder, Holder[k][1] = "manifest"
        PROVE  d["manifest"][Holder[k][2]] # "listed"
    <3>1. Holder[k][2] \in Fields("manifest")
      BY <2>2, HolderKinds
    <3>2. d["manifest"] = Object("manifest", {})
      BY DEF d
    <3> QED BY <3>1, <3>2, ObjectNotListed
  <2>3. \A k \in DOMAIN Holder : Holder[k][1] \in DOMAIN d =>
            Holder[k][1] = "manifest" /\ (k \in {"project", "job", "record"} => k = "project")
    BY <1>2 DEF Holder
  <2>4. \A k \in DOMAIN Holder : k \in DOMAIN d => Holder[k] = <<"manifest", "project">>
    BY <1>2, <2>1
  <2> QED BY <1>2, <2>1, <2>2, <2>3, <2>4 DEF Nested, Held
<1> QED BY <1>3, <1>4 DEF Readable, d

LEMMA StampedReadable ==
  ASSUME NEW d, Readable(d), "asset" \in DOMAIN d
  PROVE  Readable([d EXCEPT !.asset = Stamped(d.asset)])
<1> DEFINE asset == [d["asset"] EXCEPT !["last_verified"] = "good"]
           new == [d EXCEPT !["asset"] = asset]
<1>1. /\ "asset" \in Kinds /\ "last_verified" \in Fields("asset") \ {"ext"}
      /\ "last_verified" \in Known("asset")
  BY KindsAre DEF Optional, Known, Fields
<1>2. "good" \in Values("asset", "last_verified") /\ Reads("asset", "last_verified", "good")
  BY <1>1 DEF Values, Reads
<1>3. Fits("asset", d["asset"])
  BY DEF Readable, Typed, AllReads, ValidateExtKeys, Fits
<1>4. Fits("asset", asset)
  BY <1>1, <1>2, <1>3, SetFits
<1> HIDE DEF asset
<1>5. /\ DOMAIN new = DOMAIN d /\ new["asset"] = asset
      /\ \A j \in DOMAIN d \ {"asset"} : new[j] = d[j]
  OBVIOUS
<1> HIDE DEF new
<1>6. Typed(new) /\ AllReads(new) /\ ValidateExtKeys(new) /\ new.manifest.schema = "good"
  BY <1>4, <1>5 DEF Readable, Typed, AllReads, ValidateExtKeys, Fits
<1>7. \A k \in DOMAIN Holder : Holder[k][1] # "asset"
  BY DEF Holder
<1>8. Nested(new)
  BY <1>5, <1>7 DEF Readable, Nested
<1> QED BY <1>6, <1>8 DEF Readable, Stamped, asset, new

(***************************************************************************)
(* The steps.                                                              *)
(***************************************************************************)
LEMMA DocReadable == ASSUME TypeOK, Opens(doc) PROVE IsDocument(doc) /\ Readable(doc)
BY OpensReads DEF TypeOK, Readable

\* A command answers, or writes what it made of a document that was readable.
Answers == doc' = doc /\ edits' = edits /\ last' \notin Written \cup {"edited"}

Writes(d) ==
    /\ Readable(d) /\ doc' = Canonical(d)
    /\ edits' = edits /\ last' \in Written

LEMMA SaveWrites ==
  ASSUME NEW d, Readable(d), NEW kind \in Written, Save(d, kind) PROVE Answers \/ Writes(d)
<1>1. Written \cap {"Io", "edited"} = {}
  BY DEF Written
<1> QED BY <1>1 DEF Save, Answer, Answers, Writes

\* What was there is there, or is set where there was nothing.
Carries(old, new) ==
    /\ DOMAIN old \subseteq DOMAIN new
    /\ \A k \in DOMAIN old : \A f \in Fields(k) :
          new[k][f] = old[k][f] \/ old[k][f] \in {"absent", "null"}

LEMMA GainsCarries == ASSUME NEW d, NEW k, NEW objects PROVE Carries(d, Gains(d, k, objects))
BY DEF Carries, Gains

LEMMA CommandWrites ==
  ASSUME TypeOK, Command
  PROVE  \/ Answers
         \/ doc = NoProject /\ \E d : Writes(d)
         \/ Opens(doc) /\ \E d : Writes(d) /\ Carries(doc, d)
<1>1. CASE InitProject
  <2>1. "AlreadyExists" \notin Written \cup {"edited"} /\ "Created" \in Written
    BY DEF Written
  <2> QED BY <1>1, <2>1, EmptyReadable, SaveWrites DEF InitProject, Answer, Answers
<1>2. CASE Show
  <2>1. LoadError(doc) \in {"NotAProject", "Unreadable", "Parse", "UnrecognizedSchema",
                           "Invalid", "InvalidExtKey", "none"}
    BY DEF LoadError
  <2>2. last' \notin Written \cup {"edited"}
    BY <1>2, <2>1 DEF Show, Answer, Written
  <2> QED BY <1>2, <2>2 DEF Show, Answer, Answers
<1>3. CASE Add
  <2>1. Opens(doc) /\ Readable(doc) /\ Save(WithAsset(doc), "Added") /\ "Added" \in Written
    BY <1>3, DocReadable DEF Add, Written
  <2>2. Answers \/ Writes(WithAsset(doc))
    BY <2>1, WithAssetReadable, SaveWrites
  <2>3. Carries(doc, WithAsset(doc))
    BY GainsCarries DEF WithAsset
  <2> QED BY <2>1, <2>2, <2>3
<1>4. CASE ImportJob
  <2>1. Opens(doc) /\ Readable(doc) /\ "Imported" \in Written
    BY <1>4, DocReadable DEF ImportJob, Written
  <2>2. PICK in \in IdValues(doc), out \in IdValues(doc) \cup {"off"} :
           LET derivation == [Object("derivation", {"tool_version", "params", "job"})
                                 EXCEPT !.inputs = in, !.outputs = out]
           IN  Save(Gains(WithAsset(doc), "derivation",
                          [derivation |-> derivation, job |-> Object("job", {})]), "Imported")
    BY <1>4 DEF ImportJob
  <2> DEFINE derivation == [Object("derivation", {"tool_version", "params", "job"})
                               EXCEPT !.inputs = in, !.outputs = out]
             objects == [derivation |-> derivation, job |-> Object("job", {})]
             new == Gains(WithAsset(doc), "derivation", objects)
  <2>3. in \in {"good", "off"} /\ out \in {"good", "off"}
    BY <2>1, IdsRead
  <2>4. Fits("derivation", derivation) /\ derivation["job"] = "good"
    BY <2>3, DerivationFits
  <2>5. Fits("job", Object("job", {}))
    BY ObjectFits, KindsAre
  <2>6. Readable(WithAsset(doc))
    BY <2>1, WithAssetReadable
  <2>7. Save(new, "Imported")
    BY <2>2
  <2> HIDE DEF derivation
  <2>8. /\ DOMAIN objects = {"derivation", "job"}
        /\ objects["derivation"] = derivation /\ objects["job"] = Object("job", {})
    OBVIOUS
  <2>9. Readable(new)
    <3> HIDE DEF objects
    <3> QED BY <2>4, <2>5, <2>6, <2>8, EntryReadable
  <2>10. Carries(doc, WithAsset(doc)) /\ Carries(WithAsset(doc), new)
    BY GainsCarries DEF WithAsset
  <2>11. Carries(doc, new)
    <3> HIDE DEF new
    <3> QED BY <2>10 DEF Carries
  <2> HIDE DEF new
  <2> QED BY <2>1, <2>7, <2>9, <2>11, SaveWrites
<1>5. CASE ImportRecord
  <2>1. Opens(doc) /\ Readable(doc) /\ "EvaluationImported" \in Written
    BY <1>5, DocReadable DEF ImportRecord, Written
  <2>2. PICK id \in IdValues(doc), preferred \in IdValues(doc) \cup {"null"},
             given \in SUBSET {"confidence"} :
           LET evaluation == [Object("evaluation", given)
                                 EXCEPT !.candidates = id, !.preference = preferred]
           IN  Save(Gains(doc, "evaluation",
                          [evaluation |-> evaluation, record |-> Object("record", {})]),
                    "EvaluationImported")
    BY <1>5 DEF ImportRecord
  <2> DEFINE evaluation == [Object("evaluation", given)
                               EXCEPT !.candidates = id, !.preference = preferred]
             objects == [evaluation |-> evaluation, record |-> Object("record", {})]
             new == Gains(doc, "evaluation", objects)
  <2>3. id \in {"good", "off"} /\ preferred \in {"good", "off", "null"}
    BY <2>1, IdsRead
  <2>4. Fits("evaluation", evaluation) /\ evaluation["record"] = "good"
    BY <2>3, EvaluationFits
  <2>5. Fits("record", Object("record", {}))
    BY ObjectFits, KindsAre
  <2>6. Save(new, "EvaluationImported")
    BY <2>2
  <2> HIDE DEF evaluation
  <2>7. /\ DOMAIN objects = {"evaluation", "record"}
        /\ objects["evaluation"] = evaluation /\ objects["record"] = Object("record", {})
    OBVIOUS
  <2>8. Readable(new)
    <3> HIDE DEF objects
    <3> QED BY <2>1, <2>4, <2>5, <2>7, EntryReadable
  <2>9. Carries(doc, new)
    BY GainsCarries
  <2> HIDE DEF new
  <2> QED BY <2>1, <2>6, <2>8, <2>9, SaveWrites
<1>6. CASE Verify
  <2> DEFINE new == [doc EXCEPT !.asset = Stamped(doc.asset)]
  <2>1. /\ Opens(doc) /\ Readable(doc) /\ "asset" \in DOMAIN doc
        /\ Save(new, "Verified") /\ "Verified" \in Written
    BY <1>6, DocReadable DEF Verify, Written
  <2>2. Readable(new)
    BY <2>1, StampedReadable
  <2>3. /\ "asset" \in Kinds /\ "last_verified" \in Fields("asset")
        /\ ~HasPattern("asset", "last_verified") /\ "last_verified" \notin Opaque \cup Containers \cup {"size", "stray"}
    BY KindsAre DEF Optional, Known, Fields, HasPattern, Patterned, Opaque, Containers, Holder
  <2>4. doc["asset"]["last_verified"] \in {"absent", "null", "good"}
    <3> DEFINE v == doc["asset"]["last_verified"]
    <3>1. v \in Values("asset", "last_verified") /\ Reads("asset", "last_verified", v)
      BY <2>1, <2>3 DEF Readable, Typed, AllReads
    <3> HIDE DEF v
    <3>2. v \notin {"off", "wide", "rounded"}
      BY <2>3, <3>1 DEF Values
    <3>3. v \in {"absent", "null", "good", "off", "wide", "rounded"}
      BY <2>3, <3>1, ValuesRead
    <3> QED BY <3>2, <3>3 DEF v
  <2>5. Carries(doc, new)
    BY <2>1, <2>4 DEF Carries, Stamped, Readable, Typed
  <2> HIDE DEF new
  <2> QED BY <2>1, <2>2, <2>5, SaveWrites
<1> QED BY <1>1, <1>2, <1>3, <1>4, <1>5, <1>6 DEF Command

(***************************************************************************)
(* Edits by hand.                                                          *)
(***************************************************************************)
\* One field of one object is set; in an array its neighbours may change with it.
LEMMA SetInArray ==
  ASSUME NEW d, NEW k \in DOMAIN d, NEW f, NEW v, IsArray(d, k)
  PROVE  SetField(d, k, f, v)[k] = SetElement(k, d[k], f, v)
BY DEF SetField

LEMMA SetInObject ==
  ASSUME NEW d, NEW k \in DOMAIN d, NEW f, NEW v, ~IsArray(d, k)
  PROVE  SetField(d, k, f, v)[k] = [d[k] EXCEPT ![f] = v]
BY DEF SetField

LEMMA SetToArray ==
  ASSUME NEW d, NEW k \in DOMAIN d, NEW f, NEW j \in DOMAIN d \cap DOMAIN Holder,
         j # k, Holder[j] = <<k, f>>
  PROVE  SetField(d, k, f, "listed")[j] = AsArray(j, d[j])
BY DEF SetField

LEMMA SetElsewhere ==
  ASSUME NEW d, NEW k \in DOMAIN d, NEW f, NEW v, NEW j \in DOMAIN d, j # k,
         ~(v = "listed" /\ j \in DOMAIN Holder /\ Holder[j] = <<k, f>>)
  PROVE  SetField(d, k, f, v)[j] = d[j]
BY DEF SetField

LEMMA SetFieldTyped ==
  ASSUME NEW d, Typed(d), NEW k \in DOMAIN d, NEW f \in Fields(k), NEW v \in Values(k, f),
         NEW j \in DOMAIN d
  PROVE  LET o == SetField(d, k, f, v)[j]
         IN  DOMAIN o = Fields(j) /\ \A g \in Fields(j) : o[g] \in Values(j, g)
<1>1. /\ k \in Kinds /\ j \in Kinds /\ DOMAIN d[j] = Fields(j)
      /\ \A g \in Fields(j) : d[j][g] \in Values(j, g)
  BY DEF Typed
<1>2. \A i \in Kinds : \A g \in Fields(i) : "absent" \in Values(i, g)
  BY DEF Values
<1>3. \A i \in Kinds : \A g \in Known(i) : "null" \in Values(i, g)
  BY Options DEF Values
<1>4. CASE j = k /\ IsArray(d, k)
  <2> DEFINE o == SetElement(k, d[k], f, v)
  <2>1. SetField(d, k, f, v)[j] = o
    BY <1>4, SetInArray
  <2>2. DOMAIN o = Fields(k)
    BY DEF SetElement
  <2>3. ASSUME NEW g \in Fields(k) PROVE o[g] \in Values(k, g)
    <3>1. \/ g = f /\ o[g] = v
          \/ o[g] = "absent"
          \/ Precedes(k, g, f) /\ o[g] = "null"
          \/ o[g] = d[k][g]
      BY DEF SetElement
    <3>2. Precedes(k, g, f) => g \in Known(k)
      BY DEF Precedes
    <3> QED BY <1>1, <1>2, <1>3, <1>4, <3>1, <3>2
  <2> HIDE DEF o
  <2> QED BY <1>4, <2>1, <2>2, <2>3
<1>5. CASE j = k /\ ~IsArray(d, k)
  <2> DEFINE o == [d[k] EXCEPT ![f] = v]
  <2>1. SetField(d, k, f, v)[j] = o
    BY <1>5, SetInObject
  <2>2. DOMAIN o = Fields(k) /\ \A g \in Fields(k) : o[g] \in Values(k, g)
    BY <1>1, <1>5
  <2> HIDE DEF o
  <2> QED BY <1>5, <2>1, <2>2
<1>6. CASE j # k /\ v = "listed" /\ j \in DOMAIN Holder /\ Holder[j] = <<k, f>>
  <2> DEFINE o == AsArray(j, d[j])
  <2>1. SetField(d, k, f, v)[j] = o
    BY <1>6, SetToArray
  <2>2. DOMAIN o = Fields(j) /\ \A g \in Fields(j) : o[g] \in Values(j, g)
    BY <1>1, <1>3 DEF AsArray
  <2> HIDE DEF o
  <2> QED BY <2>1, <2>2
<1>7. CASE j # k /\ ~(v = "listed" /\ j \in DOMAIN Holder /\ Holder[j] = <<k, f>>)
  BY <1>1, <1>7, SetElsewhere
<1> QED BY <1>4, <1>5, <1>6, <1>7

\* An edit makes a field hold an object, or an array of one, only where it says.
LEMMA HoldsNoMore ==
  ASSUME NEW d, Typed(d), NEW k \in DOMAIN d, NEW f \in Fields(k), NEW v \in Values(k, f),
         NEW j \in DOMAIN d, NEW g \in Fields(j), j # k \/ g # f,
         SetField(d, k, f, v)[j][g] \in Held
  PROVE  SetField(d, k, f, v)[j][g] = d[j][g]
<1>1. DOMAIN d[j] = Fields(j)
  BY DEF Typed
<1>2. CASE j = k /\ IsArray(d, k)
  <2> DEFINE o == SetElement(k, d[k], f, v)
  <2>1. o[g] \in {"absent", "null", d[k][g]}
    BY <1>2 DEF SetElement
  <2> HIDE DEF o
  <2> QED BY <1>2, <2>1, SetInArray DEF o, Held
<1>3. CASE j = k /\ ~IsArray(d, k)
  <2> DEFINE o == [d[k] EXCEPT ![f] = v]
  <2>1. o[g] = d[k][g]
    BY <1>1, <1>3
  <2>2. SetField(d, k, f, v)[k] = o
    BY <1>3, SetInObject
  <2> HIDE DEF o
  <2> QED BY <1>3, <2>1, <2>2
<1>4. CASE j # k /\ v = "listed" /\ j \in DOMAIN Holder /\ Holder[j] = <<k, f>>
  <2> DEFINE o == AsArray(j, d[j])
  <2>1. o[g] \in {"null", d[j][g]}
    BY DEF AsArray
  <2> HIDE DEF o
  <2> QED BY <1>4, <2>1, SetToArray DEF o, Held
<1>5. CASE j # k /\ ~(v = "listed" /\ j \in DOMAIN Holder /\ Holder[j] = <<k, f>>)
  BY <1>5, SetElsewhere
<1> QED BY <1>2, <1>3, <1>4, <1>5

LEMMA SetFieldSets ==
  ASSUME NEW d, Typed(d), NEW k \in DOMAIN d, NEW f \in Fields(k), NEW v
  PROVE  SetField(d, k, f, v)[k][f] = v
<1>1. DOMAIN d[k] = Fields(k)
  BY DEF Typed
<1>2. CASE IsArray(d, k)
  <2>1. SetElement(k, d[k], f, v)[f] = v
    BY DEF SetElement
  <2> QED BY <1>2, <2>1, SetInArray
<1>3. CASE ~IsArray(d, k)
  <2> DEFINE o == [d[k] EXCEPT ![f] = v]
  <2>1. o[f] = v
    BY <1>1
  <2>2. SetField(d, k, f, v)[k] = o
    BY <1>3, SetInObject
  <2> HIDE DEF o
  <2> QED BY <2>1, <2>2
<1> QED BY <1>2, <1>3

\* Objects are at most three deep.
LEMMA Depth ==
  ASSUME NEW j \in DOMAIN Holder, Holder[j][1] \in DOMAIN Holder
  PROVE  Holder[Holder[j][1]][1] \notin DOMAIN Holder
BY DEF Holder

\* No field holds two kinds.
LEMMA HolderOnce ==
  ASSUME NEW i \in DOMAIN Holder, NEW j \in DOMAIN Holder,
         Holder[i][1] = Holder[j][1], Holder[i][2] = Holder[j][2]
  PROVE  i = j
BY DEF Holder

\* An array stays one with nothing left out in the middle.
LEMMA ElementsClosed ==
  ASSUME NEW k \in Kinds, NEW o, DOMAIN o = Fields(k), NEW f \in Fields(k), NEW v,
         \A g, h \in Fields(k) : Precedes(k, g, h) /\ o[g] = "absent" => o[h] = "absent",
         NEW g \in Fields(k), NEW h \in Fields(k), Precedes(k, g, h),
         SetElement(k, o, f, v)[g] = "absent"
  PROVE  SetElement(k, o, f, v)[h] = "absent"
<1> DEFINE new == SetElement(k, o, f, v)
<1>1. ASSUME NEW e \in Fields(k)
      PROVE  /\ e = f => new[e] = v
             /\ e # f /\ v = "absent" =>
                   new[e] = IF Precedes(k, f, e) THEN "absent" ELSE o[e]
             /\ e # f /\ v # "absent" =>
                   new[e] = IF Precedes(k, e, f) /\ o[e] = "absent" THEN "null" ELSE o[e]
  BY DEF SetElement
<1>2. CASE v = "absent"
  <2>1. CASE g = f \/ Precedes(k, f, g)
    <3>1. Precedes(k, f, h)
      BY <2>1, PrecedesChains
    <3> QED BY <1>1, <1>2, <3>1
  <2>2. CASE ~(g = f \/ Precedes(k, f, g))
    <3>1. o[h] = "absent"
      BY <1>1, <1>2, <2>2
    <3> QED BY <1>1, <1>2, <3>1
  <2> QED BY <2>1, <2>2
<1>3. CASE v # "absent"
  <2>1. g # f /\ ~Precedes(k, g, f) /\ o[g] = "absent"
    BY <1>1, <1>3
  <2>2. o[h] = "absent" /\ h # f /\ ~Precedes(k, h, f)
    BY <2>1, PrecedesChains
  <2> QED BY <1>1, <1>3, <2>2
<1> QED BY <1>2, <1>3

LEMMA EditedShaped ==
  ASSUME NEW d, Typed(d), Nested(d), Positional(d), NEW k \in DOMAIN d, NEW f \in Fields(k),
         NEW v \in Values(k, f), v = "good" => f \notin Containers,
         v = "listed" => \E j \in DOMAIN d \cap DOMAIN Holder : Holder[j] = <<k, f>>
  PROVE  /\ Typed(Edited(d, k, f, v)) /\ Nested(Edited(d, k, f, v))
         /\ Positional(Edited(d, k, f, v))
<1> DEFINE set == SetField(d, k, f, v)
           new == Edited(d, k, f, v)
<1>1. /\ DOMAIN set = DOMAIN d /\ DOMAIN new = Kept(set)
      /\ \A j \in DOMAIN new : new[j] = set[j]
  BY DEF Edited, SetField
<1>2. DOMAIN new \subseteq DOMAIN d /\ DOMAIN d \subseteq Kinds
  BY <1>1 DEF Kept, Typed
<1>3. \A j \in DOMAIN d : DOMAIN set[j] = Fields(j) /\ \A g \in Fields(j) : set[j][g] \in Values(j, g)
  BY SetFieldTyped
<1>4. "manifest" \in DOMAIN new
  <2>1. "manifest" \notin DOMAIN Holder /\ "manifest" \in DOMAIN d
    BY DEF Holder, Typed
  <2> QED BY <1>1, <2>1 DEF Kept
<1>5. set[k][f] = v
  BY SetFieldSets
\* What holds an object now held it before, and the object is there.
<1>6. ASSUME NEW j \in DOMAIN Holder, Holder[j][1] \in DOMAIN d,
             set[Holder[j][1]][Holder[j][2]] \in Held
      PROVE  /\ j \in {"project", "job", "record"} => j \in DOMAIN d
             /\ set[Holder[j][1]][Holder[j][2]] = "listed" => j \in DOMAIN d
  <2> DEFINE outer == Holder[j][1]
             field == Holder[j][2]
  <2>1. outer \in Kinds /\ field \in Fields(outer) /\ field \in Containers
    BY HolderKinds
  <2>2. CASE outer = k /\ field = f
    <3>1. v = "listed"
      BY <1>5, <1>6, <2>1, <2>2 DEF Held
    <3>2. PICK i \in DOMAIN d \cap DOMAIN Holder : Holder[i] = <<k, f>>
      BY <3>1
    <3>3. i = j
      BY <2>2, <3>2, HolderOnce
    <3> QED BY <3>2, <3>3
  <2>3. CASE ~(outer = k /\ field = f)
    <3>1. set[outer][field] = d[outer][field]
      BY <1>6, <2>1, <2>3, HoldsNoMore
    <3> QED BY <1>6, <3>1 DEF Nested
  <2> QED BY <2>2, <2>3
<1> HIDE DEF set, new
<1>7. Typed(new)
  BY <1>1, <1>2, <1>3, <1>4 DEF Typed
<1>8. Nested(new)
  <2> SUFFICES ASSUME NEW j \in DOMAIN Holder
               PROVE  LET outer == Holder[j][1]
                          field == Holder[j][2]
                      IN  /\ j \in DOMAIN new => outer \in DOMAIN new /\ new[outer][field] \in Held
                          /\ outer \in DOMAIN new =>
                               /\ j \in {"project", "job", "record"} /\ new[outer][field] \in Held
                                    => j \in DOMAIN new
                               /\ new[outer][field] = "listed" => j \in DOMAIN new
    BY DEF Nested
  <2> DEFINE outer == Holder[j][1]
             field == Holder[j][2]
  <2>1. ASSUME j \in DOMAIN new
        PROVE  outer \in DOMAIN new /\ new[outer][field] \in Held
    <3>1. /\ j \in DOMAIN d /\ set[outer][field] \in Held
          /\ outer \in DOMAIN Holder => set[Holder[outer][1]][Holder[outer][2]] \in Held
      BY <1>1, <2>1 DEF Kept
    <3>2. outer \in DOMAIN d
      BY <3>1 DEF Nested
    <3>3. outer \in DOMAIN Holder => Holder[outer][1] \notin DOMAIN Holder
      BY Depth
    <3>4. outer \in Kept(set)
      BY <1>1, <3>1, <3>2, <3>3 DEF Kept
    <3> QED BY <1>1, <3>1, <3>4
  <2>2. ASSUME outer \in DOMAIN new, new[outer][field] \in Held, j \in DOMAIN d
        PROVE  j \in DOMAIN new
    <3>1. /\ set[outer][field] \in Held
          /\ outer \in DOMAIN Holder => set[Holder[outer][1]][Holder[outer][2]] \in Held
      BY <1>1, <2>2 DEF Kept
    <3> QED BY <1>1, <2>2, <3>1 DEF Kept
  <2>3. ASSUME outer \in DOMAIN new, new[outer][field] \in Held
        PROVE  /\ j \in {"project", "job", "record"} => j \in DOMAIN d
               /\ new[outer][field] = "listed" => j \in DOMAIN d
    BY <1>1, <1>2, <1>6, <2>3
  <2> QED BY <2>1, <2>2, <2>3 DEF Held
<1>9. Positional(new)
  <2> SUFFICES ASSUME NEW j \in DOMAIN new, IsArray(new, j), NEW g \in Fields(j), NEW h \in Fields(j),
                      Precedes(j, g, h), new[j][g] = "absent"
               PROVE  new[j][h] = "absent"
    BY DEF Positional
  <2> DEFINE outer == Holder[j][1]
             field == Holder[j][2]
  <2>1. /\ j \in DOMAIN Holder /\ outer \in DOMAIN new /\ new[outer][field] = "listed"
        /\ j \in DOMAIN d /\ outer \in DOMAIN d /\ set[outer][field] = "listed" /\ new[j] = set[j]
    BY <1>1, <1>2, <1>8 DEF IsArray, Nested
  <2>2. outer # j /\ Holder[j] = <<outer, field>>
    BY <2>1 DEF Holder
  <2>3. CASE outer = k /\ field = f
    <3>1. v = "listed"
      BY <1>5, <2>1, <2>3
    <3>2. set[j] = AsArray(j, d[j])
      BY <2>1, <2>2, <2>3, <3>1, SetToArray DEF set
    <3>3. g \in Known(j)
      BY DEF Precedes
    <3> QED BY <2>1, <3>2, <3>3 DEF AsArray
  <2>4. CASE ~(outer = k /\ field = f)
    <3>1. IsArray(d, j)
      <4>1. field \in Fields(outer)
        BY <2>1, HolderKinds
      <4> QED BY <2>1, <2>4, <4>1, HoldsNoMore DEF set, IsArray, Held
    <3>2. \A e, i \in Fields(j) : Precedes(j, e, i) /\ d[j][e] = "absent" => d[j][i] = "absent"
      BY <2>1, <3>1 DEF Positional
    <3>3. CASE j = k
      <4>1. set[j] = SetElement(k, d[k], f, v)
        BY <3>1, <3>3, SetInArray DEF set
      <4>2. DOMAIN d[k] = Fields(k) /\ k \in Kinds
        BY DEF Typed
      <4> QED BY <2>1, <3>2, <3>3, <4>1, <4>2, ElementsClosed
    <3>4. CASE j # k
      <4>1. set[j] = d[j]
        BY <2>1, <2>2, <2>4, <3>4, SetElsewhere DEF set
      <4> QED BY <2>1, <3>2, <4>1
    <3> QED BY <3>3, <3>4
  <2> QED BY <2>3, <2>4
<1> QED BY <1>7, <1>8, <1>9 DEF new

(***************************************************************************)
(* The theorems.                                                           *)
(***************************************************************************)
SInv == TypeOK /\ WrittenIsReadable

LEMMA InitSInv == Init => SInv
BY StartsAssumption, MaxEditsAssumption DEF Init, SInv, TypeOK, WrittenIsReadable, Written

LEMMA NextSInv == SInv /\ [Next]_vars => SInv'
<1> SUFFICES ASSUME SInv, [Next]_vars PROVE SInv'
  OBVIOUS
<1>1. CASE UNCHANGED vars
  BY <1>1 DEF vars, SInv, TypeOK, WrittenIsReadable
<1>2. CASE Command
  <2>1. CASE Answers
    BY <2>1 DEF Answers, SInv, TypeOK, WrittenIsReadable
  <2>2. ASSUME NEW d, Writes(d) PROVE SInv'
    <3>1. Readable(doc') /\ Opens(doc')
      BY <2>2, CanonicalReadable DEF Writes
    <3>2. Positional(doc')
      BY <2>2, CanonicalReadable DEF Writes
    <3> QED BY <2>2, <3>1, <3>2 DEF Writes, Readable, SInv, TypeOK, WrittenIsReadable
  <2> QED BY <1>2, <2>1, <2>2, CommandWrites DEF SInv
<1>3. CASE HandEdit
  <2>1. PICK k \in DOMAIN doc : \E f \in Fields(k) : \E v \in Values(k, f) :
           /\ v = "good" => f \notin Containers
           /\ v = "listed" => \E j \in DOMAIN doc \cap DOMAIN Holder : Holder[j] = <<k, f>>
           /\ doc' = Edited(doc, k, f, v)
    BY <1>3 DEF HandEdit
  <2>2. IsDocument(doc) /\ Typed(doc) /\ Nested(doc) /\ Positional(doc)
    BY <1>3 DEF HandEdit, IsDocument, SInv, TypeOK
  <2>3. Typed(doc') /\ Nested(doc') /\ Positional(doc')
    BY <2>1, <2>2, EditedShaped
  <2>4. last' \notin Written /\ edits' \in 0..MaxEdits
    BY <1>3, MaxEditsAssumption DEF HandEdit, Written, SInv, TypeOK
  <2> QED BY <2>3, <2>4 DEF SInv, TypeOK, WrittenIsReadable
<1>4. CASE Spoil
  <2>1. last' \notin Written /\ edits' \in 0..MaxEdits
    BY <1>4, MaxEditsAssumption DEF Spoil, Written, SInv, TypeOK
  <2> QED BY <1>4, <2>1 DEF Spoil, IsDocument, SInv, TypeOK, WrittenIsReadable
<1> QED BY <1>1, <1>2, <1>3, <1>4 DEF Next

LEMMA AlwaysSInv == Spec => []SInv
BY InitSInv, NextSInv, PTL DEF Spec

\* Whatever is edited by hand and however often, the document keeps its shape:
\* objects of the structs' kinds, each inside the one that holds it, and arrays
\* with nothing left out in the middle.
THEOREM TypeCorrect == Spec => []TypeOK
<1>1. SInv => TypeOK
  BY DEF SInv
<1> QED BY <1>1, AlwaysSInv, PTL

\* What write_atomic was given, load_manifest reads: no command locks the tool
\* out, whatever nulls and unknown ids it went in with (required_nullable).
THEOREM WritesAreRead == Spec => []WrittenIsReadable
<1>1. SInv => WrittenIsReadable
  BY DEF SInv
<1> QED BY <1>1, AlwaysSInv, PTL

\* The fields that may be null by the schema are Options.
LEMMA NullsAreRead ==
  ASSUME NEW k \in Kinds
  PROVE  /\ {"preference", "confidence"} \cap Fields(k) \subseteq Optional[k] \cup RequiredNullable[k]
         /\ RequiredNullable[k] \subseteq {"preference"}
BY KindsAre DEF Required, RequiredNullable, Optional, Known, Fields

\* The manifest of a document the schema accepts names the schema.
LEMMA SchemaNamed ==
  ASSUME NEW d, Typed(d), SchemaAccepts(d), ~Unparsed(d)
  PROVE  d["manifest"]["schema"] = "good"
<1> DEFINE v == d["manifest"]["schema"]
<1>1. "manifest" \in DOMAIN d /\ "schema" \in Fields("manifest")
  BY SchemaIsManifests DEF Typed
<1>2. v \in Values("manifest", "schema") /\ v # "unparsed"
  BY <1>1 DEF Typed, Unparsed
<1>3. v # "absent" /\ SchemaConforms("schema", v)
  BY <1>1, SchemaIsManifests, TablesAgree DEF SchemaAccepts, Typed
<1>4. "schema" \notin Opaque \cup Containers \cup {"size", "confidence", "preference"}
  BY DEF Opaque, Containers, Holder
<1> HIDE DEF v
<1>5. v \notin {"wide", "rounded"}
  BY <1>2, <1>4 DEF Values
<1> QED BY <1>2, <1>3, <1>4, <1>5 DEF SchemaConforms, v

LEMMA SchemaReads ==
  ASSUME NEW d, IsDocument(d), Typed(d), SchemaAccepts(d), ~Unparsed(d),
         "asset" \in DOMAIN d => d["asset"]["size"] # "wide"
  PROVE  Opens(d)
<1>1. ASSUME NEW k \in DOMAIN d, NEW f \in Fields(k)
      PROVE  Reads(k, f, d[k][f]) /\ d[k][f] # "off"
  <2> DEFINE v == d[k][f]
  <2>1. k \in Kinds /\ DOMAIN d[k] = Fields(k) /\ v \in Values(k, f)
    BY DEF Typed
  <2>2. /\ v = "absent" => f \notin Required[k] \cup RequiredNullable[k]
        /\ v # "absent" => f \in Known(k) /\ SchemaConforms(f, v)
    BY <2>1, TablesAgree DEF SchemaAccepts
  <2>3. v = "wide" => f \in Opaque
    <3>1. v = "wide" => f \in Opaque \cup {"size"}
      BY <2>1 DEF Values
    <3>2. f = "size" => v # "wide"
      BY <2>1, SizeIsAsset
    <3> QED BY <3>1, <3>2
  <2>4. v = "null" => f \in Optional[k] \cup RequiredNullable[k]
    BY <2>1, <2>2, NullsAreRead DEF SchemaConforms
  <2>5. v # "unparsed"
    BY <2>1 DEF Unparsed
  <2> HIDE DEF v
  <2>6. v \in {"absent", "null", "good", "wide", "rounded"}
    BY <2>2, <2>5 DEF SchemaConforms
  <2> QED BY <2>2, <2>3, <2>4, <2>6 DEF Reads, v
<1>2. AllReads(d)
  BY <1>1 DEF AllReads
<1>3. ValidateExtKeys(d)
  <2>1. \A k \in DOMAIN d : "ext" \in Fields(k)
    BY Options DEF Typed, Fields, Known
  <2> QED BY <1>1, <2>1 DEF ValidateExtKeys
<1>4. d["manifest"]["schema"] = "good"
  BY SchemaNamed
<1> QED BY <1>2, <1>3, <1>4, ReadsOpens

\* A document the published schema accepts is read, but for JSON that serde_json
\* does not parse and sizes that are no u64 (struct Manifest and its serde
\* attributes, load_manifest).
THEOREM SchemaIsRead == Spec => []SchemaValidIsRead
<1>1. TypeOK => SchemaValidIsRead
  <2> SUFFICES ASSUME TypeOK, IsDocument(doc), SchemaAccepts(doc)
               PROVE  \/ Opens(doc)
                      \/ LoadError(doc) = "Parse" /\ Unparsed(doc)
                      \/ LoadError(doc) = "Invalid" /\ doc.asset.size = "wide"
    BY DEF SchemaValidIsRead
  <2>1. Typed(doc)
    BY DEF TypeOK
  <2>2. CASE Unparsed(doc)
    BY <2>2 DEF LoadError, IsDocument
  <2>3. CASE ~Unparsed(doc) /\ doc["asset"]["size"] # "wide"
    BY <2>1, <2>3, SchemaReads
  <2>4. CASE ~Unparsed(doc) /\ doc["asset"]["size"] = "wide" /\ "asset" \in DOMAIN doc
    <3>1. "size" \in Fields("asset") /\ ~Reads("asset", "size", "wide")
      BY KindsAre DEF Fields, Known, Required, Reads, Opaque
    <3>2. doc["manifest"]["schema"] = "good"
      BY <2>1, <2>4, SchemaNamed
    <3>3. \E k \in DOMAIN doc : \E f \in Fields(k) : ~Reads(k, f, doc[k][f])
      BY <2>4, <3>1
    <3> QED BY <2>4, <3>2, <3>3 DEF LoadError, IsDocument
  <2>5. CASE ~Unparsed(doc) /\ "asset" \notin DOMAIN doc
    BY <2>1, <2>5, SchemaReads
  <2> QED BY <2>2, <2>3, <2>4, <2>5
<1> QED BY <1>1, TypeCorrect, PTL

LEMMA StrictlyAccepted == ASSUME NEW d, Readable(d) PROVE SchemaAccepts(Strictly(d))
<1> DEFINE new == Strictly(d)
<1>1. ASSUME NEW k \in DOMAIN d, NEW f \in Fields(k)
      PROVE  /\ k \in Kinds
             /\ new[k][f] = "absent" => f \notin SchemaRequired[k]
             /\ new[k][f] # "absent" => f \in SchemaProperties[k] /\ SchemaConforms(f, new[k][f])
  <2> DEFINE v == d[k][f]
             w == CASE v = "null" /\ f \in Optional[k] -> "absent"
                    [] v = "off" /\ f # "ext"          -> "good"
                    [] v = "listed"                    -> "good"
                    [] OTHER                           -> v
  <2>1. new[k][f] = w
    BY DEF Strictly
  <2>2. k \in Kinds /\ v \in Values(k, f) /\ Reads(k, f, v)
    BY DEF Readable, Typed, AllReads
  <2>3. f = "ext" => v # "off"
    BY DEF Readable, ValidateExtKeys
  <2> HIDE DEF v
  <2>4. w = "absent" => f \notin SchemaRequired[k]
    BY <2>2, ValuesRead, Options, TablesAgree
  <2>5. w # "absent" => f \in SchemaProperties[k]
    BY <2>2, ValuesRead, TablesAgree
  <2>6. w = "null" => f = "preference"
    BY <2>2, ValuesRead, NullsAreRead
  <2>7. w \in {"absent", "null", "good", "wide", "rounded"}
    BY <2>2, <2>3, ValuesRead
  <2>8. w # "absent" => SchemaConforms(f, w)
    BY <2>6, <2>7 DEF SchemaConforms
  <2> QED BY <2>1, <2>2, <2>4, <2>5, <2>8
<1>2. /\ DOMAIN new = DOMAIN d
      /\ \A k \in DOMAIN d : DOMAIN new[k] = Fields(k)
  BY DEF Strictly
<1>3. \A k \in DOMAIN d : SchemaRequired[k] \subseteq Fields(k)
  BY TablesAgree DEF Readable, Typed, Fields, Known
<1> HIDE DEF new
<1>4. SchemaAccepts(new)
  BY <1>1, <1>2, <1>3 DEF SchemaAccepts
<1> QED BY <1>4 DEF new

\* What the structs read, the schema accepts, but for null where a field may be
\* left out, strings and lists off their patterns, and arrays for the objects in
\* the manifest (deny_unknown_fields, validate_ext_keys): never with a field that
\* is missing, unknown, of another type, or under a key no slug.
THEOREM OffShapeIsRefused == Spec => []OffShapeRefused
<1>1. TypeOK => OffShapeRefused
  BY DocReadable, StrictlyAccepted DEF OffShapeRefused
<1> QED BY <1>1, TypeCorrect, PTL

LEMMA NextCarries == SInv /\ [Next]_vars => [CarriesAll]_vars
<1> SUFFICES ASSUME SInv, Next, last' # "edited", doc # NoProject
             PROVE  IF ~Opens(doc) THEN doc' = doc
                    ELSE \A k \in DOMAIN doc :
                            /\ k \in DOMAIN doc'
                            /\ \A f \in Fields(k) :
                                  \/ doc[k][f] \in {"absent", "null"}
                                  \/ doc'[k][f] = doc[k][f]
                                  \/ doc[k][f] = "wide" /\ doc'[k][f] = "rounded"
                                  \/ doc[k][f] = "listed" /\ doc'[k][f] = "good"
  BY DEF CarriesAll
<1>1. Command
  BY DEF Next, HandEdit, Spoil
<1>2. CASE Answers
  BY <1>2 DEF Answers
<1>3. ASSUME Opens(doc), NEW d, Writes(d), Carries(doc, d)
      PROVE  \A k \in DOMAIN doc :
                /\ k \in DOMAIN doc'
                /\ \A f \in Fields(k) :
                      \/ doc[k][f] \in {"absent", "null"}
                      \/ doc'[k][f] = doc[k][f]
                      \/ doc[k][f] = "wide" /\ doc'[k][f] = "rounded"
                      \/ doc[k][f] = "listed" /\ doc'[k][f] = "good"
  <2>1. /\ DOMAIN doc' = DOMAIN d
        /\ \A k \in DOMAIN d : \A f \in Fields(k) : doc'[k][f] = Rewritten(k, f, d[k][f])
    BY <1>3, CanonicalFields DEF Writes, Readable
  <2> QED BY <1>3, <2>1 DEF Carries, Rewritten
<1> QED BY <1>1, <1>2, <1>3, CommandWrites DEF SInv

\* Whatever a command rewrites, each object and value it read is in what it
\* writes, and what it cannot read it leaves as it is (to_canonical_json).
THEOREM NothingDropped == Spec => NothingIsDropped
BY AlwaysSInv, NextCarries, PTL DEF Spec, NothingIsDropped
=============================================================================
