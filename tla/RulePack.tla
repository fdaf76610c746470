-------------------------------- MODULE RulePack --------------------------------
(***************************************************************************)
(* The rule pack and the tools that keep it (scripts/rules/                *)
(* reconcile_rules.py, detection-rules/scripts/validate.py and             *)
(* package_rules.py).                                                      *)
(*                                                                         *)
(* One NDJSON file is authoritative.  From it a synchronization derives,   *)
(* file after file, a tree of Elastic definitions, metadata, playbooks,    *)
(* fixtures and corpora; a check derives the tree again beside the one on  *)
(* disk and compares; the validation judges whether the tree is fit to     *)
(* ship; the packager writes the three files that are shipped.  A tool may *)
(* die between two writes or inside one, and people edit source and tree.  *)
(*                                                                         *)
(* A rule's text is a record [name, query, threshold, tags, lacks]: "name" *)
(* stands for every field that is copied and compared, "query" is a        *)
(* sequence of tokens, "threshold" is 0 where there is none, "tags" says   *)
(* whether the tags are the canonical ones.  "lacks" names what a          *)
(* synchronization looks for in vain: "note" the release structure of the  *)
(* note, or another field that only the metadata is made from; "tag" a tag *)
(* that gives the category or the maturity; "field" a field that a check   *)
(* reads too.  What a query means is left to three operators, which        *)
(* RuleLogic gives (detection-rules/scripts/rulelib.py).                   *)
(***************************************************************************)
EXTENDS SupportedRules, Naturals, FiniteSets, SequencesExt

CONSTANTS Retired,          \* identifiers that left the pack
          BaseText,         \* the text each rule starts with
          OtherTexts,       \* the texts an author may give a rule
          Exports,          \* alert exports: sequences of [rule, claims, text, updated]
          BaseEvent,        \* an event no rule is about
          TriggerEvent,     \* per native rule, the event its fixtures repeat
          FixedFixtures,    \* per other rule and kind of fixture, its events
          ThresholdFields,  \* the fields a threshold groups by
          T3,               \* the rules of the third test tier
          RequiredClasses,  \* per rule of it, the evasion classes its corpus must hold
          MinVariants,      \* how many variants the corpus of any other must hold
          BaseCorpora,      \* per rule, the classes of its variants, one after another
          CustomTypes,      \* the type of each field that only the gateway emits
          WellFormed(_),    \* a query parses
          FieldsAsked(_),   \* the fields it asks for
          Fires(_, _),      \* the logic of a rule matches a fixture's events
          MaxChanges,       \* changes by people, and tools that die
          Torn, Odd         \* a file cut short; a file of another content

VARIABLES source,     \* the authoritative file: [flaw, text]
          tree,       \* the derived files
          out,        \* the shipped files
          packager,   \* [at, text]: where a packaging stands, and what it has read
          said,       \* what the last tool said of source and tree as they are
          changes

vars == <<source, tree, out, packager, said, changes>>

Groups == {"elastic", "metadata", "playbook", "malicious", "benign", "atomic", "evasion", "conformance"}
Singles == {<<"packManifest", "pack">>, <<"scenarios", "pack">>, <<"fixtureManifest", "pack">>}
Foreign == Groups \X Retired
Deferred == <<"deferred", "catalog">>

\* What the gateway promises of its fields, in three files that no step derives:
\* the catalogue, the telemetry schema and Elastic's mapping.  Each gives fields
\* a type, or None where it does not have the field.
Contract == {"catalog", "schema", "mapping"} \X {"gateway"}

\* Every generated path, which is what the reproducibility check compares.
Managed == (Groups \X (Rules \cup Retired)) \cup Singles
Paths == Managed \cup Contract \cup {Deferred}

-----------------------------------------------------------------------------
(* Synchronization. *)

\* The part of a rule's text that a file of each group shows.
Shown(group) ==
  CASE group \in {"elastic", "metadata"}            -> {"name", "query", "threshold", "tags", "lacks"}
    [] group = "playbook"                           -> {"name", "query", "threshold"}
    [] group \in {"malicious", "benign", "atomic"}  -> {"threshold"}
    [] group = "conformance"                        -> {"query", "threshold"}

Part(group, text) == [f \in Shown(group) |-> text[f]]

\* Metadata holds more than its rule's text: "fields", those that a
\* synchronization does not derive and can only keep, and a history, to which it
\* appends.  The history may be "cut", without what came before the entry that a
\* synchronization appends; "none", without that entry or left out; or "bad",
\* with no list of entries.  An evasion file holds the classes of its variants
\* and nothing derived.
Owns == [fields : BOOLEAN, history : {"full", "cut", "none", "bad"}]
Metadata(text, own) == [gen |-> Part("metadata", text), own |-> own]

\* Whatever a rule's text may be, and what a file made from it may hold.
Texts == Range(BaseText) \cup (UNION Range(OtherTexts))
           \cup (UNION { { export[i].text : i \in DOMAIN export } : export \in Exports })
Contents == { Part(g, text) : g \in Groups \ {"evasion"}, text \in Texts }
              \cup { Metadata(text, own) : text \in Texts, own \in Owns }

\* No rule is a retired one, every rule has its texts, the exports are dated, and
\* no file that is missing, torn or of another content looks like a derived one.
ASSUME RulePackAssumption ==
  /\ IsFiniteSet(Retired) /\ Rules \cap Retired = {}
  /\ BaseText \in [Rules -> Texts] /\ DOMAIN OtherTexts = Rules
  /\ \A export \in Exports : /\ export \in Seq(Range(export))
                             /\ \A i \in DOMAIN export : export[i].updated \in Nat
  /\ {None, Torn, Odd} \cap Contents = {}
  /\ \A r \in Rules : BaseCorpora[r] \notin {None, Torn, Odd}

\* One of s, one of t, the next of s ...
Alternately(s, t) ==
  [i \in 1..(2 * Len(s)) |-> IF i % 2 = 1 THEN s[(i + 1) \div 2] ELSE t[i \div 2]]

\* The order of the writes.  No step touches an evasion file of a supported
\* rule.
Plan ==
  LET of(group) == [i \in DOMAIN Supported |-> <<group, Supported[i]>>]
      unlink(groups) == SetToSeq(groups \X Retired)
  IN  unlink({"elastic", "metadata"})
      \o Alternately(of("elastic"), of("metadata"))
      \o of("playbook")
      \o unlink(Groups \ {"elastic", "metadata"})
      \o << <<"packManifest", "pack">>, <<"scenarios", "pack">> >>
      \o of("conformance") \o of("atomic")
      \o Alternately(of("malicious"), of("benign"))
      \o << <<"fixtureManifest", "pack">> >>

\* A history that is left out is begun anew.
Kept(own) == [own EXCEPT !.history = IF @ = "none" THEN "cut" ELSE @]

\* Fault: a retired rule's playbook, fixtures and corpora stay.
ResultStale(path, found, text) ==
  IF path \in Foreign THEN (IF path[1] \in {"elastic", "metadata"} THEN None ELSE found)
  ELSE IF path[1] = "conformance" /\ found = None THEN None
  ELSE CASE path \in Singles       -> "pack"
         [] path[1] = "metadata"  -> Metadata(text[path[2]], Kept(found.own))
         [] OTHER -> Part(path[1], text[path[2]])

\* What the step on a path leaves there, given what it finds.
Result(path, found, text) ==
  IF path \in Foreign \/ (path[1] = "conformance" /\ found = None) THEN None
  ELSE CASE path \in Singles       -> "pack"
         [] path[1] = "metadata"  -> Metadata(text[path[2]], Kept(found.own))
         [] OTHER -> Part(path[1], text[path[2]])

\* sync_metadata: the file, the note, the tags and the history are as they are
\* expected.
Unreadable(found, text) ==
  \/ text.lacks # "nothing" \/ found \in {None, Torn}
  \/ found \notin {None, Torn} /\ found.own.history = "bad"

\* _fixture_events: a native rule's fixture cannot do without a threshold.
Countless(r, text) == r \in Native /\ text.threshold = 0

\* Fault: a conformance file that is missing stops the synchronization.
RaisesOnMissing(path, found, text) ==
  path[2] \in Rules /\ \/ path[1] = "metadata" /\ Unreadable(found, text[path[2]])
                       \/ path[1] = "conformance" /\ found \in {None, Torn}
                       \/ path[1] = "atomic" /\ Countless(path[2], text[path[2]])

\* Metadata is read, changed and written back, and so is a conformance file
\* that exists: neither can be made from nothing.  The atomic file is the first
\* for which a rule's fixture is made.
Raises(path, found, text) ==
  path[2] \in Rules /\ \/ path[1] = "metadata" /\ Unreadable(found, text[path[2]])
                       \/ path[1] = "conformance" /\ found = Torn
                       \/ path[1] = "atomic" /\ Countless(path[2], text[path[2]])

\* The steps that are taken: those before the first that raises.
Reached(files, text) ==
  SelectInSeq(Plan, LAMBDA p : Raises(p, files[p], text)) - 1
Completes(files, text) == Reached(files, text) = -1

\* The tree after the first n steps.  A step reads and writes its own path
\* only.
After(files, text, n) ==
  LET done == { Plan[i] : i \in 1..n }
  IN  [p \in Paths |-> IF p \in done THEN Result(p, files[p], text) ELSE files[p]]

Synced(files, text) ==
  After(files, text, IF Completes(files, text) THEN Len(Plan) ELSE Reached(files, text))

-----------------------------------------------------------------------------
(* The check. *)

Compared == {"name", "query"}

\* check: the catalogue and the Elastic definitions exactly, the metadata by
\* the fields it compares, which the source must have.
Agrees(files, text) ==
  /\ files[Deferred] = "whole"
  /\ { id \in Rules \cup Retired : files[<<"elastic", id>>] # None } = Rules
  /\ \A r \in Rules :
       /\ text[r].lacks # "field"
       /\ files[<<"elastic", r>>] = Part("elastic", text[r])
       /\ files[<<"metadata", r>>] \notin {None, Torn}
       /\ LET gen == files[<<"metadata", r>>].gen
          IN  gen # Odd /\ \A f \in Compared : gen[f] = text[r][f]

\* check_reproducible_sync, in a copy of the tree.
Reproducible(files, text) ==
  LET copy == Synced(files, text)
  IN  /\ Completes(files, text)
      /\ Agrees(copy, text)
      /\ \A p \in Managed : files[p] = copy[p]

\* load_ndjson.
Loads(src) == src.flaw = "none"

CheckPasses(src, files) == Loads(src) /\ Agrees(files, src.text) /\ Reproducible(files, src.text)

-----------------------------------------------------------------------------
(* The validation. *)

Logic(text) == IF text.threshold = 0
               THEN [kind |-> "query", query |-> text.query]
               ELSE [kind |-> "threshold", query |-> text.query,
                     fields |-> ThresholdFields, minimum |-> text.threshold]

\* _fixture_events: a native rule's fixtures follow its threshold, those of
\* the other rules are fixed whatever the rule says.
FixtureEvents(r, group, threshold) ==
  IF r \in Native
  THEN [i \in 1..(IF group = "malicious" THEN threshold ELSE threshold - 1) |-> TriggerEvent[r]]
  ELSE FixedFixtures[r][group]

\* The events of a fixture file.
EventsIn(r, group, content) ==
  IF content = Odd THEN <<BaseEvent>> ELSE FixtureEvents(r, group, content.threshold)

\* The definition that metadata stands for: its tags are always canonical.
ElasticPayload(gen) == [gen EXCEPT !.tags = "canonical"]

Present(files, group) == { id \in Rules \cup Retired : files[<<group, id>>] # None }
Readable(files, group) == \A id \in Present(files, group) : files[<<group, id>>] # Torn

\* validate_gateway_contract: the catalogued fields, no others.
ContractHolds(files) ==
  LET type(group) == files[<<group, "gateway">>]
  IN  \A f \in DOMAIN CustomTypes : type("catalog")[f] # None =>
        /\ type("schema")[f] = type("catalog")[f]
        /\ type("mapping")[f] = type("catalog")[f]

\* _schema_errors of an event: the schema is closed and typed.
Conforms(event, schema) ==
  \A f \in DOMAIN CustomTypes : event[f] # {} => schema[f] = CustomTypes[f]

MetadataIsSound(files) ==
  /\ Present(files, "metadata") = Rules /\ Readable(files, "metadata")
  /\ \A r \in Rules :
       LET m == files[<<"metadata", r>>]
       IN  /\ m.own.fields /\ m.own.history \in {"full", "cut"} /\ m.gen # Odd
           /\ WellFormed(m.gen.query)
           /\ \A g \in Groups \ {"elastic"} : files[<<g, r>>] # None
  /\ \A r, s \in Rules : r # s => files[<<"metadata", r>>].gen.name # files[<<"metadata", s>>].gen.name

ElasticIsGenerated(files) ==
  /\ Present(files, "elastic") = Rules /\ Readable(files, "elastic")
  /\ \A r \in Rules : files[<<"elastic", r>>] = ElasticPayload(files[<<"metadata", r>>].gen)

\* Fault: what a benign fixture decides is not looked at.
FixturesFire(files) ==
  /\ files[<<"fixtureManifest", "pack">>] = "pack"
  /\ \A r \in Rules :
       LET gen    == files[<<"metadata", r>>].gen
           events == EventsIn(r, "malicious", files[<<"malicious", r>>])
       IN  /\ files[<<"malicious", r>>] # Torn /\ files[<<"benign", r>>] # Torn
           /\ Fires(Logic(gen), events)
           /\ r \notin Native => \A i \in DOMAIN events : Conforms(events[i], files[<<"schema", "gateway">>])
           /\ \A f \in FieldsAsked(gen.query) : \E i \in DOMAIN events : events[i][f] # {}

\* A malicious fixture matches and shows every field of the query; a benign
\* one does not match; the events of the gateway are such as it emits.
FixturesDecide(files) ==
  /\ files[<<"fixtureManifest", "pack">>] = "pack"
  /\ \A r \in Rules, g \in {"malicious", "benign"} :
       /\ files[<<g, r>>] # Torn
       /\ LET gen    == files[<<"metadata", r>>].gen
              events == EventsIn(r, g, files[<<g, r>>])
          IN  /\ Fires(Logic(gen), events) = (g = "malicious")
              /\ r \notin Native => \A i \in DOMAIN events : Conforms(events[i], files[<<"schema", "gateway">>])
              /\ g = "malicious" =>
                   \A f \in FieldsAsked(gen.query) : \E i \in DOMAIN events : events[i][f] # {}

\* The classes are prescribed to the rules of the third tier, a number of
\* variants to the others.
CorporaAreComplete(files) ==
  /\ \A g \in {"atomic", "evasion", "conformance"} : Present(files, g) = Rules /\ Readable(files, g)
  /\ \A r \in Rules :
       /\ files[<<"atomic", r>>] # Odd
       /\ LET variants == files[<<"evasion", r>>]
          IN  /\ variants # Odd
              /\ IF r \in T3 THEN Range(variants) = RequiredClasses[r] ELSE Len(variants) >= MinVariants
       /\ files[<<"conformance", r>>] # Odd

Validates(src, files) ==
  /\ ContractHolds(files)
  /\ MetadataIsSound(files)
  /\ ElasticIsGenerated(files)
  /\ FixturesDecide(files)
  /\ CorporaAreComplete(files)
  /\ files[Deferred] = "whole"
  /\ \A p \in Singles : files[p] # None
  /\ CheckPasses(src, files)

-----------------------------------------------------------------------------
(* Recovering the source from an export of alerts. *)

\* The newest alert of a rule, the last one of several as new.
Latest(export, r) ==
  LET of == { i \in DOMAIN export : export[i].rule = r }
  IN  CHOOSE i \in of : \A j \in of : \/ export[j].updated < export[i].updated
                                      \/ export[j].updated = export[i].updated /\ j <= i

Recoverable(export) ==
  \A r \in Rules : /\ \E i \in DOMAIN export : export[i].rule = r
                   /\ export[Latest(export, r)].claims = r

RecoveredText(export) == [r \in Rules |-> export[Latest(export, r)].text]

-----------------------------------------------------------------------------
NothingSaid == [by |-> "none", pass |-> FALSE]
Idle == [at |-> "idle", text |-> BaseText]
Whole == [fields |-> TRUE, history |-> "full"]

InitialTree ==
  [p \in Paths |->
     IF p \in Foreign THEN None
     ELSE CASE p = Deferred    -> "whole"
       [] p \in Contract       -> CustomTypes
       [] p \in Singles        -> "pack"
       [] p[1] = "evasion"     -> BaseCorpora[p[2]]
       [] p[1] = "metadata"    -> Metadata(BaseText[p[2]], Whole)
       [] OTHER                -> Part(p[1], BaseText[p[2]])]

Init ==
  /\ source = [flaw |-> "none", text |-> BaseText]
  /\ tree = InitialTree
  /\ out = [ndjson |-> None, manifest |-> None, sums |-> None]
  /\ packager = Idle
  /\ said = NothingSaid
  /\ changes = 0

\* --sync: the tree is rewritten as far as the steps go, then checked.
Sync ==
  /\ \/ ~Loads(source) /\ tree' = tree
     \/ Loads(source) /\ tree' = Synced(tree, source.text)
  /\ said' = [by |-> "sync", pass |-> /\ Loads(source) /\ Completes(tree, source.text)
                                     /\ Agrees(tree', source.text)]
  /\ UNCHANGED <<source, out, packager, changes>>

\* A file is written in place.  What dies inside a step leaves it cut short: a
\* cut YAML document may parse all the same, without what came last.  The last
\* of metadata is the history.
SyncDies ==
  /\ Loads(source) /\ changes < MaxChanges
  /\ \E n \in 0..(IF Completes(tree, source.text) THEN Len(Plan) ELSE Reached(tree, source.text)) :
       LET before == After(tree, source.text, n)
           last   == Plan[n]
       IN  \/ tree' = before
           \/ /\ n > 0 /\ before[last] # None
              /\ tree' = [before EXCEPT ![last] = Torn]
           \/ /\ n > 0 /\ last[1] = "metadata" /\ last \notin Foreign
              /\ \E history \in {"none", "bad"} :
                   \/ tree' = [before EXCEPT ![last].own.history = history]
                   \/ tree' = [before EXCEPT ![last] =
                                 [gen |-> Odd, own |-> [fields |-> FALSE, history |-> history]]]
  /\ changes' = changes + 1
  /\ said' = NothingSaid
  /\ UNCHANGED <<source, out, packager>>

Check ==
  /\ said' = [by |-> "check", pass |-> CheckPasses(source, tree)]
  /\ UNCHANGED <<source, tree, out, packager, changes>>

Validate ==
  /\ said' = [by |-> "validate", pass |-> Validates(source, tree)]
  /\ UNCHANGED <<source, tree, out, packager, changes>>

\* --recover-alert-export: refused before anything is written, or the source is
\* written in place, loaded and checked.
Recover ==
  /\ changes < MaxChanges
  /\ \E export \in Exports :
       /\ Recoverable(export)
       /\ source' = [flaw |-> "none", text |-> RecoveredText(export)]
  /\ said' = [by |-> "recover", pass |-> Agrees(tree, source'.text)]
  /\ changes' = changes + 1
  /\ UNCHANGED <<tree, out, packager>>

RecoverDies ==
  /\ changes < MaxChanges
  /\ \E export \in Exports : Recoverable(export)
  /\ source' = [source EXCEPT !.flaw = "torn"]
  /\ said' = NothingSaid
  /\ changes' = changes + 1
  /\ UNCHANGED <<tree, out, packager>>

-----------------------------------------------------------------------------
(* Packaging. *)

\* The validation may be skipped.  It runs first; the files are read again
\* afterwards.
PackageStart(skip) ==
  /\ packager = Idle
  /\ skip \/ Validates(source, tree)
  /\ packager' = [Idle EXCEPT !.at = "build"]
  /\ UNCHANGED <<source, tree, out, said, changes>>

\* _authoritative_rules.
Authoritative(src, files) ==
  /\ Loads(src)
  /\ \A r \in Rules : files[<<"elastic", r>>] = Part("elastic", src.text[r])
  /\ Present(files, "metadata") = Rules /\ Readable(files, "metadata")
  /\ \A r \in Rules : files[<<"metadata", r>>].gen # Odd

PackageRefuses ==
  /\ packager.at = "build" /\ ~Authoritative(source, tree)
  /\ packager' = Idle
  /\ UNCHANGED <<source, tree, out, said, changes>>

\* Fault: a manifest that is there is kept.
WriteNdjsonOnly ==
  /\ packager.at = "build" /\ Authoritative(source, tree)
  /\ out' = [out EXCEPT !.ndjson = source.text]
  /\ packager' = [at |-> IF out.manifest = None THEN "manifest" ELSE "sums", text |-> source.text]
  /\ UNCHANGED <<source, tree, said, changes>>

\* Each file is replaced at once, in this order.
WriteNdjson ==
  /\ packager.at = "build" /\ Authoritative(source, tree)
  /\ out' = [out EXCEPT !.ndjson = source.text]
  /\ packager' = [at |-> "manifest", text |-> source.text]
  /\ UNCHANGED <<source, tree, said, changes>>

WriteManifest ==
  /\ packager.at = "manifest"
  /\ out' = [out EXCEPT !.manifest = [describes |-> packager.text]]
  /\ packager' = [packager EXCEPT !.at = "sums"]
  /\ UNCHANGED <<source, tree, said, changes>>

\* The checksums are of the files as they are on disk.
WriteSums ==
  /\ packager.at = "sums"
  /\ out' = [out EXCEPT !.sums = [ndjson |-> out.ndjson, manifest |-> out.manifest]]
  /\ packager' = Idle
  /\ UNCHANGED <<source, tree, said, changes>>

PackagerDies ==
  /\ packager.at # "idle" /\ changes < MaxChanges
  /\ packager' = Idle
  /\ changes' = changes + 1
  /\ UNCHANGED <<source, tree, out, said>>

-----------------------------------------------------------------------------
(* People. *)

EditSource ==
  /\ changes < MaxChanges
  /\ \/ \E r \in Rules : \E t \in OtherTexts[r] :
          source' = [flaw |-> "none", text |-> [source.text EXCEPT ![r] = t]]
     \/ \E flaw \in {"ids", "enabled"} : source' = [source EXCEPT !.flaw = flaw]
  /\ changes' = changes + 1 /\ said' = NothingSaid
  /\ UNCHANGED <<tree, out, packager>>

\* A file of the tree is deleted, or changed into something that still parses.
Edited(path, found) ==
  CASE path = Deferred -> {"damaged"}
    [] path \in Contract -> { [found EXCEPT ![f] = t] : f \in DOMAIN CustomTypes, t \in {None, Odd} }
    [] path[1] = "evasion" /\ path \notin Foreign -> {None, <<>>, IF found \in {None, <<>>} THEN <<>> ELSE Tail(found)}
    [] path[1] = "metadata" /\ found \notin {None, Torn} ->
         {None, [found EXCEPT !.gen = Odd], [found EXCEPT !.own.fields = FALSE]}
           \cup { [found EXCEPT !.own.history = h] : h \in {"cut", "none", "bad"} }
    [] path[1] = "metadata" /\ found \in {None, Torn} -> {None, [gen |-> Odd, own |-> Whole]}
    [] OTHER -> {None, Odd}

EditFile ==
  /\ changes < MaxChanges
  /\ \E p \in Paths : \E content \in Edited(p, tree[p]) :
       /\ content # tree[p]
       /\ tree' = [tree EXCEPT ![p] = content]
  /\ changes' = changes + 1 /\ said' = NothingSaid
  /\ UNCHANGED <<source, out, packager>>

Next ==
  \/ Sync \/ SyncDies \/ Check \/ Validate
  \/ Recover \/ RecoverDies
  \/ \E skip \in BOOLEAN : PackageStart(skip)
  \/ PackageRefuses \/ WriteNdjson \/ WriteManifest \/ WriteSums \/ PackagerDies
  \/ EditSource \/ EditFile

Spec == Init /\ [][Next]_vars

-----------------------------------------------------------------------------
(* Properties. *)

\* What the source says of every path but the evasion files and what metadata
\* holds of its own.  A conformance file may be missing.
DerivedIsExact(files, text) ==
  /\ \A p \in Foreign : files[p] = None
  /\ \A p \in Singles : files[p] = "pack"
  /\ \A r \in Rules :
       /\ files[<<"metadata", r>>] \in { Metadata(text[r], own) : own \in Owns }
       /\ files[<<"conformance", r>>] \in {None, Part("conformance", text[r])}
       /\ \A g \in {"elastic", "playbook", "malicious", "benign", "atomic"} :
            files[<<g, r>>] = Part(g, text[r])

\* A synchronization or check that passes has left or found a tree derived from
\* the source to the last file, whatever edits and dead runs went before; the
\* check after a recovery vouches for the Elastic definitions
\* (reconcile_rules.py: check, check_reproducible_sync).
PassIsExact ==
  said.pass =>
    /\ Present(tree, "elastic") = Rules
    /\ \A r \in Rules : tree[<<"elastic", r>>] = Part("elastic", source.text[r])
    /\ said.by # "recover" => DerivedIsExact(tree, source.text)

\* A validation that passes means a complete pack, whatever runs died before:
\* nothing missing or cut short, metadata with every field of its own that no
\* synchronization derives and some history (one that was cut off may have been
\* begun anew: that loss no tool sees), corpora with the classes or the number of
\* variants their tier asks for, rules that fire on their malicious fixture and
\* stay silent on the benign one, and that ask for fields as the gateway emits
\* them and, if catalogued, Elastic maps them (validate.py).
ValidatedIsComplete ==
  said = [by |-> "validate", pass |-> TRUE] =>
    /\ \A p \in Groups \X Rules : tree[p] \notin {None, Torn, Odd}
    /\ \A r \in Rules :
         /\ tree[<<"metadata", r>>].own \in [fields : {TRUE}, history : {"full", "cut"}]
         /\ r \in T3 => Range(tree[<<"evasion", r>>]) = RequiredClasses[r]
         /\ r \notin T3 => Len(tree[<<"evasion", r>>]) >= MinVariants
         /\ source.text[r].tags = "canonical" /\ source.text[r].lacks = "nothing"
         /\ LET text == source.text[r]
                fires(g) == Fires(Logic(text), FixtureEvents(r, g, text.threshold))
            IN  fires("malicious") /\ ~fires("benign")
         /\ r \notin Native =>
              \A f \in FieldsAsked(source.text[r].query) \cap DOMAIN CustomTypes :
                LET type(group) == tree[<<group, "gateway">>][f]
                IN  /\ type("schema") = CustomTypes[f]
                    /\ type("catalog") # None => type("mapping") = CustomTypes[f]

\* A synchronization that fails has one of these reasons: a source that does not
\* load or lacks what a file is made from, a damaged catalogue, metadata that is
\* missing, cut short or without a list for its history, a conformance file cut
\* short.  No other file that was deleted or edited and no other trace of a run
\* that died stops it or the check after it, and neither does a missing evasion
\* or conformance file, which it does not restore (reconcile_rules.py: sync).
SyncRepairs ==
  said = [by |-> "sync", pass |-> FALSE] =>
    \/ ~Loads(source)
    \/ tree[Deferred] # "whole"
    \/ \E r \in Rules :
         LET metadata == tree[<<"metadata", r>>]
         IN  \/ source.text[r].lacks # "nothing" \/ Countless(r, source.text[r])
             \/ metadata \in {None, Torn}
             \/ metadata \notin {None, Torn} /\ metadata.own.history = "bad"
             \/ tree[<<"conformance", r>>] = Torn

\* Files that agree with the shipped checksums belong together: the manifest
\* describes the rules beside it, whatever build died between two writes
\* (package_rules.py: build).
VerifiedPackageIsWhole ==
  out.sums # None /\ out.sums = [ndjson |-> out.ndjson, manifest |-> out.manifest] =>
    out.manifest = [describes |-> out.ndjson]
=============================================================================
