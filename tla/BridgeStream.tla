---------------------------- MODULE BridgeStream ----------------------------
(***************************************************************************)
(* The records the Gradle bridge writes and the model that is assembled    *)
(* from them (dexdeck-protocol, bridge.rs: BridgeStreamValidator;          *)
(* dexdeck-gradle, assembler.rs: ModelAssembler).  A record is             *)
(* [type, module, name, version]; the completion also has the count of the *)
(* records before it and their hash, which is their sequence here.         *)
(***************************************************************************)
EXTENDS Naturals, Sequences, FiniteSets, SequencesExt

Version == 1   \* BRIDGE_PROTOCOL_VERSION

Components == {"dimension", "flavor", "variant"}

Record(type, module, name) ==
  [type |-> type, module |-> module, name |-> name, version |-> Version]
Complete(records) ==
  [type |-> "complete", module |-> "", name |-> "", version |-> Version,
   count |-> Len(records), hash |-> records]

Before(stream, i) == SubSeq(stream, 1, i - 1)
Occurs(type, stream) == \E i \in DOMAIN stream : stream[i].type = type
Has(stream, r) == \E i \in DOMAIN stream :
                    /\ stream[i].type = r.type
                    /\ stream[i].module = r.module /\ stream[i].name = r.name

\* BridgeStreamValidator::accept, of the record i.
IsValid(stream, i) ==
  LET r == stream[i] IN
    /\ r.version = Version
    /\ ~Occurs("complete", Before(stream, i))
    /\ r.type = "complete" => r.count = i - 1

\* ModelAssembler::accept_record: the build first, a module before its parts, and
\* nothing twice.
IsAssembled(stream, i) ==
  LET r == stream[i]
      before == Before(stream, i)
  IN /\ r.type # "error"
     /\ r.type = "build" =>
          ~\E other \in {"build", "module", "task", "included"} : Occurs(other, before)
     /\ r.type \in {"included", "module", "task"} => Occurs("build", before) /\ ~Has(before, r)
     /\ r.type \in Components => Has(before, Record("module", r.module, "")) /\ ~Has(before, r)

\* Variant of HashMatches: the count is enough.
HashIsNotCompared(stream) == Last(stream).type = "complete"

\* finish: the completion's hash is that of the records before it.
HashMatches(stream) == Last(stream).hash = Front(stream)

\* The stream yields a model: every record is accepted, and finish finds the
\* completion, the build and the hash it expects.
Assembles(stream) ==
  /\ \A i \in DOMAIN stream : IsValid(stream, i) /\ IsAssembled(stream, i)
  /\ Occurs("complete", stream) /\ Occurs("build", stream)
  /\ HashMatches(stream)

\* What the model holds, in the order of the names and not of the records.
Assembled(stream) ==
  {[type |-> r.type, module |-> r.module, name |-> r.name] :
     r \in {stream[i] : i \in {j \in DOMAIN stream : stream[j].type # "complete"}}}
=============================================================================
