---------------------- MODULE ProjectModelServiceProofs ----------------------
(***************************************************************************)
(* What ProjectModelService guarantees for any roots, calls, faults and    *)
(* bounds.                                                                 *)
(*                                                                         *)
(* That late answers do no harm rests on one counter: calls in flight have *)
(* generations of their own that the counter has reached                   *)
(* (GenerationsDiffer), so that of all of them at most one can commit.  An *)
(* answer that can still commit is not older than anything it would        *)
(* replace or contradict (AnswersAreRecent), and what is published is not  *)
(* newer than what is stored beside it (StoredIsRecent).                   *)
(***************************************************************************)
EXTENDS ProjectModelService, TLAPS

Owing(c)    == calls[c].phase \in {"running", "evaluated", "listed", "hashed", "failing"}
Answered(c) == calls[c].phase \in {"evaluated", "listed", "hashed"}

\* Nothing was evaluated or noticed that the files have not been.
NothingFromTheFuture ==
  \A r \in Roots :
    /\ noticed[r] <= disk[r]
    /\ added[r] \subseteq Edits(disk[r])
    /\ bundle[r].evaluated <= disk[r]
    /\ state.model.root = r => state.model.version <= disk[r]

CallsKnowTheirRoot ==
  \A c \in Calls :
    /\ calls[c].phase # "idle" => calls[c].root \in Roots
    /\ Answered(c) => calls[c].evaluated <= disk[calls[c].root]

GenerationsDiffer ==
  \A c \in Calls : Owing(c) =>
    /\ calls[c].generation # 0 /\ calls[c].generation <= generation
    /\ \A d \in Calls : Owing(d) /\ c # d => calls[c].generation # calls[d].generation

AnswersAreRecent ==
  \A c \in Calls : Answered(c) /\ ~ Superseded(c) =>
    /\ noticed[calls[c].root] <= calls[c].evaluated
    /\ bundle[calls[c].root].kind = "Loaded"
         => bundle[calls[c].root].evaluated <= calls[c].evaluated
    /\ state.model.root = calls[c].root => state.model.version <= calls[c].evaluated

StoredIsRecent ==
  \A r \in Roots : state.model.root = r /\ bundle[r].kind = "Loaded"
                     => state.model.version <= bundle[r].evaluated

\* An open took the lock while there was room, and keeps others out.
OpenHasRoom == opening # NoRoot => RoomForGeneration

\* It lists the inputs as they were then, and nobody invalidates meanwhile.
ListingIsRecent == opening # NoRoot => /\ noticed[opening] <= listing.version
                                       /\ listing.version <= disk[opening]

ServiceInv == /\ TypeOK
              /\ OpenHasRoom
              /\ ListingIsRecent
              /\ NothingFromTheFuture
              /\ CallsKnowTheirRoot
              /\ GenerationsDiffer
              /\ AnswersAreRecent
              /\ StoredIsRecent

CallRecord == [phase : Phase, root : Roots \cup {NoRoot}, generation : 0 .. MaxGeneration,
               evaluated : Version, listed : Version, inputs : Hashes]

-----------------------------------------------------------------------------
\* A version that holds all edits of another is at least as new.
LEMMA EditsGrow ==
  ASSUME NEW v \in Nat, NEW w \in Nat
  PROVE  /\ Edits(v) \subseteq Edits(w) <=> v <= w
         /\ Edits(v) = Edits(w) <=> v = w
  <1>1. ASSUME NEW a \in Nat, NEW b \in Nat, Edits(a) \subseteq Edits(b) PROVE a <= b
    <2>1. CASE a = 0
      BY <2>1
    <2>2. CASE a # 0
      <3>1. a \in Edits(a)
        BY <2>2 DEF Edits
      <3> QED
        BY <1>1, <3>1 DEF Edits
    <2> QED
      BY <2>1, <2>2
  <1>2. ASSUME NEW a \in Nat, NEW b \in Nat, a <= b PROVE Edits(a) \subseteq Edits(b)
    BY <1>2 DEF Edits
  <1> QED
    BY <1>1, <1>2

\* What a fingerprint shows: everything up to the listing, and nothing but edits.
LEMMA FingerprintShows ==
  ASSUME NEW r \in Roots, disk[r] \in Version, NEW v \in Version, v <= disk[r]
  PROVE  /\ Fingerprint(r, v) \in Hashes
         /\ Edits(v) \subseteq Fingerprint(r, v)
         /\ v = disk[r] => Fingerprint(r, v) = Edits(disk[r])
  <1>1. disk[r] \in Nat /\ MaxEdits \in Nat /\ disk[r] <= MaxEdits /\ v \in Nat
    BY ServiceAssumption DEF Version
  <1>2. Edits(disk[r]) \subseteq Edits(MaxEdits) /\ Edits(v) \subseteq Edits(disk[r])
    BY <1>1, EditsGrow
  <1>3. \A e \in Edits(v) : e <= v
    BY <1>1 DEF Edits
  <1> QED
    BY <1>2, <1>3 DEF Fingerprint, Hashes

-----------------------------------------------------------------------------
\* Nothing is open and no call is in flight.
LEMMA InitInv == Init => ServiceInv
  <1> SUFFICES ASSUME Init PROVE ServiceInv
    OBVIOUS
  <1>1. 0 \in Version /\ 0 \in 0 .. MaxGeneration
    BY ServiceAssumption DEF Version
  <1>2. TypeOK
    <2>1. bundle \in [Roots -> Bundle]
      <3>1. {Missing, Stored(0, Edits(0))} \subseteq Bundle
        BY <1>1, ServiceAssumption, EditsGrow DEF Bundle, Hashes
      <3> QED
        BY <3>1 DEF Init
    <2>2. calls \in [Calls -> CallRecord]
      BY <1>1 DEF Init, CallRecord, IdleCall, Phase, Hashes
    <2>3. /\ disk \in [Roots -> Version] /\ noticed \in [Roots -> Version]
          /\ added \in [Roots -> Hashes]
          /\ listing \in [version : Version, watched : BOOLEAN]
      BY <1>1 DEF Init, Hashes, NoListing
    <2>4. /\ state \in [model : Model \cup {NoModel},
                        freshness : {"Current", "Stale", "Refreshing", "Provisional", "Degraded"},
                        generation : {generation}]
          /\ state.freshness \in {"Current", "Stale"} => state.model # NoModel
      BY DEF Init
    <2>5. /\ watched \in [root : Roots \cup {NoRoot}, pending : BOOLEAN]
          /\ polled \in BOOLEAN /\ generation \in 0 .. MaxGeneration
          /\ opened \in Roots \cup {NoRoot} /\ opening \in Roots \cup {NoRoot}
          /\ opens \in 0 .. MaxOpens /\ missed \subseteq {"edit", "refresh"}
      <3>1. watched \in [root : Roots \cup {NoRoot}, pending : BOOLEAN]
        BY Zenon DEF Init
      <3>2. polled \in BOOLEAN
        BY DEF Init
      <3>3. generation \in 0 .. MaxGeneration /\ opens \in 0 .. MaxOpens
        BY ServiceAssumption DEF Init
      <3>4. opened \in Roots \cup {NoRoot} /\ opening \in Roots \cup {NoRoot}
        BY DEF Init
      <3>5. missed \subseteq {"edit", "refresh"}
        BY DEF Init
      <3> QED
        BY <3>1, <3>2, <3>3, <3>4, <3>5
    <2> QED
      BY <2>1, <2>2, <2>3, <2>4, <2>5 DEF TypeOK, CallRecord
  <1>3. NothingFromTheFuture /\ StoredIsRecent
    BY <1>1, ServiceAssumption
    DEF Init, NothingFromTheFuture, StoredIsRecent, Version, Missing, Stored, NoModel
  <1>4. CallsKnowTheirRoot /\ GenerationsDiffer /\ AnswersAreRecent
    BY DEF Init, CallsKnowTheirRoot, GenerationsDiffer, AnswersAreRecent, Owing, Answered,
           IdleCall
  <1>5. OpenHasRoom /\ ListingIsRecent
    BY DEF Init, OpenHasRoom, ListingIsRecent
  <1> QED
    BY <1>2, <1>3, <1>4, <1>5 DEF ServiceInv

\* What an edit does, whether it changes a file or brings one.
LEMMA EditFacts ==
  ASSUME ServiceInv, NEW r \in Roots, Edit(r) \/ AddInput(r)
  PROVE  /\ disk' \in [Roots -> Version] /\ added' \in [Roots -> Hashes]
         /\ disk'[r] = disk[r] + 1 /\ \A q \in Roots : q # r => disk'[q] = disk[q]
         /\ \A q \in Roots : disk[q] \in Nat /\ disk'[q] \in Nat /\ disk[q] <= disk'[q]
         /\ \A q \in Roots : added'[q] \subseteq Edits(disk'[q])
         /\ \A q \in Roots : \/ added'[q] = added[q]
                             \/ q = r /\ AddInput(r) /\ added'[q] = added[q] \cup {disk'[q]}
         /\ \/ watched' = watched /\ AddInput(r) /\ "apart" \in UnseenEdits
            \/ Raises(r)
         /\ watched' \in [root : Roots \cup {NoRoot}, pending : BOOLEAN]
         /\ missed' \subseteq {"edit", "refresh"}
         /\ UNCHANGED <<bundle, polled, generation, opened, state, opening, listing, opens, calls,
                        noticed>>
  <1>1. /\ disk \in [Roots -> Version] /\ added \in [Roots -> Hashes]
        /\ watched \in [root : Roots \cup {NoRoot}, pending : BOOLEAN]
        /\ \A q \in Roots : added[q] \subseteq Edits(disk[q])
    BY DEF ServiceInv, TypeOK, NothingFromTheFuture
  <1>2. disk' = [disk EXCEPT ![r] = @ + 1] /\ disk[r] < MaxEdits
    BY DEF Edit, AddInput, NewVersion
  <1>3. \/ added' = added
        \/ AddInput(r) /\ added' = [added EXCEPT ![r] = @ \cup {disk[r] + 1}]
    BY DEF Edit, AddInput
  <1>4. /\ disk' \in [Roots -> Version]
        /\ disk'[r] = disk[r] + 1 /\ \A q \in Roots : q # r => disk'[q] = disk[q]
        /\ \A q \in Roots : disk[q] \in Nat /\ disk'[q] \in Nat /\ disk[q] <= disk'[q]
    BY <1>1, <1>2, ServiceAssumption DEF Version
  <1>5. \A q \in Roots : /\ added'[q] \subseteq Edits(disk'[q])
                         /\ \/ added'[q] = added[q]
                            \/ q = r /\ AddInput(r) /\ added'[q] = added[q] \cup {disk'[q]}
    <2>1. \A q \in Roots : Edits(disk[q]) \subseteq Edits(disk'[q])
      BY <1>4, EditsGrow
    <2>2. disk'[r] \in Edits(disk'[r])
      BY <1>4 DEF Edits
    <2>3. CASE added' = added
      BY <1>1, <2>1, <2>3
    <2>4. CASE AddInput(r) /\ added' = [added EXCEPT ![r] = @ \cup {disk[r] + 1}]
      <3>1. /\ added'[r] = added[r] \cup {disk'[r]}
            /\ \A q \in Roots : q # r => added'[q] = added[q]
        BY <1>1, <1>4, <2>4
      <3> QED
        BY <1>1, <2>1, <2>2, <2>4, <3>1
    <2> QED
      BY <1>3, <2>3, <2>4
  <1>6. added' \in [Roots -> Hashes]
    <2>1. \A q \in Roots : added'[q] \in Hashes
      BY <1>4, <1>5, EditsGrow, ServiceAssumption DEF Hashes, Version
    <2>2. added' \in [Roots -> {added'[q] : q \in Roots}]
      BY <1>1, <1>3
    <2> QED
      BY <2>1, <2>2
  <1>7. watched' \in [root : Roots \cup {NoRoot}, pending : BOOLEAN]
    <2>1. CASE watched' = watched
      BY <1>1, <2>1
    <2>2. CASE Raises(r)
      BY <1>1, <2>2, Zenon DEF Raises
    <2> QED
      BY <2>1, <2>2 DEF Edit, AddInput
  <1>8. missed' \subseteq {"edit", "refresh"}
    <2>1. missed' = missed \/ missed' = missed \cup {"edit"}
      BY DEF Edit, AddInput, Miss
    <2> QED
      BY <2>1 DEF ServiceInv, TypeOK
  <1> QED
    BY <1>4, <1>5, <1>6, <1>7, <1>8 DEF Edit, AddInput, NewVersion

\* An edit makes the files newer; a damaged bundle evaluates to nothing.
LEMMA WorldInv ==
  ASSUME ServiceInv, NEW r \in Roots, Edit(r) \/ AddInput(r) \/ DamageBundle(r)
  PROVE  ServiceInv'
  <1>1. CASE Edit(r) \/ AddInput(r)
    <2>1. TypeOK'
      BY <1>1, EditFacts DEF ServiceInv, TypeOK
    <2>2. \A q \in Roots : disk[q] \in Nat /\ disk'[q] \in Nat /\ disk[q] <= disk'[q]
      BY <1>1, EditFacts
    <2>3. /\ \A q \in Roots : added'[q] \subseteq Edits(disk'[q])
          /\ UNCHANGED <<bundle, generation, state, opening, listing, calls, noticed>>
      BY <1>1, EditFacts
    <2>4. NothingFromTheFuture'
      BY <2>2, <2>3, ServiceAssumption
      DEF ServiceInv, TypeOK, NothingFromTheFuture, Version, Bundle, Missing, Corrupt,
          Stored, Model, NoModel
    <2>5. CallsKnowTheirRoot' /\ ListingIsRecent'
      BY <2>2, <2>3, ServiceAssumption
      DEF ServiceInv, TypeOK, CallsKnowTheirRoot, ListingIsRecent, Answered, Version
    <2>6. (OpenHasRoom /\ GenerationsDiffer /\ AnswersAreRecent /\ StoredIsRecent)'
      BY <2>3 DEF ServiceInv, OpenHasRoom, RoomForGeneration, GenerationsDiffer,
                  AnswersAreRecent, StoredIsRecent, Owing, Answered, Superseded
    <2> QED
      BY <2>1, <2>4, <2>5, <2>6 DEF ServiceInv
  <1>2. CASE DamageBundle(r)
    <2>1. TypeOK'
      BY <1>2 DEF DamageBundle, ServiceInv, TypeOK, Bundle
    <2>2. NothingFromTheFuture'
      BY <1>2, ServiceAssumption
      DEF DamageBundle, ServiceInv, TypeOK, NothingFromTheFuture, Version, Corrupt
    <2>3. (OpenHasRoom /\ ListingIsRecent /\ CallsKnowTheirRoot /\ GenerationsDiffer)'
      BY <1>2 DEF DamageBundle, ServiceInv, OpenHasRoom, RoomForGeneration, ListingIsRecent,
                  CallsKnowTheirRoot, GenerationsDiffer, Owing, Answered
    <2>4. (AnswersAreRecent /\ StoredIsRecent)'
      BY <1>2 DEF DamageBundle, ServiceInv, TypeOK, AnswersAreRecent, StoredIsRecent, Answered,
                  Superseded, Corrupt
    <2> QED
      BY <2>1, <2>2, <2>3, <2>4 DEF ServiceInv
  <1> QED
    BY <1>1, <1>2

-----------------------------------------------------------------------------
\* open lists, touches the watcher, and the bundle only to set it aside.
LEMMA OpenInv ==
  ASSUME ServiceInv, (\E r \in Roots : OpenBegins(r)) \/ OpenWatches \/ OpenFails
  PROVE  ServiceInv'
  <1>1. CASE \E r \in Roots : OpenBegins(r)
    <2>1. PICK r \in Roots : OpenBegins(r)
      BY <1>1
    <2>2. TypeOK'
      <3>1. listing' \in [version : Version, watched : BOOLEAN]
        BY <2>1 DEF OpenBegins, ServiceInv, TypeOK
      <3>2. opens' \in 0 .. MaxOpens
        BY <2>1, ServiceAssumption DEF OpenBegins, ServiceInv, TypeOK
      <3> QED
        BY <2>1, <3>1, <3>2 DEF OpenBegins, ServiceInv, TypeOK
    <2>3. ListingIsRecent'
      <3>1. noticed[r] <= disk[r] /\ disk[r] <= disk[r]
        BY ServiceAssumption DEF ServiceInv, TypeOK, NothingFromTheFuture, Version
      <3> QED
        BY <2>1, <3>1 DEF OpenBegins, ListingIsRecent
    <2> QED
      BY <2>1, <2>2, <2>3
      DEF OpenBegins, ServiceInv, OpenHasRoom, RoomForGeneration, NothingFromTheFuture,
          CallsKnowTheirRoot, GenerationsDiffer,
          AnswersAreRecent, StoredIsRecent, Owing, Answered, Superseded
  <1>2. CASE OpenWatches
    <2>1. watched' \in [root : Roots \cup {NoRoot}, pending : BOOLEAN]
      <3>1. opening \in Roots /\ watched' = [root |-> opening, pending |-> FALSE]
        BY <1>2 DEF OpenWatches, WatchAnew, ServiceInv, TypeOK
      <3> QED
        BY <3>1, Zenon
    <2>2. /\ listing' \in [version : Version, watched : BOOLEAN]
          /\ listing'.version = listing.version
      BY <1>2 DEF OpenWatches, ServiceInv, TypeOK
    <2>3. TypeOK' /\ ListingIsRecent'
      BY <1>2, <2>1, <2>2 DEF OpenWatches, ServiceInv, TypeOK, ListingIsRecent
    <2> QED
      BY <1>2, <2>3
      DEF OpenWatches, ServiceInv, OpenHasRoom, RoomForGeneration, NothingFromTheFuture,
          CallsKnowTheirRoot, GenerationsDiffer,
          AnswersAreRecent, StoredIsRecent, Owing, Answered, Superseded
  <1>3. CASE OpenFails
    <2>1. bundle' = bundle \/ bundle' = [bundle EXCEPT ![opening] = Missing]
      BY <1>3 DEF OpenFails
    <2>2. \A r \in Roots : bundle'[r] \in {bundle[r], Missing}
      BY <2>1 DEF ServiceInv, TypeOK
    <2>3. TypeOK'
      <3>1. Missing \in Bundle
        BY DEF Bundle, Missing
      <3>2. bundle' \in [Roots -> Bundle]
        BY <2>1, <3>1 DEF ServiceInv, TypeOK
      <3>3. listing' \in [version : Version, watched : BOOLEAN]
        BY <1>3, ServiceAssumption DEF OpenFails, NoListing, Version
      <3>4. missed' \subseteq {"edit", "refresh"}
        BY <1>3 DEF OpenFails, Miss, ServiceInv, TypeOK
      <3> QED
        BY <1>3, <3>2, <3>3, <3>4 DEF OpenFails, ServiceInv, TypeOK
    <2>4. NothingFromTheFuture'
      BY <1>3, <2>2, ServiceAssumption
      DEF OpenFails, ServiceInv, TypeOK, NothingFromTheFuture, Version, Missing
    <2>5. (OpenHasRoom /\ ListingIsRecent /\ CallsKnowTheirRoot /\ GenerationsDiffer)'
      BY <1>3 DEF OpenFails, ServiceInv, OpenHasRoom, ListingIsRecent, CallsKnowTheirRoot,
                  GenerationsDiffer, Owing, Answered
    <2>6. (AnswersAreRecent /\ StoredIsRecent)'
      BY <1>3, <2>2 DEF OpenFails, ServiceInv, CallsKnowTheirRoot, AnswersAreRecent,
                        StoredIsRecent, Answered, Superseded, Missing
    <2> QED
      BY <2>3, <2>4, <2>5, <2>6 DEF ServiceInv
  <1> QED
    BY <1>1, <1>2, <1>3

\* The record a bundle is.
LEMMA BundleFields ==
  ASSUME NEW b \in Bundle
  PROVE  /\ b.kind \in {"Missing", "Corrupt", "Loaded"}
         /\ b.evaluated \in Version /\ b.inputs \in Hashes
  BY ServiceAssumption DEF Bundle, Missing, Corrupt, Stored, Version, Hashes

\* open publishes what the bundle holds, under a generation no call has.
LEMMA OpenPublishesInv ==
  ASSUME ServiceInv, OpenPublishes
  PROVE  ServiceInv'
  <1>1. opening \in Roots /\ bundle[opening] \in Bundle
    BY DEF OpenPublishes, ServiceInv, TypeOK
  <1>2. state'.model = CachedModel(opening) /\ state'.freshness = CachedFreshness(opening)
    BY DEF OpenPublishes
  <1>3. \A r \in Roots : state'.model.root = r
          => /\ r = opening /\ bundle[r].kind = "Loaded"
             /\ state'.model.version = bundle[r].evaluated
    BY <1>2, ServiceAssumption DEF CachedModel, NoModel
  <1>4. \A c \in Calls : Owing(c) => calls[c].generation < generation'
    BY ServiceAssumption
    DEF OpenPublishes, ServiceInv, TypeOK, GenerationsDiffer
  <1>5. TypeOK'
    <2>1. generation' \in 0 .. MaxGeneration /\ generation' = generation + 1
      BY ServiceAssumption
      DEF OpenPublishes, ServiceInv, TypeOK, OpenHasRoom, RoomForGeneration
    <2>2. CachedModel(opening) \in Model \cup {NoModel}
      BY <1>1, BundleFields DEF CachedModel, Model
    <2>3. CachedFreshness(opening) \in {"Current", "Stale", "Provisional"}
      BY DEF CachedFreshness
    <2>4. CachedFreshness(opening) \in {"Current", "Stale"} => CachedModel(opening) # NoModel
      BY <1>1, ServiceAssumption DEF CachedFreshness, CachedModel, NoModel
    <2>5. state' \in [model : Model \cup {NoModel},
                      freshness : {"Current", "Stale", "Refreshing", "Provisional", "Degraded"},
                      generation : {generation'}]
      BY <2>1, <2>2, <2>3 DEF OpenPublishes
    <2>6. listing' \in [version : Version, watched : BOOLEAN]
      BY ServiceAssumption DEF OpenPublishes, NoListing, Version
    <2> QED
      BY <1>1, <1>2, <2>1, <2>4, <2>5, <2>2, <2>6 DEF OpenPublishes, ServiceInv, TypeOK
  <1>6. (NothingFromTheFuture /\ StoredIsRecent)'
    <2>1. NothingFromTheFuture'
      BY <1>1, <1>3 DEF OpenPublishes, ServiceInv, NothingFromTheFuture
    <2>2. StoredIsRecent'
      BY <1>1, <1>3, BundleFields, ServiceAssumption
      DEF OpenPublishes, ServiceInv, StoredIsRecent, Version
    <2> QED
      BY <2>1, <2>2
  <1>7. (OpenHasRoom /\ ListingIsRecent /\ CallsKnowTheirRoot)'
    BY DEF OpenPublishes, ServiceInv, OpenHasRoom, ListingIsRecent, CallsKnowTheirRoot, Answered
  <1>8. (GenerationsDiffer /\ AnswersAreRecent)'
    <2>1. \A c \in Calls : Answered(c) => Owing(c)
      BY DEF Answered, Owing
    <2>2. \A c \in Calls : calls[c].generation \in Nat /\ generation' \in Nat
      BY <1>5, ServiceAssumption DEF ServiceInv, TypeOK
    <2> QED
      BY <1>4, <2>1, <2>2
      DEF OpenPublishes, ServiceInv, GenerationsDiffer, AnswersAreRecent, Owing, Answered,
          Superseded
  <1> QED
    BY <1>5, <1>6, <1>7, <1>8 DEF ServiceInv

-----------------------------------------------------------------------------
\* A call copies the open project; it owes nothing yet.
LEMMA SnapshotInv ==
  ASSUME ServiceInv, NEW c \in Calls, SnapshotOpen(c)
  PROVE  ServiceInv'
  <1>1. opened \in Roots
    BY DEF SnapshotOpen, ServiceInv, TypeOK
  <1>2. /\ calls' \in [Calls -> CallRecord]
        /\ calls'[c] = [calls[c] EXCEPT !.phase = "snapshot", !.root = opened]
        /\ \A d \in Calls : d # c => calls'[d] = calls[d]
    <2>1. calls \in [Calls -> CallRecord] /\ opened \in Roots \cup {NoRoot}
      BY DEF ServiceInv, TypeOK, CallRecord
    <2>2. calls' = [calls EXCEPT ![c] = [calls[c] EXCEPT !.phase = "snapshot", !.root = opened]]
      BY <2>1 DEF SnapshotOpen, CallRecord
    <2>3. [calls[c] EXCEPT !.phase = "snapshot", !.root = opened] \in CallRecord
      BY <2>1 DEF CallRecord, Phase
    <2> QED
      BY <2>1, <2>2, <2>3
  <1>3. calls'[c].phase = "snapshot" /\ calls'[c].root = opened
    BY <1>2 DEF ServiceInv, TypeOK
  <1>4. TypeOK'
    BY <1>2 DEF SnapshotOpen, ServiceInv, TypeOK, CallRecord
  <1>5. \A d \in Calls : Owing(d)' \/ Answered(d)' => d # c
    BY <1>3 DEF Owing, Answered
  <1> QED
    BY <1>1, <1>2, <1>3, <1>4, <1>5
    DEF SnapshotOpen, ServiceInv, OpenHasRoom, ListingIsRecent, RoomForGeneration,
        NothingFromTheFuture, CallsKnowTheirRoot, GenerationsDiffer, AnswersAreRecent,
        StoredIsRecent, Owing, Answered, Superseded

\* A call takes a generation no other call has.
LEMMA BeginInv ==
  ASSUME ServiceInv, NEW c \in Calls, BeginRefresh(c)
  PROVE  ServiceInv'
  <1>1. generation' = generation + 1 /\ generation' \in 0 .. MaxGeneration
    BY ServiceAssumption DEF BeginRefresh, RoomForGeneration, ServiceInv, TypeOK
  <1>2. /\ calls' \in [Calls -> CallRecord]
        /\ calls'[c] = [calls[c] EXCEPT !.phase = "running", !.generation = generation']
        /\ \A d \in Calls : d # c => calls'[d] = calls[d]
    <2>1. calls \in [Calls -> CallRecord]
      BY DEF ServiceInv, TypeOK, CallRecord
    <2>2. calls' = [calls EXCEPT ![c] = [calls[c] EXCEPT !.phase = "running",
                                                         !.generation = generation']]
      BY <1>1, <2>1 DEF BeginRefresh, CallRecord
    <2>3. [calls[c] EXCEPT !.phase = "running", !.generation = generation'] \in CallRecord
      BY <1>1, <2>1 DEF CallRecord, Phase
    <2> QED
      BY <2>1, <2>2, <2>3
  <1>3. /\ calls'[c].phase = "running" /\ calls'[c].root = calls[c].root
        /\ calls'[c].generation = generation'
    BY <1>2 DEF ServiceInv, TypeOK
  <1>4. state'.model = state.model /\ state'.freshness = "Refreshing"
    BY DEF BeginRefresh, ServiceInv, TypeOK
  <1>5. TypeOK'
    <2>1. state' \in [model : Model \cup {NoModel},
                      freshness : {"Current", "Stale", "Refreshing", "Provisional", "Degraded"},
                      generation : {generation'}]
      BY DEF BeginRefresh, ServiceInv, TypeOK
    <2> QED
      BY <1>1, <1>2, <1>4, <2>1 DEF BeginRefresh, ServiceInv, TypeOK, CallRecord
  <1>6. \A d \in Calls : Owing(d) => calls[d].generation < generation'
    BY <1>1, ServiceAssumption DEF ServiceInv, TypeOK, GenerationsDiffer
  <1>7. \A d \in Calls : Answered(d)' => Answered(d) /\ Owing(d) /\ d # c
    BY <1>2, <1>3 DEF Answered, Owing
  <1>8. (OpenHasRoom /\ ListingIsRecent /\ NothingFromTheFuture /\ StoredIsRecent)'
    BY <1>4 DEF BeginRefresh, CommitLockFree, ServiceInv, OpenHasRoom, ListingIsRecent,
                NothingFromTheFuture, StoredIsRecent
  <1>9. CallsKnowTheirRoot'
    BY <1>2, <1>3, <1>7 DEF BeginRefresh, ServiceInv, CallsKnowTheirRoot
  <1>10. GenerationsDiffer'
    <2>1. \A d \in Calls : Owing(d)' => d = c \/ Owing(d)
      BY <1>2 DEF Owing
    <2>2. \A d \in Calls : calls[d].generation \in Nat /\ generation' \in Nat
      BY <1>1, ServiceAssumption DEF ServiceInv, TypeOK
    <2>3. \A d \in Calls : d # c => calls'[d] = calls[d]
      BY <1>2
    <2>4. calls'[c].generation = generation'
      BY <1>3
    <2>5. ASSUME NEW d \in Calls, Owing(d)', d # c
          PROVE  /\ Owing(d)
                 /\ calls'[d].generation = calls[d].generation
                 /\ calls'[d].generation < generation'
      BY <1>6, <2>1, <2>3, <2>5
    <2>6. ASSUME NEW d \in Calls, Owing(d)'
          PROVE  calls'[d].generation # 0 /\ calls'[d].generation <= generation'
      <3>1. CASE d = c
        BY <1>1, <2>2, <2>4, <3>1, ServiceAssumption DEF ServiceInv, TypeOK
      <3>2. CASE d # c
        BY <2>2, <2>5, <2>6, <3>2 DEF ServiceInv, GenerationsDiffer
      <3> QED
        BY <3>1, <3>2
    <2>7. ASSUME NEW d \in Calls, NEW e \in Calls, Owing(d)', Owing(e)', d # e
          PROVE  calls'[d].generation # calls'[e].generation
      <3>1. CASE d = c \/ e = c
        BY <2>2, <2>4, <2>5, <2>7, <3>1
      <3>2. CASE d # c /\ e # c
        BY <2>5, <2>7, <3>2 DEF ServiceInv, GenerationsDiffer
      <3> QED
        BY <3>1, <3>2
    <2> QED
      BY <2>6, <2>7 DEF GenerationsDiffer
  <1>11. AnswersAreRecent'
    <2>1. \A d \in Calls : Answered(d)' => Superseded(d)'
      <3>1. \A d \in Calls : calls[d].generation \in Nat /\ generation' \in Nat
        BY <1>1, ServiceAssumption DEF ServiceInv, TypeOK
      <3> QED
        BY <1>2, <1>6, <1>7, <3>1 DEF Superseded
    <2> QED
      BY <2>1 DEF AnswersAreRecent
  <1> QED
    BY <1>5, <1>8, <1>9, <1>10, <1>11 DEF ServiceInv

\* A call goes on outside the lock: it keeps its root and its generation, its
\* answer is the one it had or what the files are, and the bundle is left
\* alone or set aside.
LEMMA CallGoesOn ==
  ASSUME ServiceInv, NEW c \in Calls, NEW call \in CallRecord,
         Progress(c, call),
         bundle' \in [Roots -> Bundle],
         \A r \in Roots : bundle'[r] \in {bundle[r], Missing},
         missed' \in {missed, missed \cup {"refresh"}},
         \/ call.phase = "idle"
         \/ /\ Owing(c) /\ call.phase \in {"failing", "evaluated", "listed", "hashed"}
            /\ call.root = calls[c].root /\ call.generation = calls[c].generation
            /\ \/ call.phase = "failing"
               \/ Answered(c) /\ call.evaluated = calls[c].evaluated
               \/ call.evaluated = disk[call.root]
  PROVE  ServiceInv'
  <1>1. /\ calls' \in [Calls -> CallRecord] /\ calls'[c] = call
        /\ \A d \in Calls : d # c => calls'[d] = calls[d]
    BY DEF Progress, ServiceInv, TypeOK, CallRecord
  <1>2. TypeOK'
    <2>1. missed' \subseteq {"edit", "refresh"}
      BY DEF ServiceInv, TypeOK
    <2> QED
      BY <1>1, <2>1 DEF Progress, ServiceInv, TypeOK, CallRecord
  <1>3. NothingFromTheFuture'
    BY ServiceAssumption
    DEF Progress, ServiceInv, TypeOK, NothingFromTheFuture, Version, Missing
  <1>4. (OpenHasRoom /\ ListingIsRecent /\ StoredIsRecent)'
    BY DEF Progress, ServiceInv, OpenHasRoom, ListingIsRecent, RoomForGeneration, StoredIsRecent,
           Missing
  <1>5. \A d \in Calls : Owing(d)' => Owing(d) /\ calls'[d].generation = calls[d].generation
    BY <1>1 DEF Owing
  <1>6. GenerationsDiffer'
    BY <1>5 DEF Progress, ServiceInv, GenerationsDiffer
  <1>7. calls[c].root \in Roots \/ call.phase = "idle"
    BY DEF ServiceInv, CallsKnowTheirRoot, Owing
  <1>8. CallsKnowTheirRoot'
    BY <1>1, <1>7, ServiceAssumption
    DEF Progress, ServiceInv, TypeOK, CallsKnowTheirRoot, Answered, Version
  <1>9. AnswersAreRecent'
    <2> SUFFICES ASSUME NEW d \in Calls, Answered(d)', ~ Superseded(d)'
                 PROVE  /\ noticed[calls'[d].root] <= calls'[d].evaluated
                        /\ bundle'[calls'[d].root].kind = "Loaded"
                             => bundle'[calls'[d].root].evaluated <= calls'[d].evaluated
                        /\ state.model.root = calls'[d].root
                             => state.model.version <= calls'[d].evaluated
      BY DEF Progress, AnswersAreRecent
    <2>1. calls'[d].root \in Roots
      BY <1>8 DEF CallsKnowTheirRoot, Answered
    <2>2. CASE /\ Answered(d)
               /\ calls'[d].evaluated = calls[d].evaluated
               /\ calls'[d].root = calls[d].root /\ calls'[d].generation = calls[d].generation
      BY <2>1, <2>2 DEF Progress, ServiceInv, AnswersAreRecent, Superseded, Missing
    <2>3. CASE calls'[d].evaluated = disk[calls'[d].root]
      BY <2>1, <2>3 DEF ServiceInv, NothingFromTheFuture, Missing
    <2> QED
      BY <1>1, <2>2, <2>3 DEF Answered
  <1> QED
    BY <1>2, <1>3, <1>4, <1>6, <1>8, <1>9 DEF ServiceInv

\* The fields of a call, as they are and once it fails.
LEMMA CallFields ==
  ASSUME ServiceInv, NEW c \in Calls
  PROVE  /\ calls[c] \in CallRecord /\ IdleCall \in CallRecord /\ Failing(c) \in CallRecord
         /\ Failing(c).phase = "failing" /\ Failing(c).root = calls[c].root
         /\ Failing(c).generation = calls[c].generation
         /\ IdleCall.phase = "idle"
  <1>1. calls[c] \in CallRecord
    BY DEF ServiceInv, TypeOK, CallRecord
  <1>2. IdleCall \in CallRecord /\ IdleCall.phase = "idle"
    BY ServiceAssumption DEF IdleCall, CallRecord, Phase, Version, Hashes
  <1>3. 0 \in Version /\ {} \in Hashes
    BY ServiceAssumption DEF Version, Hashes
  <1> QED
    BY <1>1, <1>2, <1>3 DEF Failing, CallRecord, Phase

\* The steps of a call outside the lock, and the one that only ends it.
LEMMA OutsideTheLockInv ==
  ASSUME ServiceInv, NEW c \in Calls,
         \/ Evaluate(c) \/ BridgeFails(c) \/ Dropped(c) \/ ScanFails(c) \/ ReadFails(c)
         \/ List(c) \/ Hash(c)
         \/ (Owing(c) /\ CommitSuperseded(c)) \/ (Owing(c) /\ CommitWatchFails(c))
  PROVE  ServiceInv'
  <1>1. bundle \in [Roots -> Bundle]
    BY DEF ServiceInv, TypeOK
  <1>2. Owing(c) => calls[c].root \in Roots /\ disk[calls[c].root] \in Version
    BY DEF ServiceInv, TypeOK, CallsKnowTheirRoot, Owing
  <1>3. CASE Evaluate(c)
    <2> DEFINE call == [calls[c] EXCEPT !.phase = "evaluated", !.evaluated = disk[calls[c].root]]
    <2>1. Owing(c) /\ Progress(c, call) /\ UNCHANGED <<bundle, missed>>
      BY <1>3 DEF Evaluate, Owing
    <2>2. /\ call \in CallRecord /\ call.phase = "evaluated" /\ call.root = calls[c].root
          /\ call.generation = calls[c].generation /\ call.evaluated = disk[call.root]
      BY <1>2, <2>1, CallFields DEF CallRecord, Phase
    <2> QED
      BY <1>1, <2>1, <2>2, CallGoesOn
  <1>4. CASE Hash(c)
    <2> DEFINE print == Fingerprint(calls[c].root, calls[c].listed)
               call == [calls[c] EXCEPT !.phase = "hashed", !.listed = 0, !.inputs = print]
    <2>1. Owing(c) /\ Answered(c) /\ Progress(c, call) /\ UNCHANGED <<bundle, missed>>
      BY <1>4 DEF Hash, Owing, Answered
    <2>2. print \in Hashes /\ 0 \in Version
      BY <1>2, <2>1, EditsGrow, ServiceAssumption DEF Fingerprint, Hashes, Version
    <2>3. /\ call \in CallRecord /\ call.phase = "hashed" /\ call.root = calls[c].root
          /\ call.generation = calls[c].generation /\ call.evaluated = calls[c].evaluated
      <3> HIDE DEF print
      <3> QED
        BY <2>2, CallFields DEF CallRecord, Phase
    <2> QED
      BY <1>1, <2>1, <2>3, CallGoesOn
  <1>8. CASE List(c)
    <2> DEFINE call == [calls[c] EXCEPT !.phase = "listed", !.listed = disk[calls[c].root]]
    <2>1. Owing(c) /\ Answered(c) /\ Progress(c, call) /\ UNCHANGED <<bundle, missed>>
      BY <1>8 DEF List, Owing, Answered
    <2>2. /\ call \in CallRecord /\ call.phase = "listed" /\ call.root = calls[c].root
          /\ call.generation = calls[c].generation /\ call.evaluated = calls[c].evaluated
      BY <1>2, <2>1, CallFields DEF CallRecord, Phase
    <2> QED
      BY <1>1, <2>1, <2>2, CallGoesOn
  <1>5. CASE ReadFails(c)
    <2>1. Owing(c) /\ Progress(c, Failing(c)) /\ missed' = missed
      BY <1>5 DEF ReadFails, Owing
    <2>2. Missing \in Bundle
      BY DEF Bundle, Missing
    <2>3. bundle' = [bundle EXCEPT ![calls[c].root] = IF @ = Corrupt THEN Missing ELSE @]
      BY <1>5 DEF ReadFails
    <2>4. bundle' \in [Roots -> Bundle] /\ \A r \in Roots : bundle'[r] \in {bundle[r], Missing}
      BY <1>1, <2>2, <2>3
    <2> QED
      BY <2>1, <2>4, CallFields, CallGoesOn
  <1>6. CASE BridgeFails(c) \/ (Owing(c) /\ CommitWatchFails(c))
    <2>1. Owing(c) /\ Progress(c, Failing(c)) /\ UNCHANGED <<bundle, missed>>
      BY <1>6 DEF BridgeFails, CommitWatchFails, Owing
    <2> QED
      BY <1>1, <2>1, CallFields, CallGoesOn
  <1>7. CASE Dropped(c) \/ ScanFails(c) \/ CommitSuperseded(c)
    <2>1. /\ Progress(c, IdleCall) /\ bundle' = bundle
          /\ missed' \in {missed, missed \cup {"refresh"}}
      BY <1>7 DEF Dropped, ScanFails, CommitSuperseded, Miss
    <2> QED
      BY <1>1, <2>1, CallFields, CallGoesOn
  <1> QED
    BY <1>3, <1>4, <1>5, <1>6, <1>7, <1>8

-----------------------------------------------------------------------------
\* The call whose generation is the current one is the only one of its kind.
LEMMA OnlyOneCommits ==
  ASSUME ServiceInv, NEW c \in Calls, NEW d \in Calls, c # d,
         calls[c].phase = "hashed", ~ Superseded(c), Answered(d)
  PROVE  Superseded(d)
  BY DEF ServiceInv, GenerationsDiffer, Superseded, Owing, Answered

\* The new bundle is stored, whether or not the call then says so.
LEMMA CommitInv ==
  ASSUME ServiceInv, NEW c \in Calls, calls[c].phase = "hashed", ~ Superseded(c),
         CommitSaveFails(c) \/ CommitPublishes(c)
  PROVE  ServiceInv'
  <1> DEFINE r == calls[c].root
             new == Stored(calls[c].evaluated, calls[c].inputs)
  <1>1. r \in Roots /\ bundle \in [Roots -> Bundle]
    BY DEF ServiceInv, TypeOK, CallsKnowTheirRoot
  <1>2. calls[c].evaluated \in Version /\ calls[c].inputs \in Hashes /\ Answered(c)
    BY DEF ServiceInv, TypeOK, Answered
  <1>3. /\ new \in Bundle /\ new.kind = "Loaded" /\ new.evaluated = calls[c].evaluated
    BY <1>2 DEF Bundle, Stored
  <1>4. bundle' = bundle \/ bundle' = [bundle EXCEPT ![r] = new]
    BY DEF CommitSaveFails, CommitPublishes
  <1>5. /\ bundle' \in [Roots -> Bundle]
        /\ bundle'[r] \in {bundle[r], new}
        /\ \A q \in Roots : q # r => bundle'[q] = bundle[q]
    BY <1>1, <1>3, <1>4
  <1>6. \/ state' = state
        \/ /\ state' = [model |-> [root |-> r, version |-> calls[c].evaluated],
                        freshness |-> "Current", generation |-> state.generation]
           /\ bundle'[r] = new
    BY <1>1, <1>3 DEF CommitSaveFails, CommitPublishes
  <1>7. /\ calls' \in [Calls -> CallRecord]
        /\ calls'[c].phase \in {"idle", "failing"}
        /\ calls'[c].phase = "failing" =>
             calls'[c].root = r /\ calls'[c].generation = calls[c].generation
        /\ \A d \in Calls : d # c => calls'[d] = calls[d]
    <2>1. calls' \in {[calls EXCEPT ![c] = Failing(c)], [calls EXCEPT ![c] = IdleCall]}
      BY DEF CommitSaveFails, CommitPublishes
    <2>2. calls \in [Calls -> CallRecord]
      BY DEF ServiceInv, TypeOK, CallRecord
    <2>3. /\ calls' \in [Calls -> CallRecord]
          /\ calls'[c] \in {Failing(c), IdleCall}
          /\ \A d \in Calls : d # c => calls'[d] = calls[d]
      <3>1. CASE calls' = [calls EXCEPT ![c] = Failing(c)]
        BY <2>2, <3>1, CallFields
      <3>2. CASE calls' = [calls EXCEPT ![c] = IdleCall]
        BY <2>2, <3>2, CallFields
      <3> QED
        BY <2>1, <3>1, <3>2
    <2> QED
      BY <2>3, CallFields
  <1>8. UNCHANGED <<disk, added, polled, generation, opened, opening, listing, opens, noticed,
                    missed>>
    BY DEF CommitSaveFails, CommitPublishes
  <1>9. TypeOK'
    <2>1. watched' \in [root : Roots \cup {NoRoot}, pending : BOOLEAN]
      <3>1. watched' = [root |-> r, pending |-> FALSE]
        BY DEF CommitSaveFails, CommitPublishes, WatchAnew
      <3> QED
        BY <1>1, <3>1, Zenon
    <2>2. /\ state' \in [model : Model \cup {NoModel},
                         freshness : {"Current", "Stale", "Refreshing", "Provisional", "Degraded"},
                         generation : {generation}]
          /\ state'.freshness \in {"Current", "Stale"} => state'.model # NoModel
      <3>1. CASE state' = state
        BY <3>1 DEF ServiceInv, TypeOK
      <3>2. CASE state' = [model |-> [root |-> r, version |-> calls[c].evaluated],
                           freshness |-> "Current", generation |-> state.generation]
        <4>1. [root |-> r, version |-> calls[c].evaluated] \in Model
          BY <1>1, <1>2 DEF Model
        <4>2. [root |-> r, version |-> calls[c].evaluated] # NoModel
          BY <1>1, ServiceAssumption DEF NoModel
        <4>3. state.generation = generation
          BY DEF ServiceInv, TypeOK
        <4> QED
          BY <3>2, <4>1, <4>2, <4>3
      <3> QED
        BY <1>6, <3>1, <3>2
    <2> QED
      BY <1>5, <1>7, <1>8, <2>1, <2>2 DEF ServiceInv, TypeOK, CallRecord
  <1>10. calls[c].evaluated <= disk[r]
    BY <1>2 DEF ServiceInv, CallsKnowTheirRoot
  <1>11. (OpenHasRoom /\ ListingIsRecent /\ NothingFromTheFuture)'
    <2>1. \A q \in Roots : bundle'[q].evaluated <= disk[q]
      BY <1>1, <1>3, <1>5, <1>10 DEF ServiceInv, NothingFromTheFuture
    <2>2. \A q \in Roots : state'.model.root = q => state'.model.version <= disk[q]
      BY <1>6, <1>10 DEF ServiceInv, NothingFromTheFuture
    <2> QED
      BY <1>8, <2>1, <2>2
      DEF ServiceInv, OpenHasRoom, ListingIsRecent, RoomForGeneration, NothingFromTheFuture
  <1>12. StoredIsRecent'
    <2>1. calls[c].evaluated <= new.evaluated
      BY <1>2, <1>3, ServiceAssumption DEF Version
    <2>2. state.model.root = r => state.model.version <= calls[c].evaluated
      BY <1>2 DEF ServiceInv, AnswersAreRecent
    <2> QED
      BY <1>3, <1>5, <1>6, <2>1, <2>2 DEF ServiceInv, StoredIsRecent
  <1>13. CallsKnowTheirRoot'
    BY <1>1, <1>7, <1>8 DEF ServiceInv, CallsKnowTheirRoot, Answered
  <1>14. \A d \in Calls : Owing(d)' => Owing(d) /\ calls'[d].generation = calls[d].generation
    BY <1>7 DEF Owing
  <1>15. GenerationsDiffer'
    BY <1>8, <1>14 DEF ServiceInv, GenerationsDiffer
  <1>16. AnswersAreRecent'
    <2>1. \A d \in Calls : Answered(d)' => d # c /\ Answered(d) /\ calls'[d] = calls[d]
      BY <1>7 DEF Answered
    <2>2. \A d \in Calls : Answered(d)' => Superseded(d)'
      BY <1>8, <2>1, OnlyOneCommits DEF Superseded
    <2> QED
      BY <2>2 DEF AnswersAreRecent
  <1> QED
    BY <1>9, <1>11, <1>12, <1>13, <1>15, <1>16 DEF ServiceInv

\* Only the label changes, and the call is over.
LEMMA MarkDegradedInv ==
  ASSUME ServiceInv, NEW c \in Calls, MarkDegraded(c)
  PROVE  ServiceInv'
  <1>1. /\ calls' \in [Calls -> CallRecord] /\ calls'[c].phase = "idle"
        /\ \A d \in Calls : d # c => calls'[d] = calls[d]
    <2>1. calls \in [Calls -> CallRecord]
      BY DEF ServiceInv, TypeOK, CallRecord
    <2> QED
      BY <2>1, CallFields DEF MarkDegraded
  <1>2. /\ state'.model = state.model
        /\ state' \in [model : Model \cup {NoModel},
                       freshness : {"Current", "Stale", "Refreshing", "Provisional", "Degraded"},
                       generation : {generation}]
        /\ state'.freshness \in {"Current", "Stale"} => state'.model # NoModel
    BY DEF MarkDegraded, ServiceInv, TypeOK
  <1>3. TypeOK'
    BY <1>1, <1>2 DEF MarkDegraded, ServiceInv, TypeOK, CallRecord
  <1>4. \A d \in Calls : Owing(d)' \/ Answered(d)' => d # c
    BY <1>1 DEF Owing, Answered
  <1> QED
    BY <1>1, <1>2, <1>3, <1>4
    DEF MarkDegraded, ServiceInv, OpenHasRoom, ListingIsRecent, RoomForGeneration,
        NothingFromTheFuture, CallsKnowTheirRoot, GenerationsDiffer, AnswersAreRecent,
        StoredIsRecent, Owing, Answered, Superseded

\* An invalidation supersedes every call in flight.
LEMMA InvalidateInv ==
  ASSUME ServiceInv, TakeInvalidation, polled' \in BOOLEAN
  PROVE  ServiceInv'
  <1>1. generation' = generation + 1 /\ generation' \in 0 .. MaxGeneration
    BY ServiceAssumption DEF TakeInvalidation, RoomForGeneration, ServiceInv, TypeOK
  <1>2. /\ state'.model = state.model
        /\ state' \in [model : Model \cup {NoModel},
                       freshness : {"Current", "Stale", "Refreshing", "Provisional", "Degraded"},
                       generation : {generation'}]
        /\ state'.freshness \in {"Current", "Stale"} => state'.model # NoModel
    BY DEF TakeInvalidation, Outdated, ServiceInv, TypeOK
  <1>3. /\ noticed' \in [Roots -> Version]
        /\ \A r \in Roots : noticed'[r] \in {noticed[r], disk[r]}
    BY DEF TakeInvalidation, ServiceInv, TypeOK
  <1>4. TypeOK'
    BY <1>1, <1>2, <1>3 DEF TakeInvalidation, ServiceInv, TypeOK
  <1>5. NothingFromTheFuture'
    BY <1>2, <1>3, ServiceAssumption
    DEF TakeInvalidation, ServiceInv, TypeOK, NothingFromTheFuture, Version
  <1>6. (OpenHasRoom /\ ListingIsRecent /\ CallsKnowTheirRoot /\ StoredIsRecent)'
    BY <1>2 DEF TakeInvalidation, CommitLockFree, ServiceInv, OpenHasRoom, ListingIsRecent,
                CallsKnowTheirRoot, StoredIsRecent, Answered
  <1>7. \A c \in Calls : Owing(c) => calls[c].generation < generation'
    BY <1>1, ServiceAssumption DEF ServiceInv, TypeOK, GenerationsDiffer
  <1>8. \A c \in Calls : calls[c].generation \in Nat /\ generation' \in Nat
    BY <1>1, ServiceAssumption DEF ServiceInv, TypeOK
  <1>9. (GenerationsDiffer /\ AnswersAreRecent)'
    BY <1>7, <1>8
    DEF TakeInvalidation, ServiceInv, GenerationsDiffer, AnswersAreRecent, Owing, Answered,
        Superseded
  <1> QED
    BY <1>4, <1>5, <1>6, <1>9 DEF ServiceInv

\* The watcher's events and the poll that takes them decide nothing else.
LEMMA PollInv ==
  ASSUME ServiceInv, PollTakesEvents \/ PollFails
  PROVE  ServiceInv'
  <1>1. watched' \in [root : Roots \cup {NoRoot}, pending : BOOLEAN] /\ polled' \in BOOLEAN
    BY DEF PollTakesEvents, PollFails, ServiceInv, TypeOK
  <1>2. missed' \subseteq {"edit", "refresh"}
    BY DEF PollTakesEvents, PollFails, Miss, ServiceInv, TypeOK
  <1>3. UNCHANGED <<disk, added, bundle, generation, opened, state, opening, listing, opens,
                    calls, noticed>>
    BY DEF PollTakesEvents, PollFails
  <1> QED
    BY <1>1, <1>2, <1>3
    DEF ServiceInv, TypeOK, OpenHasRoom, ListingIsRecent, RoomForGeneration, NothingFromTheFuture,
        CallsKnowTheirRoot, GenerationsDiffer, AnswersAreRecent, StoredIsRecent, Owing,
        Answered, Superseded

\* Every step of the service, its callers and the world.
LEMMA StepInv == ServiceInv /\ [Next]_vars => ServiceInv'
  <1> SUFFICES ASSUME ServiceInv, [Next]_vars PROVE ServiceInv'
    OBVIOUS
  <1>1. CASE \E r \in Roots : Edit(r) \/ AddInput(r) \/ DamageBundle(r)
    BY <1>1, WorldInv
  <1>2. CASE (\E r \in Roots : OpenBegins(r)) \/ OpenStep
    BY <1>2, OpenInv, OpenPublishesInv DEF OpenStep
  <1>3. CASE \E c \in Calls : SnapshotOpen(c) \/ BeginRefresh(c)
    BY <1>3, SnapshotInv, BeginInv
  <1>4. ASSUME NEW c \in Calls, CallStep(c) PROVE ServiceInv'
    <2>1. CASE CommitRefresh(c)
      <3>1. calls[c].phase = "hashed" /\ Owing(c)
        BY <2>1 DEF CommitRefresh, Owing
      <3>2. CASE CommitSuperseded(c) \/ CommitWatchFails(c)
        BY <3>1, <3>2, OutsideTheLockInv
      <3>3. CASE CommitSaveFails(c) \/ CommitPublishes(c)
        <4>1. ~ Superseded(c)
          BY <3>3 DEF CommitSaveFails, CommitPublishes
        <4> QED
          BY <3>1, <3>3, <4>1, CommitInv
      <3> QED
        BY <2>1, <3>2, <3>3 DEF CommitRefresh
    <2> QED
      BY <1>4, <2>1, OutsideTheLockInv, MarkDegradedInv DEF CallStep
  <1>5. CASE Invalidate \/ PollInvalidates
    <2>1. TakeInvalidation /\ polled' \in BOOLEAN
      BY <1>5 DEF Invalidate, PollInvalidates, ServiceInv, TypeOK
    <2> QED
      BY <2>1, InvalidateInv
  <1>6. CASE PollTakesEvents \/ PollFails
    BY <1>6, PollInv
  <1>7. CASE UNCHANGED vars
    BY <1>7 DEF vars, ServiceInv, TypeOK, OpenHasRoom, ListingIsRecent, RoomForGeneration,
                NothingFromTheFuture,
                CallsKnowTheirRoot, GenerationsDiffer, AnswersAreRecent, StoredIsRecent, Owing,
                Answered, Superseded
  <1> QED
    BY <1>1, <1>2, <1>3, <1>4, <1>5, <1>6, <1>7 DEF Next

-----------------------------------------------------------------------------
\* The invariant holds of every behaviour.
THEOREM InvariantHolds == Spec => []ServiceInv
  BY InitInv, StepInv, PTL DEF Spec

\* Every field keeps its type, and the published generation is the newest.
THEOREM ServiceTypes == Spec => []TypeOK
  <1>1. ServiceInv => TypeOK
    BY DEF ServiceInv
  <1> QED
    BY <1>1, InvariantHolds, PTL

\* What a step other than a commit or an open does to the published model and
\* to the bundles: the model stays and no bundle is made.
LEMMA OnlyCommitsAndOpens ==
  ASSUME ServiceInv, [Next]_vars
  PROVE  \/ OpenPublishes
         \/ \E c \in Calls : /\ calls[c].phase = "hashed" /\ CommitLockFree
                             /\ CommitSaveFails(c) \/ CommitPublishes(c)
         \/ /\ state'.model = state.model
            /\ state' = state \/ state'.freshness # "Current"
            /\ \A r \in Roots : bundle'[r] = bundle[r] \/ bundle'[r].kind # "Loaded"
  <1>1. CASE \/ \E r \in Roots : Edit(r) \/ AddInput(r) \/ DamageBundle(r) \/ OpenBegins(r)
             \/ OpenWatches
    BY <1>1 DEF Edit, AddInput, NewVersion, DamageBundle, OpenBegins, OpenWatches, ServiceInv,
                TypeOK, Corrupt
  <1>2. CASE OpenFails
    BY <1>2 DEF OpenFails, ServiceInv, TypeOK, Missing
  <1>3. CASE \E c \in Calls : SnapshotOpen(c) \/ BeginRefresh(c)
    BY <1>3 DEF SnapshotOpen, BeginRefresh, ServiceInv, TypeOK
  <1>4. ASSUME NEW c \in Calls,
               \/ Evaluate(c) \/ BridgeFails(c) \/ Dropped(c) \/ ScanFails(c) \/ List(c)
               \/ Hash(c) \/ CommitSuperseded(c) \/ CommitWatchFails(c)
        PROVE  UNCHANGED <<state, bundle>>
    BY <1>4 DEF Evaluate, BridgeFails, Dropped, ScanFails, List, Hash, CommitSuperseded,
                CommitWatchFails, Progress
  <1>5. ASSUME NEW c \in Calls, ReadFails(c)
        PROVE  state' = state /\ \A r \in Roots : bundle'[r] \in {bundle[r], Missing}
    BY <1>5 DEF ReadFails, Progress, ServiceInv, TypeOK
  <1>6. ASSUME NEW c \in Calls, MarkDegraded(c)
        PROVE  /\ state'.model = state.model /\ bundle' = bundle
               /\ state' = state \/ state'.freshness # "Current"
    BY <1>6 DEF MarkDegraded, ServiceInv, TypeOK
  <1>7. CASE \E c \in Calls : CallStep(c)
    BY <1>4, <1>5, <1>6, <1>7 DEF CallStep, CommitRefresh, Missing
  <1>8. CASE Invalidate \/ PollInvalidates
    BY <1>8 DEF Invalidate, PollInvalidates, TakeInvalidation, Outdated, ServiceInv, TypeOK
  <1>9. CASE PollTakesEvents \/ PollFails \/ UNCHANGED vars
    BY <1>9 DEF PollTakesEvents, PollFails, vars
  <1> QED
    BY <1>1, <1>2, <1>3, <1>7, <1>8, <1>9 DEF Next, OpenStep

\* A model published as current is not older than the last invalidation of its
\* root: no call that began before it commits, and a bundle whose fingerprint
\* fits was evaluated from these very files, unless it was hashed later.
THEOREM NoticedEdits == Spec => NoticedEditIsNotForgotten
  <1> DEFINE Good == state' # state /\ state'.freshness = "Current"
                       => \/ state'.model.version >= noticed[state'.model.root]
                          \/ /\ opening # NoRoot
                             /\ bundle[opening].inputs # Edits(bundle[opening].evaluated)
  <1>1. ASSUME ServiceInv, [Next]_vars PROVE Good
    <2>1. CASE OpenPublishes
      <3>1. opening \in Roots /\ bundle[opening] \in Bundle
        BY <1>1, <2>1 DEF OpenPublishes, ServiceInv, TypeOK
      <3>2. SUFFICES ASSUME state'.freshness = "Current",
                            bundle[opening].inputs = Edits(bundle[opening].evaluated)
                     PROVE  state'.model.version >= noticed[state'.model.root]
        BY <2>1 DEF OpenPublishes
      <3>3. /\ bundle[opening].kind = "Loaded"
            /\ bundle[opening].inputs = Fingerprint(opening, listing.version)
        BY <2>1, <3>2 DEF OpenPublishes, CachedFreshness
      <3>4. state'.model = [root |-> opening, version |-> bundle[opening].evaluated]
        BY <2>1, <3>3 DEF OpenPublishes, CachedModel
      <3>5. /\ noticed[opening] \in Nat /\ listing.version \in Version
            /\ listing.version \in Nat /\ bundle[opening].evaluated \in Nat
            /\ disk[opening] \in Version
        BY <1>1, <3>1, BundleFields, ServiceAssumption DEF ServiceInv, TypeOK, Version
      <3>6. noticed[opening] <= listing.version /\ listing.version <= disk[opening]
        BY <1>1, <2>1 DEF ServiceInv, ListingIsRecent, OpenPublishes
      <3>7. Edits(listing.version) \subseteq Edits(bundle[opening].evaluated)
        BY <3>1, <3>2, <3>3, <3>5, <3>6, FingerprintShows
      <3>8. noticed[opening] <= bundle[opening].evaluated
        BY <3>5, <3>6, <3>7, EditsGrow
      <3> QED
        BY <3>4, <3>5, <3>8
    <2>2. ASSUME NEW c \in Calls, calls[c].phase = "hashed",
                 CommitSaveFails(c) \/ CommitPublishes(c)
          PROVE  Good
      <3>1. ~ Superseded(c) /\ Answered(c)
        BY <2>2 DEF CommitSaveFails, CommitPublishes, Answered
      <3>2. /\ calls[c].root \in Roots /\ calls[c].evaluated \in Version
            /\ noticed[calls[c].root] <= calls[c].evaluated
            /\ noticed[calls[c].root] \in Version
        BY <1>1, <2>2, <3>1 DEF ServiceInv, TypeOK, CallsKnowTheirRoot, AnswersAreRecent
      <3>3. \/ state' = state
            \/ state'.model = [root |-> calls[c].root, version |-> calls[c].evaluated]
        BY <2>2 DEF CommitSaveFails, CommitPublishes
      <3> QED
        BY <3>2, <3>3, ServiceAssumption DEF Version
    <2> QED
      BY <1>1, <2>1, <2>2, OnlyCommitsAndOpens
  <1>2. ServiceInv /\ [Next]_vars => [Good]_vars
    BY <1>1
  <1> QED
    BY <1>2, InvariantHolds, PTL DEF Spec, NoticedEditIsNotForgotten

\* Whatever overlaps and fails, the model of a root and its bundle are only
\* ever replaced by newer ones.
THEOREM NeverGoesBack == Spec => ModelNeverGoesBack
  <1> DEFINE ModelGrows == state.model.root = state'.model.root
                             => state'.model.version >= state.model.version
             BundleGrows == \A r \in Roots :
                bundle[r].kind = "Loaded" /\ bundle'[r].kind = "Loaded"
                  => bundle'[r].evaluated >= bundle[r].evaluated
  <1>1. ASSUME ServiceInv, [Next]_vars PROVE ModelGrows /\ BundleGrows
    <2>1. /\ \A r \in Roots : bundle[r] \in Bundle /\ bundle[r].evaluated \in Nat
          /\ state.model.version \in Nat /\ state.model.root \in Roots \cup {NoRoot}
          /\ state.model.root = NoRoot => state.model.version = 0
      <3>1. state.model \in Model \cup {NoModel} /\ \A r \in Roots : bundle[r] \in Bundle
        BY <1>1 DEF ServiceInv, TypeOK
      <3> QED
        BY <3>1, BundleFields, ServiceAssumption DEF Model, NoModel, Version
    <2>2. CASE OpenPublishes
      <3>1. opening \in Roots /\ state'.model = CachedModel(opening) /\ bundle' = bundle
        BY <1>1, <2>2 DEF OpenPublishes, ServiceInv, TypeOK
      <3>2. CASE bundle[opening].kind = "Loaded"
        <4>1. state'.model = [root |-> opening, version |-> bundle[opening].evaluated]
          BY <3>1, <3>2 DEF CachedModel
        <4>2. state.model.root = opening => state.model.version <= bundle[opening].evaluated
          BY <1>1, <3>1, <3>2 DEF ServiceInv, StoredIsRecent
        <4> QED
          BY <2>1, <3>1, <4>1, <4>2
      <3>3. CASE bundle[opening].kind # "Loaded"
        <4>1. state'.model.root = NoRoot /\ state'.model.version = 0
          BY <3>1, <3>3 DEF CachedModel, NoModel
        <4> QED
          BY <2>1, <3>1, <4>1
      <3> QED
        BY <3>2, <3>3
    <2>3. ASSUME NEW c \in Calls, calls[c].phase = "hashed",
                 CommitSaveFails(c) \/ CommitPublishes(c)
          PROVE  ModelGrows /\ BundleGrows
      <3>1. ~ Superseded(c) /\ Answered(c)
        BY <2>3 DEF CommitSaveFails, CommitPublishes, Answered
      <3>2. /\ calls[c].root \in Roots /\ calls[c].evaluated \in Nat
            /\ state.model.root = calls[c].root => state.model.version <= calls[c].evaluated
            /\ bundle[calls[c].root].kind = "Loaded"
                 => bundle[calls[c].root].evaluated <= calls[c].evaluated
        BY <1>1, <2>3, <3>1, ServiceAssumption
        DEF ServiceInv, TypeOK, CallsKnowTheirRoot, AnswersAreRecent, Version
      <3>3. \/ state' = state
            \/ state'.model = [root |-> calls[c].root, version |-> calls[c].evaluated]
        BY <2>3 DEF CommitSaveFails, CommitPublishes
      <3>4. \/ bundle' = bundle
            \/ bundle' = [bundle EXCEPT ![calls[c].root] =
                             Stored(calls[c].evaluated, calls[c].inputs)]
        BY <2>3 DEF CommitSaveFails, CommitPublishes
      <3>5. \A r \in Roots : \/ bundle'[r] = bundle[r]
                             \/ r = calls[c].root /\ bundle'[r].evaluated = calls[c].evaluated
        <4>1. bundle \in [Roots -> Bundle]
          BY <1>1 DEF ServiceInv, TypeOK
        <4>2. Stored(calls[c].evaluated, calls[c].inputs).evaluated = calls[c].evaluated
          BY DEF Stored
        <4>3. CASE bundle' = [bundle EXCEPT ![calls[c].root] =
                                Stored(calls[c].evaluated, calls[c].inputs)]
          <5>1. bundle'[calls[c].root] = Stored(calls[c].evaluated, calls[c].inputs)
            BY <3>2, <4>1, <4>3
          <5>2. \A r \in Roots : r # calls[c].root => bundle'[r] = bundle[r]
            BY <4>1, <4>3
          <5> QED
            BY <4>2, <5>1, <5>2
        <4> QED
          BY <3>4, <4>3
      <3> QED
        BY <2>1, <3>2, <3>3, <3>5
    <2>4. CASE /\ state'.model = state.model
               /\ \A r \in Roots : bundle'[r] = bundle[r] \/ bundle'[r].kind # "Loaded"
      BY <2>1, <2>4
    <2> QED
      BY <1>1, <2>2, <2>3, <2>4, OnlyCommitsAndOpens
  <1>2. ServiceInv /\ [Next]_vars => [ModelGrows /\ BundleGrows]_vars
    BY <1>1
  <1> QED
    BY <1>2, InvariantHolds, PTL DEF Spec, ModelNeverGoesBack

-----------------------------------------------------------------------------
\* The refinement of ModelRefresh.  Its due set is what the calls in flight owe.
Due == {calls[c].generation : c \in {d \in Calls : calls[d].phase \notin {"idle", "snapshot"}}}

\* A call owes an answer from its generation on until it is over.
LEMMA DueIsOwed ==
  ASSUME ServiceInv
  PROVE  \A g : g \in Due <=> \E c \in Calls : Owing(c) /\ g = calls[c].generation
  BY DEF Due, Owing, ServiceInv, TypeOK, Phase

\* A call goes on: it owes what it owed.
LEMMA DueStays ==
  ASSUME ServiceInv, ServiceInv',
         \A c \in Calls : /\ Owing(c)' <=> Owing(c)
                          /\ Owing(c) => calls'[c].generation = calls[c].generation
  PROVE  Due' = Due
  <1>1. \A g : g \in Due' <=> \E c \in Calls : Owing(c)' /\ g = calls'[c].generation
    BY DEF Due, Owing, ServiceInv, TypeOK, Phase
  <1> QED
    BY <1>1, DueIsOwed

\* A call ends: what it owed is owed by no other.
LEMMA DueIsDone ==
  ASSUME ServiceInv, ServiceInv', NEW c \in Calls, Owing(c), ~ Owing(c)',
         \A d \in Calls : d # c => calls'[d] = calls[d]
  PROVE  /\ Due' = Due \ {calls[c].generation}
         /\ calls[c].generation \in Due
         /\ calls[c].generation \in 1 .. MaxGeneration
  <1>1. \A g : g \in Due' <=> \E d \in Calls : Owing(d)' /\ g = calls'[d].generation
    BY DEF Due, Owing, ServiceInv, TypeOK, Phase
  <1>2. \A d \in Calls : d # c => (Owing(d)' <=> Owing(d))
    BY DEF Owing
  <1>3. \A d \in Calls : Owing(d) /\ d # c => calls[d].generation # calls[c].generation
    BY DEF ServiceInv, GenerationsDiffer
  <1>4. calls[c].generation \in 1 .. MaxGeneration
    BY ServiceAssumption DEF ServiceInv, TypeOK, GenerationsDiffer
  <1> QED
    BY <1>1, <1>2, <1>3, <1>4, DueIsOwed

\* The first state of the service is one of the machine.
LEMMA RefinesInit == Init => Published!Init
  BY DEF Init, Published!Init, Published!Unrefreshed, IdleCall

\* The steps that change neither what is published nor what is owed.
LEMMA RefinesQuiet ==
  ASSUME ServiceInv, ServiceInv',
         \/ \E r \in Roots : Edit(r) \/ AddInput(r) \/ DamageBundle(r) \/ OpenBegins(r)
         \/ OpenWatches \/ OpenFails \/ PollTakesEvents \/ PollFails \/ UNCHANGED vars
         \/ \E c \in Calls :
              \/ SnapshotOpen(c) \/ Evaluate(c) \/ BridgeFails(c) \/ ReadFails(c) \/ List(c)
              \/ Hash(c)
              \/ calls[c].phase = "hashed" /\ (CommitWatchFails(c) \/ CommitSaveFails(c))
  PROVE  UNCHANGED Published!refreshVars
  <1>1. UNCHANGED <<state, generation>>
    BY DEF Edit, AddInput, NewVersion, DamageBundle, OpenBegins, OpenWatches, OpenFails,
           PollTakesEvents, PollFails, vars,
           SnapshotOpen, Evaluate, BridgeFails, ReadFails, List, Hash, CommitWatchFails,
           CommitSaveFails, Progress
  <1>2. \A c \in Calls : /\ Owing(c)' <=> Owing(c)
                         /\ Owing(c) => calls'[c].generation = calls[c].generation
    <2>1. calls \in [Calls -> CallRecord]
      BY DEF ServiceInv, TypeOK, CallRecord
    <2>2. ASSUME NEW c \in Calls, \A d \in Calls : d # c => calls'[d] = calls[d],
                 \/ calls[c].phase \in {"idle", "snapshot"} /\ calls'[c].phase = "snapshot"
                 \/ /\ Owing(c)
                    /\ calls'[c].phase \in {"evaluated", "listed", "hashed", "failing"}
                    /\ calls'[c].generation = calls[c].generation
          PROVE  \A d \in Calls : /\ Owing(d)' <=> Owing(d)
                                  /\ Owing(d) => calls'[d].generation = calls[d].generation
      BY <2>2 DEF Owing
    <2>3. CASE \E c \in Calls : SnapshotOpen(c)
      <3>1. PICK c \in Calls : SnapshotOpen(c)
        BY <2>3
      <3>2. calls' = [calls EXCEPT ![c] = [calls[c] EXCEPT !.phase = "snapshot", !.root = opened]]
        BY <2>1, <3>1 DEF SnapshotOpen, CallRecord
      <3>3. [calls[c] EXCEPT !.phase = "snapshot", !.root = opened].phase = "snapshot"
        BY <2>1 DEF CallRecord
      <3>4. calls[c].phase = "idle" /\ calls'[c].phase = "snapshot"
        BY <2>1, <3>1, <3>2, <3>3 DEF SnapshotOpen
      <3>5. \A d \in Calls : d # c => calls'[d] = calls[d]
        BY <2>1, <3>2
      <3> QED
        BY <2>2, <3>4, <3>5
    <2>4. ASSUME NEW c \in Calls,
                 \/ Evaluate(c) \/ BridgeFails(c) \/ ReadFails(c) \/ List(c) \/ Hash(c)
                 \/ calls[c].phase = "hashed" /\ (CommitWatchFails(c) \/ CommitSaveFails(c))
          PROVE  \A d \in Calls : /\ Owing(d)' <=> Owing(d)
                                  /\ Owing(d) => calls'[d].generation = calls[d].generation
      <3>1. CASE Evaluate(c) \/ List(c) \/ Hash(c)
        <4>1. PICK call : /\ calls' = [calls EXCEPT ![c] = call]
                          /\ call.phase \in {"evaluated", "listed", "hashed"}
                          /\ call.generation = calls[c].generation
          <5>1. calls[c] \in CallRecord
            BY <2>1
          <5>2. CASE Evaluate(c)
            <6> DEFINE call == [calls[c] EXCEPT !.phase = "evaluated",
                                                !.evaluated = disk[calls[c].root]]
            <6>1. call.phase = "evaluated" /\ call.generation = calls[c].generation
              BY <5>1 DEF CallRecord
            <6>2. calls' = [calls EXCEPT ![c] = call]
              BY <5>2 DEF Evaluate, Progress
            <6> QED
              BY <6>1, <6>2
          <5>3. CASE List(c)
            <6> DEFINE call == [calls[c] EXCEPT !.phase = "listed",
                                                !.listed = disk[calls[c].root]]
            <6>1. call.phase = "listed" /\ call.generation = calls[c].generation
              BY <5>1 DEF CallRecord
            <6>2. calls' = [calls EXCEPT ![c] = call]
              BY <5>3 DEF List, Progress
            <6> QED
              BY <6>1, <6>2
          <5>4. CASE Hash(c)
            <6> DEFINE call == [calls[c] EXCEPT !.phase = "hashed", !.listed = 0,
                                  !.inputs = Fingerprint(calls[c].root, calls[c].listed)]
            <6>1. call.phase = "hashed" /\ call.generation = calls[c].generation
              BY <5>1 DEF CallRecord
            <6>2. calls' = [calls EXCEPT ![c] = call]
              BY <5>4 DEF Hash, Progress
            <6> QED
              BY <6>1, <6>2
          <5> QED
            BY <3>1, <5>2, <5>3, <5>4
        <4>2. calls'[c] = call /\ \A d \in Calls : d # c => calls'[d] = calls[d]
          BY <2>1, <4>1
        <4>3. Owing(c)
          BY <3>1 DEF Evaluate, List, Hash, Owing
        <4> QED
          BY <2>2, <4>1, <4>2, <4>3
      <3>2. CASE \/ BridgeFails(c) \/ ReadFails(c)
                 \/ calls[c].phase = "hashed" /\ (CommitWatchFails(c) \/ CommitSaveFails(c))
        <4>1. Owing(c) /\ calls' = [calls EXCEPT ![c] = Failing(c)]
          BY <3>2 DEF BridgeFails, ReadFails, CommitWatchFails, CommitSaveFails, Progress, Owing
        <4>2. calls'[c] = Failing(c) /\ \A d \in Calls : d # c => calls'[d] = calls[d]
          BY <2>1, <4>1
        <4> QED
          BY <2>2, <4>1, <4>2, CallFields
      <3> QED
        BY <2>4, <3>1, <3>2
    <2>5. CASE UNCHANGED calls
      BY <2>5 DEF Owing
    <2> QED
      BY <2>3, <2>4, <2>5
      DEF Edit, AddInput, NewVersion, DamageBundle, OpenBegins, OpenWatches, OpenFails,
          PollTakesEvents, PollFails, vars
  <1>3. Due' = Due
    BY <1>2, DueStays
  <1> QED
    BY <1>1, <1>3 DEF Published!refreshVars, Due

\* The steps that publish or settle what is owed, each as a step of the machine.
LEMMA RefinesLoud ==
  ASSUME ServiceInv, ServiceInv',
         \/ OpenPublishes
         \/ TakeInvalidation
         \/ \E c \in Calls :
              \/ BeginRefresh(c) \/ Dropped(c) \/ ScanFails(c) \/ MarkDegraded(c)
              \/ calls[c].phase = "hashed" /\ (CommitSuperseded(c) \/ CommitPublishes(c))
  PROVE  Published!Next
  <1>1. state.generation = generation /\ calls \in [Calls -> CallRecord]
    BY DEF ServiceInv, TypeOK, CallRecord
  <1>2. CASE OpenPublishes
    <2>1. opening \in Roots /\ bundle[opening] \in Bundle
      BY <1>2 DEF OpenPublishes, ServiceInv, TypeOK
    <2>2. CachedModel(opening) \in Model \cup {NoModel}
      BY <2>1, BundleFields DEF CachedModel, Model
    <2>3. CachedFreshness(opening) \in IF CachedModel(opening) = NoModel THEN {"Provisional"}
                                       ELSE {"Current", "Stale"}
      BY <2>1, ServiceAssumption DEF CachedFreshness, CachedModel, NoModel
    <2>4. Due' = Due
      BY <1>2 DEF OpenPublishes, Due
    <2>5. Published!Load(CachedModel(opening))
      BY <1>2, <2>3, <2>4 DEF OpenPublishes, Published!Load, Due
    <2> QED
      BY <2>2, <2>5 DEF Published!Next
  <1>3. CASE TakeInvalidation
    <2>1. Due' = Due
      BY <1>3 DEF TakeInvalidation, Due
    <2>2. /\ state'.model = state.model /\ state'.freshness = Outdated
          /\ generation' = generation + 1
      BY <1>3 DEF TakeInvalidation, ServiceInv, TypeOK
    <2>3. Published!Cancel
      BY <2>1, <2>2 DEF Published!Cancel, Published!Unrefreshed, Outdated, Due
    <2> QED
      BY <2>3 DEF Published!Next
  <1>4. ASSUME NEW c \in Calls, BeginRefresh(c) PROVE Published!Next
    <2>1. /\ generation' = generation + 1 /\ state'.model = state.model
          /\ state'.freshness = "Refreshing"
      BY <1>4 DEF BeginRefresh, ServiceInv, TypeOK
    <2>2. calls' = [calls EXCEPT ![c] = [calls[c] EXCEPT !.phase = "running",
                                                         !.generation = generation + 1]]
      BY <1>1, <1>4 DEF BeginRefresh, CallRecord
    <2>3. /\ calls'[c].phase = "running" /\ calls'[c].generation = generation + 1
          /\ \A d \in Calls : d # c => calls'[d] = calls[d]
      <3>1. /\ calls'[c] = [calls[c] EXCEPT !.phase = "running", !.generation = generation + 1]
            /\ \A d \in Calls : d # c => calls'[d] = calls[d]
        BY <1>1, <2>2
      <3> QED
        BY <1>1, <3>1 DEF CallRecord
    <2>4. calls[c].phase = "snapshot"
      BY <1>4 DEF BeginRefresh
    <2>5. Due' = Due \cup {generation + 1}
      <3>1. \A g : g \in Due' <=> \E d \in Calls : Owing(d)' /\ g = calls'[d].generation
        BY DEF Due, Owing, ServiceInv, TypeOK, Phase
      <3>2. \A d \in Calls : Owing(d)' <=> d = c \/ Owing(d)
        BY <2>3 DEF Owing
      <3>3. ~ Owing(c)
        BY <2>4 DEF Owing
      <3> QED
        BY <2>3, <3>1, <3>2, <3>3, DueIsOwed
    <2>6. Published!Begin
      BY <2>1, <2>5 DEF Published!Begin, Due
    <2> QED
      BY <2>6 DEF Published!Next
  <1>5. ASSUME NEW c \in Calls,
               \/ Dropped(c) \/ ScanFails(c)
               \/ calls[c].phase = "hashed" /\ CommitSuperseded(c)
        PROVE  Published!Next
    <2>1. /\ Owing(c) /\ calls' = [calls EXCEPT ![c] = IdleCall]
          /\ UNCHANGED <<state, generation>>
      BY <1>5 DEF Dropped, ScanFails, CommitSuperseded, Progress, Owing
    <2>2. ~ Owing(c)' /\ \A d \in Calls : d # c => calls'[d] = calls[d]
      BY <1>1, <2>1 DEF Owing, IdleCall
    <2>3. /\ Due' = Due \ {calls[c].generation} /\ calls[c].generation \in Due
          /\ calls[c].generation \in 1 .. MaxGeneration
      BY <2>1, <2>2, DueIsDone
    <2>4. PICK g \in 1 .. MaxGeneration : g = calls[c].generation
      BY <2>3
    <2>5. Published!Abandon(g)
      BY <2>1, <2>3, <2>4 DEF Published!Abandon, Due
    <2> QED
      BY <2>5 DEF Published!Next
  <1>6. ASSUME NEW c \in Calls, MarkDegraded(c) PROVE Published!Next
    <2>1. /\ Owing(c) /\ calls' = [calls EXCEPT ![c] = IdleCall]
          /\ generation' = generation /\ state'.model = state.model
          /\ \/ calls[c].generation # generation /\ state' = state
             \/ calls[c].generation = generation /\ state'.freshness = "Degraded"
      BY <1>6 DEF MarkDegraded, Superseded, Owing, ServiceInv, TypeOK
    <2>2. ~ Owing(c)' /\ \A d \in Calls : d # c => calls'[d] = calls[d]
      BY <1>1, <2>1 DEF Owing, IdleCall
    <2>3. /\ Due' = Due \ {calls[c].generation} /\ calls[c].generation \in Due
          /\ calls[c].generation \in 1 .. MaxGeneration
      BY <2>1, <2>2, DueIsDone
    <2>4. PICK g \in 1 .. MaxGeneration : g = calls[c].generation
      BY <2>3
    <2>5. Published!Fail(g)
      BY <2>1, <2>3, <2>4 DEF Published!Fail, Due
    <2> QED
      BY <2>5 DEF Published!Next
  <1>7. ASSUME NEW c \in Calls, calls[c].phase = "hashed", CommitPublishes(c)
        PROVE  Published!Next
    <2> DEFINE m == [root |-> calls[c].root, version |-> calls[c].evaluated]
    <2>1. m \in Model
      BY <1>7 DEF Model, ServiceInv, TypeOK, CallsKnowTheirRoot
    <2>2. /\ Owing(c) /\ calls' = [calls EXCEPT ![c] = IdleCall]
          /\ generation' = generation /\ calls[c].generation = generation
          /\ state'.model = m /\ state'.freshness = "Current"
      BY <1>7 DEF CommitPublishes, Superseded, Owing
    <2>3. ~ Owing(c)' /\ \A d \in Calls : d # c => calls'[d] = calls[d]
      BY <1>1, <2>2 DEF Owing, IdleCall
    <2>4. /\ Due' = Due \ {calls[c].generation} /\ calls[c].generation \in Due
          /\ calls[c].generation \in 1 .. MaxGeneration
      BY <2>2, <2>3, DueIsDone
    <2>5. PICK g \in 1 .. MaxGeneration : g = calls[c].generation
      BY <2>4
    <2>6. PICK n \in Model : n = m
      BY <2>1
    <2>7. Published!Complete(g, n)
      BY <2>2, <2>4, <2>5, <2>6 DEF Published!Complete, Due
    <2> QED
      BY <2>7 DEF Published!Next
  <1> QED
    BY <1>2, <1>3, <1>4, <1>5, <1>6, <1>7

\* What the service publishes follows the generation machine of refresh.rs, for
\* any number of overlapping calls, faults, edits and opens.
THEOREM ServiceRefines == Spec => ImplementsModelRefresh
  <1>1. ASSUME ServiceInv, ServiceInv', [Next]_vars
        PROVE  [Published!Next]_(Published!refreshVars)
    <2>1. \/ Published!Next
          \/ UNCHANGED Published!refreshVars
      BY <1>1, RefinesQuiet, RefinesLoud
      DEF Next, OpenStep, CallStep, CommitRefresh, Invalidate, PollInvalidates
    <2> QED
      BY <2>1
  <1> QED
    BY <1>1, RefinesInit, InvariantHolds, PTL
    DEF Spec, ImplementsModelRefresh, Published!Spec

-----------------------------------------------------------------------------
\* When current means current: as long as no edit is lost on the service, the
\* answers, the bundles and the watcher stay in line with the files.

\* No edit was lost: nothing changed under a refresh that had read the files or
\* under an open that did not watch yet, and no drain and no open failed that
\* took events along.
NoneMissed == "edit" \notin missed

\* Answers and bundles were listed and hashed as they were evaluated.
HashedAsEvaluated ==
  /\ \A c \in Calls :
       /\ Answered(c) => calls[c].evaluated = disk[calls[c].root]
       /\ calls[c].phase = "listed" => calls[c].listed = disk[calls[c].root]
       /\ calls[c].phase = "hashed" => calls[c].inputs = Edits(disk[calls[c].root])
  /\ \A r \in Roots : bundle[r].kind = "Loaded" => bundle[r].inputs = Edits(bundle[r].evaluated)

\* What open listed is all there is, or the watcher has noticed the rest.
ListedIsWatched ==
  opening # NoRoot =>
    \/ Fingerprint(opening, listing.version) = Edits(disk[opening])
    \/ listing.watched /\ (watched.pending \/ polled)

\* The watcher is where the model is, or where it is about to be.
Moved == opening # NoRoot /\ listing.watched

WatchedIsShown ==
  /\ Moved => watched.root = opening
  /\ ~ Moved /\ ~ polled /\ state.freshness = "Current"
       => /\ watched.root = state.model.root
          /\ ~ watched.pending => state.model.version = disk[state.model.root]

\* The answer that may still count is the one that is waited for.
OwedIsAwaited ==
  \A c \in Calls : Owing(c) /\ ~ Superseded(c) => state.freshness = "Refreshing"

FreshInv == HashedAsEvaluated /\ ListedIsWatched /\ WatchedIsShown /\ OwedIsAwaited

\* Nothing is published.
LEMMA InitFresh == Init => FreshInv
  <1>1. Edits(0) = {}
    BY DEF Edits
  <1>2. ASSUME Init PROVE HashedAsEvaluated
    <2>1. bundle \in [Roots -> {Missing, Stored(0, Edits(0))}]
      BY <1>2 DEF Init
    <2>2. \A b \in {Missing, Stored(0, Edits(0))} : b.inputs = Edits(b.evaluated)
      BY <1>1 DEF Missing, Stored
    <2>3. \A r \in Roots : bundle[r].inputs = Edits(bundle[r].evaluated)
      BY <2>1, <2>2
    <2>4. \A c \in Calls : calls[c].phase = "idle"
      BY <1>2 DEF Init, IdleCall
    <2> QED
      BY <2>3, <2>4 DEF HashedAsEvaluated, Answered
  <1>3. ASSUME Init PROVE ListedIsWatched /\ WatchedIsShown /\ OwedIsAwaited
    <2>1. opening = NoRoot /\ state.freshness = "Provisional"
      BY <1>3 DEF Init
    <2>2. \A c \in Calls : ~ Owing(c)
      BY <1>3 DEF Init, IdleCall, Owing
    <2> QED
      BY <2>1, <2>2 DEF ListedIsWatched, WatchedIsShown, Moved, OwedIsAwaited
  <1> QED
    BY <1>2, <1>3 DEF FreshInv

\* An edit that is not lost finds no answer under way, and is seen if the model
\* is shown.
LEMMA EditFresh ==
  ASSUME ServiceInv, FreshInv, NoneMissed', NEW r \in Roots, Edit(r) \/ AddInput(r)
  PROVE  FreshInv'
  <1>1. ~ Evaluated(r) /\ Raises(r) /\ (AddInput(r) => opening # r \/ listing.watched)
    BY DEF Edit, AddInput, Unwatched, Miss, NoneMissed
  <1>2. UNCHANGED <<bundle, polled, generation, state, opening, listing, calls>>
    BY EditFacts
  <1>3. HashedAsEvaluated'
    <2>1. \A c \in Calls : Answered(c) => calls[c].root \in Roots /\ calls[c].root # r
      BY <1>1 DEF Evaluated, Answered, ServiceInv, CallsKnowTheirRoot
    <2>2. \A c \in Calls : Answered(c) => disk'[calls[c].root] = disk[calls[c].root]
      BY <2>1, EditFacts
    <2> QED
      BY <1>2, <2>2 DEF FreshInv, HashedAsEvaluated, Answered
  <1>4. /\ watched'.root = watched.root
        /\ watched'.pending = (watched.pending \/ watched.root = r)
    BY <1>1 DEF Raises, ServiceInv, TypeOK
  <1>5. ListedIsWatched'
    <2>1. CASE opening = NoRoot
      BY <1>2, <2>1 DEF ListedIsWatched
    <2>2. CASE opening # NoRoot /\ opening # r
      <3>1. opening \in Roots
        BY <2>2 DEF ServiceInv, TypeOK
      <3>2. disk'[opening] = disk[opening] /\ added'[opening] = added[opening]
        BY <2>2, <3>1, EditFacts
      <3> QED
        BY <1>2, <1>4, <3>2 DEF FreshInv, ListedIsWatched, Fingerprint
    <2>3. CASE opening = r /\ listing.watched
      <3>1. watched.root = r
        BY <2>3, ServiceAssumption DEF FreshInv, WatchedIsShown, Moved
      <3> QED
        BY <1>2, <1>4, <2>3, <3>1 DEF ListedIsWatched
    <2>4. CASE opening = r /\ ~ listing.watched
      <3>1. added'[r] = added[r] /\ added[r] \subseteq Edits(disk[r])
        BY <1>1, <2>4, EditFacts DEF ServiceInv, NothingFromTheFuture
      <3>2. /\ disk[r] \in Nat /\ disk'[r] = disk[r] + 1
        BY EditFacts
      <3>3. Fingerprint(r, listing.version) = Edits(disk[r])
        BY <2>4, ServiceAssumption DEF FreshInv, ListedIsWatched
      <3>4. \A v \in added[r] : v <= listing.version
        BY <3>1, <3>3 DEF Fingerprint
      <3>5. Fingerprint(r, listing.version)' = Edits(disk'[r])
        BY <1>2, <3>1, <3>4 DEF Fingerprint
      <3> QED
        BY <1>2, <2>4, <3>5 DEF ListedIsWatched
    <2> QED
      BY <2>1, <2>2, <2>3, <2>4
  <1>6. WatchedIsShown'
    <2>1. \A q \in Roots : q # r => disk'[q] = disk[q]
      BY EditFacts
    <2>2. state.freshness = "Current" => state.model.root \in Roots
      BY DEF ServiceInv, TypeOK, Model
    <2> QED
      BY <1>2, <1>4, <2>1, <2>2 DEF FreshInv, WatchedIsShown, Moved
  <1>7. OwedIsAwaited'
    BY <1>2 DEF FreshInv, OwedIsAwaited, Owing, Superseded
  <1> QED
    BY <1>3, <1>5, <1>6, <1>7 DEF FreshInv

\* An open that holds the lock shows what its watcher watches; one that fails
\* before it moved the watcher leaves everything as it is.
LEMMA OpenFresh ==
  ASSUME ServiceInv, ServiceInv', FreshInv, NoneMissed',
         (\E r \in Roots : OpenBegins(r)) \/ OpenStep
  PROVE  FreshInv'
  <1>1. HashedAsEvaluated'
    <2>1. CASE OpenFails
      <3>1. \A r \in Roots : bundle'[r] \in {bundle[r], Missing}
        BY <2>1 DEF OpenFails, ServiceInv, TypeOK
      <3> QED
        BY <2>1, <3>1 DEF OpenFails, FreshInv, HashedAsEvaluated, Answered, Missing
    <2> QED
      BY <2>1
      DEF OpenStep, OpenBegins, OpenWatches, OpenPublishes, FreshInv, HashedAsEvaluated, Answered
  <1>2. ASSUME NEW r \in Roots, OpenBegins(r) PROVE FreshInv'
    <2>1. ListedIsWatched'
      <3>1. disk[r] \in Version /\ disk[r] <= disk[r]
        BY ServiceAssumption DEF ServiceInv, TypeOK, Version
      <3>2. Fingerprint(r, disk[r]) = Edits(disk[r])
        BY <3>1, FingerprintShows
      <3>3. opening' = r /\ listing'.version = disk[r] /\ disk' = disk /\ added' = added
        BY <1>2 DEF OpenBegins
      <3> QED
        BY <3>2, <3>3 DEF ListedIsWatched, Fingerprint
    <2>2. WatchedIsShown'
      BY <1>2 DEF OpenBegins, CommitLockFree, FreshInv, WatchedIsShown, Moved
    <2>3. OwedIsAwaited'
      BY <1>2 DEF OpenBegins, FreshInv, OwedIsAwaited, Owing, Superseded
    <2> QED
      BY <1>1, <2>1, <2>2, <2>3 DEF FreshInv
  <1>3. CASE OpenWatches
    <2>1. /\ watched'.root = opening /\ opening' = opening /\ opening # NoRoot
          /\ UNCHANGED <<disk, added>>
          /\ listing'.version = listing.version /\ listing'.watched /\ ~ listing.watched
      BY <1>3 DEF OpenWatches, WatchAnew, ServiceInv, TypeOK
    <2>2. ListedIsWatched'
      BY <2>1 DEF FreshInv, ListedIsWatched, Fingerprint
    <2>3. WatchedIsShown'
      BY <2>1 DEF WatchedIsShown, Moved
    <2>4. OwedIsAwaited'
      BY <1>3 DEF OpenWatches, FreshInv, OwedIsAwaited, Owing, Superseded
    <2> QED
      BY <1>1, <2>2, <2>3, <2>4 DEF FreshInv
  <1>4. CASE OpenPublishes
    <2>1. opening \in Roots /\ watched.root = opening
      BY <1>4 DEF OpenPublishes, ServiceInv, TypeOK, FreshInv, WatchedIsShown, Moved
    <2>2. ASSUME state'.freshness = "Current"
          PROVE  /\ state'.model.root = opening
                 /\ \/ watched.pending \/ polled
                    \/ state'.model.version = disk[opening]
      <3>1. state'.model = CachedModel(opening) /\ state'.freshness = CachedFreshness(opening)
        BY <1>4 DEF OpenPublishes
      <3>2. bundle[opening].inputs = Edits(bundle[opening].evaluated)
        BY <2>1, <2>2, <3>1 DEF CachedFreshness, FreshInv, HashedAsEvaluated
      <3>3. /\ state'.model = [root |-> opening, version |-> bundle[opening].evaluated]
            /\ bundle[opening].inputs = Fingerprint(opening, listing.version)
        BY <2>2, <3>1 DEF CachedModel, CachedFreshness
      <3>4. bundle[opening].evaluated \in Nat /\ disk[opening] \in Nat
        BY <2>1, BundleFields, ServiceAssumption DEF ServiceInv, TypeOK, Version
      <3>5. \/ watched.pending \/ polled
            \/ Fingerprint(opening, listing.version) = Edits(disk[opening])
        BY <1>4 DEF OpenPublishes, FreshInv, ListedIsWatched
      <3>6. \/ watched.pending \/ polled
            \/ Edits(bundle[opening].evaluated) = Edits(disk[opening])
        BY <3>2, <3>3, <3>5
      <3>7. Edits(bundle[opening].evaluated) = Edits(disk[opening])
              => bundle[opening].evaluated = disk[opening]
        BY <3>4, EditsGrow
      <3> QED
        BY <3>3, <3>6, <3>7
    <2>3. WatchedIsShown' /\ ListedIsWatched'
      BY <1>4, <2>1, <2>2 DEF OpenPublishes, WatchedIsShown, Moved, ListedIsWatched
    <2>4. \A c \in Calls : Owing(c)' => Superseded(c)'
      <3>1. \A c \in Calls : Owing(c) => calls[c].generation # generation + 1
        BY ServiceAssumption DEF ServiceInv, TypeOK, GenerationsDiffer
      <3> QED
        BY <1>4, <3>1 DEF OpenPublishes, Owing, Superseded
    <2> QED
      BY <1>1, <2>3, <2>4 DEF FreshInv, OwedIsAwaited
  <1>5. CASE OpenFails
    <2>1. ~ listing.watched
      BY <1>5 DEF OpenFails, Miss, NoneMissed
    <2>2. /\ opening' = NoRoot
          /\ UNCHANGED <<disk, watched, polled, generation, state, calls>>
      BY <1>5 DEF OpenFails
    <2>3. WatchedIsShown' /\ ListedIsWatched'
      BY <2>1, <2>2 DEF FreshInv, WatchedIsShown, Moved, ListedIsWatched
    <2>4. OwedIsAwaited'
      BY <2>2 DEF FreshInv, OwedIsAwaited, Owing, Superseded
    <2> QED
      BY <1>1, <2>3, <2>4 DEF FreshInv
  <1> QED
    BY <1>2, <1>3, <1>4, <1>5 DEF OpenStep

\* A bundle that is damaged or set aside is no model.
LEMMA DamageFresh ==
  ASSUME ServiceInv, FreshInv, NEW r \in Roots, DamageBundle(r)
  PROVE  FreshInv'
  <1>1. \A q \in Roots : bundle'[q] \in {bundle[q], Corrupt}
    BY DEF DamageBundle, ServiceInv, TypeOK
  <1>2. HashedAsEvaluated'
    BY <1>1 DEF DamageBundle, FreshInv, HashedAsEvaluated, Answered, Corrupt
  <1> QED
    BY <1>2 DEF DamageBundle, FreshInv, WatchedIsShown, Moved, ListedIsWatched, Fingerprint,
                OwedIsAwaited, Owing, Superseded

\* A call goes on outside the lock, or ends without an answer.
LEMMA CallFresh ==
  ASSUME ServiceInv, FreshInv, NEW c \in Calls, NEW call \in CallRecord, Progress(c, call),
         \A r \in Roots : bundle'[r] \in {bundle[r], Missing},
         \/ call.phase \in {"idle", "snapshot"}
         \/ Owing(c) /\ call.phase = "failing" /\ call.generation = calls[c].generation
         \/ /\ Owing(c) /\ call.phase \in {"evaluated", "listed", "hashed"}
            /\ call.generation = calls[c].generation
            /\ call.evaluated = disk[call.root]
            /\ call.phase = "listed" => call.listed = disk[call.root]
            /\ call.phase = "hashed" => call.inputs = Edits(disk[call.root])
  PROVE  FreshInv'
  <1>1. calls'[c] = call /\ \A d \in Calls : d # c => calls'[d] = calls[d]
    BY DEF Progress, ServiceInv, TypeOK, CallRecord
  <1>2. HashedAsEvaluated'
    BY <1>1 DEF Progress, FreshInv, HashedAsEvaluated, Answered, Missing
  <1>3. WatchedIsShown' /\ ListedIsWatched'
    BY DEF Progress, FreshInv, WatchedIsShown, Moved, ListedIsWatched, Fingerprint
  <1>4. OwedIsAwaited'
    BY <1>1 DEF Progress, FreshInv, OwedIsAwaited, Owing, Superseded
  <1> QED
    BY <1>2, <1>3, <1>4 DEF FreshInv

\* What a call does besides storing and publishing its answer.
LEMMA CallStepsFresh ==
  ASSUME ServiceInv, FreshInv, NEW c \in Calls,
         \/ SnapshotOpen(c) \/ Evaluate(c) \/ BridgeFails(c) \/ Dropped(c) \/ ScanFails(c)
         \/ ReadFails(c) \/ List(c) \/ Hash(c)
         \/ calls[c].phase = "hashed" /\ (CommitSuperseded(c) \/ CommitWatchFails(c))
  PROVE  FreshInv'
  <1>1. calls[c] \in CallRecord
    BY CallFields
  <1>2. Owing(c) => calls[c].root \in Roots /\ disk[calls[c].root] \in Version
    BY DEF ServiceInv, TypeOK, CallsKnowTheirRoot, Owing
  <1>3. CASE SnapshotOpen(c)
    <2> DEFINE call == [calls[c] EXCEPT !.phase = "snapshot", !.root = opened]
    <2>1. call \in CallRecord /\ call.phase = "snapshot"
      BY <1>1, <1>3 DEF SnapshotOpen, ServiceInv, TypeOK, CallRecord, Phase
    <2>2. Progress(c, call) /\ bundle' = bundle
      BY <1>1, <1>3 DEF SnapshotOpen, Progress, ServiceInv, TypeOK, CallRecord
    <2> QED
      BY <2>1, <2>2, CallFresh
  <1>4. CASE Evaluate(c)
    <2> DEFINE call == [calls[c] EXCEPT !.phase = "evaluated", !.evaluated = disk[calls[c].root]]
    <2>1. Owing(c) /\ Progress(c, call) /\ bundle' = bundle
      BY <1>4 DEF Evaluate, Owing
    <2>2. /\ call \in CallRecord /\ call.phase = "evaluated" /\ call.root = calls[c].root
          /\ call.generation = calls[c].generation /\ call.evaluated = disk[call.root]
      BY <1>1, <1>2, <2>1 DEF CallRecord, Phase
    <2> QED
      BY <2>1, <2>2, CallFresh
  <1>8. CASE List(c)
    <2> DEFINE call == [calls[c] EXCEPT !.phase = "listed", !.listed = disk[calls[c].root]]
    <2>1. Owing(c) /\ Answered(c) /\ Progress(c, call) /\ bundle' = bundle
      BY <1>8 DEF List, Owing, Answered
    <2>2. /\ call \in CallRecord /\ call.phase = "listed" /\ call.root = calls[c].root
          /\ call.generation = calls[c].generation /\ call.evaluated = calls[c].evaluated
          /\ call.listed = disk[call.root]
      BY <1>1, <1>2, <2>1 DEF CallRecord, Phase
    <2>3. call.evaluated = disk[call.root]
      BY <2>1, <2>2 DEF FreshInv, HashedAsEvaluated
    <2> QED
      BY <2>1, <2>2, <2>3, CallFresh
  <1>5. CASE Hash(c)
    <2> DEFINE print == Fingerprint(calls[c].root, calls[c].listed)
               call == [calls[c] EXCEPT !.phase = "hashed", !.listed = 0, !.inputs = print]
    <2>1. Owing(c) /\ Answered(c) /\ Progress(c, call) /\ bundle' = bundle
      BY <1>5 DEF Hash, Owing, Answered
    <2>2. calls[c].listed = disk[calls[c].root] /\ calls[c].evaluated = disk[calls[c].root]
      BY <1>5, <2>1 DEF Hash, FreshInv, HashedAsEvaluated
    <2>3. disk[calls[c].root] <= disk[calls[c].root] /\ 0 \in Version
      BY <1>2, <2>1, ServiceAssumption DEF Version
    <2>4. print = Edits(disk[calls[c].root]) /\ print \in Hashes
      BY <1>2, <2>1, <2>2, <2>3, FingerprintShows
    <2>5. /\ call \in CallRecord /\ call.phase = "hashed" /\ call.root = calls[c].root
          /\ call.generation = calls[c].generation /\ call.evaluated = calls[c].evaluated
          /\ call.inputs = print
      <3> HIDE DEF print
      <3> QED
        BY <1>1, <2>3, <2>4 DEF CallRecord, Phase
    <2> HIDE DEF call, print
    <2> QED
      BY <2>1, <2>2, <2>4, <2>5, CallFresh
  <1>6. CASE \/ BridgeFails(c) \/ ReadFails(c)
             \/ calls[c].phase = "hashed" /\ CommitWatchFails(c)
    <2>1. Owing(c) /\ Progress(c, Failing(c))
      BY <1>6 DEF BridgeFails, ReadFails, CommitWatchFails, Owing
    <2>2. \A r \in Roots : bundle'[r] \in {bundle[r], Missing}
      <3>1. CASE ReadFails(c)
        BY <3>1 DEF ReadFails, ServiceInv, TypeOK
      <3> QED
        BY <1>6, <3>1 DEF BridgeFails, CommitWatchFails
    <2> QED
      BY <2>1, <2>2, CallFields, CallFresh
  <1>7. CASE Dropped(c) \/ ScanFails(c) \/ (calls[c].phase = "hashed" /\ CommitSuperseded(c))
    <2>1. Progress(c, IdleCall) /\ bundle' = bundle
      BY <1>7 DEF Dropped, ScanFails, CommitSuperseded
    <2> QED
      BY <2>1, CallFields, CallFresh
  <1> QED
    BY <1>3, <1>4, <1>5, <1>6, <1>7, <1>8

\* A refresh begins or fails: nothing is shown as current by that.
LEMMA LabelFresh ==
  ASSUME ServiceInv, ServiceInv', FreshInv, NEW c \in Calls, BeginRefresh(c) \/ MarkDegraded(c)
  PROVE  FreshInv'
  <1>1. calls \in [Calls -> CallRecord]
    BY DEF ServiceInv, TypeOK, CallRecord
  <1>2. CASE BeginRefresh(c)
    <2>1. calls' = [calls EXCEPT ![c] = [calls[c] EXCEPT !.phase = "running",
                                                         !.generation = generation + 1]]
      BY <1>1, <1>2 DEF BeginRefresh, CallRecord
    <2>2. \A d \in Calls : d # c => calls'[d] = calls[d]
      BY <1>1, <2>1
    <2>3. calls'[c].phase = "running"
      BY <1>1, <2>1 DEF CallRecord
    <2>4. state'.freshness = "Refreshing"
      BY <1>2 DEF BeginRefresh, ServiceInv, TypeOK
    <2>5. HashedAsEvaluated'
      BY <1>2, <2>2, <2>3 DEF BeginRefresh, FreshInv, HashedAsEvaluated, Answered
    <2> QED
      BY <1>2, <2>4, <2>5
      DEF BeginRefresh, CommitLockFree, FreshInv, WatchedIsShown, Moved, ListedIsWatched,
          OwedIsAwaited
  <1>3. CASE MarkDegraded(c)
    <2>1. calls'[c] = IdleCall /\ \A d \in Calls : d # c => calls'[d] = calls[d]
      BY <1>1, <1>3 DEF MarkDegraded
    <2>2. HashedAsEvaluated'
      BY <1>3, <2>1 DEF MarkDegraded, FreshInv, HashedAsEvaluated, Answered, IdleCall
    <2>3. /\ state'.model = state.model
          /\ state' = state \/ (~ Superseded(c) /\ state'.freshness = "Degraded")
      BY <1>3 DEF MarkDegraded, ServiceInv, TypeOK
    <2>4. WatchedIsShown' /\ ListedIsWatched'
      BY <1>3, <2>3 DEF MarkDegraded, CommitLockFree, FreshInv, WatchedIsShown, Moved,
                        ListedIsWatched
    <2>5. OwedIsAwaited'
      <3>1. \A d \in Calls : Owing(d)' => d # c /\ Owing(d) /\ calls'[d] = calls[d]
        BY <2>1 DEF Owing, IdleCall
      <3>2. Owing(c)
        BY <1>3 DEF MarkDegraded, Owing
      <3>3. ~ Superseded(c) => \A d \in Calls : Owing(d)' => Superseded(d)
        BY <3>1, <3>2 DEF Superseded, ServiceInv, GenerationsDiffer
      <3>4. \A d \in Calls : Owing(d)' => (Superseded(d)' <=> Superseded(d))
        BY <1>3, <3>1 DEF MarkDegraded, Superseded
      <3> QED
        BY <2>3, <3>1, <3>3, <3>4 DEF FreshInv, OwedIsAwaited
    <2> QED
      BY <2>2, <2>4, <2>5 DEF FreshInv
  <1> QED
    BY <1>2, <1>3

\* A commit watches what it publishes; one that fails to store says nothing.
LEMMA CommitFresh ==
  ASSUME ServiceInv, ServiceInv', FreshInv, NEW c \in Calls, calls[c].phase = "hashed",
         CommitLockFree, CommitSaveFails(c) \/ CommitPublishes(c)
  PROVE  FreshInv'
  <1> DEFINE r == calls[c].root
             new == Stored(calls[c].evaluated, calls[c].inputs)
  <1>1. r \in Roots /\ bundle \in [Roots -> Bundle] /\ calls \in [Calls -> CallRecord]
    BY DEF ServiceInv, TypeOK, CallsKnowTheirRoot, CallRecord
  <1>2. Owing(c) /\ Answered(c) /\ ~ Superseded(c)
    BY DEF CommitSaveFails, CommitPublishes, Owing, Answered
  <1>3. calls[c].evaluated = disk[r] /\ calls[c].inputs = Edits(disk[r])
    BY <1>2 DEF FreshInv, HashedAsEvaluated
  <1>4. new.inputs = Edits(new.evaluated)
    BY <1>3 DEF Stored
  <1>5. \A q \in Roots : bundle'[q].kind = "Loaded"
                         => bundle'[q].inputs = Edits(bundle'[q].evaluated)
    <2>1. bundle' = bundle \/ bundle' = [bundle EXCEPT ![r] = new]
      BY DEF CommitSaveFails, CommitPublishes
    <2>2. \A q \in Roots : bundle'[q] = bundle[q] \/ bundle'[q] = new
      BY <1>1, <2>1
    <2> QED
      BY <1>4, <2>2 DEF FreshInv, HashedAsEvaluated
  <1>6. /\ calls'[c] \in {Failing(c), IdleCall}
        /\ \A d \in Calls : d # c => calls'[d] = calls[d]
    <2>1. CASE CommitSaveFails(c)
      BY <1>1, <2>1 DEF CommitSaveFails
    <2>2. CASE CommitPublishes(c)
      BY <1>1, <2>2 DEF CommitPublishes
    <2> QED
      BY <2>1, <2>2
  <1>7. UNCHANGED <<disk, polled, generation, opened, opening>> /\ opening = NoRoot
    BY DEF CommitSaveFails, CommitPublishes, CommitLockFree
  <1>8. HashedAsEvaluated'
    <2>1. \A d \in Calls : Answered(d)' \/ calls'[d].phase \in {"listed", "hashed"}
                           => Answered(d) /\ calls'[d] = calls[d]
      BY <1>6, CallFields DEF Answered
    <2> QED
      BY <1>5, <1>7, <2>1 DEF FreshInv, HashedAsEvaluated
  <1>9. \A d \in Calls : Owing(d)' => Owing(d) /\ calls'[d].generation = calls[d].generation
    BY <1>2, <1>6, CallFields DEF Owing
  <1>10. CASE CommitSaveFails(c)
    <2>1. state' = state /\ state.freshness = "Refreshing"
      BY <1>2, <1>10 DEF CommitSaveFails, FreshInv, OwedIsAwaited
    <2> QED
      BY <1>7, <1>8, <2>1 DEF FreshInv, WatchedIsShown, Moved, ListedIsWatched, OwedIsAwaited
  <1>11. CASE CommitPublishes(c)
    <2>1. /\ state'.model = [root |-> r, version |-> disk[r]]
          /\ watched'.root = r
      BY <1>3, <1>11 DEF CommitPublishes, WatchAnew
    <2>2. WatchedIsShown' /\ ListedIsWatched'
      BY <1>7, <2>1 DEF WatchedIsShown, Moved, ListedIsWatched
    <2>3. \A d \in Calls : Owing(d)' => Superseded(d)'
      <3>1. \A d \in Calls : Owing(d)' => d # c
        BY <1>1, <1>11 DEF CommitPublishes, Owing, IdleCall
      <3> QED
        BY <1>2, <1>7, <1>9, <3>1 DEF ServiceInv, GenerationsDiffer, Superseded
    <2> QED
      BY <1>8, <2>2, <2>3 DEF FreshInv, OwedIsAwaited
  <1> QED
    BY <1>10, <1>11

\* The drained events are acted upon, and what was current no longer is.
LEMMA NoticeFresh ==
  ASSUME ServiceInv, ServiceInv', FreshInv, TakeInvalidation \/ PollTakesEvents
  PROVE  FreshInv'
  <1>1. HashedAsEvaluated'
    BY DEF TakeInvalidation, PollTakesEvents, FreshInv, HashedAsEvaluated, Answered
  <1>2. CASE TakeInvalidation
    <2>1. opening' = NoRoot /\ state'.freshness # "Current"
      BY <1>2 DEF TakeInvalidation, CommitLockFree, Outdated, ServiceInv, TypeOK
    <2>2. \A c \in Calls : Owing(c)' => Superseded(c)'
      <3>1. \A c \in Calls : Owing(c) => calls[c].generation # generation + 1
        BY ServiceAssumption DEF ServiceInv, TypeOK, GenerationsDiffer
      <3> QED
        BY <1>2, <3>1 DEF TakeInvalidation, Owing, Superseded
    <2> QED
      BY <1>1, <2>1, <2>2 DEF FreshInv, WatchedIsShown, Moved, ListedIsWatched, OwedIsAwaited
  <1>3. CASE PollTakesEvents
    <2>1. polled' = TRUE /\ watched'.root = watched.root
      BY <1>3 DEF PollTakesEvents, ServiceInv, TypeOK
    <2> QED
      BY <1>1, <1>3, <2>1
      DEF PollTakesEvents, FreshInv, WatchedIsShown, Moved, ListedIsWatched, Fingerprint,
          OwedIsAwaited, Owing, Superseded
  <1> QED
    BY <1>2, <1>3

\* Every step that loses no edit.
LEMMA StepFresh ==
  ASSUME ServiceInv, ServiceInv', FreshInv, NoneMissed', [Next]_vars
  PROVE  FreshInv'
  <1>1. ~ PollFails
    BY DEF PollFails, Miss, NoneMissed
  <1>2. CASE UNCHANGED vars
    BY <1>2 DEF vars, FreshInv, HashedAsEvaluated, WatchedIsShown, Moved, ListedIsWatched,
                Fingerprint, OwedIsAwaited, Owing, Answered, Superseded
  <1>3. CASE \E r \in Roots : Edit(r) \/ AddInput(r) \/ DamageBundle(r)
    BY <1>3, EditFresh, DamageFresh
  <1>4. CASE (\E r \in Roots : OpenBegins(r)) \/ OpenStep
    BY <1>4, OpenFresh
  <1>5. ASSUME NEW c \in Calls, SnapshotOpen(c) \/ BeginRefresh(c) \/ CallStep(c)
        PROVE  FreshInv'
    <2>1. CASE CommitRefresh(c)
      BY <2>1, CallStepsFresh, CommitFresh DEF CommitRefresh
    <2> QED
      BY <1>5, <2>1, CallStepsFresh, LabelFresh DEF CallStep
  <1>6. CASE Invalidate \/ PollInvalidates \/ PollTakesEvents
    BY <1>6, NoticeFresh DEF Invalidate, PollInvalidates
  <1> QED
    BY <1>1, <1>2, <1>3, <1>4, <1>5, <1>6 DEF Next

\* What was missed stays missed.
LEMMA MissedStays ==
  ASSUME [Next]_vars, NoneMissed'
  PROVE  NoneMissed
  <1>1. CASE \E r \in Roots : Edit(r) \/ AddInput(r) \/ DamageBundle(r) \/ OpenBegins(r)
    BY <1>1 DEF Edit, AddInput, DamageBundle, OpenBegins, Miss, NoneMissed
  <1>2. CASE OpenStep
    BY <1>2 DEF OpenStep, OpenWatches, OpenFails, OpenPublishes, Miss, NoneMissed
  <1>3. CASE \E c \in Calls : SnapshotOpen(c) \/ BeginRefresh(c)
    BY <1>3 DEF SnapshotOpen, BeginRefresh, NoneMissed
  <1>4. ASSUME NEW c \in Calls, CallStep(c) PROVE NoneMissed
    <2>1. CASE CommitRefresh(c) \/ MarkDegraded(c)
      BY <2>1 DEF CommitRefresh, CommitSuperseded, CommitWatchFails, CommitSaveFails,
                  CommitPublishes, MarkDegraded, NoneMissed
    <2> QED
      BY <1>4, <2>1 DEF CallStep, Evaluate, BridgeFails, Dropped, ScanFails, ReadFails, List,
                        Hash, Miss, NoneMissed
  <1>5. CASE Invalidate \/ PollInvalidates \/ PollTakesEvents \/ PollFails
    BY <1>5 DEF Invalidate, PollInvalidates, TakeInvalidation, PollTakesEvents, PollFails, Miss,
                NoneMissed
  <1>6. CASE UNCHANGED vars
    BY <1>6 DEF vars, NoneMissed
  <1> QED
    BY <1>1, <1>2, <1>3, <1>4, <1>5, <1>6 DEF Next

\* As long as no edit is lost on the service, a model shown as current was
\* evaluated from the inputs as they are, or a change is about to be noticed,
\* whatever overlaps, fails, is dropped or damaged.
THEOREM CurrentIsFresh == Spec => []CurrentModelIsFresh
  <1> DEFINE Inv == NoneMissed => FreshInv
  <1>1. Init => Inv
    BY InitFresh
  <1>2. ServiceInv /\ ServiceInv' /\ Inv /\ [Next]_vars => Inv'
    BY StepFresh, MissedStays
  <1>3. Inv => CurrentModelIsFresh
    <2>1. FreshInv => StaleIsNeverCurrent
      BY DEF FreshInv, WatchedIsShown, Moved, StaleIsNeverCurrent
    <2> QED
      BY <2>1 DEF NoneMissed, CurrentModelIsFresh
  <1> HIDE DEF Inv
  <1> QED
    BY <1>1, <1>2, <1>3, InvariantHolds, PTL DEF Spec
=============================================================================
